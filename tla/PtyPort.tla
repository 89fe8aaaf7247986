-------------------------------- MODULE PtyPort --------------------------------
(***************************************************************************)
(* What AsyncPty::read (daemon/src/async_pty.rs) hands to the select! of   *)
(* the connection task (daemon/src/connection.rs).                         *)
(***************************************************************************)
EXTENDS Naturals

VARIABLE ptyIn      \* PtyReadResults the task has not handled yet

\* PtyReadResult: data, a termios change, or another packet-mode control byte.
PtyPackets == [kind : {"Data", "Config", "ControlMessage"}, id : Nat]

===============================================================================
