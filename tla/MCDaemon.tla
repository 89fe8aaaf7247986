------------------------------- MODULE MCDaemon -------------------------------
(* The instances of Daemon that TLC checks. *)
EXTENDS Daemon

CONSTANTS a, b, c1

TwoNames == {a, b}
OneName == {a}
OneClient == {c1}

===============================================================================
