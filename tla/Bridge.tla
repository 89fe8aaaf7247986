-------------------------------- MODULE Bridge --------------------------------
(***************************************************************************)
(* One connection end to end: the application, the PTY (AsyncPty), the     *)
(* connection task with its TCP session (ConnectionTask) and the device,   *)
(* as far as the terminal settings are concerned.                          *)
(*                                                                         *)
(* read() is an arm of the select! of step_connected: it makes progress    *)
(* only there, and once readv has returned it runs to its result without   *)
(* an .await, so that no other arm of the task comes in between and none   *)
(* of what it read is lost when another arm wins.                          *)
(***************************************************************************)
EXTENDS ConnectionTask, AsyncPty

VARIABLES
    devConfig,      \* settings the device's UART runs with, <<>> for its default
    forgotten       \* history: a broken session or a restart has undone a Config,
                    \* and the device has taken none since

deviceVars == <<devConfig, forgotten>>
bridgeVars == <<vars, asyncPtyVars, deviceVars>>

-------------------------------------------------------------------------------
(* The daemon *)

connRest == <<connVars, pc, arg, pending_hw_ctl, framed, ctlVars, ptyOut, ptyOk,
              netVars, hist, counters>>

ReadStarts == AtSelect("Connected") /\ ptyIn = <<>> /\ Readv
              /\ UNCHANGED <<connRest, deviceVars>>
ReadGoesOn == AfterReadv /\ UNCHANGED <<connRest, deviceVars>>

HasConfig(q) == \E i \in 1..Len(q) : q[i].kind = "Config"

\* A step of the task: the arm of a read that has returned runs at once.
TaskStep ==
    /\ rd = "readv"
    /\ IF ptyIn = <<>> THEN conn_task ELSE PtyArm
    /\ forgotten' = (forgotten \/ (framed /\ ~framed' /\ HasConfig(toDev)))
    /\ UNCHANGED <<kernelVars, readerVars, appVars, devConfig>>

HandleDropped == shutdown /\ UNCHANGED <<kernelVars, readerVars, appVars, deviceVars>>

-------------------------------------------------------------------------------
(* The application and the device *)

Types == Application /\ UNCHANGED <<connRest, deviceVars>>

\* The device applies its messages in order: uart_tx_task.
DeviceTakes ==
    /\ DeviceRead
    /\ devConfig' = IF Head(toDev).kind = "Config" THEN <<reports[Head(toDev).id]>>
                    ELSE devConfig
    /\ forgotten' = (forgotten /\ Head(toDev).kind # "Config")
    /\ UNCHANGED <<kernelVars, readerVars, appVars>>

Breaks == LinkFail /\ UNCHANGED <<kernelVars, readerVars, appVars, deviceVars>>

\* The device restarts: the session is gone and the UART has its default settings.
\* It counts as a failure of the connection.
DeviceRestarts ==
    /\ failures < MaxFailures
    /\ failures' = failures + 1
    /\ linkUp' = FALSE
    /\ devConfig' = <<>> /\ forgotten' = TRUE
    /\ UNCHANGED <<taskVars, ptyVars, toDev, toHost, typed, emitted, kernelVars, readerVars,
                   appVars>>

-------------------------------------------------------------------------------
(* The specification *)

BridgeInit == Init /\ new /\ devConfig = <<>> /\ forgotten = FALSE

BridgeNext == \/ ReadStarts \/ ReadGoesOn \/ TaskStep \/ HandleDropped
              \/ Types \/ DeviceTakes \/ Breaks \/ DeviceRestarts

BridgeSpec == BridgeInit /\ [][BridgeNext]_bridgeVars

\* read() is one more arm of the select!; once begun it runs to its end.
BridgeFairSpec ==
    /\ BridgeSpec
    /\ SF_bridgeVars(ReadStarts) /\ WF_bridgeVars(ReadGoesOn)
    /\ SF_bridgeVars(TaskStep /\ PtyArm) /\ SF_bridgeVars(TaskStep /\ TcpArm)
    /\ SF_bridgeVars(TaskStep /\ ConnectOk) /\ WF_bridgeVars(TaskStep /\ SleepDone)
    /\ WF_bridgeVars(TaskStep /\ SendDone) /\ WF_bridgeVars(TaskStep /\ ResyncArm)
    /\ WF_bridgeVars(DeviceTakes)

-------------------------------------------------------------------------------
(* Properties *)

\* The device has been told settings, and nothing has undone that since.
ConfigStands == reports # <<>> /\ ~forgotten

\* Data reaches the device after the settings it was written under: when a chunk
\* is taken and the application has set nothing since it wrote it, the UART runs
\* with the application's settings, however often the connection was lost and
\* found again in between and whatever was read first.
DataMeetsItsSettings ==
    [][(DeviceTakes /\ Head(toDev).kind = "Data" /\ Head(toDev).id = sets
        /\ ConfigStands /\ tio.line = wanted)
            => devConfig = <<get_termios_change(wanted)>>]_bridgeVars

\* What is on its way from the PTY to the device, oldest first.
Path == toDev \o InFlight \o ptyIn

\* read() has reported all it was told of.
Quiet == rd = "readv" /\ "IOCTL" \notin pktStatus

\* No Config follows position i of the path q.
LastFrom(q, i) == \A j \in (i + 1)..Len(q) : q[j].kind # "Config"

\* The last Config of a path carries the newest of n reports, and none follows a
\* chunk written after the last of s tcsetattr calls.
Orderly(q, n, s) ==
    \A i \in 1..Len(q) :
        /\ q[i].kind = "Config" /\ LastFrom(q, i) => q[i].id = n
        /\ q[i].kind = "Data" => q[i].id <= s /\ (q[i].id = s => LastFrom(q, i))

Recent(q, s) == \E i \in 1..Len(q) : q[i].kind = "Data" /\ q[i].id = s

\* What makes DataMeetsItsSettings inductive: read() is under way only in the
\* select! of step_connected and hands over one result at a time, a lost session
\* leaves nothing behind, what was written last was read after all was reported,
\* and a device with no Config on the way has the newest.
BridgeInv ==
    /\ ptyOk /\ Len(ptyIn) <= 1
    /\ rd # "readv" => ptyIn = <<>>
    /\ rd # "readv" \/ ptyIn # <<>> => AtSelect("Connected")
    /\ state = "Reconnecting" => toDev = <<>>
    /\ \A i \in 1..Len(ptyData) : ptyData[i] <= sets
    /\ Orderly(Path, Len(reports), sets) /\ (Recent(Path, sets) => Quiet)
    /\ ~HasConfig(Path) /\ ConfigStands => devConfig = <<reports[Len(reports)]>>

\* Once the application leaves the terminal alone the device comes to run with
\* its settings, across lost connections, and after a restart too as soon as a
\* change is under way or made again.  A change is sent once: one that a broken
\* session or a restart has undone is not repeated by the daemon.
SettingsConverge ==
    <>[](ConfigStands /\ state # "ShuttingDown"
            => devConfig = <<get_termios_change(tio.line)>>)

===============================================================================
