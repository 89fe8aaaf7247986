---------------------------- MODULE ConnectionTask ----------------------------
(***************************************************************************)
(* The background task the daemon runs for every named connection          *)
(* (daemon/src/connection.rs) together with the TcpBridge it drives        *)
(* (daemon/src/tcp_bridge.rs).                                             *)
(*                                                                         *)
(* The task is a state machine whose every step is one select! over its    *)
(* shutdown signal, its PTY, its TCP stream and its control channel.  The  *)
(* select! itself is one suspension point (pc = "select"); an .await inside *)
(* an arm's handler is another one, at which none of the other arms is     *)
(* polled.  The code between two suspension points is one atomic step: the *)
(* daemon runs on a current_thread runtime.                                *)
(*                                                                         *)
(* The PTY's application, the remote device, the network and the holder of *)
(* the Connection handle are the environment; a module that composes the   *)
(* task with one of them replaces these actions.                           *)
(***************************************************************************)
EXTENDS Naturals, Sequences, PtyPort

CONSTANTS
    HwReqs,         \* identities of the hardware-control requests
    StatusReqs,     \* identities of the status requests
    InitialBackoff, \* INITIAL_RECONNECT_BACKOFF
    MaxBackoff,     \* MAX_RECONNECT_BACKOFF
    CtlCap,         \* capacity of the control channel (8 in the code)
    TcpCap,         \* messages the host's TCP send buffer holds
    PtyCap,         \* chunks the PTY holds before its application reads
    MaxPty,         \* bound: messages the application produces
    MaxDev,         \* bound: messages the device produces
    MaxFailures     \* bound: times the network breaks a session

ASSUME ConnectionAssumption ==
    /\ HwReqs \subseteq Nat /\ StatusReqs \subseteq Nat
    /\ HwReqs \cap StatusReqs = {}
    /\ InitialBackoff \in Nat /\ MaxBackoff \in Nat
    /\ InitialBackoff <= MaxBackoff
    /\ CtlCap \in Nat /\ TcpCap \in Nat /\ PtyCap \in Nat
    /\ MaxPty \in Nat /\ MaxDev \in Nat /\ MaxFailures \in Nat

VARIABLES
    state,          \* the variant of ConnState
    backoff,        \* Reconnecting.backoff
    pending,        \* Reconnecting.pending / Resyncing.pending, an Option
    pc,             \* the .await the task is suspended at
    arg,            \* the value the suspended handler works on, an Option
    pending_hw_ctl, \* the request whose response the task expects, an Option
    framed,         \* TcpBridge.framed.is_some()
    ctlQ,           \* the control channel: requests not yet received
    reply,          \* what each request's oneshot channel has carried
    handle,         \* "held" until Connection::shutdown consumes the handle
    ptyOut,         \* chunks written to the master and not read by the app
    ptyOk,          \* FALSE once the PTY only returns errors
    toDev,          \* messages in the session's send buffer
    toHost,         \* messages of the session not yet decoded
    linkUp,         \* FALSE once the session is broken
    consumed,       \* history: messages taken from the PTY
    sent,           \* history: messages of the PTY that a send accepted
    lost,           \* history: the message a shutdown dropped, an Option
    typed,          \* number of packets the application has produced
    emitted,        \* number of messages the device has produced
    failures        \* number of sessions the network has broken

connVars == <<state, backoff, pending>>
ctlVars == <<ctlQ, reply, handle>>
ptyVars == <<ptyIn, ptyOut, ptyOk>>
netVars == <<toDev, toHost, linkUp>>
hist == <<consumed, sent, lost>>
counters == <<typed, emitted, failures>>
vars == <<connVars, pc, arg, pending_hw_ctl, framed, ctlVars, ptyVars, netVars,
          hist, counters>>

-------------------------------------------------------------------------------
(* Values *)

Requests == HwReqs \cup StatusReqs

\* An Option is a sequence of length at most one.
Option(S) == {s \in Seq(S) : Len(s) <= 1}
Some(S) == {s \in Seq(S) : Len(s) = 1}

\* DeviceMessage as it travels to the device.
DeviceMessages == [kind : {"Data", "Config", "ControlReq"}, id : Nat]

\* What the decoder yields for the bytes the device sends: a data message, a
\* control response, a message only the host may send, or a decoding error.
ResponseKinds == {"Ok", "NotSupported"}
HostKinds == {"Data", "Unexpected", "Invalid"} \cup ResponseKinds
HostMessages == [kind : HostKinds, id : Nat]

\* A request's oneshot: not used yet, waited for, answered, or its sender
\* dropped without an answer.
Answers == ResponseKinds \cup {"Unavailable", "true", "false", "closed"}
Replies == {"idle", "waiting"} \cup Answers

States == {"Connected", "Reconnecting", "Resyncing", "ShuttingDown"}
Awaits == {"select", "send", "send_ctl", "write_pty", "connect", "notify", "done"}

Smaller(a, b) == IF a < b THEN a ELSE b
next_backoff(b) == Smaller(b * 2, MaxBackoff)

-------------------------------------------------------------------------------
(* Pieces the handlers share *)

AtSelect(s) == pc = "select" /\ state = s

Answer(r, v) == reply' = [reply EXCEPT ![r] = v]

\* Mutant: the request is taken and its oneshot never used.
fail_pending_ctl_silent == pending_hw_ctl' = <<>> /\ reply' = reply

fail_pending_ctl ==
    /\ pending_hw_ctl' = <<>>
    /\ reply' = [r \in Requests |->
                    IF pending_hw_ctl = <<r>> THEN "Unavailable" ELSE reply[r]]

\* Mutant: a failed stream stays in the bridge.
DropFramed_kept == framed' = framed /\ toDev' = <<>> /\ toHost' = <<>> /\ linkUp' = FALSE

\* The stream is dropped: what it carried is gone.
DropFramed ==
    /\ framed' = FALSE
    /\ toDev' = <<>> /\ toHost' = <<>> /\ linkUp' = FALSE

\* Mutant: the message whose send failed is not kept.
EnterReconnecting_forgets(p) ==
    /\ state' = "Reconnecting" /\ backoff' = InitialBackoff /\ pending' = <<>>
    /\ pc' = "select" /\ arg' = <<>>
    /\ DropFramed

\* The transition every lost connection ends in.
EnterReconnecting(p) ==
    /\ state' = "Reconnecting" /\ backoff' = InitialBackoff /\ pending' = p
    /\ pc' = "select" /\ arg' = <<>>
    /\ DropFramed

\* Mutant: the signal sends the task back to its reconnect loop.
EnterShutdown_retries ==
    /\ state' = "Reconnecting" /\ pending' = pending /\ lost' = lost
    /\ pc' = "select" /\ arg' = <<>>
    /\ fail_pending_ctl /\ DropFramed
    /\ UNCHANGED <<backoff, consumed, sent, counters>>

\* An arm returns ShuttingDown: conn_task's loop ends, the message the old
\* state held is gone, and shutdown() fails the pending request before it
\* waits for room in the daemon's event channel.
EnterShutdown ==
    /\ state' = "ShuttingDown" /\ pending' = <<>> /\ lost' = pending
    /\ pc' = "notify" /\ arg' = <<>>
    /\ fail_pending_ctl
    /\ UNCHANGED <<backoff, framed, netVars, consumed, sent, counters>>

\* The handler suspends at a.
Suspend(a, v) ==
    /\ pc' = a /\ arg' = v
    /\ UNCHANGED <<connVars, framed>>

BackToSelect == Suspend("select", <<>>)

-------------------------------------------------------------------------------
(* Arms that step_connected, step_reconnecting and step_resyncing share *)

Running == pc = "select" /\ state # "ShuttingDown"

\* shutdown_rx fires: Connection::shutdown sent the signal.
ShutdownSignal ==
    /\ Running
    /\ handle = "dropped"
    /\ EnterShutdown
    /\ UNCHANGED <<ctlQ, handle, ptyVars>>

\* ctl_req_rx.recv() returns None: no sender is left and the channel is empty.
CtlClosed ==
    /\ Running
    /\ handle = "dropped" /\ ctlQ = <<>>
    /\ EnterShutdown
    /\ UNCHANGED <<ctlQ, handle, ptyVars>>

\* A status request is answered by which state's select! received it.
CtlStatus ==
    /\ Running
    /\ ctlQ # <<>> /\ Head(ctlQ) \in StatusReqs
    /\ ctlQ' = Tail(ctlQ)
    /\ Answer(Head(ctlQ), IF state = "Connected" THEN "true" ELSE "false")
    /\ UNCHANGED <<connVars, pc, arg, pending_hw_ctl, framed, handle, ptyVars,
                   netVars, hist, counters>>

\* Mutant: the request is refused without telling its caller.
CtlHardwareRefused_silent ==
    /\ Running
    /\ ctlQ # <<>> /\ Head(ctlQ) \in HwReqs
    /\ state = "Connected" => pending_hw_ctl # <<>>
    /\ ctlQ' = Tail(ctlQ)
    /\ UNCHANGED <<connVars, pc, arg, pending_hw_ctl, framed, reply, handle, ptyVars,
                   netVars, hist, counters>>

\* A hardware request is refused unless the device is connected and idle.
CtlHardwareRefused ==
    /\ Running
    /\ ctlQ # <<>> /\ Head(ctlQ) \in HwReqs
    /\ state = "Connected" => pending_hw_ctl # <<>>
    /\ ctlQ' = Tail(ctlQ)
    /\ Answer(Head(ctlQ), "Unavailable")
    /\ UNCHANGED <<connVars, pc, arg, pending_hw_ctl, framed, handle, ptyVars,
                   netVars, hist, counters>>

-------------------------------------------------------------------------------
(* step_connected *)

\* The PTY yields data or a termios change: the handler starts to send it.
PtyMessage ==
    /\ AtSelect("Connected")
    /\ ptyIn # <<>> /\ Head(ptyIn).kind # "ControlMessage"
    /\ ptyIn' = Tail(ptyIn)
    /\ consumed' = Append(consumed, Head(ptyIn))
    /\ Suspend("send", <<Head(ptyIn)>>)
    /\ UNCHANGED <<pending_hw_ctl, ctlVars, ptyOut, ptyOk, netVars, sent, lost,
                   counters>>

\* The PTY yields another packet-mode control byte: only logged.
PtyControlMessage ==
    /\ AtSelect("Connected")
    /\ ptyIn # <<>> /\ Head(ptyIn).kind = "ControlMessage"
    /\ ptyIn' = Tail(ptyIn)
    /\ UNCHANGED <<connVars, pc, arg, pending_hw_ctl, framed, ctlVars, ptyOut,
                   ptyOk, netVars, hist, counters>>

PtyReadError ==
    /\ AtSelect("Connected")
    /\ ~ptyOk
    /\ EnterShutdown
    /\ UNCHANGED <<ctlQ, handle, ptyVars>>

\* tcp.send has written the whole message to the socket.
SendOk ==
    /\ pc = "send"
    /\ Len(toDev) < TcpCap
    /\ toDev' = toDev \o arg
    /\ sent' = sent \o arg
    /\ BackToSelect
    /\ UNCHANGED <<pending_hw_ctl, ctlVars, ptyVars, toHost, linkUp, consumed,
                   lost, counters>>

\* tcp.send fails: the message is kept for the next connection.
SendDisconnected ==
    /\ pc = "send"
    /\ ~linkUp
    /\ fail_pending_ctl
    /\ EnterReconnecting(arg)
    /\ UNCHANGED <<ctlQ, handle, ptyVars, hist, counters>>

\* tcp.next yields data: the handler starts to write it to the PTY.
TcpData ==
    /\ AtSelect("Connected")
    /\ toHost # <<>> /\ Head(toHost).kind = "Data"
    /\ toHost' = Tail(toHost)
    /\ Suspend("write_pty", <<Head(toHost)>>)
    /\ UNCHANGED <<pending_hw_ctl, ctlVars, ptyVars, toDev, linkUp, hist, counters>>

\* master.write_all finishes once the PTY has room.
WriteDone ==
    /\ pc = "write_pty"
    /\ Len(ptyOut) < PtyCap
    /\ ptyOut' = ptyOut \o arg
    /\ BackToSelect
    /\ UNCHANGED <<pending_hw_ctl, ctlVars, ptyIn, ptyOk, netVars, hist, counters>>

WriteError ==
    /\ pc = "write_pty"
    /\ ~ptyOk
    /\ EnterShutdown
    /\ UNCHANGED <<ctlQ, handle, ptyVars>>

\* tcp.next yields a control response: it answers the pending request, if any.
TcpControlRes ==
    /\ AtSelect("Connected")
    /\ toHost # <<>> /\ Head(toHost).kind \in ResponseKinds
    /\ toHost' = Tail(toHost)
    /\ pending_hw_ctl' = <<>>
    /\ reply' = [r \in Requests |-> IF pending_hw_ctl = <<r>>
                                    THEN Head(toHost).kind ELSE reply[r]]
    /\ UNCHANGED <<connVars, pc, arg, framed, ctlQ, handle, ptyVars, toDev, linkUp,
                   hist, counters>>

\* tcp.next yields a message only the host sends: only logged.
TcpUnexpected ==
    /\ AtSelect("Connected")
    /\ toHost # <<>> /\ Head(toHost).kind = "Unexpected"
    /\ toHost' = Tail(toHost)
    /\ UNCHANGED <<connVars, pc, arg, pending_hw_ctl, framed, ctlVars, ptyVars, toDev,
                   linkUp, hist, counters>>

\* Mutant: the pending request survives the session.
TcpDisconnected_owing ==
    /\ AtSelect("Connected")
    /\ ~linkUp \/ (toHost # <<>> /\ Head(toHost).kind = "Invalid")
    /\ EnterReconnecting(<<>>)
    /\ UNCHANGED <<pending_hw_ctl, ctlVars, ptyVars, hist, counters>>

\* tcp.next fails: the session is broken, or the bytes do not decode.
TcpDisconnected ==
    /\ AtSelect("Connected")
    /\ ~linkUp \/ (toHost # <<>> /\ Head(toHost).kind = "Invalid")
    /\ fail_pending_ctl
    /\ EnterReconnecting(<<>>)
    /\ UNCHANGED <<ctlQ, handle, ptyVars, hist, counters>>

\* A hardware request is accepted: the handler starts to send it.
CtlHardware ==
    /\ AtSelect("Connected")
    /\ ctlQ # <<>> /\ Head(ctlQ) \in HwReqs
    /\ pending_hw_ctl = <<>>
    /\ ctlQ' = Tail(ctlQ)
    /\ Suspend("send_ctl", <<Head(ctlQ)>>)
    /\ UNCHANGED <<pending_hw_ctl, reply, handle, ptyVars, netVars, hist, counters>>

\* Only now does the task expect a response.
SendCtlOk ==
    /\ pc = "send_ctl"
    /\ Len(toDev) < TcpCap
    /\ toDev' = Append(toDev, [kind |-> "ControlReq", id |-> Head(arg)])
    /\ pending_hw_ctl' = arg
    /\ BackToSelect
    /\ UNCHANGED <<ctlVars, ptyVars, toHost, linkUp, hist, counters>>

SendCtlDisconnected ==
    /\ pc = "send_ctl"
    /\ ~linkUp
    /\ Answer(Head(arg), "Unavailable")
    /\ EnterReconnecting(<<>>)
    /\ UNCHANGED <<pending_hw_ctl, ctlQ, handle, ptyVars, hist, counters>>

-------------------------------------------------------------------------------
(* step_reconnecting *)

\* reconnect_sleep completes and the loop breaks to try_connect.
SleepDone ==
    /\ AtSelect("Reconnecting")
    /\ Suspend("connect", <<>>)
    /\ UNCHANGED <<pending_hw_ctl, ctlVars, ptyVars, netVars, hist, counters>>

\* TcpBridge::try_connect: a fresh session, unless one is already there.
ConnectOk ==
    /\ pc = "connect"
    /\ framed' = TRUE
    /\ IF framed THEN UNCHANGED netVars
                 ELSE toDev' = <<>> /\ toHost' = <<>> /\ linkUp' = TRUE
    /\ state' = IF pending = <<>> THEN "Connected" ELSE "Resyncing"
    /\ pc' = "select"
    /\ UNCHANGED <<backoff, pending, arg, pending_hw_ctl, ctlVars, ptyVars, hist,
                   counters>>

ConnectFailed ==
    /\ pc = "connect"
    /\ ~framed
    /\ backoff' = next_backoff(backoff)
    /\ pc' = "select"
    /\ UNCHANGED <<state, pending, arg, pending_hw_ctl, framed, ctlVars, ptyVars,
                   netVars, hist, counters>>

-------------------------------------------------------------------------------
(* step_resyncing: the send is an arm of the select! of its own *)

ResyncOk ==
    /\ AtSelect("Resyncing")
    /\ Len(toDev) < TcpCap
    /\ toDev' = toDev \o pending
    /\ sent' = sent \o pending
    /\ state' = "Connected" /\ pending' = <<>>
    /\ UNCHANGED <<backoff, pc, arg, pending_hw_ctl, framed, ctlVars, ptyVars, toHost,
                   linkUp, consumed, lost, counters>>

\* Mutant: a failed resync gives the message up.
ResyncDisconnected_forgets ==
    /\ AtSelect("Resyncing")
    /\ ~linkUp
    /\ EnterReconnecting(<<>>)
    /\ UNCHANGED <<pending_hw_ctl, ctlVars, ptyVars, hist, counters>>

ResyncDisconnected ==
    /\ AtSelect("Resyncing")
    /\ ~linkUp
    /\ EnterReconnecting(pending)
    /\ UNCHANGED <<pending_hw_ctl, ctlVars, ptyVars, hist, counters>>

-------------------------------------------------------------------------------
(* The end of conn_task *)

\* Mutant: the receiver outlives the task, so queued callers are never released.
EventSent_keeps ==
    /\ pc = "notify"
    /\ pc' = "done"
    /\ framed' = FALSE
    /\ UNCHANGED <<connVars, arg, pending_hw_ctl, ctlVars, ptyVars, netVars, hist,
                   counters>>

\* The event is in the daemon's channel; the task returns and drops its
\* receivers, so the requests left in the channel are never answered.
EventSent ==
    /\ pc = "notify"
    /\ pc' = "done"
    /\ framed' = FALSE
    /\ ctlQ' = <<>>
    /\ reply' = [r \in Requests |->
                    IF \E i \in 1..Len(ctlQ) : ctlQ[i] = r THEN "closed" ELSE reply[r]]
    /\ UNCHANGED <<connVars, arg, pending_hw_ctl, handle, ptyVars, netVars, hist,
                   counters>>

-------------------------------------------------------------------------------
(* The holder of the Connection handle *)

\* send_hardware_ctl and get_status: ctl_req_tx.send waits for room and fails
\* once the receiver is gone.  A caller that gave up its future leaves its
\* request behind, so several may be under way.
Submit(r) ==
    /\ handle = "held"
    /\ reply[r] = "idle"
    /\ \/ /\ pc # "done" /\ Len(ctlQ) < CtlCap
          /\ ctlQ' = Append(ctlQ, r)
          /\ Answer(r, "waiting")
       \/ /\ pc = "done"
          /\ ctlQ' = ctlQ
          /\ Answer(r, "closed")
    /\ UNCHANGED <<connVars, pc, arg, pending_hw_ctl, framed, handle, ptyVars, netVars,
                   hist, counters>>

send_hardware_ctl == \E r \in HwReqs : Submit(r)
get_status == \E r \in StatusReqs : Submit(r)

\* Connection::shutdown consumes the handle and with it the only ctl_req_tx.
shutdown ==
    /\ handle = "held"
    /\ handle' = "dropped"
    /\ UNCHANGED <<connVars, pc, arg, pending_hw_ctl, framed, ctlQ, reply, ptyVars,
                   netVars, hist, counters>>

-------------------------------------------------------------------------------
(* The PTY's application, the device and the network *)

taskVars == <<connVars, pc, arg, pending_hw_ctl, framed, ctlVars, hist>>

AppWrite ==
    /\ ptyOk /\ typed < MaxPty
    /\ \E k \in {"Data", "Config", "ControlMessage"} :
           ptyIn' = Append(ptyIn, [kind |-> k, id |-> typed])
    /\ typed' = typed + 1
    /\ UNCHANGED <<taskVars, ptyOut, ptyOk, netVars, emitted, failures>>

AppRead ==
    /\ ptyOut # <<>>
    /\ ptyOut' = Tail(ptyOut)
    /\ UNCHANGED <<taskVars, ptyIn, ptyOk, netVars, counters>>

PtyFail ==
    /\ ptyOk
    /\ ptyOk' = FALSE
    /\ UNCHANGED <<taskVars, ptyIn, ptyOut, netVars, counters>>

DeviceRead ==
    /\ linkUp /\ toDev # <<>>
    /\ toDev' = Tail(toDev)
    /\ UNCHANGED <<taskVars, ptyVars, toHost, linkUp, counters>>

DeviceSend ==
    /\ linkUp /\ emitted < MaxDev
    /\ \E k \in HostKinds : toHost' = Append(toHost, [kind |-> k, id |-> emitted])
    /\ emitted' = emitted + 1
    /\ UNCHANGED <<taskVars, ptyVars, toDev, linkUp, typed, failures>>

LinkFail ==
    /\ linkUp /\ failures < MaxFailures
    /\ linkUp' = FALSE
    /\ failures' = failures + 1
    /\ UNCHANGED <<taskVars, ptyVars, toDev, toHost, typed, emitted>>

-------------------------------------------------------------------------------
(* The specification *)

Init ==
    /\ state = "Reconnecting" /\ backoff = InitialBackoff /\ pending = <<>>
    /\ pc = "select" /\ arg = <<>>
    /\ pending_hw_ctl = <<>> /\ framed = FALSE
    /\ ctlQ = <<>> /\ reply = [r \in Requests |-> "idle"] /\ handle = "held"
    /\ ptyIn = <<>> /\ ptyOut = <<>> /\ ptyOk = TRUE
    /\ toDev = <<>> /\ toHost = <<>> /\ linkUp = FALSE
    /\ consumed = <<>> /\ sent = <<>> /\ lost = <<>>
    /\ typed = 0 /\ emitted = 0 /\ failures = 0

CtlArm == CtlStatus \/ CtlHardwareRefused \/ CtlHardware \/ CtlClosed
PtyArm == PtyMessage \/ PtyControlMessage \/ PtyReadError
TcpArm == TcpData \/ TcpControlRes \/ TcpUnexpected \/ TcpDisconnected
SendDone == SendOk \/ SendDisconnected \/ SendCtlOk \/ SendCtlDisconnected
ResyncArm == ResyncOk \/ ResyncDisconnected
WriteEnds == WriteDone \/ WriteError
ConnectEnds == ConnectOk \/ ConnectFailed

step == ShutdownSignal \/ CtlArm \/ PtyArm \/ TcpArm \/ SendDone \/ WriteEnds
        \/ SleepDone \/ ConnectEnds \/ ResyncArm
conn_task == step \/ EventSent

Environment == send_hardware_ctl \/ get_status \/ shutdown \/ AppWrite \/ AppRead
               \/ PtyFail \/ DeviceRead \/ DeviceSend \/ LinkFail

\* The task has returned and nobody holds its handle.
Finished == pc = "done" /\ handle = "dropped" /\ UNCHANGED vars

Next == conn_task \/ Environment \/ Finished

Spec == Init /\ [][Next]_vars

-------------------------------------------------------------------------------
(* Safety *)

TypeOK ==
    /\ state \in States /\ backoff \in Nat /\ pending \in Option(DeviceMessages)
    /\ pc \in Awaits
    /\ pc = "send" => arg \in Some(DeviceMessages)
    /\ pc = "send_ctl" => arg \in Some(HwReqs)
    /\ pc = "write_pty" => arg \in Some(HostMessages)
    /\ pc \notin {"send", "send_ctl", "write_pty"} => arg = <<>>
    /\ pending_hw_ctl \in Option(HwReqs) /\ framed \in BOOLEAN
    /\ ctlQ \in Seq(Requests) /\ reply \in [Requests -> Replies]
    /\ handle \in {"held", "dropped"}
    /\ ptyIn \in Seq(PtyPackets) /\ ptyOut \in Seq(HostMessages) /\ ptyOk \in BOOLEAN
    /\ toDev \in Seq(DeviceMessages) /\ toHost \in Seq(HostMessages)
    /\ linkUp \in BOOLEAN
    /\ consumed \in Seq(DeviceMessages) /\ sent \in Seq(DeviceMessages)
    /\ lost \in Option(DeviceMessages)
    /\ typed \in Nat /\ emitted \in Nat /\ failures \in Nat

\* The message taken from the PTY that no send has accepted yet, or that the
\* shutdown dropped.
InFlight == IF pc = "send" THEN arg
            ELSE IF state = "ShuttingDown" THEN lost ELSE pending

\* Whatever is taken from the PTY is accepted by a send once, in order, across
\* every lost connection; only a shutdown drops a message, at most the one it
\* finds waiting for the reconnect.  (The `pending` of ConnState.)
NothingDropped == consumed = sent \o InFlight

\* The requests some part of the task still has to answer.
Owed(r) ==
    \/ \E i \in 1..Len(ctlQ) : ctlQ[i] = r
    \/ pc = "send_ctl" /\ arg = <<r>>
    \/ pending_hw_ctl = <<r>>

\* A caller that awaits its oneshot is never forgotten, whichever arm lost the
\* connection or ended the task; and nothing is owed to a caller that already
\* has its answer.  (Every exit path of step_connected calls fail_pending_ctl
\* or answers the request it holds.)
NoOrphanRequest == \A r \in Requests : reply[r] = "waiting" <=> Owed(r)

\* A response is expected only over the session its request was sent on, so a
\* request never stays pending into a later connection.
PendingOnlyWhileConnected == pending_hw_ctl # <<>> => state = "Connected" /\ framed

\* TcpBridge has a stream exactly while the state machine counts on it: the
\* "not connected" errors of send and next, and the early return of
\* try_connect, are never reached.
SessionMatchesState ==
    /\ state \in {"Connected", "Resyncing"} => framed
    /\ state = "Reconnecting" => ~framed
    /\ pc = "done" => ~framed

-------------------------------------------------------------------------------
(* What makes these inductive *)

\* Where the handlers can be suspended, and what they hold there.
Control ==
    /\ pc \in {"send", "send_ctl", "write_pty"} => state = "Connected"
    /\ pc = "connect" => state = "Reconnecting"
    /\ pc \in {"notify", "done"} <=> state = "ShuttingDown"
    /\ state = "Connected" => pending = <<>>
    /\ pc = "send_ctl" => pending_hw_ctl = <<>>
    /\ pc = "done" => ctlQ = <<>>

\* No request is owed an answer in two places.
OwedOnce ==
    /\ \A i, j \in 1..Len(ctlQ) : ctlQ[i] = ctlQ[j] => i = j
    /\ \A i \in 1..Len(ctlQ) :
           pending_hw_ctl # <<ctlQ[i]>> /\ ~(pc = "send_ctl" /\ arg = <<ctlQ[i]>>)

DataInv == TypeOK /\ Control /\ SessionMatchesState /\ NothingDropped
RequestInv == DataInv /\ PendingOnlyWhileConnected /\ OwedOnce /\ NoOrphanRequest

-------------------------------------------------------------------------------
(* What a connection task promises its callers *)

lifeOf == IF pc = "done" THEN "done"
          ELSE IF state = "ShuttingDown" THEN "closing" ELSE "running"

Lifecycle == INSTANCE ConnLifecycle WITH life <- lifeOf, status <- reply

\* The task implements the life cycle its callers rely on: each request is
\* answered once, none after the task has begun to close, and none is left
\* waiting when it has ended.
LifecycleSpec == Lifecycle!Spec

-------------------------------------------------------------------------------
(* Liveness *)

\* Tokio polls the arms of a select! in random order, so an arm that is ready
\* over and over is taken in the end: strong fairness of each arm.  A
\* suspended handler resumes when the thing it awaits is ready: weak fairness.
TaskFairness ==
    /\ SF_vars(ShutdownSignal) /\ SF_vars(CtlArm) /\ SF_vars(PtyArm)
    /\ SF_vars(TcpArm) /\ WF_vars(SleepDone) /\ WF_vars(ResyncArm)
    /\ WF_vars(SendDone) /\ WF_vars(WriteEnds) /\ WF_vars(ConnectEnds)
    /\ WF_vars(EventSent)

\* The device reads what it is sent, and a device that is tried over and over
\* is reached in the end.
DeviceFairness == WF_vars(DeviceRead) /\ SF_vars(ConnectOk)

\* The application keeps reading its side of the PTY.
AppFairness == WF_vars(AppRead)

FairSpec == Spec /\ TaskFairness /\ DeviceFairness /\ AppFairness

\* get_status returns, whatever the connection is going through.
StatusAnswered == \A r \in StatusReqs : reply[r] = "waiting" ~> reply[r] # "waiting"

\* A hardware request is refused, or sent to the device: none waits for ever
\* behind a reconnect.
HardwareTaken ==
    \A r \in HwReqs : reply[r] = "waiting" ~> reply[r] # "waiting" \/ pending_hw_ctl = <<r>>

\* A message taken from the PTY is sent in the end unless the task shuts down,
\* however often the connection is lost on the way.
MessageSent ==
    \A n \in 1..MaxPty :
        Len(consumed) >= n ~> Len(sent) >= n \/ state = "ShuttingDown"

\* Once the handle is consumed the task ends and has notified the daemon.
ShutdownCompletes == handle = "dropped" ~> pc = "done"

===============================================================================
