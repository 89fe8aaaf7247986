---------------------------- MODULE ConnLifecycle ----------------------------
(***************************************************************************)
(* What a connection task (daemon/src/connection.rs) promises the holders  *)
(* of its Connection handle, without saying how: requests are answered     *)
(* while it runs, none while it closes, and when it has ended no caller is *)
(* left waiting and later callers are turned away at once.                 *)
(***************************************************************************)
CONSTANTS
    Requests,   \* identities of the requests
    Answers     \* what a oneshot may carry; "closed" stands for no answer

VARIABLES
    life,       \* "running", "closing" (ConnState::ShuttingDown) or "done"
    status      \* per request: "idle", "waiting", or its answer

lifeVars == <<life, status>>

Init ==
    /\ life = "running"
    /\ status = [r \in Requests |-> "idle"]

\* The request enters the control channel.
Submit(r) ==
    /\ life # "done" /\ status[r] = "idle"
    /\ status' = [status EXCEPT ![r] = "waiting"]
    /\ UNCHANGED life

\* The task uses the request's oneshot.
Resolve(r) ==
    /\ life = "running" /\ status[r] = "waiting"
    /\ \E a \in Answers \ {"closed"} : status' = [status EXCEPT ![r] = a]
    /\ UNCHANGED life

\* The task starts to close; the request it owes the device's response to, if
\* there is one, learns that the device is unavailable.
Close ==
    /\ life = "running"
    /\ life' = "closing"
    /\ \/ UNCHANGED status
       \/ \E r \in Requests :
              /\ status[r] = "waiting"
              /\ status' = [status EXCEPT ![r] = "Unavailable"]

\* The task ends; whoever still waits sees its oneshot dropped.
Exit ==
    /\ life = "closing"
    /\ life' = "done"
    /\ status' = [r \in Requests |->
                     IF status[r] = "waiting" THEN "closed" ELSE status[r]]

\* The control channel has no receiver any more.
Refuse(r) ==
    /\ life = "done" /\ status[r] = "idle"
    /\ status' = [status EXCEPT ![r] = "closed"]
    /\ UNCHANGED life

Next ==
    \/ \E r \in Requests : Submit(r) \/ Resolve(r) \/ Refuse(r)
    \/ Close
    \/ Exit

Spec == Init /\ [][Next]_lifeVars

=============================================================================
