-------------------------------- MODULE Daemon --------------------------------
(***************************************************************************)
(* The daemon's main loop (daemon/src/main.rs), its table of connections   *)
(* (daemon/src/state.rs), one handle_stream task per CLI client, and the   *)
(* connection tasks, which appear here only through the life cycle of      *)
(* module ConnLifecycle: they run, close, announce their end in the event  *)
(* channel (daemon/src/event.rs), and are done.                            *)
(*                                                                         *)
(* The main loop takes one event at a time and awaits the answers of       *)
(* connection tasks inside its handler; meanwhile it takes no other event. *)
(***************************************************************************)
EXTENDS Naturals, Sequences, SequencesExt

CONSTANTS
    Names,      \* names of connections
    Clients,    \* CLI clients, one stream each
    EventCap,   \* capacity of the event channel (128 in the code)
    MaxTasks,   \* bound: connection tasks ever spawned
    MaxCmds     \* bound: commands ever sent

ASSUME DaemonAssumption ==
    /\ Names # {}
    /\ EventCap \in Nat \ {0} /\ MaxTasks \in Nat /\ MaxCmds \in Nat

VARIABLES
    conns,      \* State.conns: the Vec of connections, as task ids
    nameOf,     \* the name each spawned task was given
    life,       \* per task: "none", "running", "closing", "done"
    signalled,  \* tasks whose handle was consumed by shutdown()
    events,     \* the event channel
    mainPc,     \* "loop", "status", "reset" (awaiting a task) or "exited"
    asking,     \* the client whose command the main loop is handling, an Option
    pos,        \* State::list: the index in conns of the task asked
    ctrlC,      \* a SIGINT has reached the ctrl_c() future of this select!
    cliPc,      \* per client: "off", "connecting", "idle", "sending", "waiting"
    cmd,        \* per client: its last command
    resp,       \* per client: the response to it
    cmds        \* number of commands sent

tableVars == <<conns, nameOf, life, signalled>>
mainVars == <<mainPc, asking, pos>>
cliVars == <<cliPc, cmd, resp, cmds>>
vars == <<tableVars, events, mainVars, ctrlC, cliVars>>

-------------------------------------------------------------------------------
(* Values *)

Tasks == 1..MaxTasks
Commands == [op : {"Add", "Remove", "Reset"}, name : Names] \cup [op : {"List"}]
Events == [kind : {"CliCommand"}, client : Clients]
          \cup [kind : {"ConnectionClosed"}, name : Names]
Responses == {"None", "AddOk", "RemoveOk", "List", "ResetOk", "Error"}

Listed(t) == t \in ToSet(conns)

exists(n) == \E i \in 1..Len(conns) : nameOf[conns[i]] = n

\* Iterator::position: the first index with that name, if there is one.
Position(n) ==
    CHOOSE i \in 1..Len(conns) :
        nameOf[conns[i]] = n /\ \A j \in 1..(i - 1) : nameOf[conns[j]] # n

\* Vec::swap_remove: the last element takes the place of the removed one.
swap_remove(q, i) ==
    [j \in 1..(Len(q) - 1) |-> IF j = i THEN q[Len(q)] ELSE q[j]]

-------------------------------------------------------------------------------
(* State *)

\* State::remove takes the first connection of that name out and shuts it down.
remove(n) ==
    IF exists(n)
    THEN LET i == Position(n) IN
             /\ conns' = swap_remove(conns, i)
             /\ signalled' = signalled \cup {conns[i]}
    ELSE UNCHANGED <<conns, signalled>>

-------------------------------------------------------------------------------
(* The main loop *)

\* Another arm of the select! wins: its ctrl_c() future is dropped, and with it
\* a SIGINT that had reached it.  The next round listens anew.
OtherArm == mainPc = "loop" /\ ctrlC' = FALSE

TakeEvent(kind) ==
    /\ OtherArm
    /\ events # <<>> /\ Head(events).kind = kind
    /\ events' = Tail(events)

Command == cmd[Head(events).client]

\* The oneshot of handle_stream is used.
Reply(c, r) == resp' = [resp EXCEPT ![c] = r]

TakeCommand(op) == TakeEvent("CliCommand") /\ Command.op = op

\* Mutant: the name is not looked up first.
Add_unchecked ==
    /\ TakeCommand("Add")
    /\ \E t \in Tasks :
           /\ life[t] = "none" /\ \A u \in 1..(t - 1) : life[u] # "none"
           /\ conns' = Append(conns, t)
           /\ nameOf' = [nameOf EXCEPT ![t] = Command.name]
           /\ life' = [life EXCEPT ![t] = "running"]
           /\ Reply(Head(events).client, "AddOk")
    /\ UNCHANGED <<signalled, mainVars, cliPc, cmd, cmds>>

\* The PTY is opened, the task spawned and the connection recorded.
Add ==
    /\ TakeCommand("Add")
    /\ ~exists(Command.name)
    /\ \E t \in Tasks :
           /\ life[t] = "none" /\ \A u \in 1..(t - 1) : life[u] # "none"
           /\ conns' = Append(conns, t)
           /\ nameOf' = [nameOf EXCEPT ![t] = Command.name]
           /\ life' = [life EXCEPT ![t] = "running"]
           /\ Reply(Head(events).client, "AddOk")
    /\ UNCHANGED <<signalled, mainVars, cliPc, cmd, cmds>>

\* The name is taken, or one of the steps that open the PTY fails.
AddFailed ==
    /\ TakeCommand("Add")
    /\ Reply(Head(events).client, "Error")
    /\ UNCHANGED <<tableVars, mainVars, cliPc, cmd, cmds>>

RemoveNamed ==
    /\ TakeCommand("Remove")
    /\ remove(Command.name)
    /\ Reply(Head(events).client, IF exists(Command.name) THEN "RemoveOk" ELSE "Error")
    /\ UNCHANGED <<nameOf, life, mainVars, cliPc, cmd, cmds>>

\* State::list asks the connections for their status, one after the other.
ListBegin ==
    /\ TakeCommand("List")
    /\ conns # <<>>
    /\ mainPc' = "status" /\ asking' = <<Head(events).client>> /\ pos' = 1
    /\ UNCHANGED <<tableVars, cliVars>>

ListEmpty ==
    /\ TakeCommand("List")
    /\ conns = <<>>
    /\ Reply(Head(events).client, "List")
    /\ UNCHANGED <<tableVars, mainVars, cliPc, cmd, cmds>>

\* The control channel of a task that is done is closed, and its oneshots are
\* dropped: the main loop does not wait for it.  A running task answers.  A
\* closing one does neither.
Answers(t) == life[t] \in {"running", "done"}

\* Mutant: the loop of State::list never gets past the first connection.
ListStatus_stuck ==
    /\ mainPc = "status" /\ Answers(conns[pos]) /\ Len(conns) = 1
    /\ Reply(asking[1], "List")
    /\ mainPc' = "loop" /\ asking' = <<>> /\ pos' = 0
    /\ UNCHANGED <<tableVars, events, ctrlC, cliPc, cmd, cmds>>

\* get_status returns; the next connection is asked, or the list is complete.
ListStatus ==
    /\ mainPc = "status" /\ Answers(conns[pos])
    /\ \/ /\ pos < Len(conns)
          /\ pos' = pos + 1
          /\ UNCHANGED <<mainPc, asking, resp>>
       \/ /\ pos = Len(conns)
          /\ Reply(asking[1], "List")
          /\ mainPc' = "loop" /\ asking' = <<>> /\ pos' = 0
    /\ UNCHANGED <<tableVars, events, ctrlC, cliPc, cmd, cmds>>

ResetBegin ==
    /\ TakeCommand("Reset")
    /\ exists(Command.name)
    /\ mainPc' = "reset" /\ asking' = <<Head(events).client>>
    /\ pos' = Position(Command.name)
    /\ UNCHANGED <<tableVars, cliVars>>

ResetUnknown ==
    /\ TakeCommand("Reset")
    /\ ~exists(Command.name)
    /\ Reply(Head(events).client, "Error")
    /\ UNCHANGED <<tableVars, mainVars, cliPc, cmd, cmds>>

\* send_hardware_ctl returns: the device's answer, or that it is unavailable,
\* or (a task that is done) None.
ResetReply ==
    /\ mainPc = "reset" /\ Answers(conns[pos])
    /\ \E r \in IF life[conns[pos]] = "running" THEN {"ResetOk", "Error"} ELSE {"Error"} :
           Reply(asking[1], r)
    /\ mainPc' = "loop" /\ asking' = <<>> /\ pos' = 0
    /\ UNCHANGED <<tableVars, events, ctrlC, cliPc, cmd, cmds>>

\* Mutant: the event is only logged.
ConnectionClosed_logged ==
    /\ TakeEvent("ConnectionClosed")
    /\ UNCHANGED <<tableVars, mainVars, cliVars>>

\* Whichever connection has that name now is removed.
ConnectionClosed ==
    /\ TakeEvent("ConnectionClosed")
    /\ remove(Head(events).name)
    /\ UNCHANGED <<nameOf, life, mainVars, cliVars>>

\* The ctrl_c arm of the select!; the tasks end with the runtime.
Exit ==
    /\ mainPc = "loop" /\ ctrlC
    /\ mainPc' = "exited"
    /\ UNCHANGED <<tableVars, events, asking, pos, ctrlC, cliVars>>

-------------------------------------------------------------------------------
(* The connection tasks *)

TaskElsewhere == <<conns, nameOf, signalled, mainVars, ctrlC, cliVars>>

\* The task enters ConnState::ShuttingDown: it was told to, or its PTY failed.
TaskCloses(t) ==
    /\ mainPc # "exited"
    /\ life[t] = "running"
    /\ life' = [life EXCEPT ![t] = "closing"]
    /\ UNCHANGED <<events, TaskElsewhere>>

\* ConnectionTask::shutdown waits for room in the event channel; only then does
\* the task end and drop its control channel.
TaskEnds(t) ==
    /\ mainPc # "exited"
    /\ life[t] = "closing"
    /\ Len(events) < EventCap
    /\ events' = Append(events, [kind |-> "ConnectionClosed", name |-> nameOf[t]])
    /\ life' = [life EXCEPT ![t] = "done"]
    /\ UNCHANGED TaskElsewhere

-------------------------------------------------------------------------------
(* handle_stream and the CLI *)

CliElsewhere == <<tableVars, mainVars, ctrlC>>

\* The CLI connects to the socket; the listener's backlog holds it.
CliConnect(c) ==
    /\ mainPc # "exited" /\ cliPc[c] = "off" /\ cmds < MaxCmds
    /\ cliPc' = [cliPc EXCEPT ![c] = "connecting"]
    /\ UNCHANGED <<events, cmd, resp, cmds, CliElsewhere>>

\* The accept arm of the main loop spawns handle_stream.
Accept(c) ==
    /\ OtherArm
    /\ cliPc[c] = "connecting"
    /\ cliPc' = [cliPc EXCEPT ![c] = "idle"]
    /\ UNCHANGED <<tableVars, events, mainVars, cmd, resp, cmds>>

\* A request is decoded from the stream.
CliRequest(c) ==
    /\ mainPc # "exited" /\ cliPc[c] = "idle" /\ cmds < MaxCmds
    /\ \E m \in Commands : cmd' = [cmd EXCEPT ![c] = m]
    /\ resp' = [resp EXCEPT ![c] = "None"]
    /\ cliPc' = [cliPc EXCEPT ![c] = "sending"] /\ cmds' = cmds + 1
    /\ UNCHANGED <<events, CliElsewhere>>

\* event_tx.send waits for room.
CliSend(c) ==
    /\ mainPc # "exited" /\ cliPc[c] = "sending" /\ Len(events) < EventCap
    /\ events' = Append(events, [kind |-> "CliCommand", client |-> c])
    /\ cliPc' = [cliPc EXCEPT ![c] = "waiting"]
    /\ UNCHANGED <<cmd, resp, cmds, CliElsewhere>>

\* Mutant: handle_stream gives up on its oneshot and reads the next request.
CliResponse_early(c) ==
    /\ mainPc # "exited" /\ cliPc[c] = "waiting"
    /\ \E next \in {"idle", "off"} : cliPc' = [cliPc EXCEPT ![c] = next]
    /\ UNCHANGED <<events, cmd, resp, cmds, CliElsewhere>>

\* The response is written to the stream; if the client has gone the write
\* fails and the stream's task panics, which ends only that task.
CliResponse(c) ==
    /\ mainPc # "exited" /\ cliPc[c] = "waiting" /\ resp[c] # "None"
    /\ \E next \in {"idle", "off"} : cliPc' = [cliPc EXCEPT ![c] = next]
    /\ UNCHANGED <<events, cmd, resp, cmds, CliElsewhere>>

\* The stream ends, or does not decode: handle_stream returns.
CliLeaves(c) ==
    /\ mainPc # "exited" /\ cliPc[c] = "idle"
    /\ cliPc' = [cliPc EXCEPT ![c] = "off"]
    /\ UNCHANGED <<events, cmd, resp, cmds, CliElsewhere>>

\* A SIGINT while no ctrl_c() future exists has no effect: the handler Tokio
\* installed the first time stays, and a later future sees later signals only.
SigInt ==
    /\ mainPc = "loop" /\ ~ctrlC
    /\ ctrlC' = TRUE
    /\ UNCHANGED <<tableVars, events, mainVars, cliVars>>

-------------------------------------------------------------------------------
(* The specification *)

Init ==
    /\ conns = <<>> /\ nameOf = [t \in Tasks |-> CHOOSE n \in Names : TRUE]
    /\ life = [t \in Tasks |-> "none"] /\ signalled = {}
    /\ events = <<>>
    /\ mainPc = "loop" /\ asking = <<>> /\ pos = 0
    /\ ctrlC = FALSE
    /\ cliPc = [c \in Clients |-> "off"]
    /\ cmd = [c \in Clients |-> [op |-> "List"]]
    /\ resp = [c \in Clients |-> "None"] /\ cmds = 0

TakeRequest == Add \/ AddFailed \/ RemoveNamed \/ ListBegin \/ ListEmpty
               \/ ResetBegin \/ ResetUnknown
handle_daemon_request == TakeRequest \/ ListStatus \/ ResetReply
main == handle_daemon_request \/ ConnectionClosed \/ (\E c \in Clients : Accept(c)) \/ Exit
Task(t) == TaskCloses(t) \/ TaskEnds(t)
handle_stream(c) == CliRequest(c) \/ CliSend(c) \/ CliResponse(c) \/ CliLeaves(c)

\* The daemon has exited, and every task of its runtime with it.
Finished == mainPc = "exited" /\ UNCHANGED vars

Next ==
    \/ main
    \/ \E t \in Tasks : Task(t)
    \/ \E c \in Clients : CliConnect(c) \/ handle_stream(c)
    \/ SigInt
    \/ Finished

Spec == Init /\ [][Next]_vars

-------------------------------------------------------------------------------
(* Safety *)

TypeOK ==
    /\ conns \in Seq(Tasks) /\ nameOf \in [Tasks -> Names]
    /\ life \in [Tasks -> {"none", "running", "closing", "done"}]
    /\ signalled \subseteq Tasks
    /\ events \in Seq(Events) /\ Len(events) <= EventCap
    /\ mainPc \in {"loop", "status", "reset", "exited"}
    /\ asking \in {s \in Seq(Clients) : Len(s) <= 1}
    /\ pos \in 0..Len(conns) /\ (mainPc \in {"status", "reset"} => pos # 0)
    /\ ctrlC \in BOOLEAN
    /\ cliPc \in [Clients -> {"off", "connecting", "idle", "sending", "waiting"}]
    /\ cmd \in [Clients -> Commands] /\ resp \in [Clients -> Responses] /\ cmds \in Nat

\* A name designates one connection, through any sequence of adds, removals and
\* late closed events.
UniqueNames ==
    \A i, j \in 1..Len(conns) : nameOf[conns[i]] = nameOf[conns[j]] => i = j

\* A dead connection stays in the list only as long as its closed event is on
\* its way.
DeadAnnounced ==
    \A t \in Tasks : Listed(t) /\ life[t] = "done" =>
        \E i \in 1..Len(events) :
            events[i].kind = "ConnectionClosed" /\ events[i].name = nameOf[t]

\* What makes the three inductive: the table holds only spawned tasks, and it
\* does not change while the main loop waits for one of its tasks.
TableInv ==
    /\ TypeOK /\ UniqueNames /\ DeadAnnounced
    /\ \A i \in 1..Len(conns) : life[conns[i]] # "none"
    /\ mainPc \in {"loop", "exited"} => pos = 0
    /\ mainPc \in {"status", "reset"} => asking # <<>>

\* Where the command of a client is in the event channel.
Queued(c) ==
    {i \in 1..Len(events) : events[i].kind = "CliCommand" /\ events[i].client = c}

\* A client waits for its response exactly as long as its command is in the
\* event channel or in the hands of the main loop, and it is there once: no
\* command is dropped, handled twice or answered into the oneshot of another.
AnsweredOnce ==
    \A c \in Clients :
        /\ (cliPc[c] = "waiting" /\ resp[c] = "None") <=> (asking = <<c>> \/ Queued(c) # {})
        /\ \A i, j \in Queued(c) : i = j
        /\ asking = <<c>> => Queued(c) = {}

\* What makes it inductive: the main loop takes a command only when it has none
\* in its hands, and a client enters its command with a fresh oneshot.
ReplyInv ==
    /\ AnsweredOnce
    /\ mainPc \in {"loop", "exited"} => asking = <<>>
    /\ \A c \in Clients : cliPc[c] = "sending" => resp[c] = "None"

-------------------------------------------------------------------------------
(* Liveness *)

\* Tokio wakes a task whose awaited resource is ready, and the arms of the main
\* loop's select! are polled in random order, so none of them is passed over
\* for ever; the event channel grants permits in the order they were asked for.
\* A connection task that was told to stop does (ShutdownCompletes of module
\* ConnectionTask).  Nobody is obliged to type a command or to send a SIGINT.
LoopFairness ==
    /\ WF_vars(ListStatus)
    /\ WF_vars(TakeRequest \/ ConnectionClosed)
    /\ \A c \in Clients : SF_vars(Accept(c))
TaskFairness ==
    \A t \in Tasks : WF_vars(TaskEnds(t)) /\ WF_vars(t \in signalled /\ TaskCloses(t))
CliFairness == \A c \in Clients : SF_vars(CliSend(c)) /\ WF_vars(CliResponse(c))

\* The device's answer, or the loss of its TCP session, reaches the task.
DeviceFairness == WF_vars(ResetReply)

FairSpec == Spec /\ LoopFairness /\ TaskFairness /\ CliFairness /\ DeviceFairness

\* Every command is answered unless the daemon exits, whatever happens to the
\* connections meanwhile.
CommandsAnswered ==
    \A c \in Clients : cliPc[c] = "sending" ~> resp[c] # "None" \/ mainPc = "exited"

\* A connection whose task is done disappears from the list.
DeadUnlisted ==
    \A t \in Tasks : (Listed(t) /\ life[t] = "done") ~> ~Listed(t) \/ mainPc = "exited"

-------------------------------------------------------------------------------
(* What the closed event is taken to mean *)

\* "connection closed, removing from state": what an event removes has closed.
ClosedRemovesClosed ==
    [][\A t \in Tasks : Listed(t) /\ ~Listed(t)' /\ life[t] = "running"
           => Head(events).kind = "CliCommand"]_vars

===============================================================================
