----------------------------- MODULE DaemonProofs -----------------------------
(***************************************************************************)
(* Proofs about the daemon's table of connections, for every number of     *)
(* clients, names and tasks and every capacity of the event channel.       *)
(***************************************************************************)
EXTENDS Daemon, TLAPS

-------------------------------------------------------------------------------
(* The parts of TableInv, by the variables they are about *)

TablePart ==
    /\ conns \in Seq(Tasks) /\ nameOf \in [Tasks -> Names]
    /\ life \in [Tasks -> {"none", "running", "closing", "done"}]
    /\ signalled \subseteq Tasks
    /\ UniqueNames
    /\ \A i \in 1..Len(conns) : life[conns[i]] # "none"

EventPart == events \in Seq(Events) /\ Len(events) <= EventCap

MainPart ==
    /\ mainPc \in {"loop", "status", "reset", "exited"}
    /\ asking \in {s \in Seq(Clients) : Len(s) <= 1}
    /\ pos \in 0..Len(conns) /\ (mainPc \in {"status", "reset"} => pos # 0)
    /\ mainPc \in {"loop", "exited"} => pos = 0
    /\ mainPc \in {"status", "reset"} => asking # <<>>
    /\ ctrlC \in BOOLEAN

CliPart ==
    /\ cliPc \in [Clients -> {"off", "connecting", "idle", "sending", "waiting"}]
    /\ cmd \in [Clients -> Commands] /\ resp \in [Clients -> Responses] /\ cmds \in Nat

\* The invariant is the conjunction of its parts.
LEMMA Parts ==
    /\ TableInv <=> TablePart /\ EventPart /\ DeadAnnounced /\ MainPart /\ CliPart
    /\ TableInv' <=> TablePart' /\ EventPart' /\ DeadAnnounced' /\ MainPart' /\ CliPart'
BY DEF TableInv, TypeOK, TablePart, EventPart, MainPart, CliPart

-------------------------------------------------------------------------------
(* State::remove *)

\* With unique names, the index State::remove finds is the only one of the name.
LEMMA PositionFound ==
    ASSUME TablePart, NEW n, exists(n)
    PROVE  /\ Position(n) \in 1..Len(conns)
           /\ nameOf[conns[Position(n)]] = n
<1>1. PICK i \in 1..Len(conns) : nameOf[conns[i]] = n
  BY DEF exists
<1>2. Len(conns) \in Nat
  BY DEF TablePart
<1>3. \A j \in 1..(i - 1) : nameOf[conns[j]] # n
  <2> SUFFICES ASSUME NEW j \in 1..(i - 1), nameOf[conns[j]] = n PROVE FALSE
    OBVIOUS
  <2>1. j \in 1..Len(conns) /\ j # i
    BY <1>2
  <2> QED
    BY <1>1, <2>1 DEF TablePart, UniqueNames
<1> QED
  BY <1>1, <1>3 DEF Position

\* State::remove takes exactly the connection of that name out of the table, and
\* tells its task to stop; the others stay.
LEMMA RemoveEffect ==
    ASSUME TablePart, NEW n, remove(n)
    PROVE  /\ conns' \in Seq(Tasks)
           /\ \A i \in 1..Len(conns') : \E k \in 1..Len(conns) :
                  conns'[i] = conns[k] /\ nameOf[conns[k]] # n
           /\ \A i, j \in 1..Len(conns') :
                  nameOf[conns'[i]] = nameOf[conns'[j]] => i = j
           /\ \A k \in 1..Len(conns) :
                  \/ conns[k] \in signalled' /\ nameOf[conns[k]] = n
                  \/ \E i \in 1..Len(conns') : conns'[i] = conns[k]
           /\ signalled \subseteq signalled' /\ signalled' \subseteq Tasks
<1>1. /\ conns \in Seq(Tasks) /\ Len(conns) \in Nat /\ signalled \subseteq Tasks
      /\ \A i \in 1..Len(conns) : conns[i] \in Tasks
  BY DEF TablePart
<1>2. CASE ~exists(n)
  <2>1. conns' = conns /\ signalled' = signalled
    BY <1>2 DEF remove
  <2>2. \A k \in 1..Len(conns) : nameOf[conns[k]] # n
    BY <1>2 DEF exists
  <2> QED
    BY <1>1, <2>1, <2>2 DEF TablePart, UniqueNames
<1>3. CASE exists(n)
  <2> DEFINE p == Position(n)
             L == Len(conns)
  <2>1. p \in 1..L /\ nameOf[conns[p]] = n
    BY <1>3, PositionFound
  <2>2. conns' = swap_remove(conns, p) /\ signalled' = signalled \cup {conns[p]}
    BY <1>3 DEF remove
  <2> HIDE DEF p
  <2>3. /\ conns' \in Seq(Tasks) /\ Len(conns') = L - 1
        /\ \A i \in 1..(L - 1) : conns'[i] = IF i = p THEN conns[L] ELSE conns[i]
    <3>1. L - 1 \in Nat
      BY <1>1, <2>1
    <3>2. \A i \in 1..(L - 1) : (IF i = p THEN conns[L] ELSE conns[i]) \in Tasks
      BY <1>1
    <3>3. conns' = [i \in 1..(L - 1) |-> IF i = p THEN conns[L] ELSE conns[i]]
      BY <2>2 DEF swap_remove
    <3> QED
      BY <3>1, <3>2, <3>3
  <2>4. \A i, j \in 1..L : nameOf[conns[i]] = nameOf[conns[j]] => i = j
    BY DEF TablePart, UniqueNames
  <2>5. \A i \in 1..Len(conns') : \E k \in 1..L :
            conns'[i] = conns[k] /\ nameOf[conns[k]] # n
    <3> SUFFICES ASSUME NEW i \in 1..(L - 1)
                 PROVE  \E k \in 1..L : conns'[i] = conns[k] /\ nameOf[conns[k]] # n
      BY <2>3
    <3> DEFINE k == IF i = p THEN L ELSE i
    <3>1. k \in 1..L /\ k # p /\ conns'[i] = conns[k]
      BY <1>1, <2>1, <2>3
    <3>2. nameOf[conns[k]] # n
      BY <2>1, <2>4, <3>1
    <3> QED
      BY <3>1, <3>2
  <2>6. \A i, j \in 1..Len(conns') : nameOf[conns'[i]] = nameOf[conns'[j]] => i = j
    <3> SUFFICES ASSUME NEW i \in 1..(L - 1), NEW j \in 1..(L - 1),
                        nameOf[conns'[i]] = nameOf[conns'[j]]
                 PROVE  i = j
      BY <2>3
    <3> DEFINE ki == IF i = p THEN L ELSE i
               kj == IF j = p THEN L ELSE j
    <3>1. ki \in 1..L /\ kj \in 1..L /\ conns'[i] = conns[ki] /\ conns'[j] = conns[kj]
      BY <1>1, <2>3
    <3>2. ki = kj
      BY <2>4, <3>1
    <3> QED
      BY <1>1, <2>1, <3>2
  <2>7. \A k \in 1..L : \/ conns[k] \in signalled' /\ nameOf[conns[k]] = n
                        \/ \E i \in 1..Len(conns') : conns'[i] = conns[k]
    <3> SUFFICES ASSUME NEW k \in 1..L, k # p
                 PROVE  \E i \in 1..Len(conns') : conns'[i] = conns[k]
      BY <2>1, <2>2
    <3> DEFINE i == IF k = L THEN p ELSE k
    <3>1. i \in 1..(L - 1) /\ conns'[i] = conns[k]
      BY <1>1, <2>1, <2>3
    <3> QED
      BY <2>3, <3>1
  <2>8. signalled \subseteq signalled' /\ signalled' \subseteq Tasks
    BY <1>1, <2>1, <2>2
  <2> QED
    BY <2>3, <2>5, <2>6, <2>7, <2>8
<1> QED
  BY <1>2, <1>3

-------------------------------------------------------------------------------
(* The effect of a step on each part *)

\* A removal, by command or by a closed event, keeps the table sound.
LEMMA RemoveTable ==
    ASSUME TablePart, NEW n, remove(n), UNCHANGED <<nameOf, life>>
    PROVE  TablePart'
<1>1. /\ conns' \in Seq(Tasks) /\ signalled' \subseteq Tasks
      /\ UniqueNames'
  BY RemoveEffect DEF UniqueNames
<1>2. (\A i \in 1..Len(conns) : life[conns[i]] # "none")'
  BY RemoveEffect DEF TablePart
<1> QED
  BY <1>1, <1>2 DEF TablePart

\* A spawned task with a new name keeps the table sound.
LEMMA AddTable ==
    ASSUME TablePart, NEW t \in Tasks, life[t] = "none", NEW n \in Names, ~exists(n),
           conns' = Append(conns, t), nameOf' = [nameOf EXCEPT ![t] = n],
           life' = [life EXCEPT ![t] = "running"], signalled' = signalled
    PROVE  TablePart'
<1> DEFINE L == Len(conns)
<1>1. /\ conns \in Seq(Tasks) /\ L \in Nat
      /\ nameOf \in [Tasks -> Names] /\ signalled \subseteq Tasks
      /\ life \in [Tasks -> {"none", "running", "closing", "done"}]
      /\ \A i \in 1..L : conns[i] \in Tasks /\ conns[i] # t
  BY DEF TablePart
<1>2. /\ conns' \in Seq(Tasks) /\ Len(conns') = L + 1
      /\ conns'[L + 1] = t /\ \A i \in 1..L : conns'[i] = conns[i]
  BY <1>1
<1>3. /\ nameOf' \in [Tasks -> Names]
      /\ life' \in [Tasks -> {"none", "running", "closing", "done"}]
  BY <1>1
<1>4. /\ nameOf'[t] = n /\ life'[t] = "running"
      /\ \A i \in 1..L : nameOf'[conns[i]] = nameOf[conns[i]] /\ nameOf[conns[i]] # n
      /\ \A u \in Tasks : u # t => life'[u] = life[u]
  BY <1>1 DEF exists
<1>5. UniqueNames'
  <2> SUFFICES ASSUME NEW i \in 1..(L + 1), NEW j \in 1..(L + 1),
                      nameOf'[conns'[i]] = nameOf'[conns'[j]]
               PROVE  i = j
    BY <1>2 DEF UniqueNames
  <2>1. CASE i \in 1..L /\ j \in 1..L
    BY <1>2, <1>4, <2>1 DEF TablePart, UniqueNames
  <2>2. CASE i = L + 1 /\ j \in 1..L
    BY <1>2, <1>4, <2>2
  <2>3. CASE i \in 1..L /\ j = L + 1
    BY <1>2, <1>4, <2>3
  <2> QED
    BY <1>1, <2>1, <2>2, <2>3
<1>6. (\A i \in 1..Len(conns) : life[conns[i]] # "none")'
  <2> SUFFICES ASSUME NEW i \in 1..(L + 1) PROVE life'[conns'[i]] # "none"
    BY <1>2
  <2>1. CASE i = L + 1
    BY <1>2, <1>4, <2>1
  <2>2. CASE i \in 1..L
    BY <1>1, <1>2, <1>4, <2>2 DEF TablePart
  <2> QED
    BY <1>1, <2>1, <2>2
<1> QED
  BY <1>1, <1>2, <1>3, <1>5, <1>6 DEF TablePart

\* What the main loop takes from the channel is a command of a client or the end
\* of a connection, and the rest of the channel stays as it is.
LEMMA TakeEffect ==
    ASSUME EventPart, NEW k \in {"CliCommand", "ConnectionClosed"}, TakeEvent(k)
    PROVE  /\ EventPart'
           /\ mainPc = "loop" /\ ctrlC' = FALSE
           /\ k = "CliCommand" => Head(events).client \in Clients
           /\ \A i \in 1..Len(events) : i # 1 =>
                  /\ i - 1 \in 1..Len(events') /\ events'[i - 1] = events[i]
           /\ events # <<>> /\ Head(events) = events[1] /\ events[1].kind = k
<1>1. events \in Seq(Events) /\ events # <<>> /\ events' = Tail(events)
      /\ Len(events) \in Nat /\ Len(events) <= EventCap /\ Head(events).kind = k
      /\ mainPc = "loop" /\ ctrlC' = FALSE
  BY DEF EventPart, TakeEvent, OtherArm
<1>2. Head(events) \in Events /\ Head(events) = events[1]
  BY <1>1
<1>3. k = "CliCommand" => Head(events).client \in Clients
  BY <1>1, <1>2 DEF Events
<1>4. /\ events' \in Seq(Events) /\ Len(events') = Len(events) - 1
      /\ \A i \in 1..(Len(events) - 1) : events'[i] = events[i + 1]
  BY <1>1
<1>5. EventPart'
  BY <1>1, <1>4, DaemonAssumption DEF EventPart
<1>6. ASSUME NEW i \in 1..Len(events), i # 1
      PROVE  i - 1 \in 1..Len(events') /\ events'[i - 1] = events[i]
  <2>1. i - 1 \in 1..(Len(events) - 1) /\ (i - 1) + 1 = i
    BY <1>1, <1>6
  <2> QED
    BY <1>4, <2>1
<1> QED
  BY <1>1, <1>2, <1>3, <1>5, <1>6

\* A closed event in the channel is still there after another one was taken.
LEMMA TakeKeepsOthers ==
    ASSUME EventPart, NEW k \in {"CliCommand", "ConnectionClosed"}, TakeEvent(k), NEW n,
           NEW i \in 1..Len(events),
           events[i].kind = "ConnectionClosed", events[i].name = n,
           k = "ConnectionClosed" => Head(events).name # n
    PROVE  \E j \in 1..Len(events') :
               events'[j].kind = "ConnectionClosed" /\ events'[j].name = n
<1>1. i # 1
  BY TakeEffect
<1> QED
  BY <1>1, TakeEffect

\* Nothing about the table and the closed events changes when a command is taken
\* that leaves the table alone.
LEMMA CommandKeepsTable ==
    ASSUME TablePart, EventPart, DeadAnnounced, TakeEvent("CliCommand"),
           UNCHANGED tableVars
    PROVE  TablePart' /\ DeadAnnounced'
<1>1. TablePart'
  BY DEF TablePart, tableVars, UniqueNames, Listed
<1>2. DeadAnnounced'
  <2> SUFFICES ASSUME NEW t \in Tasks, Listed(t), life[t] = "done"
               PROVE  \E j \in 1..Len(events') :
                          /\ events'[j].kind = "ConnectionClosed"
                          /\ events'[j].name = nameOf[t]
    BY DEF DeadAnnounced, Listed, tableVars
  <2>1. PICK i \in 1..Len(events) :
            events[i].kind = "ConnectionClosed" /\ events[i].name = nameOf[t]
    BY DEF DeadAnnounced
  <2> QED
    BY <2>1, TakeKeepsOthers
<1> QED
  BY <1>1, <1>2

\* A removal keeps the promise about the dead connections still listed, when the
\* event taken is a command or the closed event of the name removed.
LEMMA RemoveKeepsAnnounced ==
    ASSUME TablePart, EventPart, DeadAnnounced, NEW n, remove(n),
           UNCHANGED <<nameOf, life>>,
           NEW k \in {"CliCommand", "ConnectionClosed"}, TakeEvent(k),
           k = "ConnectionClosed" => Head(events).name = n
    PROVE  DeadAnnounced'
<1> SUFFICES ASSUME NEW t \in Tasks, Listed(t)', life[t] = "done"
             PROVE  \E j \in 1..Len(events') :
                        events'[j].kind = "ConnectionClosed" /\ events'[j].name = nameOf[t]
  BY DEF DeadAnnounced
<1>1. PICK c \in 1..Len(conns') : conns'[c] = t
  BY RemoveEffect DEF Listed, ToSet
<1>2. PICK q \in 1..Len(conns) : conns[q] = t /\ nameOf[t] # n
  BY <1>1, RemoveEffect
<1>3. Listed(t)
  BY <1>2 DEF Listed, ToSet, TablePart
<1>4. PICK i \in 1..Len(events) :
          events[i].kind = "ConnectionClosed" /\ events[i].name = nameOf[t]
  BY <1>3 DEF DeadAnnounced
<1> QED
  BY <1>2, <1>4, TakeKeepsOthers

\* A response of the daemon keeps the clients' part.
LEMMA ReplyCli ==
    ASSUME CliPart, NEW c \in Clients, NEW r \in Responses, Reply(c, r),
           UNCHANGED <<cliPc, cmd, cmds>>
    PROVE  CliPart'
BY DEF CliPart, Reply

\* At the top of the loop no task is being asked, so the table may change.
LEMMA LoopMain ==
    ASSUME MainPart, mainPc = "loop", UNCHANGED mainVars, ctrlC' \in BOOLEAN,
           conns' \in Seq(Tasks)
    PROVE  MainPart'
<1>1. pos' = 0 /\ mainPc' = "loop" /\ asking' = asking
  BY DEF MainPart, mainVars
<1>2. Len(conns') \in Nat
  OBVIOUS
<1> QED
  BY <1>1, <1>2 DEF MainPart

\* A step of the main loop's handlers and of its closed-event arm.
LEMMA MainStep ==
    ASSUME TableInv, handle_daemon_request \/ ConnectionClosed
    PROVE  TableInv'
<1> USE Parts
<1> DEFINE c == Head(events).client
<1>0. TablePart /\ EventPart /\ DeadAnnounced /\ MainPart /\ CliPart
  OBVIOUS
<1>1. ASSUME TakeEvent("CliCommand")
      PROVE  /\ EventPart' /\ c \in Clients /\ mainPc = "loop" /\ ctrlC' = FALSE
             /\ cmd[c] \in Commands
  BY <1>0, <1>1, TakeEffect DEF CliPart
<1>2. CASE Add
  <2>1. TakeEvent("CliCommand") /\ Command.op = "Add" /\ ~exists(Command.name)
    BY <1>2 DEF Add, TakeCommand
  <2>2. Command.name \in Names
    BY <1>1, <2>1 DEF Command, Commands
  <2>3. PICK t \in Tasks :
            /\ life[t] = "none" /\ conns' = Append(conns, t)
            /\ nameOf' = [nameOf EXCEPT ![t] = Command.name]
            /\ life' = [life EXCEPT ![t] = "running"]
            /\ Reply(c, "AddOk")
    BY <1>2 DEF Add
  <2>4. UNCHANGED <<signalled, mainVars, cliPc, cmd, cmds>>
    BY <1>2 DEF Add
  <2>5. TablePart'
    BY <1>0, <2>1, <2>2, <2>3, <2>4, AddTable
  <2>6. DeadAnnounced'
    <3> SUFFICES ASSUME NEW u \in Tasks, Listed(u)', life'[u] = "done"
                 PROVE  \E j \in 1..Len(events') :
                            /\ events'[j].kind = "ConnectionClosed"
                            /\ events'[j].name = nameOf'[u]
      BY DEF DeadAnnounced
    <3>1. u # t /\ life[u] = "done" /\ nameOf'[u] = nameOf[u]
      BY <1>0, <2>3 DEF TablePart
    <3>2. PICK q \in 1..(Len(conns) + 1) : conns'[q] = u
      BY <1>0, <2>3 DEF Listed, ToSet, TablePart
    <3>3. q \in 1..Len(conns) /\ conns[q] = u
      BY <1>0, <2>3, <3>1, <3>2 DEF TablePart
    <3>4. Listed(u)
      BY <1>0, <3>3 DEF Listed, ToSet, TablePart
    <3>5. PICK i \in 1..Len(events) :
              events[i].kind = "ConnectionClosed" /\ events[i].name = nameOf[u]
      BY <1>0, <3>1, <3>4 DEF DeadAnnounced
    <3> QED
      BY <1>0, <2>1, <3>1, <3>5, TakeKeepsOthers
  <2>7. MainPart'
    BY <1>0, <1>1, <2>1, <2>4, <2>5, LoopMain DEF TablePart
  <2>8. CliPart'
    BY <1>0, <1>1, <2>1, <2>3, <2>4, ReplyCli DEF Responses
  <2> QED
    BY <1>1, <2>1, <2>5, <2>6, <2>7, <2>8
<1>3. ASSUME TakeEvent("CliCommand"), NEW r \in Responses, Reply(c, r),
             UNCHANGED <<tableVars, mainVars, cliPc, cmd, cmds>>
      PROVE  TableInv'
  <2>1. TablePart' /\ DeadAnnounced'
    BY <1>0, <1>3, CommandKeepsTable
  <2>2. MainPart'
    BY <1>0, <1>1, <1>3, <2>1, LoopMain DEF TablePart
  <2>3. CliPart'
    BY <1>0, <1>1, <1>3, ReplyCli
  <2> QED
    BY <1>1, <1>3, <2>1, <2>2, <2>3
<1>4. CASE AddFailed
  BY <1>3, <1>4 DEF AddFailed, TakeCommand, Responses
<1>5. CASE RemoveNamed
  <2>1. /\ TakeEvent("CliCommand") /\ remove(Command.name)
        /\ UNCHANGED <<nameOf, life, mainVars, cliPc, cmd, cmds>>
        /\ \E r \in Responses : Reply(c, r)
    BY <1>5 DEF RemoveNamed, TakeCommand, Responses
  <2>2. TablePart'
    BY <1>0, <2>1, RemoveTable
  <2>3. DeadAnnounced'
    BY <1>0, <2>1, RemoveKeepsAnnounced
  <2>4. MainPart'
    BY <1>0, <1>1, <2>1, <2>2, LoopMain DEF TablePart
  <2>5. CliPart'
    BY <1>0, <1>1, <2>1, ReplyCli
  <2> QED
    BY <1>1, <2>1, <2>2, <2>3, <2>4, <2>5
<1>6. ASSUME TakeEvent("CliCommand"), UNCHANGED <<tableVars, cliVars>>,
             mainPc' \in {"status", "reset"}, asking' = <<c>>, pos' \in 1..Len(conns)
      PROVE  TableInv'
  <2>1. TablePart' /\ DeadAnnounced'
    BY <1>0, <1>6, CommandKeepsTable
  <2>2. MainPart'
    <3>1. conns' = conns /\ Len(conns) \in Nat
      BY <1>0, <1>6 DEF tableVars, TablePart
    <3>2. asking' \in {s \in Seq(Clients) : Len(s) <= 1} /\ asking' # <<>>
      BY <1>1, <1>6
    <3>3. pos' \in 0..Len(conns) /\ pos' # 0
      BY <1>6, <3>1
    <3> QED
      BY <1>1, <1>6, <3>1, <3>2, <3>3 DEF MainPart
  <2>3. CliPart'
    BY <1>0, <1>6 DEF CliPart, cliVars
  <2> QED
    BY <1>1, <1>6, <2>1, <2>2, <2>3
<1>7. CASE ListBegin
  <2>1. 1 \in 1..Len(conns)
    BY <1>0, <1>7 DEF ListBegin, TablePart
  <2> QED
    BY <1>6, <1>7, <2>1 DEF ListBegin, TakeCommand
<1>8. CASE ListEmpty
  BY <1>3, <1>8 DEF ListEmpty, TakeCommand, Responses
<1>9. CASE ResetBegin
  <2>1. Position(Command.name) \in 1..Len(conns)
    BY <1>0, <1>9, PositionFound DEF ResetBegin
  <2> QED
    BY <1>6, <1>9, <2>1 DEF ResetBegin, TakeCommand
<1>10. CASE ResetUnknown
  BY <1>3, <1>10 DEF ResetUnknown, TakeCommand, Responses
<1>11. ASSUME UNCHANGED <<tableVars, events, ctrlC, cliPc, cmd, cmds>>, MainPart', CliPart'
       PROVE  TableInv'
  <2>1. TablePart'
    BY <1>0, <1>11 DEF TablePart, tableVars, UniqueNames, Listed
  <2>2. EventPart' /\ DeadAnnounced'
    BY <1>0, <1>11 DEF EventPart, DeadAnnounced, tableVars, Listed
  <2> QED
    BY <1>11, <2>1, <2>2
<1>12. ASSUME mainPc \in {"status", "reset"}, NEW r \in Responses, Reply(asking[1], r),
              mainPc' = "loop" /\ asking' = <<>> /\ pos' = 0,
              UNCHANGED <<tableVars, events, ctrlC, cliPc, cmd, cmds>>
       PROVE  TableInv'
  <2>1. asking[1] \in Clients
    BY <1>0, <1>12 DEF MainPart
  <2>2. CliPart'
    BY <1>0, <1>12, <2>1, ReplyCli
  <2>3. MainPart'
    BY <1>0, <1>12 DEF MainPart, tableVars
  <2> QED
    BY <1>11, <1>12, <2>2, <2>3
<1>13. CASE ListStatus
  <2>1. CASE pos = Len(conns) /\ mainPc' = "loop"
    BY <1>12, <1>13, <2>1 DEF ListStatus, Responses
  <2>2. CASE /\ pos < Len(conns) /\ pos' = pos + 1
             /\ UNCHANGED <<mainPc, asking, resp>>
    <3>1. UNCHANGED <<tableVars, events, ctrlC, cliPc, cmd, cmds>>
      BY <1>13 DEF ListStatus
    <3>2. conns' = conns /\ Len(conns) \in Nat /\ mainPc = "status"
      BY <1>0, <1>13, <3>1 DEF tableVars, TablePart, ListStatus
    <3>3. MainPart'
      BY <1>0, <2>2, <3>1, <3>2 DEF MainPart
    <3>4. CliPart'
      BY <1>0, <2>2, <3>1 DEF CliPart
    <3> QED
      BY <1>11, <3>1, <3>3, <3>4
  <2> QED
    BY <1>13, <2>1, <2>2 DEF ListStatus
<1>14. CASE ResetReply
  BY <1>12, <1>14 DEF ResetReply, Responses
<1>15. CASE ConnectionClosed
  <2>1. /\ TakeEvent("ConnectionClosed") /\ remove(Head(events).name)
        /\ UNCHANGED <<nameOf, life, mainVars, cliVars>>
    BY <1>15 DEF ConnectionClosed
  <2>2. EventPart' /\ mainPc = "loop" /\ ctrlC' = FALSE
    BY <1>0, <2>1, TakeEffect
  <2>3. TablePart'
    BY <1>0, <2>1, RemoveTable
  <2>4. DeadAnnounced'
    BY <1>0, <2>1, RemoveKeepsAnnounced
  <2>5. MainPart'
    BY <1>0, <2>1, <2>2, <2>3, LoopMain DEF TablePart
  <2>6. CliPart'
    BY <1>0, <2>1 DEF CliPart, cliVars
  <2> QED
    BY <2>2, <2>3, <2>4, <2>5, <2>6
<1> QED
  BY <1>2, <1>4, <1>5, <1>7, <1>8, <1>9, <1>10, <1>13, <1>14, <1>15
     DEF handle_daemon_request, TakeRequest

\* A step that leaves the table, the channel and the main loop's place alone.
LEMMA QuietStep ==
    ASSUME TablePart, EventPart, DeadAnnounced, MainPart,
           UNCHANGED <<tableVars, events, mainVars>>, ctrlC' \in BOOLEAN
    PROVE  TablePart' /\ EventPart' /\ DeadAnnounced' /\ MainPart'
<1>1. TablePart'
  BY DEF TablePart, tableVars, UniqueNames, Listed
<1>2. EventPart' /\ DeadAnnounced'
  BY DEF EventPart, DeadAnnounced, tableVars, Listed
<1>3. MainPart'
  BY DEF MainPart, tableVars, mainVars
<1> QED
  BY <1>1, <1>2, <1>3

\* A message appended to the channel keeps what was announced.
LEMMA AppendEvent ==
    ASSUME EventPart, NEW e \in Events, Len(events) < EventCap, events' = Append(events, e)
    PROVE  /\ EventPart' /\ Len(events') = Len(events) + 1
           /\ events'[Len(events) + 1] = e
           /\ \A i \in 1..Len(events) : i \in 1..Len(events') /\ events'[i] = events[i]
<1>1. events \in Seq(Events) /\ Len(events) \in Nat
  BY DEF EventPart
<1>2. /\ events' \in Seq(Events) /\ Len(events') = Len(events) + 1
      /\ events'[Len(events) + 1] = e /\ \A i \in 1..Len(events) : events'[i] = events[i]
  BY <1>1
<1> QED
  BY <1>1, <1>2, DaemonAssumption DEF EventPart

\* A connection task closes, or announces its end and is done.
LEMMA TaskStep == ASSUME TableInv, NEW t \in Tasks, Task(t) PROVE TableInv'
<1> USE Parts
<1>0. TablePart /\ EventPart /\ DeadAnnounced /\ MainPart /\ CliPart
  OBVIOUS
<1>1. UNCHANGED <<conns, nameOf, signalled, mainVars, ctrlC, cliVars>>
  BY DEF Task, TaskCloses, TaskEnds, TaskElsewhere
<1>2. /\ life' \in [Tasks -> {"none", "running", "closing", "done"}]
      /\ life[t] \in {"running", "closing"} /\ life'[t] \in {"closing", "done"}
      /\ \A u \in Tasks : u # t => life'[u] = life[u]
  BY <1>0 DEF Task, TaskCloses, TaskEnds, TablePart
<1>3. TablePart'
  <2>1. UniqueNames'
    BY <1>0, <1>1 DEF TablePart, UniqueNames
  <2>2. (\A i \in 1..Len(conns) : life[conns[i]] # "none")'
    BY <1>0, <1>1, <1>2 DEF TablePart
  <2> QED
    BY <1>0, <1>1, <1>2, <2>1, <2>2 DEF TablePart
<1>4. MainPart' /\ CliPart'
  BY <1>0, <1>1 DEF MainPart, CliPart, mainVars, cliVars
<1>5. CASE TaskCloses(t)
  <2>1. EventPart'
    BY <1>0, <1>5 DEF EventPart, TaskCloses
  <2>2. DeadAnnounced'
    BY <1>0, <1>1, <1>5 DEF TaskCloses, DeadAnnounced, Listed, TablePart
  <2> QED
    BY <1>3, <1>4, <2>1, <2>2
<1>6. CASE TaskEnds(t)
  <2> DEFINE e == [kind |-> "ConnectionClosed", name |-> nameOf[t]]
  <2>1. /\ e \in Events /\ Len(events) < EventCap /\ events' = Append(events, e)
        /\ Len(events) \in Nat
    BY <1>0, <1>6 DEF TaskEnds, Events, TablePart, EventPart
  <2>2. e.kind = "ConnectionClosed" /\ e.name = nameOf[t]
    OBVIOUS
  <2> HIDE DEF e
  <2>3. /\ EventPart' /\ Len(events') = Len(events) + 1
        /\ events'[Len(events) + 1] = e
        /\ \A i \in 1..Len(events) : i \in 1..Len(events') /\ events'[i] = events[i]
    BY <1>0, <2>1, AppendEvent
  <2>4. DeadAnnounced'
    <3> SUFFICES ASSUME NEW u \in Tasks, Listed(u), life'[u] = "done"
                 PROVE  \E i \in 1..Len(events') :
                            /\ events'[i].kind = "ConnectionClosed"
                            /\ events'[i].name = nameOf[u]
      BY <1>1 DEF DeadAnnounced, Listed
    <3>1. CASE u = t
      BY <2>1, <2>2, <2>3, <3>1
    <3>2. CASE u # t
      BY <1>0, <1>2, <2>3, <3>2 DEF DeadAnnounced
    <3> QED
      BY <3>1, <3>2
  <2> QED
    BY <1>3, <1>4, <2>3, <2>4
<1> QED
  BY <1>5, <1>6 DEF Task

\* A client connects, asks, is answered or leaves.
LEMMA ClientStep ==
    ASSUME TableInv, NEW c \in Clients, CliConnect(c) \/ handle_stream(c) \/ Accept(c)
    PROVE  TableInv'
<1> USE Parts
<1>0. TablePart /\ EventPart /\ DeadAnnounced /\ MainPart /\ CliPart
  OBVIOUS
<1>1. CASE CliSend(c)
  <2> DEFINE e == [kind |-> "CliCommand", client |-> c]
  <2>1. e \in Events /\ Len(events) < EventCap /\ events' = Append(events, e)
    BY <1>1 DEF CliSend, Events
  <2> HIDE DEF e
  <2>2. /\ EventPart'
        /\ \A i \in 1..Len(events) : i \in 1..Len(events') /\ events'[i] = events[i]
    BY <1>0, <2>1, AppendEvent
  <2>3. UNCHANGED <<conns, nameOf, life, signalled, mainPc, asking, pos, ctrlC>>
    BY <1>1 DEF CliSend, CliElsewhere, tableVars, mainVars
  <2>4. TablePart' /\ MainPart'
    BY <1>0, <2>3 DEF TablePart, MainPart, UniqueNames, Listed
  <2>5. DeadAnnounced'
    BY <1>0, <2>2, <2>3 DEF DeadAnnounced, Listed
  <2>6. CliPart'
    BY <1>0, <1>1 DEF CliPart, CliSend
  <2> QED
    BY <2>2, <2>4, <2>5, <2>6
<1>2. CASE CliConnect(c) \/ CliRequest(c) \/ CliResponse(c) \/ CliLeaves(c) \/ Accept(c)
  <2>1. UNCHANGED <<tableVars, events, mainVars>> /\ ctrlC' \in BOOLEAN
    BY <1>0, <1>2 DEF CliConnect, CliRequest, CliResponse, CliLeaves, Accept, OtherArm,
       CliElsewhere, MainPart
  <2>2. CliPart'
    <3>1. CASE CliConnect(c)
      BY <1>0, <3>1 DEF CliPart, CliConnect
    <3>2. CASE CliRequest(c)
      BY <1>0, <3>2 DEF CliPart, CliRequest, Responses
    <3>3. CASE CliResponse(c)
      BY <1>0, <3>3 DEF CliPart, CliResponse
    <3>4. CASE CliLeaves(c)
      BY <1>0, <3>4 DEF CliPart, CliLeaves
    <3>5. CASE Accept(c)
      BY <1>0, <3>5 DEF CliPart, Accept
    <3> QED
      BY <1>2, <3>1, <3>2, <3>3, <3>4, <3>5
  <2> QED
    BY <1>0, <2>1, <2>2, QuietStep
<1> QED
  BY <1>1, <1>2 DEF handle_stream

-------------------------------------------------------------------------------
(* The theorems *)

\* The invariant holds of the empty daemon.
LEMMA TableInit == Init => TableInv
<1> SUFFICES ASSUME Init PROVE TableInv
  OBVIOUS
<1>1. TablePart
  BY DaemonAssumption DEF Init, TablePart, UniqueNames
<1>2. EventPart /\ DeadAnnounced
  BY DaemonAssumption DEF Init, EventPart, DeadAnnounced
<1>3. MainPart
  <2>1. conns = <<>> /\ asking = <<>> /\ pos = 0 /\ mainPc = "loop" /\ ctrlC = FALSE
    BY DEF Init
  <2>2. asking \in Seq(Clients) /\ Len(asking) = 0 /\ Len(conns) = 0
    BY <2>1
  <2>3. asking \in {s \in Seq(Clients) : Len(s) <= 1}
    BY <2>2
  <2>4. pos \in 0..Len(conns)
    BY <2>1, <2>2
  <2>5. ctrlC \in BOOLEAN
    BY <2>1, Zenon
  <2> QED
    BY <2>1, <2>3, <2>4, <2>5 DEF MainPart
<1>4. CliPart
  BY DEF Init, CliPart, Commands, Responses
<1> QED
  BY <1>1, <1>2, <1>3, <1>4, Parts

\* Every step of the daemon, of its tasks and of its clients preserves it.
LEMMA TableNext == TableInv /\ [Next]_vars => TableInv'
<1> SUFFICES ASSUME TableInv, [Next]_vars PROVE TableInv'
  OBVIOUS
<1>0. TablePart /\ EventPart /\ DeadAnnounced /\ MainPart /\ CliPart
  BY Parts
<1>1. CASE handle_daemon_request \/ ConnectionClosed
  BY <1>1, MainStep
<1>2. CASE \E c \in Clients : Accept(c) \/ CliConnect(c) \/ handle_stream(c)
  BY <1>2, ClientStep
<1>3. CASE \E t \in Tasks : Task(t)
  BY <1>3, TaskStep
<1>4. CASE Exit
  <2>1. TablePart' /\ EventPart' /\ DeadAnnounced'
    BY <1>0, <1>4 DEF Exit, TablePart, EventPart, DeadAnnounced, tableVars, UniqueNames, Listed
  <2>2. MainPart' /\ CliPart'
    BY <1>0, <1>4 DEF Exit, MainPart, CliPart, tableVars, cliVars
  <2> QED
    BY <2>1, <2>2, Parts
<1>5. CASE SigInt \/ UNCHANGED vars
  <2>1. UNCHANGED <<tableVars, events, mainVars, cliVars>> /\ ctrlC' \in BOOLEAN
    BY <1>0, <1>5 DEF SigInt, vars, MainPart
  <2>2. CliPart'
    BY <1>0, <2>1 DEF CliPart, cliVars
  <2> QED
    BY <1>0, <2>1, <2>2, QuietStep, Parts
<1> QED
  BY <1>1, <1>2, <1>3, <1>4, <1>5 DEF Next, main, Finished

\* The state of the daemon is well typed; in particular the index that list and
\* reset use while they wait for a task stays an index of the table.
THEOREM DaemonTypeCorrect == Spec => []TypeOK
<1>1. TableInv => TypeOK
  BY DEF TableInv
<1> QED
  BY <1>1, TableInit, TableNext, PTL DEF Spec

\* A name designates one connection, whatever clients ask and tasks do: the check
\* in the Add arm and State::remove suffice.
THEOREM UniqueNamesAlways == Spec => []UniqueNames
<1>1. TableInv => UniqueNames
  BY DEF TableInv
<1> QED
  BY <1>1, TableInit, TableNext, PTL DEF Spec

\* A finished task that is still listed has its closed event in the channel.
THEOREM DeadAnnouncedAlways == Spec => []DeadAnnounced
<1>1. TableInv => DeadAnnounced
  BY DEF TableInv
<1> QED
  BY <1>1, TableInit, TableNext, PTL DEF Spec

-------------------------------------------------------------------------------
(* Commands and their responses *)

\* The command taken was its client's only one; the others stay in the channel.
LEMMA TakeCommandQueued ==
    ASSUME EventPart, ReplyInv, TakeEvent("CliCommand"), NEW c \in Clients
    PROVE  /\ \A i, j \in Queued(c)' : i = j
           /\ c = Head(events).client => Queued(c) # {} /\ Queued(c)' = {}
           /\ c # Head(events).client => (Queued(c)' # {} <=> Queued(c) # {})
<1>1. /\ events \in Seq(Events) /\ events # <<>> /\ events' = Tail(events)
      /\ Len(events) \in Nat /\ events[1].kind = "CliCommand" /\ Head(events) = events[1]
  BY TakeEffect DEF EventPart, TakeEvent
<1>2. /\ Len(events') = Len(events) - 1 /\ Len(events) >= 1
      /\ \A i \in 1..(Len(events) - 1) : events'[i] = events[i + 1]
  BY <1>1
<1>3. \A i, j \in Queued(c) : i = j
  BY DEF ReplyInv, AnsweredOnce
<1>4. \A i \in Queued(c)' : i \in Nat /\ i + 1 \in Queued(c)
  BY <1>1, <1>2 DEF Queued
<1>5. \A i \in Queued(c) : i \in Nat /\ (i # 1 => i - 1 \in Queued(c)')
  <2> SUFFICES ASSUME NEW i \in Queued(c) PROVE i \in Nat /\ (i # 1 => i - 1 \in Queued(c)')
    OBVIOUS
  <2>1. i \in 1..Len(events) /\ events[i].kind = "CliCommand" /\ events[i].client = c
    BY DEF Queued
  <2>2. i # 1 => i - 1 \in 1..(Len(events) - 1) /\ (i - 1) + 1 = i
    BY <1>1, <2>1
  <2> QED
    BY <1>2, <2>1, <2>2 DEF Queued
<1>6. \A i, j \in Queued(c)' : i = j
  BY <1>3, <1>4
<1>7. 1 \in Queued(c) <=> c = Head(events).client
  BY <1>1, <1>2 DEF Queued
<1>8. c = Head(events).client => Queued(c)' = {}
  <2> SUFFICES ASSUME 1 \in Queued(c), NEW i \in Queued(c)' PROVE FALSE
    BY <1>7
  <2>1. i \in Nat /\ i + 1 \in Queued(c) /\ i \in 1..Len(events')
    BY <1>4 DEF Queued
  <2> QED
    BY <1>2, <1>3, <2>1
<1> QED
  BY <1>4, <1>5, <1>6, <1>7, <1>8

\* A closed event taken leaves every command where it is.
LEMMA TakeClosedQueued ==
    ASSUME EventPart, ReplyInv, TakeEvent("ConnectionClosed"), NEW c \in Clients
    PROVE  /\ \A i, j \in Queued(c)' : i = j
           /\ Queued(c)' # {} <=> Queued(c) # {}
<1>1. /\ events \in Seq(Events) /\ events # <<>> /\ events' = Tail(events)
      /\ Len(events) \in Nat /\ events[1].kind = "ConnectionClosed"
  BY TakeEffect DEF EventPart, TakeEvent
<1>2. /\ Len(events') = Len(events) - 1 /\ Len(events) >= 1
      /\ \A i \in 1..(Len(events) - 1) : events'[i] = events[i + 1]
  BY <1>1
<1>3. \A i, j \in Queued(c) : i = j
  BY DEF ReplyInv, AnsweredOnce
<1>4. \A i \in Queued(c)' : i \in Nat /\ i + 1 \in Queued(c)
  BY <1>1, <1>2 DEF Queued
<1>5. \A i \in Queued(c) : i - 1 \in Queued(c)'
  <2> SUFFICES ASSUME NEW i \in Queued(c) PROVE i - 1 \in Queued(c)'
    OBVIOUS
  <2>1. i \in 1..Len(events) /\ events[i].kind = "CliCommand" /\ events[i].client = c
    BY DEF Queued
  <2>2. i - 1 \in 1..(Len(events) - 1) /\ (i - 1) + 1 = i
    BY <1>1, <2>1
  <2> QED
    BY <1>2, <2>1, <2>2 DEF Queued
<1>6. \A i, j \in Queued(c)' : i = j
  BY <1>3, <1>4
<1> QED
  BY <1>4, <1>5, <1>6

\* Appending an event adds its client's command and no other.
LEMMA AppendQueued ==
    ASSUME EventPart, NEW e \in Events, Len(events) < EventCap, events' = Append(events, e),
           NEW c \in Clients
    PROVE  Queued(c)' = Queued(c) \cup
               (IF e.kind = "CliCommand" /\ e.client = c THEN {Len(events) + 1} ELSE {})
<1>1. Len(events) \in Nat /\ events \in Seq(Events)
  BY DEF EventPart
<1>2. /\ Len(events') = Len(events) + 1 /\ events'[Len(events) + 1] = e
      /\ \A i \in 1..Len(events) : events'[i] = events[i]
  BY AppendEvent
<1> QED
  BY <1>1, <1>2 DEF Queued

\* A command that is taken and answered at once: its client stops waiting.
LEMMA AnswerAtOnce ==
    ASSUME EventPart, CliPart, ReplyInv, TakeEvent("CliCommand"),
           NEW r \in Responses \ {"None"}, Reply(Head(events).client, r),
           UNCHANGED <<mainVars, cliPc>>
    PROVE  ReplyInv'
<1>0. PICK h \in Clients : h = Head(events).client
  BY TakeEffect
<1>1. mainPc = "loop" /\ asking = <<>> /\ asking' = <<>> /\ mainPc' = "loop"
  BY TakeEffect DEF ReplyInv, mainVars
<1>2. resp' = [resp EXCEPT ![h] = r] /\ resp \in [Clients -> Responses] /\ cliPc' = cliPc
  BY <1>0 DEF Reply, CliPart
<1>3. Queued(h) # {} /\ Queued(h)' = {} /\ cliPc[h] = "waiting"
  BY <1>0, TakeCommandQueued DEF ReplyInv, AnsweredOnce
<1>4. ASSUME NEW c \in Clients, c # h
      PROVE  /\ \A i, j \in Queued(c)' : i = j
             /\ Queued(c)' # {} <=> Queued(c) # {}
             /\ resp'[c] = resp[c]
  BY <1>0, <1>2, <1>4, TakeCommandQueued
<1>5. \A c \in Clients : asking' # <<c>> /\ asking # <<c>>
  BY <1>1
<1>6. AnsweredOnce'
  <2>1. resp'[h] = r /\ r # "None"
    BY <1>1, <1>2
  <2> QED
    BY <1>2, <1>3, <1>4, <1>5, <2>1 DEF ReplyInv, AnsweredOnce
<1>7. \A c \in Clients : cliPc'[c] = "sending" => resp'[c] = "None"
  BY <1>2, <1>3, <1>4 DEF ReplyInv
<1> QED
  BY <1>1, <1>6, <1>7 DEF ReplyInv

\* list or reset: the command moves from the channel into the loop's hands.
LEMMA BeginAwait ==
    ASSUME EventPart, ReplyInv, TakeEvent("CliCommand"),
           mainPc' \in {"status", "reset"}, asking' = <<Head(events).client>>,
           UNCHANGED <<cliPc, resp>>
    PROVE  ReplyInv'
<1>0. PICK h \in Clients : h = Head(events).client
  BY TakeEffect
<1>1. asking = <<>> /\ asking' = <<h>>
  BY <1>0, TakeEffect DEF ReplyInv
<1>2. Queued(h) # {} /\ Queued(h)' = {}
  BY <1>0, TakeCommandQueued
<1>3. ASSUME NEW c \in Clients, c # h
      PROVE  /\ \A i, j \in Queued(c)' : i = j
             /\ Queued(c)' # {} <=> Queued(c) # {}
  BY <1>0, <1>3, TakeCommandQueued
<1>4. \A c \in Clients : asking # <<c>> /\ (asking' = <<c>> <=> c = h)
  BY <1>1
<1>5. AnsweredOnce'
  BY <1>1, <1>2, <1>3, <1>4 DEF ReplyInv, AnsweredOnce
<1> QED
  BY <1>5 DEF ReplyInv

\* The await inside the handler ends: the command in hand is answered.
LEMMA AnswerAwaited ==
    ASSUME MainPart, CliPart, ReplyInv, mainPc \in {"status", "reset"},
           NEW r \in Responses \ {"None"}, Reply(asking[1], r),
           mainPc' = "loop", asking' = <<>>, UNCHANGED <<events, cliPc>>
    PROVE  ReplyInv'
<1> DEFINE h == asking[1]
<1>1. h \in Clients /\ asking = <<h>>
  <2>1. asking \in Seq(Clients) /\ Len(asking) <= 1 /\ asking # <<>>
    BY DEF MainPart
  <2>2. Head(asking) \in Clients /\ Tail(asking) \in Seq(Clients) /\ Head(asking) = asking[1]
        /\ Len(Tail(asking)) = Len(asking) - 1 /\ Len(asking) \in Nat
    BY <2>1
  <2>3. Len(asking) = 1
    BY <2>1, <2>2
  <2>4. asking = <<asking[1]>>
    BY <2>1, <2>3
  <2> QED
    BY <2>2, <2>4
<1>2. resp' = [resp EXCEPT ![h] = r] /\ resp \in [Clients -> Responses] /\ cliPc' = cliPc
  BY DEF Reply, CliPart
<1>3. \A c \in Clients : Queued(c)' = Queued(c)
  BY DEF Queued
<1>4. \A c \in Clients : asking' # <<c>> /\ (asking = <<c>> <=> c = h)
  <2>1. asking' = <<>>
    OBVIOUS
  <2> HIDE DEF h
  <2> QED BY <1>1, <2>1
<1>5. cliPc[h] = "waiting" /\ Queued(h) = {}
  BY <1>1 DEF ReplyInv, AnsweredOnce
<1>6. resp'[h] # "None" /\ \A c \in Clients : c # h => resp'[c] = resp[c]
  BY <1>1, <1>2
<1>7. AnsweredOnce'
  <2> HIDE DEF h
  <2> QED BY <1>1, <1>2, <1>3, <1>4, <1>5, <1>6 DEF ReplyInv, AnsweredOnce
<1>8. \A c \in Clients : cliPc'[c] = "sending" => resp'[c] = "None"
  <2> HIDE DEF h
  <2> QED BY <1>2, <1>5, <1>6 DEF ReplyInv
<1> QED
  BY <1>7, <1>8 DEF ReplyInv

\* Steps of the main loop.
LEMMA MainReplies ==
    ASSUME TableInv, ReplyInv, handle_daemon_request \/ ConnectionClosed
    PROVE  ReplyInv'
<1>0. EventPart /\ MainPart /\ CliPart
  BY Parts
<1>1. CASE Add \/ AddFailed \/ RemoveNamed \/ ListEmpty \/ ResetUnknown
  <2>1. /\ TakeEvent("CliCommand") /\ UNCHANGED <<mainVars, cliPc>>
        /\ \E r \in Responses \ {"None"} : Reply(Head(events).client, r)
    BY <1>1 DEF Add, AddFailed, RemoveNamed, ListEmpty, ResetUnknown, TakeCommand, Responses
  <2> QED
    BY <1>0, <2>1, AnswerAtOnce
<1>2. CASE ListBegin \/ ResetBegin
  <2>1. /\ TakeEvent("CliCommand") /\ UNCHANGED <<cliPc, resp>>
        /\ mainPc' \in {"status", "reset"} /\ asking' = <<Head(events).client>>
    BY <1>2 DEF ListBegin, ResetBegin, TakeCommand, cliVars
  <2> QED
    BY <1>0, <2>1, BeginAwait
<1>3. CASE ListStatus \/ ResetReply
  <2>1. CASE UNCHANGED <<mainPc, asking, resp>>
    <3>1. UNCHANGED <<events, mainPc, asking, resp, cliPc>>
      BY <1>3, <2>1 DEF ListStatus, ResetReply
    <3> QED
      BY <3>1 DEF ReplyInv, AnsweredOnce, Queued
  <2>2. CASE mainPc' = "loop"
    <3>1. /\ mainPc \in {"status", "reset"} /\ asking' = <<>> /\ UNCHANGED <<events, cliPc>>
          /\ \E r \in Responses \ {"None"} : Reply(asking[1], r)
      BY <1>3, <2>2 DEF ListStatus, ResetReply, Responses
    <3> QED
      BY <1>0, <2>2, <3>1, AnswerAwaited
  <2> QED
    BY <1>3, <2>1, <2>2 DEF ListStatus, ResetReply
<1>4. CASE ConnectionClosed
  <2>1. TakeEvent("ConnectionClosed") /\ UNCHANGED <<mainPc, asking, resp, cliPc>>
    BY <1>4 DEF ConnectionClosed, mainVars, cliVars
  <2>2. \A c \in Clients : /\ \A i, j \in Queued(c)' : i = j
                           /\ Queued(c)' # {} <=> Queued(c) # {}
    BY <1>0, <2>1, TakeClosedQueued
  <2> QED
    BY <2>1, <2>2 DEF ReplyInv, AnsweredOnce
<1> QED
  BY <1>1, <1>2, <1>3, <1>4 DEF handle_daemon_request, TakeRequest

\* Steps of the clients and their streams.
LEMMA ClientReplies ==
    ASSUME TableInv, ReplyInv, NEW c \in Clients,
           CliConnect(c) \/ handle_stream(c) \/ Accept(c)
    PROVE  ReplyInv'
<1>0. EventPart /\ MainPart /\ CliPart
  BY Parts
<1>1. CASE CliSend(c)
  <2> DEFINE e == [kind |-> "CliCommand", client |-> c]
  <2>1. /\ e \in Events /\ Len(events) < EventCap /\ events' = Append(events, e)
        /\ e.kind = "CliCommand" /\ e.client = c
    BY <1>1 DEF CliSend, Events
  <2>2. UNCHANGED <<mainPc, asking, resp>> /\ cliPc[c] = "sending"
        /\ cliPc' = [cliPc EXCEPT ![c] = "waiting"]
    BY <1>1 DEF CliSend, CliElsewhere, mainVars
  <2> HIDE DEF e
  <2>3. \A d \in Clients : d # c => Queued(d)' = Queued(d)
    BY <1>0, <2>1, AppendQueued
  <2>4. Queued(c) = {} /\ asking # <<c>> /\ resp[c] = "None"
    BY <2>2 DEF ReplyInv, AnsweredOnce
  <2>5. Queued(c)' = {Len(events) + 1}
    BY <1>0, <2>1, <2>4, AppendQueued
  <2>6. cliPc'[c] = "waiting" /\ \A d \in Clients : d # c => cliPc'[d] = cliPc[d]
    BY <1>0, <2>2 DEF CliPart
  <2>7. AnsweredOnce'
    BY <2>2, <2>3, <2>4, <2>5, <2>6 DEF ReplyInv, AnsweredOnce
  <2> QED
    BY <2>2, <2>4, <2>6, <2>7 DEF ReplyInv
<1>2. CASE CliConnect(c) \/ CliRequest(c) \/ CliResponse(c) \/ CliLeaves(c) \/ Accept(c)
  <2>1. UNCHANGED <<events, mainPc, asking>>
    BY <1>2 DEF CliConnect, CliRequest, CliResponse, CliLeaves, Accept, CliElsewhere, mainVars
  <2>2. \A d \in Clients : Queued(d)' = Queued(d)
    BY <2>1 DEF Queued
  <2>3. \A d \in Clients : d # c => cliPc'[d] = cliPc[d] /\ resp'[d] = resp[d]
    BY <1>0, <1>2 DEF CliPart, CliConnect, CliRequest, CliResponse, CliLeaves, Accept
  <2>4. /\ ~(cliPc[c] = "waiting" /\ resp[c] = "None")
        /\ cliPc'[c] # "waiting" /\ (cliPc'[c] = "sending" => resp'[c] = "None")
    BY <1>0, <1>2 DEF CliPart, CliConnect, CliRequest, CliResponse, CliLeaves, Accept
  <2>5. AnsweredOnce'
    BY <2>1, <2>2, <2>3, <2>4 DEF ReplyInv, AnsweredOnce
  <2> QED
    BY <2>1, <2>3, <2>4, <2>5 DEF ReplyInv
<1> QED
  BY <1>1, <1>2 DEF handle_stream

\* No client is owed anything in the beginning, and no step loses or doubles a
\* command.
LEMMA RepliesKept ==
    /\ Init => ReplyInv
    /\ TableInv /\ ReplyInv /\ [Next]_vars => ReplyInv'
<1>1. ASSUME Init PROVE ReplyInv
  <2>1. /\ events = <<>> /\ asking = <<>> /\ \A c \in Clients : cliPc[c] = "off"
    BY <1>1 DEF Init
  <2>2. \A c \in Clients : Queued(c) = {} /\ asking # <<c>>
    BY <2>1 DEF Queued
  <2> QED
    BY <2>1, <2>2 DEF ReplyInv, AnsweredOnce
<1>2. ASSUME TableInv, ReplyInv, [Next]_vars PROVE ReplyInv'
  <2>1. CASE handle_daemon_request \/ ConnectionClosed
    BY <1>2, <2>1, MainReplies
  <2>2. CASE \E c \in Clients : Accept(c) \/ CliConnect(c) \/ handle_stream(c)
    BY <1>2, <2>2, ClientReplies
  <2>3. CASE \E t \in Tasks : TaskEnds(t)
    <3>1. PICK t \in Tasks : TaskEnds(t)
      BY <2>3
    <3> DEFINE e == [kind |-> "ConnectionClosed", name |-> nameOf[t]]
    <3>2. /\ e \in Events /\ Len(events) < EventCap /\ events' = Append(events, e)
          /\ e.kind = "ConnectionClosed" /\ EventPart
      BY <1>2, <3>1, Parts DEF TaskEnds, Events, TablePart
    <3> HIDE DEF e
    <3>3. \A c \in Clients : Queued(c)' = Queued(c)
      BY <3>2, AppendQueued
    <3>4. UNCHANGED <<mainPc, asking, resp, cliPc>>
      BY <3>1 DEF TaskEnds, TaskElsewhere, mainVars, cliVars
    <3> QED
      BY <1>2, <3>3, <3>4 DEF ReplyInv, AnsweredOnce
  <2>4. CASE Exit \/ SigInt \/ (\E t \in Tasks : TaskCloses(t)) \/ UNCHANGED vars
    <3>1. /\ UNCHANGED <<events, asking, resp, cliPc>>
          /\ mainPc' \in {"loop", "exited"} => mainPc \in {"loop", "exited"}
      BY <2>4 DEF Exit, SigInt, TaskCloses, TaskElsewhere, vars, mainVars, cliVars
    <3> QED
      BY <1>2, <3>1 DEF ReplyInv, AnsweredOnce, Queued
  <2> QED
    BY <1>2, <2>1, <2>2, <2>3, <2>4 DEF Next, main, Task, Finished
<1> QED
  BY <1>1, <1>2

\* A command is never dropped, handled twice or answered to another client, for
\* any number of clients: whoever waits without a response has its command in
\* the channel or in the main loop's hands, once (handle_stream and the match of
\* handle_daemon_request).
THEOREM AnsweredOnceAlways == Spec => []AnsweredOnce
<1>1. ReplyInv => AnsweredOnce
  BY DEF ReplyInv
<1> QED
  BY <1>1, RepliesKept, TableInit, TableNext, PTL DEF Spec

===============================================================================
