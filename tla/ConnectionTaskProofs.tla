------------------------- MODULE ConnectionTaskProofs -------------------------
(***************************************************************************)
(* Proofs about the connection task, for every set of requests and every   *)
(* channel and buffer size.                                                *)
(***************************************************************************)
EXTENDS ConnectionTask, TLAPS

-------------------------------------------------------------------------------
(* Facts about Options and sequences *)

\* An Option is empty or holds one value.
LEMMA OptionCases ==
    ASSUME NEW S, NEW o \in Option(S)
    PROVE  o = <<>> \/ \E x \in S : o = <<x>>
<1>1. o \in Seq(S) /\ Len(o) <= 1
  BY DEF Option
<1>2. CASE Len(o) = 0
  BY <1>1, <1>2
<1>3. CASE Len(o) = 1
  <2>1. o[1] \in S /\ o = <<o[1]>>
    BY <1>1, <1>3
  <2> QED BY <2>1
<1>4. Len(o) = 0 \/ Len(o) = 1
  <2>1. \A n \in Nat : n <= 1 => n = 0 \/ n = 1
    OBVIOUS
  <2>2. Len(o) \in Nat
    BY <1>1
  <2> QED BY <1>1, <2>1, <2>2
<1> QED BY <1>2, <1>3, <1>4

\* A value in an Option of the kind Some(S).
LEMMA SomeCases ==
    ASSUME NEW S, NEW o \in Some(S)
    PROVE  /\ \E x \in S : o = <<x>>
           /\ o # <<>> /\ Head(o) \in S /\ o \in Seq(S) /\ o \in Option(S)
<1>1. o \in Seq(S) /\ Len(o) = 1
  BY DEF Some
<1>2. o[1] \in S /\ o = <<o[1]>>
  BY <1>1
<1>3. o # <<>> /\ Head(o) = o[1]
  BY <1>1
<1>4. o \in Option(S)
  <2>1. 1 <= 1
    OBVIOUS
  <2> QED BY <1>1, <2>1, Zenon DEF Option
<1> QED BY <1>1, <1>2, <1>3, <1>4

\* The constructors of Options.
LEMMA OptionMake ==
    ASSUME NEW S, NEW x \in S
    PROVE  <<x>> \in Some(S) /\ <<x>> \in Option(S) /\ <<>> \in Option(S)
BY DEF Some, Option

\* The empty Option.
LEMMA NoneOption == ASSUME NEW S PROVE <<>> \in Option(S)
BY DEF Option

\* Taking the head off a non-empty sequence.
LEMMA HeadTail ==
    ASSUME NEW S, NEW q \in Seq(S), q # <<>>
    PROVE  /\ Head(q) \in S /\ Tail(q) \in Seq(S) /\ Head(q) = q[1]
           /\ Len(q) \in Nat \ {0} /\ Len(Tail(q)) = Len(q) - 1
           /\ \A i \in 1..Len(Tail(q)) : Tail(q)[i] = q[i + 1]
OBVIOUS

-------------------------------------------------------------------------------
(* Type correctness *)

\* The initial state is well typed.
LEMMA TypeInit == Init => TypeOK
<1> SUFFICES ASSUME Init PROVE TypeOK
  OBVIOUS
<1>1. ptyOk \in BOOLEAN /\ framed \in BOOLEAN /\ linkUp \in BOOLEAN
  BY DEF Init
<1>2. <<>> \in Option(DeviceMessages) /\ <<>> \in Option(HwReqs)
  BY NoneOption
<1> QED BY <1>1, <1>2, ConnectionAssumption DEF Init, TypeOK, States, Awaits, Replies

\* Answering one request keeps the type of the replies.
LEMMA AnswerType ==
    ASSUME reply \in [Requests -> Replies], NEW r \in Requests, NEW v \in Replies,
           Answer(r, v)
    PROVE  reply' \in [Requests -> Replies]
BY DEF Answer

\* So does failing the pending request.
LEMMA FailPendingType ==
    ASSUME TypeOK, fail_pending_ctl
    PROVE  reply' \in [Requests -> Replies] /\ pending_hw_ctl' \in Option(HwReqs)
<1>1. reply' \in [Requests -> Replies]
  BY DEF fail_pending_ctl, TypeOK, Replies, Answers
<1> QED BY <1>1, NoneOption DEF fail_pending_ctl

\* The transition to Reconnecting keeps the types.
LEMMA LostConnectionType ==
    ASSUME TypeOK, NEW p \in Option(DeviceMessages), EnterReconnecting(p),
           reply' \in [Requests -> Replies], pending_hw_ctl' \in Option(HwReqs),
           UNCHANGED <<ctlQ, handle, ptyVars, hist, counters>>
    PROVE  TypeOK'
<1>1. framed' \in BOOLEAN /\ linkUp' \in BOOLEAN
  BY DEF EnterReconnecting, DropFramed
<1>2. /\ state' = "Reconnecting" /\ backoff' = InitialBackoff /\ pending' = p
      /\ pc' = "select" /\ arg' = <<>> /\ toDev' = <<>> /\ toHost' = <<>>
  BY DEF EnterReconnecting, DropFramed
<1> QED
  BY <1>1, <1>2, ConnectionAssumption DEF TypeOK, States, Awaits, ptyVars, hist, counters

\* A submitted request keeps the types.
LEMMA SubmitType ==
    ASSUME TypeOK, NEW r \in Requests, Submit(r)
    PROVE  TypeOK'
<1>1. reply \in [Requests -> Replies] /\ ctlQ \in Seq(Requests)
  BY DEF TypeOK
<1>2. "waiting" \in Replies /\ "closed" \in Replies
  BY DEF Replies, Answers
<1>3. reply' \in [Requests -> Replies] /\ ctlQ' \in Seq(Requests)
  <2>1. CASE ctlQ' = Append(ctlQ, r) /\ Answer(r, "waiting")
    BY <1>1, <1>2, <2>1, AnswerType
  <2>2. CASE ctlQ' = ctlQ /\ Answer(r, "closed")
    BY <1>1, <1>2, <2>2, AnswerType
  <2> QED BY <2>1, <2>2 DEF Submit
<1>4. UNCHANGED <<connVars, pc, arg, pending_hw_ctl, framed, handle, ptyVars, netVars,
                  hist, counters>>
  BY DEF Submit
<1> QED
  BY <1>3, <1>4 DEF TypeOK, connVars, ptyVars, netVars, hist, counters

\* Every step of the task and of its environment keeps the types.
LEMMA TypeNext == TypeOK /\ [Next]_vars => TypeOK'
<1> SUFFICES ASSUME TypeOK, [Next]_vars PROVE TypeOK'
  OBVIOUS
<1> USE ConnectionAssumption
<1>1. CASE ShutdownSignal
  BY <1>1 DEF ShutdownSignal, Running, EnterShutdown, fail_pending_ctl, TypeOK,
     States, Awaits, Option, Replies, Answers, connVars, ctlVars, ptyVars, netVars,
     hist, counters
<1>2. CASE CtlStatus
  BY <1>2 DEF CtlStatus, Running, Answer, TypeOK, Awaits, Replies, Answers,
     ResponseKinds, Requests, connVars, ctlVars, ptyVars, netVars, hist, counters
<1>3. CASE CtlHardwareRefused
  BY <1>3 DEF CtlHardwareRefused, Running, Answer, TypeOK, Awaits, Replies, Answers,
     ResponseKinds, Requests, connVars, ctlVars, ptyVars, netVars, hist, counters
<1>4. CASE CtlHardware
  BY <1>4 DEF CtlHardware, AtSelect, Suspend, TypeOK, Awaits, Replies, Answers,
     ResponseKinds, Requests, connVars, ctlVars, ptyVars, netVars, hist, counters,
     Option, Some
<1>5. CASE CtlClosed
  BY <1>5 DEF CtlClosed, Running, EnterShutdown, fail_pending_ctl, TypeOK, States,
     Awaits, Option, Replies, Answers, connVars, ctlVars, ptyVars, netVars, hist,
     counters
<1>6. CASE PtyMessage
  <2>1. Head(ptyIn) \in DeviceMessages /\ Tail(ptyIn) \in Seq(PtyPackets)
    <3>1. Head(ptyIn) \in PtyPackets /\ Tail(ptyIn) \in Seq(PtyPackets)
      BY <1>6, HeadTail DEF PtyMessage, TypeOK
    <3>2. Head(ptyIn).kind # "ControlMessage"
      BY <1>6 DEF PtyMessage
    <3> QED BY <3>1, <3>2 DEF PtyPackets, DeviceMessages
  <2>2. arg' \in Some(DeviceMessages) /\ pc' = "send"
    BY <1>6, <2>1, OptionMake DEF PtyMessage, Suspend
  <2>3. consumed' \in Seq(DeviceMessages) /\ ptyIn' \in Seq(PtyPackets)
    BY <1>6, <2>1 DEF PtyMessage, TypeOK
  <2>4. UNCHANGED <<connVars, framed, pending_hw_ctl, ctlVars, ptyOut, ptyOk, netVars, sent,
                    lost, counters>>
    BY <1>6 DEF PtyMessage, Suspend
  <2> QED
    BY <2>2, <2>3, <2>4 DEF TypeOK, Awaits, connVars, ctlVars, netVars, counters
<1>7. CASE PtyControlMessage
  BY <1>7 DEF PtyControlMessage, AtSelect, TypeOK, Awaits, connVars, ctlVars, ptyVars,
     netVars, hist, counters
<1>8. CASE PtyReadError
  BY <1>8 DEF PtyReadError, AtSelect, EnterShutdown, fail_pending_ctl, TypeOK, States,
     Awaits, Option, Replies, Answers, connVars, ctlVars, ptyVars, netVars, hist,
     counters
<1>9. CASE TcpData
  BY <1>9 DEF TcpData, AtSelect, Suspend, TypeOK, States, Awaits, connVars, ctlVars,
     ptyVars, netVars, hist, counters, Option, Some
<1>10. CASE TcpControlRes
  BY <1>10 DEF TcpControlRes, AtSelect, TypeOK, Awaits, Replies, Answers,
     ResponseKinds, Requests, connVars, ctlVars, ptyVars, netVars, hist, counters,
     Option, Some
<1>11. CASE TcpUnexpected
  BY <1>11 DEF TcpUnexpected, AtSelect, TypeOK, Awaits, connVars, ctlVars, ptyVars,
     netVars, hist, counters
<1>12. CASE TcpDisconnected
  BY <1>12, FailPendingType, LostConnectionType, NoneOption DEF TcpDisconnected
<1>13. CASE SendOk
  BY <1>13 DEF SendOk, BackToSelect, Suspend, TypeOK, States, Awaits, connVars,
     ctlVars, ptyVars, netVars, hist, counters, Option, Some
<1>14. CASE SendDisconnected
  <2>1. arg \in Option(DeviceMessages)
    BY <1>14, SomeCases DEF SendDisconnected, TypeOK
  <2> QED
    BY <1>14, <2>1, FailPendingType, LostConnectionType DEF SendDisconnected
<1>15. CASE SendCtlOk
  <2>1. arg \in Option(HwReqs) /\ Head(arg) \in HwReqs
    BY <1>15, SomeCases DEF SendCtlOk, TypeOK
  <2>2. [kind |-> "ControlReq", id |-> Head(arg)] \in DeviceMessages
    BY <2>1 DEF DeviceMessages
  <2>3. toDev' \in Seq(DeviceMessages)
    BY <1>15, <2>2 DEF SendCtlOk, TypeOK
  <2>4. /\ pending_hw_ctl' = arg /\ pc' = "select" /\ arg' = <<>>
        /\ UNCHANGED <<connVars, framed, ctlVars, ptyVars, toHost, linkUp, hist, counters>>
    BY <1>15 DEF SendCtlOk, BackToSelect, Suspend
  <2> QED
    BY <2>1, <2>3, <2>4 DEF TypeOK, Awaits, connVars, ctlVars, ptyVars, hist, counters
<1>16. CASE SendCtlDisconnected
  <2>1. Head(arg) \in Requests /\ reply \in [Requests -> Replies]
    BY <1>16, SomeCases DEF SendCtlDisconnected, TypeOK, Requests
  <2>2. reply' \in [Requests -> Replies]
    BY <1>16, <2>1, AnswerType DEF SendCtlDisconnected, Replies, Answers
  <2>3. pending_hw_ctl' \in Option(HwReqs)
    BY <1>16 DEF SendCtlDisconnected, TypeOK
  <2> QED
    BY <1>16, <2>2, <2>3, LostConnectionType, NoneOption DEF SendCtlDisconnected
<1>17. CASE WriteDone
  BY <1>17 DEF WriteDone, BackToSelect, Suspend, TypeOK, States, Awaits, connVars,
     ctlVars, ptyVars, netVars, hist, counters, Option, Some
<1>18. CASE WriteError
  BY <1>18 DEF WriteError, EnterShutdown, fail_pending_ctl, TypeOK, States, Awaits,
     Option, Replies, Answers, connVars, ctlVars, ptyVars, netVars, hist, counters
<1>19. CASE SleepDone
  BY <1>19 DEF SleepDone, AtSelect, Suspend, TypeOK, Awaits, connVars, ctlVars,
     ptyVars, netVars, hist, counters
<1>20. CASE ConnectOk
  <2>1. /\ toDev' \in Seq(DeviceMessages) /\ toHost' \in Seq(HostMessages)
        /\ state' \in States
    <3>1. state' \in States
      BY <1>20 DEF ConnectOk, States
    <3>2. CASE framed
      BY <1>20, <3>1, <3>2 DEF ConnectOk, TypeOK, netVars
    <3>3. CASE ~framed
      BY <1>20, <3>1, <3>3 DEF ConnectOk
    <3> QED BY <3>2, <3>3
  <2>2. linkUp' \in BOOLEAN /\ framed' \in BOOLEAN
    BY <1>20 DEF ConnectOk, TypeOK, netVars
  <2>3. /\ pc = "connect" /\ pc' = "select"
        /\ UNCHANGED <<backoff, pending, arg, pending_hw_ctl, ctlVars, ptyVars, hist,
                       counters>>
    BY <1>20 DEF ConnectOk
  <2> QED
    BY <2>1, <2>2, <2>3 DEF TypeOK, Awaits, ctlVars, ptyVars, hist, counters
<1>21. CASE ConnectFailed
  BY <1>21 DEF ConnectFailed, next_backoff, Smaller, TypeOK, Awaits, connVars,
     ctlVars, ptyVars, netVars, hist, counters
<1>22. CASE ResyncOk
  BY <1>22 DEF ResyncOk, AtSelect, TypeOK, States, Awaits, connVars, ctlVars, ptyVars,
     netVars, hist, counters, Option, Some
<1>23. CASE ResyncDisconnected
  <2>1. /\ pending \in Option(DeviceMessages) /\ reply' \in [Requests -> Replies]
        /\ pending_hw_ctl' \in Option(HwReqs)
    BY <1>23 DEF ResyncDisconnected, TypeOK, ctlVars
  <2> QED
    BY <1>23, <2>1, LostConnectionType DEF ResyncDisconnected, ctlVars
<1>24. CASE EventSent
  <2>1. reply' \in [Requests -> Replies]
    BY <1>24 DEF EventSent, TypeOK, Replies, Answers
  <2>2. framed' \in BOOLEAN
    BY <1>24 DEF EventSent
  <2>3. /\ pc = "notify" /\ pc' = "done" /\ ctlQ' = <<>>
        /\ UNCHANGED <<connVars, arg, pending_hw_ctl, handle, ptyVars, netVars, hist,
                       counters>>
    BY <1>24 DEF EventSent
  <2> QED
    BY <2>1, <2>2, <2>3
    DEF TypeOK, Awaits, connVars, ptyVars, netVars, hist, counters
<1>25. CASE send_hardware_ctl
  <2>1. PICK r \in HwReqs : Submit(r)
    BY <1>25 DEF send_hardware_ctl
  <2>2. r \in Requests
    BY <2>1 DEF Requests
  <2> QED BY <2>1, <2>2, SubmitType
<1>26. CASE get_status
  <2>1. PICK r \in StatusReqs : Submit(r)
    BY <1>26 DEF get_status
  <2>2. r \in Requests
    BY <2>1 DEF Requests
  <2> QED BY <2>1, <2>2, SubmitType
<1>27. CASE shutdown
  BY <1>27 DEF shutdown, TypeOK, Awaits, connVars, ctlVars, ptyVars, netVars, hist,
     counters
<1>28. CASE AppWrite
  BY <1>28 DEF AppWrite, PtyPackets, TypeOK, taskVars, connVars, ctlVars, ptyVars,
     netVars, hist, counters
<1>29. CASE AppRead
  BY <1>29 DEF AppRead, TypeOK, taskVars, connVars, ctlVars, ptyVars, netVars, hist,
     counters
<1>30. CASE PtyFail
  BY <1>30 DEF PtyFail, TypeOK, taskVars, connVars, ctlVars, ptyVars, netVars, hist,
     counters
<1>31. CASE DeviceRead
  BY <1>31 DEF DeviceRead, TypeOK, taskVars, connVars, ctlVars, ptyVars, netVars,
     hist, counters
<1>32. CASE DeviceSend
  BY <1>32 DEF DeviceSend, HostMessages, HostKinds, TypeOK, taskVars, connVars,
     ctlVars, ptyVars, netVars, hist, counters
<1>33. CASE LinkFail
  <2>1. failures' \in Nat
    BY <1>33 DEF LinkFail, TypeOK
  <2>2. linkUp' \in BOOLEAN
    BY <1>33 DEF LinkFail
  <2>3. UNCHANGED <<taskVars, ptyVars, toDev, toHost, typed, emitted>>
    BY <1>33 DEF LinkFail
  <2> QED
    BY <2>1, <2>2, <2>3 DEF TypeOK, taskVars, connVars, ctlVars, hist, ptyVars
<1>34. CASE Finished
  BY <1>34 DEF Finished, TypeOK, connVars, ctlVars, ptyVars, netVars, hist, counters,
     vars
<1>35. CASE UNCHANGED vars
  BY <1>35 DEF TypeOK, connVars, ctlVars, ptyVars, netVars, hist, counters, vars
<1> QED
  BY <1>1, <1>2, <1>3, <1>4, <1>5, <1>6, <1>7, <1>8, <1>9, <1>10, <1>11, <1>12, <1>13,
     <1>14, <1>15, <1>16, <1>17, <1>18, <1>19, <1>20, <1>21, <1>22, <1>23, <1>24, <1>25,
     <1>26, <1>27, <1>28, <1>29, <1>30, <1>31, <1>32, <1>33, <1>34, <1>35
     DEF Next, conn_task, step, Environment, CtlArm, PtyArm, TcpArm, SendDone, WriteEnds,
         ConnectEnds, ResyncArm

\* Every reachable state is well typed.
THEOREM TypeCorrect == Spec => []TypeOK
BY TypeInit, TypeNext, PTL DEF Spec

-------------------------------------------------------------------------------
(* The data path *)

\* Concatenation with an Option, as the history variables use it.
LEMMA ConcatOption ==
    ASSUME NEW S, NEW q \in Seq(S), NEW x \in S
    PROVE  q \o <<>> = q /\ Append(q, x) = q \o <<x>>
OBVIOUS

\* Handlers suspend only where step_connected and step_reconnecting await.
LEMMA ControlNext == Control /\ [Next]_vars => Control'
<1> SUFFICES ASSUME Control, [Next]_vars PROVE Control'
  OBVIOUS
<1>1. CASE ShutdownSignal
  BY <1>1 DEF ShutdownSignal, Running, EnterShutdown, fail_pending_ctl, Control,
     connVars, ctlVars, ptyVars, netVars, hist, counters
<1>2. CASE CtlStatus
  BY <1>2 DEF CtlStatus, Running, Answer, Control, connVars, ctlVars, ptyVars,
     netVars, hist, counters
<1>3. CASE CtlHardwareRefused
  BY <1>3 DEF CtlHardwareRefused, Running, Answer, Control, connVars, ctlVars,
     ptyVars, netVars, hist, counters
<1>4. CASE CtlHardware
  BY <1>4 DEF CtlHardware, AtSelect, Suspend, Control, connVars, ctlVars, ptyVars,
     netVars, hist, counters
<1>5. CASE CtlClosed
  BY <1>5 DEF CtlClosed, Running, EnterShutdown, fail_pending_ctl, Control, connVars,
     ctlVars, ptyVars, netVars, hist, counters
<1>6. CASE PtyMessage
  BY <1>6 DEF PtyMessage, AtSelect, Suspend, Control, connVars, ctlVars, ptyVars,
     netVars, hist, counters
<1>7. CASE PtyControlMessage
  BY <1>7 DEF PtyControlMessage, AtSelect, Control, connVars, ctlVars, ptyVars,
     netVars, hist, counters
<1>8. CASE PtyReadError
  BY <1>8 DEF PtyReadError, AtSelect, EnterShutdown, fail_pending_ctl, Control,
     connVars, ctlVars, ptyVars, netVars, hist, counters
<1>9. CASE TcpData
  BY <1>9 DEF TcpData, AtSelect, Suspend, Control, connVars, ctlVars, ptyVars,
     netVars, hist, counters
<1>10. CASE TcpControlRes
  BY <1>10 DEF TcpControlRes, AtSelect, Control, connVars, ctlVars, ptyVars, netVars,
     hist, counters
<1>11. CASE TcpUnexpected
  BY <1>11 DEF TcpUnexpected, AtSelect, Control, connVars, ctlVars, ptyVars, netVars,
     hist, counters
<1>12. CASE TcpDisconnected
  BY <1>12 DEF TcpDisconnected, AtSelect, fail_pending_ctl, EnterReconnecting,
     DropFramed, Control, connVars, ctlVars, ptyVars, netVars, hist, counters
<1>13. CASE SendOk
  BY <1>13 DEF SendOk, BackToSelect, Suspend, Control, connVars, ctlVars, ptyVars,
     netVars, hist, counters
<1>14. CASE SendDisconnected
  BY <1>14 DEF SendDisconnected, fail_pending_ctl, EnterReconnecting, DropFramed,
     Control, connVars, ctlVars, ptyVars, netVars, hist, counters
<1>15. CASE SendCtlOk
  BY <1>15 DEF SendCtlOk, BackToSelect, Suspend, Control, connVars, ctlVars, ptyVars,
     netVars, hist, counters
<1>16. CASE SendCtlDisconnected
  BY <1>16 DEF SendCtlDisconnected, Answer, EnterReconnecting, DropFramed, Control,
     connVars, ctlVars, ptyVars, netVars, hist, counters
<1>17. CASE WriteDone
  BY <1>17 DEF WriteDone, BackToSelect, Suspend, Control, connVars, ctlVars, ptyVars,
     netVars, hist, counters
<1>18. CASE WriteError
  BY <1>18 DEF WriteError, EnterShutdown, fail_pending_ctl, Control, connVars,
     ctlVars, ptyVars, netVars, hist, counters
<1>19. CASE SleepDone
  BY <1>19 DEF SleepDone, AtSelect, Suspend, Control, connVars, ctlVars, ptyVars,
     netVars, hist, counters
<1>20. CASE ConnectOk
  BY <1>20 DEF ConnectOk, netVars, Control, connVars, ctlVars, ptyVars, netVars, hist,
     counters
<1>21. CASE ConnectFailed
  BY <1>21 DEF ConnectFailed, Control, connVars, ctlVars, ptyVars, netVars, hist,
     counters
<1>22. CASE ResyncOk
  BY <1>22 DEF ResyncOk, AtSelect, Control, connVars, ctlVars, ptyVars, netVars, hist,
     counters
<1>23. CASE ResyncDisconnected
  BY <1>23 DEF ResyncDisconnected, AtSelect, EnterReconnecting, DropFramed, Control,
     connVars, ctlVars, ptyVars, netVars, hist, counters
<1>24. CASE EventSent
  BY <1>24 DEF EventSent, Control, connVars, ctlVars, ptyVars, netVars, hist, counters
<1>25. CASE send_hardware_ctl
  BY <1>25 DEF send_hardware_ctl, Submit, Answer, Control, connVars, ctlVars, ptyVars,
     netVars, hist, counters
<1>26. CASE get_status
  BY <1>26 DEF get_status, Submit, Answer, Control, connVars, ctlVars, ptyVars,
     netVars, hist, counters
<1>27. CASE shutdown
  BY <1>27 DEF shutdown, Control, connVars, ctlVars, ptyVars, netVars, hist, counters
<1>28. CASE AppWrite
  BY <1>28 DEF AppWrite, Control, connVars, ctlVars, ptyVars, netVars, hist, counters,
     taskVars
<1>29. CASE AppRead
  BY <1>29 DEF AppRead, Control, connVars, ctlVars, ptyVars, netVars, hist, counters,
     taskVars
<1>30. CASE PtyFail
  BY <1>30 DEF PtyFail, Control, connVars, ctlVars, ptyVars, netVars, hist, counters,
     taskVars
<1>31. CASE DeviceRead
  BY <1>31 DEF DeviceRead, Control, connVars, ctlVars, ptyVars, netVars, hist,
     counters, taskVars
<1>32. CASE DeviceSend
  BY <1>32 DEF DeviceSend, Control, connVars, ctlVars, ptyVars, netVars, hist,
     counters, taskVars
<1>33. CASE LinkFail
  BY <1>33 DEF LinkFail, Control, connVars, ctlVars, ptyVars, netVars, hist, counters,
     taskVars
<1>34. CASE Finished
  BY <1>34 DEF Finished, Control, connVars, ctlVars, ptyVars, netVars, hist, counters,
     vars
<1>35. CASE UNCHANGED vars
  BY <1>35 DEF Control, connVars, ctlVars, ptyVars, netVars, hist, counters, vars
<1> QED
  BY <1>1, <1>2, <1>3, <1>4, <1>5, <1>6, <1>7, <1>8, <1>9, <1>10, <1>11, <1>12, <1>13,
     <1>14, <1>15, <1>16, <1>17, <1>18, <1>19, <1>20, <1>21, <1>22, <1>23, <1>24,
     <1>25, <1>26, <1>27, <1>28, <1>29, <1>30, <1>31, <1>32, <1>33, <1>34, <1>35
     DEF Next, conn_task, step, Environment, CtlArm, PtyArm, TcpArm, SendDone, WriteEnds,
         ConnectEnds, ResyncArm

\* The bridge's stream follows the state machine.
LEMMA SessionNext == Control /\ SessionMatchesState /\ [Next]_vars => SessionMatchesState'
<1> SUFFICES ASSUME Control, SessionMatchesState, [Next]_vars PROVE SessionMatchesState'
  OBVIOUS
<1>1. CASE ShutdownSignal
  BY <1>1 DEF ShutdownSignal, Running, EnterShutdown, fail_pending_ctl, Control,
     SessionMatchesState, connVars, ctlVars, ptyVars, netVars, hist, counters
<1>2. CASE CtlStatus
  BY <1>2 DEF CtlStatus, Running, Answer, Control, SessionMatchesState, connVars,
     ctlVars, ptyVars, netVars, hist, counters
<1>3. CASE CtlHardwareRefused
  BY <1>3 DEF CtlHardwareRefused, Running, Answer, Control, SessionMatchesState,
     connVars, ctlVars, ptyVars, netVars, hist, counters
<1>4. CASE CtlHardware
  BY <1>4 DEF CtlHardware, AtSelect, Suspend, Control, SessionMatchesState, connVars,
     ctlVars, ptyVars, netVars, hist, counters
<1>5. CASE CtlClosed
  BY <1>5 DEF CtlClosed, Running, EnterShutdown, fail_pending_ctl, Control,
     SessionMatchesState, connVars, ctlVars, ptyVars, netVars, hist, counters
<1>6. CASE PtyMessage
  BY <1>6 DEF PtyMessage, AtSelect, Suspend, Control, SessionMatchesState, connVars,
     ctlVars, ptyVars, netVars, hist, counters
<1>7. CASE PtyControlMessage
  BY <1>7 DEF PtyControlMessage, AtSelect, Control, SessionMatchesState, connVars,
     ctlVars, ptyVars, netVars, hist, counters
<1>8. CASE PtyReadError
  BY <1>8 DEF PtyReadError, AtSelect, EnterShutdown, fail_pending_ctl, Control,
     SessionMatchesState, connVars, ctlVars, ptyVars, netVars, hist, counters
<1>9. CASE TcpData
  BY <1>9 DEF TcpData, AtSelect, Suspend, Control, SessionMatchesState, connVars,
     ctlVars, ptyVars, netVars, hist, counters
<1>10. CASE TcpControlRes
  BY <1>10 DEF TcpControlRes, AtSelect, Control, SessionMatchesState, connVars,
     ctlVars, ptyVars, netVars, hist, counters
<1>11. CASE TcpUnexpected
  BY <1>11 DEF TcpUnexpected, AtSelect, Control, SessionMatchesState, connVars,
     ctlVars, ptyVars, netVars, hist, counters
<1>12. CASE TcpDisconnected
  BY <1>12 DEF TcpDisconnected, AtSelect, fail_pending_ctl, EnterReconnecting,
     DropFramed, Control, SessionMatchesState, connVars, ctlVars, ptyVars, netVars,
     hist, counters
<1>13. CASE SendOk
  BY <1>13 DEF SendOk, BackToSelect, Suspend, Control, SessionMatchesState, connVars,
     ctlVars, ptyVars, netVars, hist, counters
<1>14. CASE SendDisconnected
  BY <1>14 DEF SendDisconnected, fail_pending_ctl, EnterReconnecting, DropFramed,
     Control, SessionMatchesState, connVars, ctlVars, ptyVars, netVars, hist, counters
<1>15. CASE SendCtlOk
  BY <1>15 DEF SendCtlOk, BackToSelect, Suspend, Control, SessionMatchesState,
     connVars, ctlVars, ptyVars, netVars, hist, counters
<1>16. CASE SendCtlDisconnected
  BY <1>16 DEF SendCtlDisconnected, Answer, EnterReconnecting, DropFramed, Control,
     SessionMatchesState, connVars, ctlVars, ptyVars, netVars, hist, counters
<1>17. CASE WriteDone
  BY <1>17 DEF WriteDone, BackToSelect, Suspend, Control, SessionMatchesState,
     connVars, ctlVars, ptyVars, netVars, hist, counters
<1>18. CASE WriteError
  BY <1>18 DEF WriteError, EnterShutdown, fail_pending_ctl, Control,
     SessionMatchesState, connVars, ctlVars, ptyVars, netVars, hist, counters
<1>19. CASE SleepDone
  BY <1>19 DEF SleepDone, AtSelect, Suspend, Control, SessionMatchesState, connVars,
     ctlVars, ptyVars, netVars, hist, counters
<1>20. CASE ConnectOk
  BY <1>20 DEF ConnectOk, netVars, Control, SessionMatchesState, connVars, ctlVars,
     ptyVars, netVars, hist, counters
<1>21. CASE ConnectFailed
  BY <1>21 DEF ConnectFailed, Control, SessionMatchesState, connVars, ctlVars,
     ptyVars, netVars, hist, counters
<1>22. CASE ResyncOk
  BY <1>22 DEF ResyncOk, AtSelect, Control, SessionMatchesState, connVars, ctlVars,
     ptyVars, netVars, hist, counters
<1>23. CASE ResyncDisconnected
  BY <1>23 DEF ResyncDisconnected, AtSelect, EnterReconnecting, DropFramed, Control,
     SessionMatchesState, connVars, ctlVars, ptyVars, netVars, hist, counters
<1>24. CASE EventSent
  BY <1>24 DEF EventSent, Control, SessionMatchesState, connVars, ctlVars, ptyVars,
     netVars, hist, counters
<1>25. CASE send_hardware_ctl
  BY <1>25 DEF send_hardware_ctl, Submit, Answer, Control, SessionMatchesState,
     connVars, ctlVars, ptyVars, netVars, hist, counters
<1>26. CASE get_status
  BY <1>26 DEF get_status, Submit, Answer, Control, SessionMatchesState, connVars,
     ctlVars, ptyVars, netVars, hist, counters
<1>27. CASE shutdown
  BY <1>27 DEF shutdown, Control, SessionMatchesState, connVars, ctlVars, ptyVars,
     netVars, hist, counters
<1>28. CASE AppWrite
  BY <1>28 DEF AppWrite, Control, SessionMatchesState, connVars, ctlVars, ptyVars,
     netVars, hist, counters, taskVars
<1>29. CASE AppRead
  BY <1>29 DEF AppRead, Control, SessionMatchesState, connVars, ctlVars, ptyVars,
     netVars, hist, counters, taskVars
<1>30. CASE PtyFail
  BY <1>30 DEF PtyFail, Control, SessionMatchesState, connVars, ctlVars, ptyVars,
     netVars, hist, counters, taskVars
<1>31. CASE DeviceRead
  BY <1>31 DEF DeviceRead, Control, SessionMatchesState, connVars, ctlVars, ptyVars,
     netVars, hist, counters, taskVars
<1>32. CASE DeviceSend
  BY <1>32 DEF DeviceSend, Control, SessionMatchesState, connVars, ctlVars, ptyVars,
     netVars, hist, counters, taskVars
<1>33. CASE LinkFail
  BY <1>33 DEF LinkFail, Control, SessionMatchesState, connVars, ctlVars, ptyVars,
     netVars, hist, counters, taskVars
<1>34. CASE Finished
  BY <1>34 DEF Finished, Control, SessionMatchesState, connVars, ctlVars, ptyVars,
     netVars, hist, counters, vars
<1>35. CASE UNCHANGED vars
  BY <1>35 DEF Control, SessionMatchesState, connVars, ctlVars, ptyVars, netVars,
     hist, counters, vars
<1> QED
  BY <1>1, <1>2, <1>3, <1>4, <1>5, <1>6, <1>7, <1>8, <1>9, <1>10, <1>11, <1>12, <1>13,
     <1>14, <1>15, <1>16, <1>17, <1>18, <1>19, <1>20, <1>21, <1>22, <1>23, <1>24,
     <1>25, <1>26, <1>27, <1>28, <1>29, <1>30, <1>31, <1>32, <1>33, <1>34, <1>35
     DEF Next, conn_task, step, Environment, CtlArm, PtyArm, TcpArm, SendDone, WriteEnds,
         ConnectEnds, ResyncArm

\* A message leaves the task only by a send that accepted it, or a shutdown.
LEMMA DroppedNext ==
    TypeOK /\ Control /\ NothingDropped /\ [Next]_vars => NothingDropped'
<1> SUFFICES ASSUME TypeOK, Control, NothingDropped, [Next]_vars PROVE NothingDropped'
  OBVIOUS
<1>1. CASE ShutdownSignal
  <2>1. UNCHANGED <<consumed, sent>> /\ InFlight' = InFlight
    BY <1>1 DEF ShutdownSignal, Running, EnterShutdown, fail_pending_ctl, InFlight,
       Control, connVars, ctlVars, ptyVars, netVars, hist, counters
  <2> QED BY <2>1 DEF NothingDropped
<1>2. CASE CtlStatus
  <2>1. UNCHANGED <<consumed, sent>> /\ InFlight' = InFlight
    BY <1>2 DEF CtlStatus, Running, Answer, InFlight, Control, connVars, ctlVars,
       ptyVars, netVars, hist, counters
  <2> QED BY <2>1 DEF NothingDropped
<1>3. CASE CtlHardwareRefused
  <2>1. UNCHANGED <<consumed, sent>> /\ InFlight' = InFlight
    BY <1>3 DEF CtlHardwareRefused, Running, Answer, InFlight, Control, connVars,
       ctlVars, ptyVars, netVars, hist, counters
  <2> QED BY <2>1 DEF NothingDropped
<1>4. CASE CtlHardware
  <2>1. UNCHANGED <<consumed, sent>> /\ InFlight' = InFlight
    BY <1>4 DEF CtlHardware, AtSelect, Suspend, InFlight, Control, connVars,
       ctlVars, ptyVars, netVars, hist, counters
  <2> QED BY <2>1 DEF NothingDropped
<1>5. CASE CtlClosed
  <2>1. UNCHANGED <<consumed, sent>> /\ InFlight' = InFlight
    BY <1>5 DEF CtlClosed, Running, EnterShutdown, fail_pending_ctl, InFlight,
       Control, connVars, ctlVars, ptyVars, netVars, hist, counters
  <2> QED BY <2>1 DEF NothingDropped
<1>6. CASE PtyMessage
  <2>1. InFlight = <<>> /\ consumed = sent
    <3>1. InFlight = <<>>
      BY <1>6 DEF PtyMessage, AtSelect, InFlight, Control
    <3> QED BY <3>1, ConcatOption DEF NothingDropped, TypeOK
  <2>2. Head(ptyIn) \in DeviceMessages
    <3>1. Head(ptyIn) \in PtyPackets /\ Head(ptyIn).kind # "ControlMessage"
      BY <1>6, HeadTail DEF PtyMessage, TypeOK
    <3> QED BY <3>1 DEF PtyPackets, DeviceMessages
  <2>3. /\ consumed' = Append(consumed, Head(ptyIn)) /\ sent' = sent
        /\ InFlight' = <<Head(ptyIn)>>
    BY <1>6 DEF PtyMessage, Suspend, InFlight
  <2>4. Append(consumed, Head(ptyIn)) = consumed \o <<Head(ptyIn)>>
    BY <2>2, ConcatOption DEF TypeOK
  <2> QED BY <2>1, <2>3, <2>4 DEF NothingDropped
<1>7. CASE PtyControlMessage
  <2>1. UNCHANGED <<consumed, sent>> /\ InFlight' = InFlight
    BY <1>7 DEF PtyControlMessage, AtSelect, InFlight, Control, connVars, ctlVars,
       ptyVars, netVars, hist, counters
  <2> QED BY <2>1 DEF NothingDropped
<1>8. CASE PtyReadError
  <2>1. UNCHANGED <<consumed, sent>> /\ InFlight' = InFlight
    BY <1>8 DEF PtyReadError, AtSelect, EnterShutdown, fail_pending_ctl, InFlight,
       Control, connVars, ctlVars, ptyVars, netVars, hist, counters
  <2> QED BY <2>1 DEF NothingDropped
<1>9. CASE TcpData
  <2>1. UNCHANGED <<consumed, sent>> /\ InFlight' = InFlight
    BY <1>9 DEF TcpData, AtSelect, Suspend, InFlight, Control, connVars, ctlVars,
       ptyVars, netVars, hist, counters
  <2> QED BY <2>1 DEF NothingDropped
<1>10. CASE TcpControlRes
  <2>1. UNCHANGED <<consumed, sent>> /\ InFlight' = InFlight
    BY <1>10 DEF TcpControlRes, AtSelect, InFlight, Control, connVars, ctlVars,
       ptyVars, netVars, hist, counters
  <2> QED BY <2>1 DEF NothingDropped
<1>11. CASE TcpUnexpected
  <2>1. UNCHANGED <<consumed, sent>> /\ InFlight' = InFlight
    BY <1>11 DEF TcpUnexpected, AtSelect, InFlight, Control, connVars, ctlVars,
       ptyVars, netVars, hist, counters
  <2> QED BY <2>1 DEF NothingDropped
<1>12. CASE TcpDisconnected
  <2>1. UNCHANGED <<consumed, sent>> /\ InFlight' = InFlight
    BY <1>12 DEF TcpDisconnected, AtSelect, fail_pending_ctl, EnterReconnecting,
       DropFramed, InFlight, Control, connVars, ctlVars, ptyVars, netVars, hist,
       counters
  <2> QED BY <2>1 DEF NothingDropped
<1>13. CASE SendOk
  <2>1. InFlight = arg /\ InFlight' = <<>>
    BY <1>13 DEF SendOk, BackToSelect, Suspend, InFlight, Control, connVars
  <2>2. consumed' = consumed /\ sent' = sent \o arg
    BY <1>13 DEF SendOk
  <2>3. consumed \o <<>> = consumed
    BY ConcatOption DEF TypeOK
  <2> QED BY <2>1, <2>2, <2>3 DEF NothingDropped
<1>14. CASE SendDisconnected
  <2>1. UNCHANGED <<consumed, sent>> /\ InFlight' = InFlight
    BY <1>14 DEF SendDisconnected, fail_pending_ctl, EnterReconnecting, DropFramed,
       InFlight, Control, connVars, ctlVars, ptyVars, netVars, hist, counters
  <2> QED BY <2>1 DEF NothingDropped
<1>15. CASE SendCtlOk
  <2>1. UNCHANGED <<consumed, sent>> /\ InFlight' = InFlight
    BY <1>15 DEF SendCtlOk, BackToSelect, Suspend, InFlight, Control, connVars,
       ctlVars, ptyVars, netVars, hist, counters
  <2> QED BY <2>1 DEF NothingDropped
<1>16. CASE SendCtlDisconnected
  <2>1. UNCHANGED <<consumed, sent>> /\ InFlight' = InFlight
    BY <1>16 DEF SendCtlDisconnected, Answer, EnterReconnecting, DropFramed,
       InFlight, Control, connVars, ctlVars, ptyVars, netVars, hist, counters
  <2> QED BY <2>1 DEF NothingDropped
<1>17. CASE WriteDone
  <2>1. UNCHANGED <<consumed, sent>> /\ InFlight' = InFlight
    BY <1>17 DEF WriteDone, BackToSelect, Suspend, InFlight, Control, connVars,
       ctlVars, ptyVars, netVars, hist, counters
  <2> QED BY <2>1 DEF NothingDropped
<1>18. CASE WriteError
  <2>1. UNCHANGED <<consumed, sent>> /\ InFlight' = InFlight
    BY <1>18 DEF WriteError, EnterShutdown, fail_pending_ctl, InFlight, Control,
       connVars, ctlVars, ptyVars, netVars, hist, counters
  <2> QED BY <2>1 DEF NothingDropped
<1>19. CASE SleepDone
  <2>1. UNCHANGED <<consumed, sent>> /\ InFlight' = InFlight
    BY <1>19 DEF SleepDone, AtSelect, Suspend, InFlight, Control, connVars, ctlVars,
       ptyVars, netVars, hist, counters
  <2> QED BY <2>1 DEF NothingDropped
<1>20. CASE ConnectOk
  <2>1. UNCHANGED <<consumed, sent>> /\ InFlight' = InFlight
    BY <1>20 DEF ConnectOk, netVars, InFlight, Control, connVars, ctlVars, ptyVars,
       netVars, hist, counters
  <2> QED BY <2>1 DEF NothingDropped
<1>21. CASE ConnectFailed
  <2>1. UNCHANGED <<consumed, sent>> /\ InFlight' = InFlight
    BY <1>21 DEF ConnectFailed, InFlight, Control, connVars, ctlVars, ptyVars,
       netVars, hist, counters
  <2> QED BY <2>1 DEF NothingDropped
<1>22. CASE ResyncOk
  <2>1. InFlight = pending /\ InFlight' = <<>>
    BY <1>22 DEF ResyncOk, AtSelect, InFlight, Control
  <2>2. consumed' = consumed /\ sent' = sent \o pending
    BY <1>22 DEF ResyncOk
  <2>3. consumed \o <<>> = consumed
    BY ConcatOption DEF TypeOK
  <2> QED BY <2>1, <2>2, <2>3 DEF NothingDropped
<1>23. CASE ResyncDisconnected
  <2>1. UNCHANGED <<consumed, sent>> /\ InFlight' = InFlight
    BY <1>23 DEF ResyncDisconnected, AtSelect, EnterReconnecting, DropFramed,
       InFlight, Control, connVars, ctlVars, ptyVars, netVars, hist, counters
  <2> QED BY <2>1 DEF NothingDropped
<1>24. CASE EventSent
  <2>1. UNCHANGED <<consumed, sent>> /\ InFlight' = InFlight
    BY <1>24 DEF EventSent, InFlight, Control, connVars, ctlVars, ptyVars, netVars,
       hist, counters
  <2> QED BY <2>1 DEF NothingDropped
<1>25. CASE send_hardware_ctl
  <2>1. UNCHANGED <<consumed, sent>> /\ InFlight' = InFlight
    BY <1>25 DEF send_hardware_ctl, Submit, Answer, InFlight, Control, connVars,
       ctlVars, ptyVars, netVars, hist, counters
  <2> QED BY <2>1 DEF NothingDropped
<1>26. CASE get_status
  <2>1. UNCHANGED <<consumed, sent>> /\ InFlight' = InFlight
    BY <1>26 DEF get_status, Submit, Answer, InFlight, Control, connVars, ctlVars,
       ptyVars, netVars, hist, counters
  <2> QED BY <2>1 DEF NothingDropped
<1>27. CASE shutdown
  <2>1. UNCHANGED <<consumed, sent>> /\ InFlight' = InFlight
    BY <1>27 DEF shutdown, InFlight, Control, connVars, ctlVars, ptyVars, netVars,
       hist, counters
  <2> QED BY <2>1 DEF NothingDropped
<1>28. CASE AppWrite
  <2>1. UNCHANGED <<consumed, sent>> /\ InFlight' = InFlight
    BY <1>28 DEF AppWrite, InFlight, Control, connVars, ctlVars, ptyVars, netVars,
       hist, counters, taskVars
  <2> QED BY <2>1 DEF NothingDropped
<1>29. CASE AppRead
  <2>1. UNCHANGED <<consumed, sent>> /\ InFlight' = InFlight
    BY <1>29 DEF AppRead, InFlight, Control, connVars, ctlVars, ptyVars, netVars,
       hist, counters, taskVars
  <2> QED BY <2>1 DEF NothingDropped
<1>30. CASE PtyFail
  <2>1. UNCHANGED <<consumed, sent>> /\ InFlight' = InFlight
    BY <1>30 DEF PtyFail, InFlight, Control, connVars, ctlVars, ptyVars, netVars,
       hist, counters, taskVars
  <2> QED BY <2>1 DEF NothingDropped
<1>31. CASE DeviceRead
  <2>1. UNCHANGED <<consumed, sent>> /\ InFlight' = InFlight
    BY <1>31 DEF DeviceRead, InFlight, Control, connVars, ctlVars, ptyVars, netVars,
       hist, counters, taskVars
  <2> QED BY <2>1 DEF NothingDropped
<1>32. CASE DeviceSend
  <2>1. UNCHANGED <<consumed, sent>> /\ InFlight' = InFlight
    BY <1>32 DEF DeviceSend, InFlight, Control, connVars, ctlVars, ptyVars, netVars,
       hist, counters, taskVars
  <2> QED BY <2>1 DEF NothingDropped
<1>33. CASE LinkFail
  <2>1. UNCHANGED <<consumed, sent>> /\ InFlight' = InFlight
    BY <1>33 DEF LinkFail, InFlight, Control, connVars, ctlVars, ptyVars, netVars,
       hist, counters, taskVars
  <2> QED BY <2>1 DEF NothingDropped
<1>34. CASE Finished
  <2>1. UNCHANGED <<consumed, sent>> /\ InFlight' = InFlight
    BY <1>34 DEF Finished, InFlight, Control, connVars, ctlVars, ptyVars, netVars,
       hist, counters, vars
  <2> QED BY <2>1 DEF NothingDropped
<1>35. CASE UNCHANGED vars
  BY <1>35 DEF NothingDropped, InFlight, connVars, ctlVars, ptyVars, netVars, hist,
     counters, vars
<1> QED
  BY <1>1, <1>2, <1>3, <1>4, <1>5, <1>6, <1>7, <1>8, <1>9, <1>10, <1>11, <1>12, <1>13,
     <1>14, <1>15, <1>16, <1>17, <1>18, <1>19, <1>20, <1>21, <1>22, <1>23, <1>24,
     <1>25, <1>26, <1>27, <1>28, <1>29, <1>30, <1>31, <1>32, <1>33, <1>34, <1>35
     DEF Next, conn_task, step, Environment, CtlArm, PtyArm, TcpArm, SendDone, WriteEnds,
         ConnectEnds, ResyncArm

\* The initial state satisfies the invariant of the data path.
LEMMA DataInit == Init => DataInv
<1> SUFFICES ASSUME Init PROVE DataInv
  OBVIOUS
<1>1. TypeOK
  BY TypeInit
<1>2. Control
  BY DEF Init, Control
<1>3. SessionMatchesState
  BY DEF Init, SessionMatchesState
<1>4. NothingDropped
  <2>1. consumed = <<>> /\ sent = <<>> /\ InFlight = <<>>
    BY DEF Init, InFlight
  <2>2. <<>> = <<>> \o <<>>
    BY <1>1, <2>1, ConcatOption DEF TypeOK
  <2> QED BY <2>1, <2>2 DEF NothingDropped
<1> QED BY <1>1, <1>2, <1>3, <1>4 DEF DataInv

\* It is inductive.
LEMMA DataNext == DataInv /\ [Next]_vars => DataInv'
BY TypeNext, ControlNext, SessionNext, DroppedNext DEF DataInv

\* Whatever is taken from the PTY is accepted by a send exactly once and in
\* order, across every lost connection; only a shutdown may drop the message it
\* finds waiting.
THEOREM NothingDroppedAlways == Spec => []NothingDropped
<1>1. DataInv => NothingDropped
  BY DEF DataInv
<1> QED BY <1>1, DataInit, DataNext, PTL DEF Spec

\* The bridge has a stream exactly while the state machine counts on one.
THEOREM SessionAlways == Spec => []SessionMatchesState
<1>1. DataInv => SessionMatchesState
  BY DEF DataInv
<1> QED BY <1>1, DataInit, DataNext, PTL DEF Spec

-------------------------------------------------------------------------------
(* The requests *)

\* The pending request does not outlive the session it was sent on.
LEMMA PendingNext ==
    Control /\ SessionMatchesState /\ PendingOnlyWhileConnected /\ [Next]_vars
        => PendingOnlyWhileConnected'
<1> SUFFICES ASSUME Control, SessionMatchesState, PendingOnlyWhileConnected, [Next]_vars
             PROVE  PendingOnlyWhileConnected'
  OBVIOUS
<1>1. CASE ShutdownSignal
  BY <1>1 DEF ShutdownSignal, Running, EnterShutdown, fail_pending_ctl, Control,
     SessionMatchesState, PendingOnlyWhileConnected, connVars, ctlVars, ptyVars,
     netVars, hist, counters
<1>2. CASE CtlStatus
  BY <1>2 DEF CtlStatus, Running, Answer, Control, SessionMatchesState,
     PendingOnlyWhileConnected, connVars, ctlVars, ptyVars, netVars, hist, counters
<1>3. CASE CtlHardwareRefused
  BY <1>3 DEF CtlHardwareRefused, Running, Answer, Control, SessionMatchesState,
     PendingOnlyWhileConnected, connVars, ctlVars, ptyVars, netVars, hist, counters
<1>4. CASE CtlHardware
  BY <1>4 DEF CtlHardware, AtSelect, Suspend, Control, SessionMatchesState,
     PendingOnlyWhileConnected, connVars, ctlVars, ptyVars, netVars, hist, counters
<1>5. CASE CtlClosed
  BY <1>5 DEF CtlClosed, Running, EnterShutdown, fail_pending_ctl, Control,
     SessionMatchesState, PendingOnlyWhileConnected, connVars, ctlVars, ptyVars,
     netVars, hist, counters
<1>6. CASE PtyMessage
  BY <1>6 DEF PtyMessage, AtSelect, Suspend, Control, SessionMatchesState,
     PendingOnlyWhileConnected, connVars, ctlVars, ptyVars, netVars, hist, counters
<1>7. CASE PtyControlMessage
  BY <1>7 DEF PtyControlMessage, AtSelect, Control, SessionMatchesState,
     PendingOnlyWhileConnected, connVars, ctlVars, ptyVars, netVars, hist, counters
<1>8. CASE PtyReadError
  BY <1>8 DEF PtyReadError, AtSelect, EnterShutdown, fail_pending_ctl, Control,
     SessionMatchesState, PendingOnlyWhileConnected, connVars, ctlVars, ptyVars,
     netVars, hist, counters
<1>9. CASE TcpData
  BY <1>9 DEF TcpData, AtSelect, Suspend, Control, SessionMatchesState,
     PendingOnlyWhileConnected, connVars, ctlVars, ptyVars, netVars, hist, counters
<1>10. CASE TcpControlRes
  BY <1>10 DEF TcpControlRes, AtSelect, Control, SessionMatchesState,
     PendingOnlyWhileConnected, connVars, ctlVars, ptyVars, netVars, hist, counters
<1>11. CASE TcpUnexpected
  BY <1>11 DEF TcpUnexpected, AtSelect, Control, SessionMatchesState,
     PendingOnlyWhileConnected, connVars, ctlVars, ptyVars, netVars, hist, counters
<1>12. CASE TcpDisconnected
  BY <1>12 DEF TcpDisconnected, AtSelect, fail_pending_ctl, EnterReconnecting,
     DropFramed, Control, SessionMatchesState, PendingOnlyWhileConnected, connVars,
     ctlVars, ptyVars, netVars, hist, counters
<1>13. CASE SendOk
  BY <1>13 DEF SendOk, BackToSelect, Suspend, Control, SessionMatchesState,
     PendingOnlyWhileConnected, connVars, ctlVars, ptyVars, netVars, hist, counters
<1>14. CASE SendDisconnected
  BY <1>14 DEF SendDisconnected, fail_pending_ctl, EnterReconnecting, DropFramed,
     Control, SessionMatchesState, PendingOnlyWhileConnected, connVars, ctlVars,
     ptyVars, netVars, hist, counters
<1>15. CASE SendCtlOk
  BY <1>15 DEF SendCtlOk, BackToSelect, Suspend, Control, SessionMatchesState,
     PendingOnlyWhileConnected, connVars, ctlVars, ptyVars, netVars, hist, counters
<1>16. CASE SendCtlDisconnected
  BY <1>16 DEF SendCtlDisconnected, Answer, EnterReconnecting, DropFramed, Control,
     SessionMatchesState, PendingOnlyWhileConnected, connVars, ctlVars, ptyVars,
     netVars, hist, counters
<1>17. CASE WriteDone
  BY <1>17 DEF WriteDone, BackToSelect, Suspend, Control, SessionMatchesState,
     PendingOnlyWhileConnected, connVars, ctlVars, ptyVars, netVars, hist, counters
<1>18. CASE WriteError
  BY <1>18 DEF WriteError, EnterShutdown, fail_pending_ctl, Control,
     SessionMatchesState, PendingOnlyWhileConnected, connVars, ctlVars, ptyVars,
     netVars, hist, counters
<1>19. CASE SleepDone
  BY <1>19 DEF SleepDone, AtSelect, Suspend, Control, SessionMatchesState,
     PendingOnlyWhileConnected, connVars, ctlVars, ptyVars, netVars, hist, counters
<1>20. CASE ConnectOk
  BY <1>20 DEF ConnectOk, netVars, Control, SessionMatchesState,
     PendingOnlyWhileConnected, connVars, ctlVars, ptyVars, netVars, hist, counters
<1>21. CASE ConnectFailed
  BY <1>21 DEF ConnectFailed, Control, SessionMatchesState, PendingOnlyWhileConnected,
     connVars, ctlVars, ptyVars, netVars, hist, counters
<1>22. CASE ResyncOk
  BY <1>22 DEF ResyncOk, AtSelect, Control, SessionMatchesState,
     PendingOnlyWhileConnected, connVars, ctlVars, ptyVars, netVars, hist, counters
<1>23. CASE ResyncDisconnected
  BY <1>23 DEF ResyncDisconnected, AtSelect, EnterReconnecting, DropFramed, Control,
     SessionMatchesState, PendingOnlyWhileConnected, connVars, ctlVars, ptyVars,
     netVars, hist, counters
<1>24. CASE EventSent
  BY <1>24 DEF EventSent, Control, SessionMatchesState, PendingOnlyWhileConnected,
     connVars, ctlVars, ptyVars, netVars, hist, counters
<1>25. CASE send_hardware_ctl
  BY <1>25 DEF send_hardware_ctl, Submit, Answer, Control, SessionMatchesState,
     PendingOnlyWhileConnected, connVars, ctlVars, ptyVars, netVars, hist, counters
<1>26. CASE get_status
  BY <1>26 DEF get_status, Submit, Answer, Control, SessionMatchesState,
     PendingOnlyWhileConnected, connVars, ctlVars, ptyVars, netVars, hist, counters
<1>27. CASE shutdown
  BY <1>27 DEF shutdown, Control, SessionMatchesState, PendingOnlyWhileConnected,
     connVars, ctlVars, ptyVars, netVars, hist, counters
<1>28. CASE AppWrite
  BY <1>28 DEF AppWrite, Control, SessionMatchesState, PendingOnlyWhileConnected,
     connVars, ctlVars, ptyVars, netVars, hist, counters, taskVars
<1>29. CASE AppRead
  BY <1>29 DEF AppRead, Control, SessionMatchesState, PendingOnlyWhileConnected,
     connVars, ctlVars, ptyVars, netVars, hist, counters, taskVars
<1>30. CASE PtyFail
  BY <1>30 DEF PtyFail, Control, SessionMatchesState, PendingOnlyWhileConnected,
     connVars, ctlVars, ptyVars, netVars, hist, counters, taskVars
<1>31. CASE DeviceRead
  BY <1>31 DEF DeviceRead, Control, SessionMatchesState, PendingOnlyWhileConnected,
     connVars, ctlVars, ptyVars, netVars, hist, counters, taskVars
<1>32. CASE DeviceSend
  BY <1>32 DEF DeviceSend, Control, SessionMatchesState, PendingOnlyWhileConnected,
     connVars, ctlVars, ptyVars, netVars, hist, counters, taskVars
<1>33. CASE LinkFail
  BY <1>33 DEF LinkFail, Control, SessionMatchesState, PendingOnlyWhileConnected,
     connVars, ctlVars, ptyVars, netVars, hist, counters, taskVars
<1>34. CASE Finished
  BY <1>34 DEF Finished, Control, SessionMatchesState, PendingOnlyWhileConnected,
     connVars, ctlVars, ptyVars, netVars, hist, counters, vars
<1>35. CASE UNCHANGED vars
  BY <1>35 DEF Control, SessionMatchesState, PendingOnlyWhileConnected, connVars,
     ctlVars, ptyVars, netVars, hist, counters, vars
<1> QED
  BY <1>1, <1>2, <1>3, <1>4, <1>5, <1>6, <1>7, <1>8, <1>9, <1>10, <1>11, <1>12, <1>13,
     <1>14, <1>15, <1>16, <1>17, <1>18, <1>19, <1>20, <1>21, <1>22, <1>23, <1>24,
     <1>25, <1>26, <1>27, <1>28, <1>29, <1>30, <1>31, <1>32, <1>33, <1>34, <1>35
     DEF Next, conn_task, step, Environment, CtlArm, PtyArm, TcpArm, SendDone, WriteEnds,
         ConnectEnds, ResyncArm

Queued(r) == \E i \in 1..Len(ctlQ) : ctlQ[i] = r
Sending(r) == pc = "send_ctl" /\ arg = <<r>>

\* Receiving from the control channel takes exactly one request out of it.
LEMMA PopQueue ==
    ASSUME TypeOK, OwedOnce, ctlQ # <<>>, ctlQ' = Tail(ctlQ)
    PROVE  /\ \A r : Queued(r)' <=> Queued(r) /\ r # Head(ctlQ)
           /\ \A i, j \in 1..Len(ctlQ') : ctlQ'[i] = ctlQ'[j] => i = j
           /\ Head(ctlQ) \in Requests /\ Queued(Head(ctlQ))
<1>1. /\ Head(ctlQ) \in Requests /\ Head(ctlQ) = ctlQ[1]
      /\ Len(ctlQ) \in Nat \ {0} /\ Len(ctlQ') = Len(ctlQ) - 1
      /\ \A i \in 1..Len(ctlQ') : ctlQ'[i] = ctlQ[i + 1]
  BY HeadTail DEF TypeOK
<1>2. \A i, j \in 1..Len(ctlQ) : ctlQ[i] = ctlQ[j] => i = j
  BY DEF OwedOnce
<1>3. ASSUME NEW r PROVE Queued(r)' <=> Queued(r) /\ r # Head(ctlQ)
  <2>1. ASSUME NEW i \in 1..Len(ctlQ'), ctlQ'[i] = r
        PROVE  Queued(r) /\ r # Head(ctlQ)
    <3>1. i + 1 \in 1..Len(ctlQ) /\ 1 \in 1..Len(ctlQ) /\ i + 1 # 1
      BY <1>1, <2>1
    <3> QED BY <1>1, <1>2, <2>1, <3>1 DEF Queued
  <2>2. ASSUME NEW i \in 1..Len(ctlQ), ctlQ[i] = r, r # Head(ctlQ)
        PROVE  \E k \in 1..Len(ctlQ') : ctlQ'[k] = r
    <3>1. i # 1
      BY <1>1, <2>2
    <3>2. i - 1 \in 1..Len(ctlQ') /\ (i - 1) + 1 = i
      BY <1>1, <2>2, <3>1
    <3> QED BY <1>1, <2>2, <3>2
  <2> QED BY <2>1, <2>2 DEF Queued
<1>4. \A i, j \in 1..Len(ctlQ') : ctlQ'[i] = ctlQ'[j] => i = j
  BY <1>1, <1>2
<1>5. Queued(Head(ctlQ))
  BY <1>1 DEF Queued
<1> QED BY <1>1, <1>3, <1>4, <1>5

\* What is owed, in terms of the three places.
LEMMA OwedPlaces ==
    /\ \A r : Owed(r) <=> Queued(r) \/ Sending(r) \/ pending_hw_ctl = <<r>>
    /\ OwedOnce <=> /\ \A i, j \in 1..Len(ctlQ) : ctlQ[i] = ctlQ[j] => i = j
                    /\ \A r : Queued(r) => pending_hw_ctl # <<r>> /\ ~Sending(r)
<1>1. \A r : Owed(r) <=> Queued(r) \/ Sending(r) \/ pending_hw_ctl = <<r>>
  BY DEF Owed, Queued, Sending
<1>2. (\A i \in 1..Len(ctlQ) : pending_hw_ctl # <<ctlQ[i]>> /\ ~Sending(ctlQ[i]))
        <=> (\A r : Queued(r) => pending_hw_ctl # <<r>> /\ ~Sending(r))
  BY DEF Queued
<1> QED BY <1>1, <1>2 DEF OwedOnce, Sending

\* The same in the next state.
LEMMA OwedPlacesNext ==
    /\ \A r : Owed(r)' <=> Queued(r)' \/ Sending(r)' \/ pending_hw_ctl' = <<r>>
    /\ OwedOnce' <=> /\ \A i, j \in 1..Len(ctlQ') : ctlQ'[i] = ctlQ'[j] => i = j
                     /\ \A r : Queued(r)' => pending_hw_ctl' # <<r>> /\ ~Sending(r)'
<1>1. \A r : Owed(r)' <=> Queued(r)' \/ Sending(r)' \/ pending_hw_ctl' = <<r>>
  BY DEF Owed, Queued, Sending
<1>2. (\A i \in 1..Len(ctlQ') :
            pending_hw_ctl' # <<ctlQ'[i]>> /\ ~(pc' = "send_ctl" /\ arg' = <<ctlQ'[i]>>))
        <=> (\A r : Queued(r)' => pending_hw_ctl' # <<r>> /\ ~Sending(r)')
  BY DEF Queued, Sending
<1> QED BY <1>1, <1>2 DEF OwedOnce

\* A step that touches neither the queue, the replies nor what is being sent.
LEMMA RequestFrame ==
    ASSUME OwedOnce, NoOrphanRequest, UNCHANGED <<ctlQ, reply, pending_hw_ctl>>,
           \A r : Sending(r)' <=> Sending(r)
    PROVE  OwedOnce' /\ NoOrphanRequest'
<1>1. \A r : Queued(r)' <=> Queued(r)
  BY DEF Queued
<1> QED BY <1>1, OwedPlaces, OwedPlacesNext DEF NoOrphanRequest

\* A queued request is received and answered at once.
LEMMA RequestAnswered ==
    ASSUME TypeOK, OwedOnce, NoOrphanRequest, ctlQ # <<>>, ctlQ' = Tail(ctlQ),
           NEW v, v # "waiting", Answer(Head(ctlQ), v), UNCHANGED pending_hw_ctl,
           \A r : Sending(r)' <=> Sending(r)
    PROVE  OwedOnce' /\ NoOrphanRequest'
<1>1. /\ \A r : Queued(r)' <=> Queued(r) /\ r # Head(ctlQ)
      /\ \A i, j \in 1..Len(ctlQ') : ctlQ'[i] = ctlQ'[j] => i = j
      /\ Head(ctlQ) \in Requests /\ Queued(Head(ctlQ))
  BY PopQueue
<1>2. \A r \in Requests : reply'[r] = IF r = Head(ctlQ) THEN v ELSE reply[r]
  BY <1>1 DEF Answer, TypeOK
<1> QED BY <1>1, <1>2, OwedPlaces, OwedPlacesNext DEF NoOrphanRequest

\* The pending request is answered, by a response or because it failed.
LEMMA PendingAnswered ==
    ASSUME OwedOnce, NoOrphanRequest, UNCHANGED ctlQ, NEW v, v # "waiting",
           pending_hw_ctl' = <<>>, \A r : ~Sending(r) /\ ~Sending(r)',
           \A r \in Requests : reply'[r] = IF pending_hw_ctl = <<r>> THEN v ELSE reply[r]
    PROVE  OwedOnce' /\ NoOrphanRequest'
<1>1. \A r : Queued(r)' <=> Queued(r)
  BY DEF Queued
<1>2. \A r : pending_hw_ctl' # <<r>>
  OBVIOUS
<1> QED BY <1>1, <1>2, OwedPlaces, OwedPlacesNext DEF NoOrphanRequest

\* fail_pending_ctl is such an answer.
LEMMA PendingFailed ==
    ASSUME OwedOnce, NoOrphanRequest, UNCHANGED ctlQ, fail_pending_ctl,
           \A r : ~Sending(r) /\ ~Sending(r)'
    PROVE  OwedOnce' /\ NoOrphanRequest'
<1>1. /\ pending_hw_ctl' = <<>>
      /\ \A r \in Requests :
             reply'[r] = IF pending_hw_ctl = <<r>> THEN "Unavailable" ELSE reply[r]
  BY DEF fail_pending_ctl
<1>2. "Unavailable" # "waiting"
  OBVIOUS
<1> QED BY <1>1, <1>2, PendingAnswered

\* A request enters the channel, or is turned away because the task has ended.
LEMMA RequestSubmitted ==
    ASSUME TypeOK, Control, PendingOnlyWhileConnected, OwedOnce, NoOrphanRequest,
           NEW h \in Requests, Submit(h)
    PROVE  OwedOnce' /\ NoOrphanRequest'
<1>1. /\ UNCHANGED <<pc, arg, pending_hw_ctl>> /\ reply[h] = "idle"
      /\ ctlQ \in Seq(Requests) /\ reply \in [Requests -> Replies]
  BY DEF Submit, TypeOK
<1>2. \A r : Sending(r)' <=> Sending(r)
  BY <1>1 DEF Sending
<1>3. ~Queued(h) /\ ~Sending(h) /\ pending_hw_ctl # <<h>>
  BY <1>1, OwedPlaces DEF NoOrphanRequest
<1>4. CASE ctlQ' = Append(ctlQ, h) /\ Answer(h, "waiting")
  <2>1. /\ Len(ctlQ) \in Nat /\ Len(ctlQ') = Len(ctlQ) + 1
        /\ \A i \in 1..Len(ctlQ') : ctlQ'[i] = IF i = Len(ctlQ) + 1 THEN h ELSE ctlQ[i]
    BY <1>1, <1>4
  <2>2. \A r : Queued(r)' <=> Queued(r) \/ r = h
    <3>1. ASSUME NEW i \in 1..Len(ctlQ) PROVE i \in 1..Len(ctlQ') /\ ctlQ'[i] = ctlQ[i]
      BY <2>1
    <3>2. Len(ctlQ) + 1 \in 1..Len(ctlQ') /\ ctlQ'[Len(ctlQ) + 1] = h
      BY <2>1
    <3>3. ASSUME NEW i \in 1..Len(ctlQ') PROVE ctlQ'[i] = h \/ i \in 1..Len(ctlQ)
      BY <2>1
    <3> QED BY <3>1, <3>2, <3>3 DEF Queued
  <2>3. \A i, j \in 1..Len(ctlQ') : ctlQ'[i] = ctlQ'[j] => i = j
    <3>1. \A i, j \in 1..Len(ctlQ) : ctlQ[i] = ctlQ[j] => i = j
      BY DEF OwedOnce
    <3>2. \A i \in 1..Len(ctlQ) : ctlQ[i] # h
      BY <1>3 DEF Queued
    <3> QED BY <2>1, <3>1, <3>2
  <2>4. \A r \in Requests : reply'[r] = IF r = h THEN "waiting" ELSE reply[r]
    BY <1>1, <1>4 DEF Answer
  <2> QED
    BY <1>1, <1>2, <1>3, <2>2, <2>3, <2>4, OwedPlaces, OwedPlacesNext DEF NoOrphanRequest
<1>5. CASE pc = "done" /\ ctlQ' = ctlQ /\ Answer(h, "closed")
  <2>1. \A r \in Requests : reply'[r] = IF r = h THEN "closed" ELSE reply[r]
    BY <1>1, <1>5 DEF Answer
  <2>2. \A r : Queued(r)' <=> Queued(r)
    BY <1>5 DEF Queued
  <2>3. \A i, j \in 1..Len(ctlQ') : ctlQ'[i] = ctlQ'[j] => i = j
    BY <1>5 DEF OwedOnce
  <2> QED
    BY <1>1, <1>2, <1>3, <2>1, <2>2, <2>3, OwedPlaces, OwedPlacesNext DEF NoOrphanRequest
<1> QED BY <1>4, <1>5 DEF Submit

\* Every step keeps each waiting request owed in exactly one place.
LEMMA OwedNext ==
    TypeOK /\ Control /\ PendingOnlyWhileConnected /\ OwedOnce /\ NoOrphanRequest
        /\ [Next]_vars => (OwedOnce /\ NoOrphanRequest)'
<1> SUFFICES ASSUME TypeOK, Control, PendingOnlyWhileConnected, OwedOnce, NoOrphanRequest,
                    [Next]_vars
             PROVE  OwedOnce' /\ NoOrphanRequest'
  OBVIOUS
<1>1. CASE ShutdownSignal
  <2>1. UNCHANGED ctlQ /\ fail_pending_ctl /\ (\A r : ~Sending(r) /\ ~Sending(r)')
    BY <1>1 DEF ShutdownSignal, Running, EnterShutdown, Sending
  <2> QED BY <2>1, PendingFailed
<1>2. CASE CtlStatus
  <2> DEFINE v == IF state = "Connected" THEN "true" ELSE "false"
  <2>1. /\ ctlQ # <<>> /\ ctlQ' = Tail(ctlQ) /\ Answer(Head(ctlQ), v)
        /\ UNCHANGED pending_hw_ctl /\ (\A r : Sending(r)' <=> Sending(r))
    BY <1>2 DEF CtlStatus, Running, Sending
  <2>2. v # "waiting"
    OBVIOUS
  <2> HIDE DEF v
  <2> QED BY <2>1, <2>2, RequestAnswered
<1>3. CASE CtlHardwareRefused
  <2> DEFINE v == "Unavailable"
  <2>1. /\ ctlQ # <<>> /\ ctlQ' = Tail(ctlQ) /\ Answer(Head(ctlQ), v)
        /\ UNCHANGED pending_hw_ctl /\ (\A r : Sending(r)' <=> Sending(r))
    BY <1>3 DEF CtlHardwareRefused, Running, Sending
  <2>2. v # "waiting"
    OBVIOUS
  <2> HIDE DEF v
  <2> QED BY <2>1, <2>2, RequestAnswered
<1>4. CASE CtlHardware
  <2>1. /\ pc = "select" /\ pc' = "send_ctl" /\ arg' = <<Head(ctlQ)>>
        /\ ctlQ # <<>> /\ ctlQ' = Tail(ctlQ) /\ reply' = reply
        /\ pending_hw_ctl = <<>> /\ pending_hw_ctl' = <<>>
    BY <1>4 DEF CtlHardware, AtSelect, Suspend
  <2>2. /\ \A r : Queued(r)' <=> Queued(r) /\ r # Head(ctlQ)
        /\ \A i, j \in 1..Len(ctlQ') : ctlQ'[i] = ctlQ'[j] => i = j
        /\ Queued(Head(ctlQ))
    BY <2>1, PopQueue
  <2>3. \A r : ~Sending(r) /\ (Sending(r)' <=> r = Head(ctlQ)) /\ pending_hw_ctl # <<r>>
    BY <2>1 DEF Sending
  <2> QED BY <2>1, <2>2, <2>3, OwedPlaces, OwedPlacesNext DEF NoOrphanRequest
<1>5. CASE CtlClosed
  <2>1. UNCHANGED ctlQ /\ fail_pending_ctl /\ (\A r : ~Sending(r) /\ ~Sending(r)')
    BY <1>5 DEF CtlClosed, Running, EnterShutdown, Sending
  <2> QED BY <2>1, PendingFailed
<1>6. CASE PtyMessage
  <2>1. UNCHANGED <<ctlQ, reply, pending_hw_ctl>> /\ (\A r : Sending(r)' <=> Sending(r))
    BY <1>6 DEF PtyMessage, AtSelect, Suspend, Sending, ctlVars
  <2> QED BY <2>1, RequestFrame
<1>7. CASE PtyControlMessage
  <2>1. UNCHANGED <<ctlQ, reply, pending_hw_ctl>> /\ (\A r : Sending(r)' <=> Sending(r))
    BY <1>7 DEF PtyControlMessage, AtSelect, Sending, ctlVars
  <2> QED BY <2>1, RequestFrame
<1>8. CASE PtyReadError
  <2>1. UNCHANGED ctlQ /\ fail_pending_ctl /\ (\A r : ~Sending(r) /\ ~Sending(r)')
    BY <1>8 DEF PtyReadError, AtSelect, EnterShutdown, Sending
  <2> QED BY <2>1, PendingFailed
<1>9. CASE TcpData
  <2>1. UNCHANGED <<ctlQ, reply, pending_hw_ctl>> /\ (\A r : Sending(r)' <=> Sending(r))
    BY <1>9 DEF TcpData, AtSelect, Suspend, Sending, ctlVars
  <2> QED BY <2>1, RequestFrame
<1>10. CASE TcpControlRes
  <2>1. /\ UNCHANGED ctlQ /\ pending_hw_ctl' = <<>>
        /\ \A r : ~Sending(r) /\ ~Sending(r)'
        /\ \A r \in Requests : reply'[r] = IF pending_hw_ctl = <<r>> THEN Head(toHost).kind
                                           ELSE reply[r]
    BY <1>10 DEF TcpControlRes, AtSelect, Sending
  <2>2. Head(toHost).kind # "waiting"
    BY <1>10 DEF TcpControlRes, ResponseKinds
  <2> QED BY <2>1, <2>2, PendingAnswered
<1>11. CASE TcpUnexpected
  <2>1. UNCHANGED <<ctlQ, reply, pending_hw_ctl>> /\ (\A r : Sending(r)' <=> Sending(r))
    BY <1>11 DEF TcpUnexpected, AtSelect, Sending, ctlVars
  <2> QED BY <2>1, RequestFrame
<1>12. CASE TcpDisconnected
  <2>1. UNCHANGED ctlQ /\ fail_pending_ctl /\ (\A r : ~Sending(r) /\ ~Sending(r)')
    BY <1>12 DEF TcpDisconnected, AtSelect, EnterReconnecting, DropFramed, Sending
  <2> QED BY <2>1, PendingFailed
<1>13. CASE SendOk
  <2>1. UNCHANGED <<ctlQ, reply, pending_hw_ctl>> /\ (\A r : Sending(r)' <=> Sending(r))
    BY <1>13 DEF SendOk, BackToSelect, Suspend, Sending, ctlVars
  <2> QED BY <2>1, RequestFrame
<1>14. CASE SendDisconnected
  <2>1. UNCHANGED ctlQ /\ fail_pending_ctl /\ (\A r : ~Sending(r) /\ ~Sending(r)')
    BY <1>14 DEF SendDisconnected, EnterReconnecting, DropFramed, Sending
  <2> QED BY <2>1, PendingFailed
<1>15. CASE SendCtlOk
  <2>1. /\ pending_hw_ctl = <<>> /\ pending_hw_ctl' = arg /\ UNCHANGED <<ctlQ, reply>>
        /\ \A r : Sending(r) <=> pending_hw_ctl' = <<r>>
        /\ \A r : ~Sending(r)'
    BY <1>15 DEF SendCtlOk, BackToSelect, Suspend, Sending, Control, ctlVars
  <2>2. \A r : Queued(r)' <=> Queued(r)
    BY <2>1 DEF Queued
  <2>3. \A r : pending_hw_ctl # <<r>>
    BY <2>1
  <2> QED BY <2>1, <2>2, <2>3, OwedPlaces, OwedPlacesNext DEF NoOrphanRequest
<1>16. CASE SendCtlDisconnected
  <2>1. PICK h \in HwReqs : arg = <<h>>
    BY <1>16, SomeCases DEF SendCtlDisconnected, TypeOK
  <2>2. h \in Requests /\ Head(arg) = h
    BY <2>1 DEF Requests
  <2>3. /\ \A r : Sending(r) <=> r = h
        /\ \A r : ~Sending(r)'
        /\ UNCHANGED <<ctlQ, pending_hw_ctl>> /\ Answer(h, "Unavailable")
        /\ pending_hw_ctl = <<>>
    BY <1>16, <2>1, <2>2 DEF SendCtlDisconnected, EnterReconnecting, Sending, Control
  <2>4. \A r \in Requests : reply'[r] = IF r = h THEN "Unavailable" ELSE reply[r]
    BY <2>2, <2>3 DEF Answer, TypeOK
  <2>5. \A r : Queued(r)' <=> Queued(r)
    BY <2>3 DEF Queued
  <2>6. \A r : pending_hw_ctl # <<r>>
    BY <2>3
  <2> QED BY <2>3, <2>4, <2>5, <2>6, OwedPlaces, OwedPlacesNext DEF NoOrphanRequest
<1>17. CASE WriteDone
  <2>1. UNCHANGED <<ctlQ, reply, pending_hw_ctl>> /\ (\A r : Sending(r)' <=> Sending(r))
    BY <1>17 DEF WriteDone, BackToSelect, Suspend, Sending, ctlVars
  <2> QED BY <2>1, RequestFrame
<1>18. CASE WriteError
  <2>1. UNCHANGED ctlQ /\ fail_pending_ctl /\ (\A r : ~Sending(r) /\ ~Sending(r)')
    BY <1>18 DEF WriteError, EnterShutdown, Sending
  <2> QED BY <2>1, PendingFailed
<1>19. CASE SleepDone
  <2>1. UNCHANGED <<ctlQ, reply, pending_hw_ctl>> /\ (\A r : Sending(r)' <=> Sending(r))
    BY <1>19 DEF SleepDone, AtSelect, Suspend, Sending, ctlVars
  <2> QED BY <2>1, RequestFrame
<1>20. CASE ConnectOk
  <2>1. UNCHANGED <<ctlQ, reply, pending_hw_ctl>> /\ (\A r : Sending(r)' <=> Sending(r))
    BY <1>20 DEF ConnectOk, netVars, Sending, ctlVars
  <2> QED BY <2>1, RequestFrame
<1>21. CASE ConnectFailed
  <2>1. UNCHANGED <<ctlQ, reply, pending_hw_ctl>> /\ (\A r : Sending(r)' <=> Sending(r))
    BY <1>21 DEF ConnectFailed, Sending, ctlVars
  <2> QED BY <2>1, RequestFrame
<1>22. CASE ResyncOk
  <2>1. UNCHANGED <<ctlQ, reply, pending_hw_ctl>> /\ (\A r : Sending(r)' <=> Sending(r))
    BY <1>22 DEF ResyncOk, AtSelect, Sending, ctlVars
  <2> QED BY <2>1, RequestFrame
<1>23. CASE ResyncDisconnected
  <2>1. UNCHANGED <<ctlQ, reply, pending_hw_ctl>> /\ (\A r : Sending(r)' <=> Sending(r))
    BY <1>23 DEF ResyncDisconnected, AtSelect, EnterReconnecting, DropFramed, Sending,
       ctlVars
  <2> QED BY <2>1, RequestFrame
<1>24. CASE EventSent
  <2>1. /\ \A r : ~Sending(r) /\ ~Sending(r)'
        /\ ctlQ' = <<>> /\ UNCHANGED pending_hw_ctl
        /\ \A r \in Requests : reply'[r] = IF Queued(r) THEN "closed" ELSE reply[r]
    BY <1>24 DEF EventSent, Sending, Queued
  <2>2. pending_hw_ctl = <<>>
    BY <1>24 DEF EventSent, Control, PendingOnlyWhileConnected
  <2>3. /\ \A r : ~Queued(r)'
        /\ \A i, j \in 1..Len(ctlQ') : ctlQ'[i] = ctlQ'[j] => i = j
    BY <2>1 DEF Queued
  <2>4. \A r : pending_hw_ctl # <<r>> /\ pending_hw_ctl' # <<r>>
    BY <2>1, <2>2
  <2> QED BY <2>1, <2>3, <2>4, OwedPlaces, OwedPlacesNext DEF NoOrphanRequest
<1>25. CASE send_hardware_ctl
  BY <1>25, RequestSubmitted DEF send_hardware_ctl, Requests
<1>26. CASE get_status
  BY <1>26, RequestSubmitted DEF get_status, Requests
<1>27. CASE shutdown
  <2>1. UNCHANGED <<ctlQ, reply, pending_hw_ctl>> /\ (\A r : Sending(r)' <=> Sending(r))
    BY <1>27 DEF shutdown, Sending, ctlVars
  <2> QED BY <2>1, RequestFrame
<1>28. CASE AppWrite
  <2>1. UNCHANGED <<ctlQ, reply, pending_hw_ctl>> /\ (\A r : Sending(r)' <=> Sending(r))
    BY <1>28 DEF AppWrite, Sending, ctlVars, taskVars
  <2> QED BY <2>1, RequestFrame
<1>29. CASE AppRead
  <2>1. UNCHANGED <<ctlQ, reply, pending_hw_ctl>> /\ (\A r : Sending(r)' <=> Sending(r))
    BY <1>29 DEF AppRead, Sending, ctlVars, taskVars
  <2> QED BY <2>1, RequestFrame
<1>30. CASE PtyFail
  <2>1. UNCHANGED <<ctlQ, reply, pending_hw_ctl>> /\ (\A r : Sending(r)' <=> Sending(r))
    BY <1>30 DEF PtyFail, Sending, ctlVars, taskVars
  <2> QED BY <2>1, RequestFrame
<1>31. CASE DeviceRead
  <2>1. UNCHANGED <<ctlQ, reply, pending_hw_ctl>> /\ (\A r : Sending(r)' <=> Sending(r))
    BY <1>31 DEF DeviceRead, Sending, ctlVars, taskVars
  <2> QED BY <2>1, RequestFrame
<1>32. CASE DeviceSend
  <2>1. UNCHANGED <<ctlQ, reply, pending_hw_ctl>> /\ (\A r : Sending(r)' <=> Sending(r))
    BY <1>32 DEF DeviceSend, Sending, ctlVars, taskVars
  <2> QED BY <2>1, RequestFrame
<1>33. CASE LinkFail
  <2>1. UNCHANGED <<ctlQ, reply, pending_hw_ctl>> /\ (\A r : Sending(r)' <=> Sending(r))
    BY <1>33 DEF LinkFail, Sending, ctlVars, taskVars
  <2> QED BY <2>1, RequestFrame
<1>34. CASE Finished
  <2>1. UNCHANGED <<ctlQ, reply, pending_hw_ctl>> /\ (\A r : Sending(r)' <=> Sending(r))
    BY <1>34 DEF Finished, Sending, ctlVars, connVars, vars
  <2> QED BY <2>1, RequestFrame
<1>35. CASE UNCHANGED vars
  BY <1>35, RequestFrame DEF Sending, vars, ctlVars
<1> QED
  BY <1>1, <1>2, <1>3, <1>4, <1>5, <1>6, <1>7, <1>8, <1>9, <1>10, <1>11, <1>12, <1>13,
     <1>14, <1>15, <1>16, <1>17, <1>18, <1>19, <1>20, <1>21, <1>22, <1>23, <1>24,
     <1>25, <1>26, <1>27, <1>28, <1>29, <1>30, <1>31, <1>32, <1>33, <1>34, <1>35
     DEF Next, conn_task, step, Environment, CtlArm, PtyArm, TcpArm, SendDone, WriteEnds,
         ConnectEnds, ResyncArm

\* The invariant of the requests holds initially.
LEMMA RequestInit == Init => RequestInv
<1> SUFFICES ASSUME Init PROVE RequestInv
  OBVIOUS
<1>1. PendingOnlyWhileConnected
  BY DEF Init, PendingOnlyWhileConnected
<1>2. OwedOnce
  BY DEF Init, OwedOnce
<1>3. NoOrphanRequest
  <2>1. \A r : ~Queued(r) /\ ~Sending(r) /\ pending_hw_ctl # <<r>>
    BY DEF Init, Queued, Sending
  <2>2. \A r \in Requests : reply[r] # "waiting"
    BY DEF Init
  <2> QED BY <2>1, <2>2, OwedPlaces DEF NoOrphanRequest
<1> QED BY <1>1, <1>2, <1>3, DataInit DEF RequestInv

\* It is inductive.
LEMMA RequestNext == RequestInv /\ [Next]_vars => RequestInv'
BY DataNext, PendingNext, OwedNext DEF RequestInv, DataInv

\* A caller that waits for its oneshot is owed an answer by exactly one part of
\* the task, and nobody else is.
THEOREM NoOrphanAlways == Spec => []NoOrphanRequest
<1>1. RequestInv => NoOrphanRequest
  BY DEF RequestInv
<1> QED BY <1>1, RequestInit, RequestNext, PTL DEF Spec

\* A response is expected only over the session its request was sent on.
THEOREM PendingAlways == Spec => []PendingOnlyWhileConnected
<1>1. RequestInv => PendingOnlyWhileConnected
  BY DEF RequestInv
<1> QED BY <1>1, RequestInit, RequestNext, PTL DEF Spec

-------------------------------------------------------------------------------
(* The task implements the life cycle *)

\* A step that answers nobody and does not change the stage is a stutter.
LEMMA StutterStep ==
    ASSUME UNCHANGED <<reply, lifeOf>>
    PROVE  [Lifecycle!Next]_(Lifecycle!lifeVars)
BY DEF Lifecycle!lifeVars

\* The running task answers one waiting request.
LEMMA ResolveStep ==
    ASSUME NEW h \in Requests, reply[h] = "waiting", NEW v \in Answers \ {"closed"},
           reply' = [reply EXCEPT ![h] = v], lifeOf = "running", lifeOf' = lifeOf
    PROVE  [Lifecycle!Next]_(Lifecycle!lifeVars)
<1>1. Lifecycle!Resolve(h)
  BY DEF Lifecycle!Resolve
<1> QED BY <1>1 DEF Lifecycle!Next

\* fail_pending_ctl answers the pending request, which is waiting, or nobody.
LEMMA FailPendingEffect ==
    ASSUME TypeOK, NoOrphanRequest, fail_pending_ctl
    PROVE  \/ reply' = reply
           \/ \E h \in Requests : /\ reply[h] = "waiting"
                                  /\ reply' = [reply EXCEPT ![h] = "Unavailable"]
<1>1. reply \in [Requests -> Replies] /\ pending_hw_ctl \in Option(HwReqs)
  BY DEF TypeOK
<1>2. reply' = [r \in Requests |-> IF pending_hw_ctl = <<r>> THEN "Unavailable" ELSE reply[r]]
  BY DEF fail_pending_ctl
<1>3. CASE pending_hw_ctl = <<>>
  <2>1. \A r : pending_hw_ctl # <<r>>
    BY <1>3
  <2> QED BY <1>1, <1>2, <2>1
<1>4. ASSUME NEW h \in HwReqs, pending_hw_ctl = <<h>>
      PROVE  \E r \in Requests : /\ reply[r] = "waiting"
                                 /\ reply' = [reply EXCEPT ![r] = "Unavailable"]
  <2>1. h \in Requests
    BY DEF Requests
  <2>2. reply[h] = "waiting"
    BY <1>4, <2>1 DEF NoOrphanRequest, Owed
  <2>3. \A r : pending_hw_ctl = <<r>> <=> r = h
    BY <1>4
  <2>4. reply' = [reply EXCEPT ![h] = "Unavailable"]
    BY <1>1, <1>2, <2>1, <2>3
  <2> QED BY <2>1, <2>2, <2>4
<1> QED BY <1>1, <1>3, <1>4, OptionCases

\* Losing the session fails the pending request while the task keeps running.
LEMMA LostStep ==
    ASSUME TypeOK, NoOrphanRequest, fail_pending_ctl, lifeOf = "running", lifeOf' = lifeOf
    PROVE  [Lifecycle!Next]_(Lifecycle!lifeVars)
<1>1. "Unavailable" \in Answers \ {"closed"}
  BY DEF Answers
<1> QED BY <1>1, FailPendingEffect, ResolveStep, StutterStep

\* Shutting down is the Close of the life cycle.
LEMMA CloseStep ==
    ASSUME TypeOK, NoOrphanRequest, EnterShutdown, lifeOf = "running"
    PROVE  [Lifecycle!Next]_(Lifecycle!lifeVars)
<1>1. lifeOf' = "closing" /\ fail_pending_ctl
  BY DEF EnterShutdown, lifeOf
<1>2. Lifecycle!Close
  BY <1>1, FailPendingEffect DEF Lifecycle!Close
<1> QED BY <1>2 DEF Lifecycle!Next

\* A submitted request is a Submit, or a Refuse once the task has ended.
LEMMA SubmitStep ==
    ASSUME TypeOK, Control, NEW h \in Requests, Submit(h)
    PROVE  [Lifecycle!Next]_(Lifecycle!lifeVars)
<1>1. lifeOf' = lifeOf /\ reply[h] = "idle" /\ (lifeOf = "done" <=> pc = "done")
  BY DEF Submit, lifeOf, connVars
<1>2. CASE pc # "done" /\ Answer(h, "waiting")
  <2>1. Lifecycle!Submit(h)
    BY <1>1, <1>2 DEF Lifecycle!Submit, Answer
  <2> QED BY <2>1 DEF Lifecycle!Next
<1>3. CASE pc = "done" /\ Answer(h, "closed")
  <2>1. Lifecycle!Refuse(h)
    BY <1>1, <1>3 DEF Lifecycle!Refuse, Answer
  <2> QED BY <2>1 DEF Lifecycle!Next
<1> QED BY <1>2, <1>3 DEF Submit

\* Every step of the task is a step of the life cycle or a stutter.
LEMMA LifecycleStep ==
    RequestInv /\ [Next]_vars => [Lifecycle!Next]_(Lifecycle!lifeVars)
<1> SUFFICES ASSUME RequestInv, [Next]_vars
             PROVE  [Lifecycle!Next]_(Lifecycle!lifeVars)
  OBVIOUS
<1>0. /\ TypeOK /\ Control /\ PendingOnlyWhileConnected /\ OwedOnce /\ NoOrphanRequest
  BY DEF RequestInv, DataInv
<1> USE <1>0
<1>1. CASE ShutdownSignal
  <2>1. EnterShutdown /\ lifeOf = "running"
    BY <1>1 DEF ShutdownSignal, Running, lifeOf, Control
  <2> QED BY <2>1, CloseStep
<1>2. CASE CtlStatus
  <2> DEFINE v == IF state = "Connected" THEN "true" ELSE "false"
  <2>1. /\ ctlQ # <<>> /\ ctlQ' = Tail(ctlQ) /\ reply' = [reply EXCEPT ![Head(ctlQ)] = v]
        /\ lifeOf = "running" /\ lifeOf' = lifeOf
    BY <1>2 DEF CtlStatus, Running, Answer, lifeOf, Control, connVars
  <2>2. v \in Answers \ {"closed"}
    BY DEF Answers
  <2>3. Head(ctlQ) \in Requests /\ reply[Head(ctlQ)] = "waiting"
    BY <2>1, PopQueue, OwedPlaces DEF NoOrphanRequest
  <2> HIDE DEF v
  <2> QED BY <2>1, <2>2, <2>3, ResolveStep
<1>3. CASE CtlHardwareRefused
  <2> DEFINE v == "Unavailable"
  <2>1. /\ ctlQ # <<>> /\ ctlQ' = Tail(ctlQ) /\ reply' = [reply EXCEPT ![Head(ctlQ)] = v]
        /\ lifeOf = "running" /\ lifeOf' = lifeOf
    BY <1>3 DEF CtlHardwareRefused, Running, Answer, lifeOf, Control, connVars
  <2>2. v \in Answers \ {"closed"}
    BY DEF Answers
  <2>3. Head(ctlQ) \in Requests /\ reply[Head(ctlQ)] = "waiting"
    BY <2>1, PopQueue, OwedPlaces DEF NoOrphanRequest
  <2> HIDE DEF v
  <2> QED BY <2>1, <2>2, <2>3, ResolveStep
<1>4. CASE CtlHardware
  <2>1. UNCHANGED <<reply, lifeOf>>
    BY <1>4 DEF CtlHardware, AtSelect, Suspend, lifeOf, Control, connVars, ctlVars
  <2> QED BY <2>1, StutterStep
<1>5. CASE CtlClosed
  <2>1. EnterShutdown /\ lifeOf = "running"
    BY <1>5 DEF CtlClosed, Running, lifeOf, Control
  <2> QED BY <2>1, CloseStep
<1>6. CASE PtyMessage
  <2>1. UNCHANGED <<reply, lifeOf>>
    BY <1>6 DEF PtyMessage, AtSelect, Suspend, lifeOf, Control, connVars, ctlVars
  <2> QED BY <2>1, StutterStep
<1>7. CASE PtyControlMessage
  <2>1. UNCHANGED <<reply, lifeOf>>
    BY <1>7 DEF PtyControlMessage, AtSelect, lifeOf, Control, connVars, ctlVars
  <2> QED BY <2>1, StutterStep
<1>8. CASE PtyReadError
  <2>1. EnterShutdown /\ lifeOf = "running"
    BY <1>8 DEF PtyReadError, AtSelect, lifeOf, Control
  <2> QED BY <2>1, CloseStep
<1>9. CASE TcpData
  <2>1. UNCHANGED <<reply, lifeOf>>
    BY <1>9 DEF TcpData, AtSelect, Suspend, lifeOf, Control, connVars, ctlVars
  <2> QED BY <2>1, StutterStep
<1>10. CASE TcpControlRes
  <2> DEFINE v == Head(toHost).kind
  <2>1. /\ reply' = [r \in Requests |-> IF pending_hw_ctl = <<r>> THEN v ELSE reply[r]]
        /\ lifeOf = "running" /\ lifeOf' = lifeOf
    BY <1>10 DEF TcpControlRes, AtSelect, lifeOf, connVars
  <2>2. v \in Answers \ {"closed"}
    BY <1>10 DEF TcpControlRes, ResponseKinds, Answers
  <2>3. reply \in [Requests -> Replies] /\ pending_hw_ctl \in Option(HwReqs)
    BY DEF TypeOK
  <2> HIDE DEF v
  <2>4. CASE pending_hw_ctl = <<>>
    <3>1. \A r : pending_hw_ctl # <<r>>
      BY <2>4
    <3>2. reply' = reply
      BY <2>1, <2>3, <3>1
    <3> QED BY <2>1, <3>2, StutterStep
  <2>5. ASSUME NEW h \in HwReqs, pending_hw_ctl = <<h>>
        PROVE  [Lifecycle!Next]_(Lifecycle!lifeVars)
    <3>1. h \in Requests
      BY DEF Requests
    <3>2. reply[h] = "waiting"
      BY <2>5, <3>1 DEF NoOrphanRequest, Owed
    <3>3. \A r : pending_hw_ctl = <<r>> <=> r = h
      BY <2>5
    <3>4. reply' = [reply EXCEPT ![h] = v]
      BY <2>1, <2>3, <3>1, <3>3
    <3> QED BY <2>1, <2>2, <3>1, <3>2, <3>4, ResolveStep
  <2> QED BY <2>3, <2>4, <2>5, OptionCases
<1>11. CASE TcpUnexpected
  <2>1. UNCHANGED <<reply, lifeOf>>
    BY <1>11 DEF TcpUnexpected, AtSelect, lifeOf, Control, connVars, ctlVars
  <2> QED BY <2>1, StutterStep
<1>12. CASE TcpDisconnected
  <2>1. fail_pending_ctl /\ lifeOf = "running" /\ lifeOf' = lifeOf
    BY <1>12 DEF TcpDisconnected, AtSelect, EnterReconnecting, DropFramed, lifeOf,
       Control
  <2> QED BY <2>1, LostStep
<1>13. CASE SendOk
  <2>1. UNCHANGED <<reply, lifeOf>>
    BY <1>13 DEF SendOk, BackToSelect, Suspend, lifeOf, Control, connVars, ctlVars
  <2> QED BY <2>1, StutterStep
<1>14. CASE SendDisconnected
  <2>1. fail_pending_ctl /\ lifeOf = "running" /\ lifeOf' = lifeOf
    BY <1>14 DEF SendDisconnected, EnterReconnecting, DropFramed, lifeOf, Control
  <2> QED BY <2>1, LostStep
<1>15. CASE SendCtlOk
  <2>1. UNCHANGED <<reply, lifeOf>>
    BY <1>15 DEF SendCtlOk, BackToSelect, Suspend, lifeOf, Control, connVars, ctlVars
  <2> QED BY <2>1, StutterStep
<1>16. CASE SendCtlDisconnected
  <2>1. PICK h \in HwReqs : arg = <<h>>
    BY <1>16, SomeCases DEF SendCtlDisconnected, TypeOK
  <2>2. h \in Requests /\ Head(arg) = h
    BY <2>1 DEF Requests
  <2>3. reply[h] = "waiting"
    BY <1>16, <2>1, <2>2 DEF SendCtlDisconnected, NoOrphanRequest, Owed
  <2>4. /\ reply' = [reply EXCEPT ![h] = "Unavailable"]
        /\ lifeOf = "running" /\ lifeOf' = lifeOf
    BY <1>16, <2>2 DEF SendCtlDisconnected, EnterReconnecting, Answer, lifeOf, Control
  <2>5. "Unavailable" \in Answers \ {"closed"}
    BY DEF Answers
  <2> QED BY <2>2, <2>3, <2>4, <2>5, ResolveStep
<1>17. CASE WriteDone
  <2>1. UNCHANGED <<reply, lifeOf>>
    BY <1>17 DEF WriteDone, BackToSelect, Suspend, lifeOf, Control, connVars, ctlVars
  <2> QED BY <2>1, StutterStep
<1>18. CASE WriteError
  <2>1. EnterShutdown /\ lifeOf = "running"
    BY <1>18 DEF WriteError, lifeOf, Control
  <2> QED BY <2>1, CloseStep
<1>19. CASE SleepDone
  <2>1. UNCHANGED <<reply, lifeOf>>
    BY <1>19 DEF SleepDone, AtSelect, Suspend, lifeOf, Control, connVars, ctlVars
  <2> QED BY <2>1, StutterStep
<1>20. CASE ConnectOk
  <2>1. UNCHANGED <<reply, lifeOf>>
    BY <1>20 DEF ConnectOk, netVars, lifeOf, Control, connVars, ctlVars
  <2> QED BY <2>1, StutterStep
<1>21. CASE ConnectFailed
  <2>1. UNCHANGED <<reply, lifeOf>>
    BY <1>21 DEF ConnectFailed, lifeOf, Control, connVars, ctlVars
  <2> QED BY <2>1, StutterStep
<1>22. CASE ResyncOk
  <2>1. UNCHANGED <<reply, lifeOf>>
    BY <1>22 DEF ResyncOk, AtSelect, lifeOf, Control, connVars, ctlVars
  <2> QED BY <2>1, StutterStep
<1>23. CASE ResyncDisconnected
  <2>1. UNCHANGED <<reply, lifeOf>>
    BY <1>23 DEF ResyncDisconnected, AtSelect, EnterReconnecting, DropFramed, lifeOf,
       Control, connVars, ctlVars
  <2> QED BY <2>1, StutterStep
<1>24. CASE EventSent
  <2>1. /\ lifeOf = "closing" /\ lifeOf' = "done"
        /\ reply' = [r \in Requests |-> IF Queued(r) THEN "closed" ELSE reply[r]]
        /\ \A r : ~Sending(r)
    BY <1>24 DEF EventSent, lifeOf, Control, Queued, Sending
  <2>2. pending_hw_ctl = <<>>
    BY <1>24 DEF EventSent, Control, PendingOnlyWhileConnected
  <2>3. \A r : pending_hw_ctl # <<r>>
    BY <2>2
  <2>4. \A r \in Requests : Queued(r) <=> reply[r] = "waiting"
    BY <2>1, <2>3, OwedPlaces DEF NoOrphanRequest
  <2>5. Lifecycle!Exit
    BY <2>1, <2>4 DEF Lifecycle!Exit
  <2> QED BY <2>5 DEF Lifecycle!Next
<1>25. CASE send_hardware_ctl
  BY <1>25, SubmitStep DEF send_hardware_ctl, Requests
<1>26. CASE get_status
  BY <1>26, SubmitStep DEF get_status, Requests
<1>27. CASE shutdown
  <2>1. UNCHANGED <<reply, lifeOf>>
    BY <1>27 DEF shutdown, lifeOf, Control, connVars, ctlVars
  <2> QED BY <2>1, StutterStep
<1>28. CASE AppWrite
  <2>1. UNCHANGED <<reply, lifeOf>>
    BY <1>28 DEF AppWrite, lifeOf, Control, connVars, ctlVars, taskVars
  <2> QED BY <2>1, StutterStep
<1>29. CASE AppRead
  <2>1. UNCHANGED <<reply, lifeOf>>
    BY <1>29 DEF AppRead, lifeOf, Control, connVars, ctlVars, taskVars
  <2> QED BY <2>1, StutterStep
<1>30. CASE PtyFail
  <2>1. UNCHANGED <<reply, lifeOf>>
    BY <1>30 DEF PtyFail, lifeOf, Control, connVars, ctlVars, taskVars
  <2> QED BY <2>1, StutterStep
<1>31. CASE DeviceRead
  <2>1. UNCHANGED <<reply, lifeOf>>
    BY <1>31 DEF DeviceRead, lifeOf, Control, connVars, ctlVars, taskVars
  <2> QED BY <2>1, StutterStep
<1>32. CASE DeviceSend
  <2>1. UNCHANGED <<reply, lifeOf>>
    BY <1>32 DEF DeviceSend, lifeOf, Control, connVars, ctlVars, taskVars
  <2> QED BY <2>1, StutterStep
<1>33. CASE LinkFail
  <2>1. UNCHANGED <<reply, lifeOf>>
    BY <1>33 DEF LinkFail, lifeOf, Control, connVars, ctlVars, taskVars
  <2> QED BY <2>1, StutterStep
<1>34. CASE Finished
  <2>1. UNCHANGED <<reply, lifeOf>>
    BY <1>34 DEF Finished, lifeOf, Control, connVars, ctlVars, vars
  <2> QED BY <2>1, StutterStep
<1>35. CASE UNCHANGED vars
  <2>1. UNCHANGED <<reply, lifeOf>>
    BY <1>35 DEF lifeOf, vars, connVars, ctlVars
  <2> QED BY <2>1, StutterStep
<1> QED
  BY <1>1, <1>2, <1>3, <1>4, <1>5, <1>6, <1>7, <1>8, <1>9, <1>10, <1>11, <1>12, <1>13,
     <1>14, <1>15, <1>16, <1>17, <1>18, <1>19, <1>20, <1>21, <1>22, <1>23, <1>24,
     <1>25, <1>26, <1>27, <1>28, <1>29, <1>30, <1>31, <1>32, <1>33, <1>34, <1>35
     DEF Next, conn_task, step, Environment, CtlArm, PtyArm, TcpArm, SendDone, WriteEnds,
         ConnectEnds, ResyncArm

\* A connection task answers each request once, none after it began to close,
\* and leaves no caller waiting when it ends: it implements ConnLifecycle.
THEOREM ImplementsLifecycle == Spec => LifecycleSpec
<1>1. Init => Lifecycle!Init
  BY DEF Init, lifeOf, Lifecycle!Init
<1>2. RequestInv /\ [Next]_vars => [Lifecycle!Next]_(Lifecycle!lifeVars)
  BY LifecycleStep
<1> QED
  BY <1>1, <1>2, RequestInit, RequestNext, PTL DEF Spec, LifecycleSpec, Lifecycle!Spec

===============================================================================
