---------------------------- MODULE FirmwareProofs ----------------------------
(***************************************************************************)
(* Proofs about the firmware's three tasks, for every queue depth, buffer  *)
(* size and number of clients.                                             *)
(***************************************************************************)
EXTENDS Firmware, SeqLemmas, TLAPS

-------------------------------------------------------------------------------
(* The eventfd and the queue it announces *)

\* WakeupInv is inductive: only ReadEfd clears the eventfd, and it is followed by
\* a drain; every push is followed by a write.
LEMMA WakeupNext == WakeupInv /\ [Next]_vars => WakeupInv'
<1> SUFFICES ASSUME WakeupInv, [Next]_vars PROVE WakeupInv'
  OBVIOUS
<1>1. CASE Accept
  BY <1>1 DEF Accept, rxVars, txVars, ghosts, WakeupInv, WakeupDue
<1>2. CASE AcceptFailed
  BY <1>2 DEF AcceptFailed, rxVars, txVars, ghosts, WakeupInv, WakeupDue
<1>3. CASE Select
  BY <1>3 DEF Select, rxVars, txVars, ghosts, WakeupInv, WakeupDue
<1>4. CASE ReadMsg
  BY <1>4 DEF ReadMsg, rxVars, txVars, ghosts, WakeupInv, WakeupDue
<1>5. CASE ReadMsgFailed
  BY <1>5 DEF ReadMsgFailed, ForgetClient, rxVars, txVars, ghosts, WakeupInv,
     WakeupDue
<1>6. CASE PushToUart
  BY <1>6 DEF PushToUart, rxVars, txVars, ghosts, WakeupInv, WakeupDue
<1>7. CASE ReadEfd
  BY <1>7 DEF ReadEfd, rxVars, txVars, ghosts, WakeupInv, WakeupDue
<1>8. CASE Drain
  BY <1>8 DEF Drain, rxVars, txVars, ghosts, WakeupInv, WakeupDue
<1>9. CASE DrainEnd
  BY <1>9 DEF DrainEnd, rxVars, txVars, ghosts, WakeupInv, WakeupDue
<1>10. CASE Send
  BY <1>10 DEF Send, rxVars, txVars, ghosts, WakeupInv, WakeupDue
<1>11. CASE SendFailed
  BY <1>11 DEF SendFailed, ForgetClient, rxVars, txVars, ghosts, WakeupInv, WakeupDue
<1>12. CASE RxEvent
  BY <1>12 DEF RxEvent, Elsewhere, tcpVars, ghosts, counters, rxVars, txVars,
     WakeupInv, WakeupDue
<1>13. CASE RxRead
  BY <1>13 DEF RxRead, Elsewhere, tcpVars, ghosts, counters, rxVars, txVars,
     WakeupInv, WakeupDue
<1>14. CASE RxReadEnd
  BY <1>14 DEF RxReadEnd, Elsewhere, tcpVars, ghosts, counters, rxVars, txVars,
     WakeupInv, WakeupDue
<1>15. CASE RxPush
  BY <1>15 DEF RxPush, Elsewhere, tcpVars, ghosts, counters, rxVars, txVars,
     WakeupInv, WakeupDue
<1>16. CASE RxNotify
  BY <1>16 DEF RxNotify, Elsewhere, tcpVars, ghosts, counters, rxVars, txVars,
     WakeupInv, WakeupDue
<1>17. CASE TxData
  BY <1>17 DEF TxData, TxTake, TxElsewhere, tcpVars, rxVars, ghosts, txVars,
     WakeupInv, WakeupDue
<1>18. CASE TxWrite
  BY <1>18 DEF TxWrite, TxElsewhere, tcpVars, rxVars, ghosts, txVars, WakeupInv,
     WakeupDue
<1>19. CASE apply_config
  BY <1>19 DEF apply_config, TxTake, TxElsewhere, tcpVars, rxVars, ghosts, txVars,
     WakeupInv, WakeupDue
<1>20. CASE TxIgnored
  BY <1>20 DEF TxIgnored, TxTake, TxElsewhere, tcpVars, rxVars, ghosts, txVars,
     WakeupInv, WakeupDue
<1>21. CASE ResetBegin
  BY <1>21 DEF ResetBegin, TxTake, TxElsewhere, tcpVars, rxVars, ghosts, txVars,
     WakeupInv, WakeupDue
<1>22. CASE ResetEnd
  BY <1>22 DEF ResetEnd, TxElsewhere, tcpVars, rxVars, ghosts, txVars, WakeupInv,
     WakeupDue
<1>23. CASE NotSupported
  BY <1>23 DEF NotSupported, TxTake, TxElsewhere, tcpVars, rxVars, ghosts, txVars,
     WakeupInv, WakeupDue
<1>24. CASE Respond
  BY <1>24 DEF Respond, TxElsewhere, tcpVars, rxVars, ghosts, txVars, WakeupInv,
     WakeupDue
<1>25. CASE TxNotify
  BY <1>25 DEF TxNotify, TxElsewhere, tcpVars, rxVars, ghosts, txVars, WakeupInv,
     WakeupDue
<1>26. CASE WireIn
  BY <1>26 DEF WireIn, DriverElsewhere, tcpVars, ghosts, rxVars, txVars, WakeupInv,
     WakeupDue
<1>27. CASE LineEvent
  BY <1>27 DEF LineEvent, DriverElsewhere, tcpVars, ghosts, rxVars, txVars, WakeupInv,
     WakeupDue
<1>28. CASE WireOut
  BY <1>28 DEF WireOut, DriverElsewhere, tcpVars, ghosts, rxVars, txVars, WakeupInv,
     WakeupDue
<1>29. CASE ClientConnect
  BY <1>29 DEF ClientConnect, ClientElsewhere, rxVars, txVars, ghosts, WakeupInv,
     WakeupDue
<1>30. CASE ClientSend
  BY <1>30 DEF ClientSend, ClientElsewhere, rxVars, txVars, ghosts, WakeupInv,
     WakeupDue
<1>31. CASE ClientRead
  BY <1>31 DEF ClientRead, ClientElsewhere, rxVars, txVars, ghosts, WakeupInv,
     WakeupDue
<1>32. CASE ClientClose
  BY <1>32 DEF ClientClose, ClientElsewhere, rxVars, txVars, ghosts, WakeupInv,
     WakeupDue
<1>33. CASE SelectFailed
  BY <1>33 DEF SelectFailed, ForgetClient, rxVars, txVars, ghosts, WakeupInv, WakeupDue
<1>34. CASE UNCHANGED vars
  BY <1>34 DEF vars, tcpVars, rxVars, txVars, ghosts, WakeupInv, WakeupDue
<1> QED
  BY <1>1, <1>2, <1>3, <1>4, <1>5, <1>6, <1>7, <1>8, <1>9, <1>10, <1>11, <1>12, <1>13,
     <1>14, <1>15, <1>16, <1>17, <1>18, <1>19, <1>20, <1>21, <1>22, <1>23, <1>24,
     <1>25, <1>26, <1>27, <1>28, <1>29, <1>30, <1>31, <1>32, <1>33, <1>34
     DEF Next, tcp_task, handle_client, serve_client, uart_rx_task, uart_tx_task,
         handle_control, Driver, Client

\* tcp_task never sleeps on a queue with messages and no wakeup under way,
\* except after a drain that a failed send cut short.
THEOREM NoLostWakeupAlways == Spec => []NoLostWakeup
<1>1. Init => WakeupInv
  BY DEF Init, WakeupInv
<1>2. WakeupInv => NoLostWakeup
  BY DEF WakeupInv, WakeupDue, NoLostWakeup
<1> QED BY <1>1, <1>2, WakeupNext, PTL DEF Spec

-------------------------------------------------------------------------------
(* What each task leaves alone *)

\* tcp_task touches neither the two UART tasks nor the world outside.
LEMMA TcpFrame == tcp_task => UNCHANGED <<rxVars, txVars, counters>>
BY DEF tcp_task, handle_client, serve_client, Accept, AcceptFailed, Select, SelectFailed,
       ReadMsg, ReadMsgFailed, PushToUart, ReadEfd, Drain, DrainEnd, Send, SendFailed

\* uart_rx_task touches its own state, uart_to_tcp_queue and the eventfd.
LEMMA RxFrame == uart_rx_task => UNCHANGED <<txVars, Elsewhere>>
BY DEF uart_rx_task, RxEvent, RxRead, RxReadEnd, RxPush, RxNotify

\* uart_tx_task touches its own state, the queues and the eventfd.
LEMMA TxFrame == uart_tx_task => UNCHANGED TxElsewhere
BY DEF uart_tx_task, handle_control, TxData, TxWrite, apply_config, TxIgnored, ResetBegin,
       ResetEnd, NotSupported, Respond, TxNotify

\* The driver touches its buffers and the event queue.
LEMMA DriverFrame == Driver => UNCHANGED DriverElsewhere
BY DEF Driver, WireIn, LineEvent, WireOut

\* The client touches the two ends of its socket.
LEMMA ClientFrame == Client => UNCHANGED ClientElsewhere
BY DEF Client, ClientConnect, ClientSend, ClientRead, ClientClose

-------------------------------------------------------------------------------
(* Type correctness *)

\* An Option is empty or holds one value.
LEMMA OptionCases ==
    ASSUME NEW S, NEW o \in Option(S)
    PROVE  o = <<>> \/ (o = <<o[1]>> /\ o[1] \in S)
<1>1. o \in Seq(S) /\ Len(o) <= 1 /\ Len(o) \in Nat
  BY DEF Option
<1>2. CASE Len(o) = 0
  BY <1>1, <1>2
<1>3. CASE Len(o) = 1
  BY <1>1, <1>3
<1>4. \A n \in Nat : n <= 1 => n = 0 \/ n = 1
  OBVIOUS
<1> QED BY <1>1, <1>2, <1>3, <1>4

\* The constructors of Options.
LEMMA OptionMake ==
    ASSUME NEW S
    PROVE  <<>> \in Option(S) /\ \A x \in S : <<x>> \in Option(S)
BY DEF Option

\* An Option put at the end of a sequence.
LEMMA ConcatOption ==
    ASSUME NEW S, NEW q \in Seq(S), NEW o \in Option(S)
    PROVE  q \o o \in Seq(S) /\ Len(q \o o) <= Len(q) + 1
BY DEF Option

\* A push into a queue with room keeps within its depth.
LEMMA PushFits ==
    ASSUME NEW S, NEW q, NEW o, q \o o \in Seq(S), Len(q) \in Nat, Len(q \o o) <= Len(q) + 1,
           NEW cap \in Nat, Len(q) < cap
    PROVE  Len(q \o o) <= cap
<1> DEFINE p == q \o o
<1>1. Len(p) \in Nat /\ Len(p) <= Len(q) + 1
  OBVIOUS
<1> HIDE DEF p
<1>2. Len(p) <= cap
  BY <1>1
<1> QED BY <1>2 DEF p

\* The answers to control requests.
Answers == [kind : {"Ok", "NotSupported"}, id : Nat]

\* What each task holds where, and that tcp_task serves an open socket.
Held ==
    /\ tcpPc # "accept" => open > 0
    /\ tcpPc \notin {"push", "send"} => tcpMsg = <<>>
    /\ rxPc # "push" => rxMsg = <<>>
    /\ txPc \in {"recv", "notify"} => txMsg = <<>>
    /\ txPc \in {"pulse", "respond"} => Len(txMsg) = 1 /\ txMsg[1] \in Answers
    /\ txPc = "write" => Len(txMsg) = 1 /\ txMsg[1] \in InMessages

\* TypeOK is inductive together with Held: the id of the answer in hand is read
\* when the pulse ends, and a failed send closes a socket.
TypeInv == TypeOK /\ Held

TcpType ==
    /\ tcpPc \in {"accept", "select", "read", "push", "read_efd", "drain", "send"}
    /\ tcpMsg \in Option(IF tcpPc = "send" THEN OutMessages ELSE InMessages)
    /\ efdSet \in BOOLEAN /\ peer \in {"none", "up", "closed"}
    /\ open \in 0..MaxSockets /\ backlog \in 0..1
    /\ inbox \in Seq(InMessages) /\ outbox \in Seq(OutMessages)
    /\ sent \in Seq(Nat) /\ dropped \subseteq Nat /\ cut \in BOOLEAN
    /\ tcpPc # "accept" => open > 0
    /\ tcpPc \notin {"push", "send"} => tcpMsg = <<>>

QueueType ==
    /\ toUart \in Seq(InMessages) /\ Len(toUart) <= TcpToUartCap
    /\ toTcp \in Seq(OutMessages) /\ Len(toTcp) <= UartToTcpCap
    /\ efd \in Nat

RxType ==
    /\ rxPc \in {"event", "read", "push", "notify"} /\ rxMsg \in Option(OutMessages)
    /\ events \in Seq({"UART_DATA", "UART_BUFFER_FULL", "UART_BREAK"})
    /\ ring \in Seq(Nat) /\ overrun \subseteq Nat /\ blind \in BOOLEAN
    /\ rxPc # "push" => rxMsg = <<>>

TxType ==
    /\ txPc \in {"recv", "write", "pulse", "respond", "notify"}
    /\ txMsg \in Option(IF txPc = "write" THEN InMessages ELSE OutMessages)
    /\ uartOut \in Seq(InMessages) /\ config \in Nat /\ pin \in {"active", "inactive"}
    /\ requests \subseteq Nat /\ responses \in Seq(OutMessages) /\ pulsed \subseteq Nat
    /\ txPc \in {"recv", "notify"} => txMsg = <<>>
    /\ txPc \in {"pulse", "respond"} => Len(txMsg) = 1 /\ txMsg[1] \in Answers
    /\ txPc = "write" => Len(txMsg) = 1 /\ txMsg[1] \in InMessages

CounterType == received \in Nat /\ wired \in Nat /\ others \in Nat /\ clients \in Nat

\* TypeInv, one part per task.
LEMMA TypeParts ==
    TypeInv <=> TcpType /\ QueueType /\ RxType /\ TxType /\ CounterType
BY DEF TypeInv, TypeOK, Held, TcpType, QueueType, RxType, TxType, CounterType

\* The same in the next state.
LEMMA TypePartsNext ==
    TypeInv' <=> TcpType' /\ QueueType' /\ RxType' /\ TxType' /\ CounterType'
BY DEF TypeInv, TypeOK, Held, TcpType, QueueType, RxType, TxType, CounterType

\* The bytes of a message.
LEMMA BytesOfType == ASSUME NEW m \in OutMessages PROVE BytesOf(m) \in Seq(Nat)
<1>1. CASE m \in [kind : {"Data"}, body : Seq(Nat)]
  BY <1>1 DEF BytesOf
<1>2. CASE m \in [kind : {"Ok", "NotSupported"}, id : Nat]
  BY <1>2 DEF BytesOf
<1> QED BY <1>1, <1>2 DEF OutMessages

Bodies(q) == [i \in 1..Len(q) |-> BytesOf(q[i])]

\* The bodies of a queue are sequences of bytes.
LEMMA BodiesType ==
    ASSUME NEW q \in Seq(OutMessages)
    PROVE  /\ Bodies(q) \in Seq(Seq(Nat)) /\ Len(Bodies(q)) = Len(q)
           /\ Bytes(q) = FlattenSeq(Bodies(q)) /\ Bytes(q) \in Seq(Nat)
<1>1. \A i \in 1..Len(q) : BytesOf(q[i]) \in Seq(Nat)
  BY BytesOfType
<1>2. Bodies(q) \in Seq(Seq(Nat)) /\ Len(Bodies(q)) = Len(q)
  BY <1>1 DEF Bodies
<1>3. Bytes(q) = FlattenSeq(Bodies(q))
  BY DEF Bytes, Bodies
<1> QED BY <1>2, <1>3, FlattenType

\* The bytes of the message in hand.
LEMMA HandType == ASSUME NEW o \in Option(OutMessages) PROVE Bytes(o) \in Seq(Nat)
<1>1. o \in Seq(OutMessages)
  BY DEF Option
<1> QED BY <1>1, BodiesType

\* A step of tcp_task keeps the types.
LEMMA TcpTyped == TypeInv /\ tcp_task => TypeInv'
<1> SUFFICES ASSUME TypeInv, tcp_task PROVE TypeInv'
  OBVIOUS
<1>0. /\ TcpType /\ QueueType /\ RxType /\ TxType /\ CounterType
  BY TypeParts
<1>a. RxType' /\ TxType' /\ CounterType'
  BY <1>0, TcpFrame DEF RxType, TxType, CounterType, rxVars, txVars, counters
<1>b. \A S : <<>> \in Option(S)
  BY OptionMake
<1>c. /\ open \in 0..MaxSockets /\ backlog \in 0..1 /\ MaxSockets \in Nat
      /\ tcpPc # "accept" => open > 0
  BY <1>0, FirmwareAssumption DEF TcpType
<1>1. ASSUME Accept PROVE TcpType' /\ QueueType'
  <2>1. /\ open' \in 0..MaxSockets /\ open' > 0 /\ backlog' \in 0..1
    BY <1>c, <1>1 DEF Accept
  <2>2. /\ tcpPc = "accept" /\ tcpPc' = "select" /\ peer' = "up"
        /\ UNCHANGED <<tcpMsg, efdSet, inbox, outbox, toUart, toTcp, efd, sent, dropped, cut>>
    BY <1>1 DEF Accept, ghosts
  <2> QED BY <1>0, <2>1, <2>2 DEF TcpType, QueueType
<1>2. ASSUME AcceptFailed PROVE TcpType' /\ QueueType'
  BY <1>0, <1>2 DEF AcceptFailed, TcpType, QueueType, ghosts
<1>3. ASSUME Select PROVE TcpType' /\ QueueType'
  BY <1>0, <1>3 DEF Select, TcpType, QueueType, ghosts
<1>4. ASSUME ReadMsg PROVE TcpType' /\ QueueType'
  <2>1. Head(inbox) \in InMessages /\ Tail(inbox) \in Seq(InMessages)
    BY <1>0, <1>4 DEF ReadMsg, TcpType
  <2>2. tcpMsg' \in Option(InMessages)
    BY <1>4, <2>1, OptionMake DEF ReadMsg
  <2> QED BY <1>0, <1>4, <2>1, <2>2 DEF ReadMsg, TcpType, QueueType, ghosts
<1>5. ASSUME ReadMsgFailed PROVE TcpType' /\ QueueType'
  BY <1>0, <1>5 DEF ReadMsgFailed, ForgetClient, TcpType, QueueType, ghosts
<1>6. ASSUME PushToUart PROVE TcpType' /\ QueueType'
  <2>1. toUart \o tcpMsg \in Seq(InMessages) /\ Len(toUart \o tcpMsg) <= Len(toUart) + 1
    BY <1>0, <1>6, ConcatOption DEF PushToUart, TcpType, QueueType
  <2>2. Len(toUart') <= TcpToUartCap
    <3>1. toUart' = toUart \o tcpMsg /\ Len(toUart) < TcpToUartCap
      BY <1>6 DEF PushToUart
    <3>2. Len(toUart) \in Nat /\ TcpToUartCap \in Nat
      BY <1>0, FirmwareAssumption DEF QueueType
    <3> QED BY <2>1, <3>1, <3>2, PushFits
  <2> QED BY <1>0, <1>6, <1>b, <2>1, <2>2 DEF PushToUart, TcpType, QueueType, ghosts
<1>7. ASSUME ReadEfd PROVE TcpType' /\ QueueType'
  BY <1>0, <1>7 DEF ReadEfd, TcpType, QueueType, ghosts
<1>8. ASSUME Drain PROVE TcpType' /\ QueueType'
  <2>0. toTcp # <<>> /\ toTcp \in Seq(OutMessages) /\ Len(toTcp) <= UartToTcpCap
        /\ UartToTcpCap \in Nat
    BY <1>0, <1>8, FirmwareAssumption DEF Drain, QueueType
  <2>1. Head(toTcp) \in OutMessages /\ Tail(toTcp) \in Seq(OutMessages)
        /\ Len(Tail(toTcp)) <= UartToTcpCap
    BY <2>0
  <2>2. tcpMsg' \in Option(OutMessages)
    BY <1>8, <2>1, OptionMake DEF Drain
  <2> QED BY <1>0, <1>8, <2>1, <2>2 DEF Drain, TcpType, QueueType, ghosts
<1>9. ASSUME DrainEnd PROVE TcpType' /\ QueueType'
  BY <1>0, <1>9 DEF DrainEnd, TcpType, QueueType, ghosts
<1>10. ASSUME Send PROVE TcpType' /\ QueueType'
  <2>1. outbox \o tcpMsg \in Seq(OutMessages)
    BY <1>0, <1>10, ConcatOption DEF Send, TcpType
  <2>2. /\ tcpPc = "send" /\ tcpPc' = "drain" /\ outbox' = outbox \o tcpMsg /\ tcpMsg' = <<>>
        /\ sent' = sent \o Bytes(tcpMsg)
        /\ UNCHANGED <<efdSet, peer, open, inbox, backlog, toUart, toTcp, efd, dropped, cut>>
    BY <1>10 DEF Send
  <2>3. tcpMsg' \in Option(InMessages) /\ outbox' \in Seq(OutMessages)
    BY <1>b, <2>1, <2>2, Zenon
  <2>4. sent' \in Seq(Nat)
    <3>1. Bytes(tcpMsg) \in Seq(Nat)
      BY <1>0, <2>2, HandType DEF TcpType
    <3> QED BY <1>0, <2>2, <3>1 DEF TcpType
  <2> QED BY <1>0, <2>2, <2>3, <2>4 DEF TcpType, QueueType
<1>11. ASSUME SendFailed PROVE TcpType' /\ QueueType'
  <2>1. open > 0 /\ open' \in 0..MaxSockets
    BY <1>c, <1>11 DEF SendFailed
  <2>2. tcpMsg' \in Option(InMessages) /\ tcpMsg' = <<>> /\ cut' = TRUE
    BY <1>11, <1>b, Zenon DEF SendFailed
  <2>3. /\ tcpPc' = "accept" /\ peer' = "none" /\ inbox' = <<>> /\ outbox' = <<>>
        /\ UNCHANGED <<efdSet, backlog, toUart, toTcp, efd, sent>>
    BY <1>11 DEF SendFailed, ForgetClient
  <2>4. dropped' \subseteq Nat
    <3>1. Bytes(tcpMsg) \in Seq(Nat)
      BY <1>0, <1>11, HandType DEF TcpType, SendFailed
    <3>2. ToSet(Bytes(tcpMsg)) \subseteq Nat
      BY <3>1 DEF ToSet
    <3> QED BY <1>0, <1>11, <3>2 DEF SendFailed, TcpType
  <2> QED BY <1>0, <2>1, <2>2, <2>3, <2>4 DEF TcpType, QueueType
<1>12. ASSUME SelectFailed PROVE TcpType' /\ QueueType'
  BY <1>0, <1>12 DEF SelectFailed, ForgetClient, TcpType, QueueType, ghosts
<1>13. TcpType' /\ QueueType'
  BY <1>1, <1>2, <1>3, <1>4, <1>5, <1>6, <1>7, <1>8, <1>9, <1>10, <1>11, <1>12
     DEF tcp_task, handle_client, serve_client
<1> QED BY <1>13, <1>a, TypePartsNext

\* A step of uart_rx_task keeps the types.
LEMMA RxTyped == TypeInv /\ uart_rx_task => TypeInv'
<1> SUFFICES ASSUME TypeInv, uart_rx_task PROVE TypeInv'
  OBVIOUS
<1>0. TcpType /\ QueueType /\ RxType /\ TxType /\ CounterType
  BY TypeParts
<1>a. TcpType' /\ TxType' /\ CounterType' /\ UNCHANGED toUart
  <2>1. UNCHANGED <<txVars, tcpVars, toUart, ghosts, counters>>
    BY RxFrame DEF Elsewhere
  <2>2. TcpType'
    BY <1>0, <2>1 DEF TcpType, tcpVars, ghosts
  <2>3. TxType'
    BY <1>0, <2>1 DEF TxType, txVars
  <2> QED BY <1>0, <2>1, <2>2, <2>3 DEF CounterType, counters
<1>b. <<>> \in Option(OutMessages)
  BY OptionMake
<1>1. ASSUME RxEvent PROVE RxType' /\ QueueType'
  BY <1>0, <1>1, <1>a DEF RxEvent, RxType, QueueType
<1>2. ASSUME RxRead PROVE RxType' /\ QueueType'
  <2> DEFINE n == Least(Len(ring), MaxBody)
             m == [kind |-> "Data", body |-> SubSeq(ring, 1, n)]
  <2>1. ring \in Seq(Nat) /\ ring # <<>> /\ Len(ring) \in Nat \ {0} /\ MaxBody \in Nat \ {0}
    BY <1>0, <1>2, FirmwareAssumption DEF RxType, RxRead
  <2>2. n \in 1..Len(ring)
    BY <2>1 DEF Least
  <2> HIDE DEF n
  <2>3. SubSeq(ring, 1, n) \in Seq(Nat) /\ SubSeq(ring, n + 1, Len(ring)) \in Seq(Nat)
    BY <2>1, <2>2
  <2>4. m \in OutMessages
    BY <2>3 DEF OutMessages
  <2>5. rxMsg' = <<m>> /\ ring' = SubSeq(ring, n + 1, Len(ring)) /\ rxPc' = "push"
        /\ UNCHANGED <<events, overrun, blind, toTcp, efd>>
    BY <1>2 DEF RxRead, n
  <2>6. rxMsg' \in Option(OutMessages)
    BY <2>4, <2>5, OptionMake
  <2> QED BY <1>0, <1>a, <2>3, <2>5, <2>6 DEF RxType, QueueType
<1>3. ASSUME RxReadEnd PROVE RxType' /\ QueueType'
  BY <1>0, <1>3, <1>a DEF RxReadEnd, RxType, QueueType
<1>4. ASSUME RxPush PROVE RxType' /\ QueueType'
  <2>1. toTcp \o rxMsg \in Seq(OutMessages) /\ Len(toTcp \o rxMsg) <= Len(toTcp) + 1
    BY <1>0, ConcatOption DEF RxType, QueueType
  <2>2. Len(toTcp') <= UartToTcpCap
    <3>1. toTcp' = toTcp \o rxMsg /\ Len(toTcp) < UartToTcpCap
      BY <1>4 DEF RxPush
    <3>2. Len(toTcp) \in Nat /\ UartToTcpCap \in Nat
      BY <1>0, FirmwareAssumption DEF QueueType
    <3> QED BY <2>1, <3>1, <3>2, PushFits
  <2> QED BY <1>0, <1>4, <1>a, <1>b, <2>1, <2>2 DEF RxPush, RxType, QueueType
<1>5. ASSUME RxNotify PROVE RxType' /\ QueueType'
  BY <1>0, <1>5, <1>a DEF RxNotify, RxType, QueueType
<1>6. RxType' /\ QueueType'
  BY <1>1, <1>2, <1>3, <1>4, <1>5 DEF uart_rx_task
<1> QED BY <1>6, <1>a, TypePartsNext

\* Taking a message from tcp_to_uart_queue.
LEMMA TxTakeTyped ==
    ASSUME QueueType, NEW kinds, TxTake(kinds)
    PROVE  /\ toUart' \in Seq(InMessages) /\ Len(toUart') <= TcpToUartCap
           /\ Head(toUart) \in InMessages /\ Head(toUart).id \in Nat
<1>1. /\ toUart # <<>> /\ toUart' = Tail(toUart)
      /\ toUart \in Seq(InMessages) /\ Len(toUart) <= TcpToUartCap /\ TcpToUartCap \in Nat
  BY FirmwareAssumption DEF TxTake, QueueType
<1>2. Head(toUart) \in InMessages /\ Tail(toUart) \in Seq(InMessages)
      /\ Len(Tail(toUart)) <= TcpToUartCap
  BY <1>1
<1> QED BY <1>1, <1>2 DEF InMessages

\* Answers are messages.
LEMMA AnswerMake ==
    ASSUME NEW a \in Answers
    PROVE  /\ a \in OutMessages /\ <<a>> \in Option(OutMessages)
           /\ Len(<<a>>) = 1 /\ <<a>>[1] = a
<1>1. a \in OutMessages
  BY DEF Answers, OutMessages
<1> QED BY <1>1, OptionMake

\* A step of uart_tx_task keeps the types.
LEMMA TxTyped == TypeInv /\ uart_tx_task => TypeInv'
<1> SUFFICES ASSUME TypeInv, uart_tx_task PROVE TypeInv'
  OBVIOUS
<1>0. TcpType /\ QueueType /\ RxType /\ TxType /\ CounterType
  BY TypeParts
<1>a. TcpType' /\ RxType' /\ CounterType'
  <2>1. TcpType'
    BY <1>0, TxFrame DEF TcpType, TxElsewhere, tcpVars, ghosts
  <2>2. RxType'
    BY <1>0, TxFrame DEF RxType, TxElsewhere, rxVars, ghosts
  <2>3. CounterType'
    BY <1>0, TxFrame DEF CounterType, TxElsewhere, counters, ghosts
  <2> QED BY <2>1, <2>2, <2>3
<1>b. \A S : <<>> \in Option(S)
  BY OptionMake
<1>1. ASSUME TxData PROVE TxType' /\ QueueType'
  <2>1. /\ toUart' \in Seq(InMessages) /\ Len(toUart') <= TcpToUartCap
        /\ Head(toUart) \in InMessages
    BY <1>0, <1>1, TxTakeTyped DEF TxData
  <2>2. <<Head(toUart)>> \in Option(InMessages)
    BY <2>1, OptionMake
  <2> QED BY <1>0, <1>1, <2>1, <2>2 DEF TxData, TxType, QueueType
<1>2. ASSUME TxWrite PROVE TxType' /\ QueueType'
  <2>1. uartOut \o txMsg \in Seq(InMessages)
    BY <1>0, <1>2, ConcatOption DEF TxWrite, TxType
  <2> QED BY <1>0, <1>2, <1>b, <2>1 DEF TxWrite, TxType, QueueType
<1>3. ASSUME apply_config PROVE TxType' /\ QueueType'
  <2>1. /\ toUart' \in Seq(InMessages) /\ Len(toUart') <= TcpToUartCap
        /\ Head(toUart).id \in Nat
    BY <1>0, <1>3, TxTakeTyped DEF apply_config
  <2> QED BY <1>0, <1>3, <2>1 DEF apply_config, TxType, QueueType
<1>4. ASSUME TxIgnored PROVE TxType' /\ QueueType'
  <2>1. toUart' \in Seq(InMessages) /\ Len(toUart') <= TcpToUartCap
    BY <1>0, <1>4, TxTakeTyped DEF TxIgnored
  <2> QED BY <1>0, <1>4, <2>1 DEF TxIgnored, TxType, QueueType
<1>5. ASSUME ResetBegin PROVE TxType' /\ QueueType'
  <2>1. /\ toUart' \in Seq(InMessages) /\ Len(toUart') <= TcpToUartCap
        /\ Head(toUart).id \in Nat
    BY <1>0, <1>5, TxTakeTyped DEF ResetBegin
  <2> DEFINE a == [kind |-> "Ok", id |-> Head(toUart).id]
  <2>2. a \in Answers
    BY <2>1 DEF Answers
  <2>3. txMsg' = <<a>> /\ txPc' = "pulse"
    BY <1>5 DEF ResetBegin
  <2> HIDE DEF a
  <2> QED BY <1>0, <1>5, <2>1, <2>2, <2>3, AnswerMake DEF ResetBegin, TxType, QueueType
<1>6. ASSUME ResetEnd PROVE TxType' /\ QueueType'
  <2>1. txMsg[1].id \in Nat
    BY <1>0, <1>6 DEF ResetEnd, TxType, Answers
  <2> QED BY <1>0, <1>6, <2>1 DEF ResetEnd, TxType, QueueType
<1>7. ASSUME NotSupported PROVE TxType' /\ QueueType'
  <2>1. /\ toUart' \in Seq(InMessages) /\ Len(toUart') <= TcpToUartCap
        /\ Head(toUart).id \in Nat
    BY <1>0, <1>7, TxTakeTyped DEF NotSupported
  <2> DEFINE a == [kind |-> "NotSupported", id |-> Head(toUart).id]
  <2>2. a \in Answers
    BY <2>1 DEF Answers
  <2>3. txMsg' = <<a>> /\ txPc' = "respond"
    BY <1>7 DEF NotSupported
  <2> HIDE DEF a
  <2> QED BY <1>0, <1>7, <2>1, <2>2, <2>3, AnswerMake DEF NotSupported, TxType, QueueType
<1>8. ASSUME Respond PROVE TxType' /\ QueueType'
  <2>1. /\ toTcp \o txMsg \in Seq(OutMessages) /\ Len(toTcp \o txMsg) <= Len(toTcp) + 1
        /\ responses \o txMsg \in Seq(OutMessages)
    BY <1>0, <1>8, ConcatOption DEF Respond, TxType, QueueType
  <2>2. Len(toTcp') <= UartToTcpCap
    <3>1. toTcp' = toTcp \o txMsg /\ Len(toTcp) < UartToTcpCap
      BY <1>8 DEF Respond
    <3>2. Len(toTcp) \in Nat /\ UartToTcpCap \in Nat
      BY <1>0, FirmwareAssumption DEF QueueType
    <3> QED BY <2>1, <3>1, <3>2, PushFits
  <2> QED BY <1>0, <1>8, <1>b, <2>1, <2>2 DEF Respond, TxType, QueueType
<1>9. ASSUME TxNotify PROVE TxType' /\ QueueType'
  BY <1>0, <1>9 DEF TxNotify, TxType, QueueType
<1>10. TxType' /\ QueueType'
  BY <1>1, <1>2, <1>3, <1>4, <1>5, <1>6, <1>7, <1>8, <1>9 DEF uart_tx_task, handle_control
<1> QED BY <1>10, <1>a, TypePartsNext

\* A step of the driver keeps the types.
LEMMA DriverTyped == TypeInv /\ Driver => TypeInv'
<1> SUFFICES ASSUME TypeInv, Driver PROVE TypeInv'
  OBVIOUS
<1>0. TcpType /\ QueueType /\ RxType /\ TxType /\ CounterType
  BY TypeParts
<1>a. TcpType' /\ QueueType'
  BY <1>0, DriverFrame DEF TcpType, QueueType, DriverElsewhere, tcpVars, ghosts
<1>b. ASSUME NEW e \in {"UART_DATA", "UART_BUFFER_FULL", "UART_BREAK"}, Post(e)
      PROVE  events' \in Seq({"UART_DATA", "UART_BUFFER_FULL", "UART_BREAK"})
  BY <1>0, <1>b DEF Post, RxType
<1>c. UNCHANGED DriverElsewhere
  BY DriverFrame
<1>1. ASSUME WireIn PROVE RxType' /\ TxType' /\ CounterType'
  <2>1. events' \in Seq({"UART_DATA", "UART_BUFFER_FULL", "UART_BREAK"})
    BY <1>1, <1>b DEF WireIn
  <2>2. ring' \in Seq(Nat) /\ overrun' \subseteq Nat /\ blind' \in BOOLEAN
    <3>1. CASE Len(ring) < RxBuf
      <4>1. ring' = Append(ring, wired) /\ UNCHANGED overrun
            /\ blind' = ("UART_DATA" \notin ToSet(events'))
        BY <1>1, <3>1 DEF WireIn
      <4>2. blind' \in BOOLEAN
        BY <4>1
      <4>3. ring \in Seq(Nat) /\ overrun \subseteq Nat /\ wired \in Nat
        BY <1>0 DEF RxType, CounterType
      <4>4. Append(ring, wired) \in Seq(Nat)
        BY <4>3
      <4> QED BY <4>1, <4>2, <4>3, <4>4, Zenon
    <3>2. CASE ~(Len(ring) < RxBuf)
      <4>1. overrun' = overrun \cup {wired} /\ UNCHANGED <<ring, blind>>
        BY <1>1, <3>2 DEF WireIn
      <4> QED BY <1>0, <4>1 DEF RxType, CounterType
    <3> QED BY <3>1, <3>2
  <2>3. wired' = wired + 1 /\ UNCHANGED <<uartOut, others>>
    BY <1>1 DEF WireIn
  <2>4. RxType'
    BY <1>0, <1>c, <2>1, <2>2 DEF RxType, DriverElsewhere
  <2>5. TxType' /\ CounterType'
    BY <1>0, <1>c, <2>3 DEF TxType, CounterType, DriverElsewhere
  <2> QED BY <2>4, <2>5
<1>2. ASSUME LineEvent PROVE RxType' /\ TxType' /\ CounterType'
  <2>1. events' \in Seq({"UART_DATA", "UART_BUFFER_FULL", "UART_BREAK"})
    BY <1>2, <1>b DEF LineEvent
  <2> QED BY <1>0, <1>2, <1>c, <2>1
          DEF LineEvent, RxType, TxType, CounterType, DriverElsewhere
<1>3. ASSUME WireOut PROVE RxType' /\ TxType' /\ CounterType'
  BY <1>0, <1>3, <1>c DEF WireOut, RxType, TxType, CounterType, DriverElsewhere
<1>4. RxType' /\ TxType' /\ CounterType'
  BY <1>1, <1>2, <1>3 DEF Driver
<1> QED BY <1>4, <1>a, TypePartsNext

\* A step of the client keeps the types.
LEMMA ClientTyped == TypeInv /\ Client => TypeInv'
<1> SUFFICES ASSUME TypeInv, Client PROVE TypeInv'
  OBVIOUS
<1>0. TcpType /\ QueueType /\ RxType /\ TxType /\ CounterType
  BY TypeParts
<1>a. UNCHANGED ClientElsewhere
  BY ClientFrame
<1>b. QueueType' /\ RxType' /\ TxType'
  BY <1>0, <1>a DEF QueueType, RxType, TxType, ClientElsewhere, rxVars, txVars
<1>1. ASSUME ClientConnect PROVE TcpType' /\ CounterType'
  BY <1>0, <1>1, <1>a DEF ClientConnect, TcpType, CounterType, ClientElsewhere, ghosts
<1>2. ASSUME ClientSend PROVE TcpType' /\ CounterType'
  <2>1. PICK k \in InKinds : inbox' = Append(inbox, [kind |-> k, id |-> received + 1])
    BY <1>2 DEF ClientSend
  <2>2. [kind |-> k, id |-> received + 1] \in InMessages
    BY <1>0, FirmwareAssumption DEF CounterType, InMessages
  <2>3. inbox' \in Seq(InMessages)
    BY <1>0, <2>1, <2>2 DEF TcpType
  <2> QED BY <1>0, <1>2, <1>a, <2>3
          DEF ClientSend, TcpType, CounterType, ClientElsewhere, ghosts
<1>3. ASSUME ClientRead PROVE TcpType' /\ CounterType'
  BY <1>0, <1>3, <1>a DEF ClientRead, TcpType, CounterType, ClientElsewhere, ghosts
<1>4. ASSUME ClientClose PROVE TcpType' /\ CounterType'
  BY <1>0, <1>4, <1>a DEF ClientClose, TcpType, CounterType, ClientElsewhere, ghosts
<1>5. TcpType' /\ CounterType'
  BY <1>1, <1>2, <1>3, <1>4 DEF Client
<1> QED BY <1>5, <1>b, TypePartsNext

\* The tasks start well typed.
LEMMA TypeInit == Init => TypeInv
<1> SUFFICES ASSUME Init PROVE TypeInv
  OBVIOUS
<1>1. <<>> \in Option(InMessages) /\ <<>> \in Option(OutMessages)
  BY OptionMake
<1>2. TcpType
  <2>1. efdSet \in BOOLEAN /\ cut \in BOOLEAN
    BY DEF Init
  <2>2. open \in 0..MaxSockets
    BY FirmwareAssumption DEF Init
  <2> QED BY <1>1, <2>1, <2>2 DEF Init, TcpType
<1>3. QueueType /\ CounterType
  BY FirmwareAssumption DEF Init, QueueType, CounterType
<1>4. RxType
  <2>1. blind \in BOOLEAN
    BY DEF Init
  <2> QED BY <1>1, <2>1 DEF Init, RxType
<1>5. TxType
  BY <1>1 DEF Init, TxType
<1> QED BY <1>2, <1>3, <1>4, <1>5, TypeParts

\* Every step keeps the types.
LEMMA TypeNext == TypeInv /\ [Next]_vars => TypeInv'
<1>1. TypeInv /\ UNCHANGED vars => TypeInv'
  BY TypeParts, TypePartsNext
     DEF TcpType, QueueType, RxType, TxType, CounterType, vars, tcpVars, rxVars, txVars,
         ghosts, counters
<1> QED BY <1>1, TcpTyped, RxTyped, TxTyped, DriverTyped, ClientTyped DEF Next

\* Queues within their depths, messages of the right kind in the right place and
\* a count of open sockets that never goes negative.
THEOREM FirmwareTypeCorrect == Spec => []TypeOK
<1>1. TypeInv => TypeOK
  BY DEF TypeInv
<1> QED BY <1>1, TypeInit, TypeNext, PTL DEF Spec

-------------------------------------------------------------------------------
(* No byte waits unannounced in the driver's buffer *)

\* Posting an event keeps the ones already in the queue.
LEMMA PostKeeps ==
    ASSUME RxType, NEW e, Post(e), NEW x \in ToSet(events)
    PROVE  x \in ToSet(events')
<1>1. events \in Seq({"UART_DATA", "UART_BUFFER_FULL", "UART_BREAK"})
  BY DEF RxType
<1>2. CASE events' = events
  BY <1>2
<1>3. CASE events' = Append(events, e)
  <2>1. PICK i \in 1..Len(events) : events[i] = x
    BY <1>1 DEF ToSet
  <2>2. i \in DOMAIN events' /\ events'[i] = x
    BY <1>1, <1>3, <2>1
  <2> QED BY <2>2 DEF ToSet
<1> QED BY <1>2, <1>3 DEF Post

\* Taking the first event leaves the others.
LEMMA TakeEventKeeps ==
    ASSUME RxType, events # <<>>, NEW x \in ToSet(events), x # Head(events)
    PROVE  x \in ToSet(Tail(events))
<1>1. events \in Seq({"UART_DATA", "UART_BUFFER_FULL", "UART_BREAK"})
  BY DEF RxType
<1>2. PICK i \in 1..Len(events) : events[i] = x
  BY <1>1 DEF ToSet
<1>3. i # 1
  BY <1>1, <1>2
<1>4. i - 1 \in DOMAIN Tail(events) /\ Tail(events)[i - 1] = x
  BY <1>1, <1>2, <1>3
<1> QED BY <1>4 DEF ToSet

\* NoStrandedBytes is inductive, given the types: a UART_DATA event is only taken
\* to begin reading, and reading only ends with an empty buffer.
LEMMA StrandedNext == TypeInv /\ NoStrandedBytes /\ [Next]_vars => NoStrandedBytes'
<1> SUFFICES ASSUME TypeInv, NoStrandedBytes, [Next]_vars PROVE NoStrandedBytes'
  OBVIOUS
<1>0. RxType
  BY TypeParts
<1>a. ASSUME UNCHANGED rxVars PROVE NoStrandedBytes'
  BY <1>a DEF rxVars, NoStrandedBytes
<1>1. CASE tcp_task
  BY <1>1, <1>a, TcpFrame
<1>2. CASE uart_rx_task
  <2>1. CASE RxEvent
    <3>1. CASE Head(events) = "UART_DATA"
      BY <2>1, <3>1 DEF RxEvent, NoStrandedBytes
    <3>2. CASE Head(events) # "UART_DATA"
      <4>1. "UART_DATA" \in ToSet(events) => "UART_DATA" \in ToSet(events')
        BY <1>0, <2>1, <3>2, TakeEventKeeps DEF RxEvent
      <4> QED BY <2>1, <4>1 DEF RxEvent, NoStrandedBytes
    <3> QED BY <3>1, <3>2
  <2>2. CASE RxRead
    BY <2>2 DEF RxRead, NoStrandedBytes
  <2>3. CASE RxReadEnd
    BY <2>3 DEF RxReadEnd, NoStrandedBytes
  <2>4. CASE RxPush
    BY <2>4 DEF RxPush, NoStrandedBytes
  <2>5. CASE RxNotify
    BY <2>5 DEF RxNotify, NoStrandedBytes
  <2> QED BY <1>2, <2>1, <2>2, <2>3, <2>4, <2>5 DEF uart_rx_task
<1>3. CASE uart_tx_task
  BY <1>3, <1>a, TxFrame DEF TxElsewhere
<1>4. CASE Driver
  <2>1. CASE WireIn
    <3>1. CASE Len(ring) < RxBuf
      BY <2>1, <3>1 DEF WireIn, NoStrandedBytes
    <3>2. CASE ~(Len(ring) < RxBuf)
      <4>1. Post("UART_BUFFER_FULL") /\ UNCHANGED <<ring, blind, rxPc>>
        BY <2>1, <3>2 DEF WireIn, DriverElsewhere
      <4>2. "UART_DATA" \in ToSet(events) => "UART_DATA" \in ToSet(events')
        BY <1>0, <4>1, PostKeeps
      <4> QED BY <4>1, <4>2 DEF NoStrandedBytes
    <3> QED BY <3>1, <3>2
  <2>2. CASE LineEvent
    <3>1. "UART_DATA" \in ToSet(events) => "UART_DATA" \in ToSet(events')
      BY <1>0, <2>2, PostKeeps DEF LineEvent
    <3> QED BY <2>2, <3>1 DEF LineEvent, DriverElsewhere, NoStrandedBytes
  <2>3. CASE WireOut
    BY <2>3 DEF WireOut, DriverElsewhere, NoStrandedBytes
  <2> QED BY <1>4, <2>1, <2>2, <2>3 DEF Driver
<1>5. CASE Client
  BY <1>5, <1>a, ClientFrame DEF ClientElsewhere
<1>6. CASE UNCHANGED vars
  BY <1>6, <1>a DEF vars
<1> QED BY <1>1, <1>2, <1>3, <1>4, <1>5, <1>6 DEF Next

\* uart_rx_task never waits for an event while bytes wait for it, unless the
\* driver could not post one.
THEOREM NoStrandedAlways == Spec => []NoStrandedBytes
<1>1. Init => NoStrandedBytes
  BY DEF Init, NoStrandedBytes
<1> QED BY <1>1, TypeInit, TypeNext, StrandedNext, PTL DEF Spec

-------------------------------------------------------------------------------
(* The bytes of the UART, from the driver to the socket *)

\* An empty queue holds no bytes.
LEMMA BytesNone == Bytes(<<>>) = <<>>
<1>1. Bodies(<<>>) = <<>>
  BY DEF Bodies
<1>2. Bytes(<<>>) = FlattenSeq(Bodies(<<>>))
  BY DEF Bytes, Bodies
<1> QED BY <1>1, <1>2, FlattenEmpty

\* A message put in the queue brings its bytes to the end.
LEMMA BytesPush ==
    ASSUME NEW q \in Seq(OutMessages), NEW m \in OutMessages
    PROVE  Bytes(q \o <<m>>) = Bytes(q) \o BytesOf(m)
<1> DEFINE more == q \o <<m>>
<1>1. more \in Seq(OutMessages)
  OBVIOUS
<1>2. BytesOf(m) \in Seq(Nat) /\ Bodies(q) \in Seq(Seq(Nat)) /\ Len(Bodies(q)) = Len(q)
  BY BytesOfType, BodiesType
<1>3. Bodies(more) = Append(Bodies(q), BytesOf(m))
  <2>1. Len(more) = Len(q) + 1 /\ more[Len(q) + 1] = m /\ \A i \in 1..Len(q) : more[i] = q[i]
        /\ Len(q) \in Nat
    OBVIOUS
  <2> HIDE DEF more
  <2>2. Bodies(more) \in Seq(Seq(Nat)) /\ Len(Bodies(more)) = Len(q) + 1
    BY <1>1, <2>1, BodiesType
  <2>3. \A i \in 1..(Len(q) + 1) : Bodies(more)[i] = Append(Bodies(q), BytesOf(m))[i]
    BY <1>2, <2>1 DEF Bodies
  <2>4. Append(Bodies(q), BytesOf(m)) \in Seq(Seq(Nat))
        /\ Len(Append(Bodies(q), BytesOf(m))) = Len(q) + 1
    BY <1>2
  <2> QED BY <2>2, <2>3, <2>4, SeqEqual
<1> HIDE DEF more
<1>4. Bytes(more) = FlattenSeq(Append(Bodies(q), BytesOf(m)))
  BY <1>1, <1>3, BodiesType
<1> QED BY <1>2, <1>4, BodiesType, FlattenAppend DEF more

\* The first message of a queue holds its first bytes.
LEMMA BytesPop ==
    ASSUME NEW q \in Seq(OutMessages), q # <<>>
    PROVE  Bytes(q) = BytesOf(Head(q)) \o Bytes(Tail(q))
<1>1. /\ Tail(q) \in Seq(OutMessages) /\ Len(Tail(q)) = Len(q) - 1 /\ Len(q) \in Nat \ {0}
      /\ Head(q) = q[1] /\ \A i \in 1..(Len(q) - 1) : Tail(q)[i] = q[i + 1]
  OBVIOUS
<1>2. /\ Bodies(q) \in Seq(Seq(Nat)) /\ Len(Bodies(q)) = Len(q)
      /\ Bodies(Tail(q)) \in Seq(Seq(Nat)) /\ Len(Bodies(Tail(q))) = Len(q) - 1
  BY <1>1, BodiesType
<1>3. Bodies(q) # <<>> /\ Head(Bodies(q)) = BytesOf(Head(q))
  BY <1>1, <1>2 DEF Bodies
<1>4. Tail(Bodies(q)) = Bodies(Tail(q))
  <2>1. Tail(Bodies(q)) \in Seq(Seq(Nat)) /\ Len(Tail(Bodies(q))) = Len(q) - 1
        /\ \A i \in 1..(Len(q) - 1) : Tail(Bodies(q))[i] = Bodies(q)[i + 1]
    BY <1>1, <1>2, <1>3
  <2>2. \A i \in 1..(Len(q) - 1) : Bodies(q)[i + 1] = Bodies(Tail(q))[i]
    BY <1>1 DEF Bodies
  <2> QED BY <1>2, <2>1, <2>2, SeqEqual
<1>5. FlattenSeq(Bodies(q)) = Head(Bodies(q)) \o FlattenSeq(Tail(Bodies(q)))
  BY <1>2, <1>3, FlattenHead
<1> QED BY <1>1, <1>3, <1>4, <1>5, BodiesType

\* One message alone.
LEMMA BytesOne == ASSUME NEW m \in OutMessages PROVE Bytes(<<m>>) = BytesOf(m)
<1>1. <<>> \in Seq(OutMessages) /\ <<>> \o <<m>> = <<m>>
  OBVIOUS
<1>2. Bytes(<<>> \o <<m>>) = Bytes(<<>>) \o BytesOf(m)
  BY <1>1, BytesPush
<1>3. BytesOf(m) \in Seq(Nat)
  BY BytesOfType
<1>4. <<>> \o BytesOf(m) = BytesOf(m)
  BY <1>3, ConcatEmptySeq
<1> QED BY <1>1, <1>2, <1>4, BytesNone, Zenon

\* Where a byte string may be divided.
LEMMA ByteRegroup == Regroups(Nat)
BY Regroup

\* A byte appended to the last part.
LEMMA ByteAppend ==
    ASSUME NEW a \in Seq(Nat), NEW b \in Seq(Nat), NEW x \in Nat
    PROVE  Append(a \o b, x) = a \o Append(b, x)
<1>1. /\ Append(a \o b, x) \in Seq(Nat) /\ a \o Append(b, x) \in Seq(Nat)
      /\ Len(Append(a \o b, x)) = Len(a) + Len(b) + 1
      /\ Len(a \o Append(b, x)) = Len(a) + Len(b) + 1
  OBVIOUS
<1>2. \A i \in 1..(Len(a) + Len(b) + 1) : Append(a \o b, x)[i] = (a \o Append(b, x))[i]
  OBVIOUS
<1> QED BY <1>1, <1>2, SeqEqual

\* BytesInOrder of a flow f, with w bytes arrived.
Accounts(f, d, o, w) ==
    /\ Increasing(f)
    /\ ToSet(f) \cup d \cup o = 0..(w - 1)
    /\ ToSet(f) \cap d = {}
    /\ (ToSet(f) \cup d) \cap o = {}

\* A byte that the driver accepts is the last of the flow.
LEMMA AccountsAppend ==
    ASSUME NEW f \in Seq(Nat), NEW d, NEW o, NEW w \in Nat, Accounts(f, d, o, w)
    PROVE  Accounts(Append(f, w), d, o, w + 1)
<1> DEFINE g == Append(f, w)
           n == Len(f)
<1>1. /\ n \in Nat /\ Len(g) = n + 1 /\ DOMAIN f = 1..n /\ DOMAIN g = 1..(n + 1)
      /\ g[n + 1] = w /\ \A i \in 1..n : g[i] = f[i] /\ f[i] \in Nat
  OBVIOUS
<1> HIDE DEF g, n
<1>2. \A i \in 1..n : f[i] < w
  <2>1. \A i \in 1..n : f[i] \in 0..(w - 1)
    BY <1>1 DEF Accounts, ToSet
  <2> QED BY <2>1
<1>3. ToSet(g) = ToSet(f) \cup {w}
  <2>1. \A i \in 1..(n + 1) : i \in 1..n \/ i = n + 1
    BY <1>1
  <2>2. \A i \in 1..n : i \in 1..(n + 1)
    BY <1>1
  <2>3. n + 1 \in 1..(n + 1)
    BY <1>1
  <2> QED BY <1>1, <2>1, <2>2, <2>3 DEF ToSet
<1>4. Increasing(g)
  <2> SUFFICES ASSUME NEW i \in 1..(n + 1), NEW j \in 1..(n + 1), i < j
               PROVE  g[i] < g[j]
    BY <1>1 DEF Increasing
  <2>1. i \in 1..n
    BY <1>1
  <2>2. CASE j = n + 1
    BY <1>1, <1>2, <2>1, <2>2
  <2>3. CASE j \in 1..n
    <3>1. f[i] < f[j]
      BY <2>1, <2>3 DEF Accounts, Increasing, n
    <3> QED BY <1>1, <2>1, <2>3, <3>1
  <2> QED BY <1>1, <2>2, <2>3
<1>5. w \notin 0..(w - 1) /\ 0..((w + 1) - 1) = 0..(w - 1) \cup {w}
  OBVIOUS
<1>6. Accounts(g, d, o, w + 1)
  BY <1>3, <1>4, <1>5 DEF Accounts
<1> QED BY <1>6 DEF g

\* One that meets a full buffer is accounted for among the lost.
LEMMA AccountsOverrun ==
    ASSUME NEW f, NEW d, NEW o, NEW w \in Nat, Accounts(f, d, o, w)
    PROVE  Accounts(f, d, o \cup {w}, w + 1)
<1>1. w \notin 0..(w - 1) /\ 0..((w + 1) - 1) = 0..(w - 1) \cup {w}
  OBVIOUS
<1> QED BY <1>1 DEF Accounts

\* The places of three parts in a row, and of the outer two alone.
LEMMA Middle ==
    ASSUME NEW a \in Seq(Nat), NEW b \in Seq(Nat), NEW c \in Seq(Nat)
    PROVE  LET f == (a \o b) \o c
               g == a \o c
               m == Len(a)
               n == Len(b)
               k == Len(c)
           IN  /\ m \in Nat /\ n \in Nat /\ k \in Nat
               /\ Len(f) = m + n + k /\ Len(g) = m + k
               /\ DOMAIN f = 1..(m + n + k) /\ DOMAIN g = 1..(m + k) /\ DOMAIN b = 1..n
               /\ \A i \in 1..m : g[i] = f[i]
               /\ \A i \in 1..n : f[m + i] = b[i]
               /\ \A i \in (m + 1)..(m + k) : g[i] = f[i + n]
               /\ \A i \in 1..(m + n + k) : f[i] \in Nat
<1> DEFINE f == (a \o b) \o c
           g == a \o c
           m == Len(a)
           n == Len(b)
           k == Len(c)
<1>1. /\ m \in Nat /\ n \in Nat /\ k \in Nat /\ DOMAIN b = 1..n
      /\ a \o b \in Seq(Nat) /\ Len(a \o b) = m + n
  OBVIOUS
<1>2. f \in Seq(Nat) /\ Len(f) = m + n + k /\ g \in Seq(Nat) /\ Len(g) = m + k
  BY <1>1
<1>3. DOMAIN f = 1..(m + n + k) /\ DOMAIN g = 1..(m + k)
  BY <1>2
<1>4. \A i \in 1..m : g[i] = a[i] /\ f[i] = a[i]
  BY <1>1
<1>5. \A i \in 1..n : f[m + i] = b[i]
  <2>1. \A i \in 1..n : (a \o b)[m + i] = b[i] /\ m + i \in 1..(m + n)
    OBVIOUS
  <2>2. \A i \in 1..(m + n) : f[i] = (a \o b)[i]
    BY <1>1
  <2> QED BY <2>1, <2>2
<1>6. \A i \in (m + 1)..(m + k) : g[i] = f[i + n]
  <2> SUFFICES ASSUME NEW i \in (m + 1)..(m + k) PROVE g[i] = f[i + n]
    OBVIOUS
  <2>1. g[i] = c[i - m]
    BY <1>1
  <2>2. f[i + n] = c[(i + n) - (m + n)]
    BY <1>1
  <2>3. (i + n) - (m + n) = i - m
    BY <1>1
  <2> QED BY <2>1, <2>2, <2>3
<1>7. \A i \in 1..(m + n + k) : f[i] \in Nat
  BY <1>2
<1> QED BY <1>1, <1>2, <1>3, <1>4, <1>5, <1>6, <1>7

\* A message whose send failed leaves the flow and is accounted for as dropped.
LEMMA AccountsDrop ==
    ASSUME NEW a \in Seq(Nat), NEW b \in Seq(Nat), NEW c \in Seq(Nat),
           NEW d, NEW o, NEW w \in Nat, Accounts((a \o b) \o c, d, o, w)
    PROVE  Accounts(a \o c, d \cup ToSet(b), o, w)
<1> DEFINE f == (a \o b) \o c
           g == a \o c
           m == Len(a)
           n == Len(b)
           k == Len(c)
<1>1. /\ m \in Nat /\ n \in Nat /\ k \in Nat
      /\ Len(f) = m + n + k /\ Len(g) = m + k
      /\ DOMAIN f = 1..(m + n + k) /\ DOMAIN g = 1..(m + k) /\ DOMAIN b = 1..n
      /\ \A i \in 1..m : g[i] = f[i]
      /\ \A i \in 1..n : f[m + i] = b[i]
      /\ \A i \in (m + 1)..(m + k) : g[i] = f[i + n]
      /\ \A i \in 1..(m + n + k) : f[i] \in Nat
  BY Middle
<1>2. Accounts(f, d, o, w)
  OBVIOUS
<1> HIDE DEF f, g, m, n, k
<1>3. \A i, j \in 1..(m + n + k) : i < j => f[i] < f[j]
  BY <1>1, <1>2 DEF Accounts, Increasing
<1> DEFINE At(i) == IF i <= m THEN i ELSE i + n
<1>4. \A i \in 1..(m + k) : At(i) \in 1..(m + n + k) /\ g[i] = f[At(i)]
  BY <1>1
<1>5. Increasing(g)
  <2>1. \A i, j \in 1..(m + k) : i < j => At(i) < At(j)
    BY <1>1
  <2> HIDE DEF At
  <2> QED BY <1>1, <1>3, <1>4, <2>1 DEF Increasing
<1>6. ToSet(f) = ToSet(g) \cup ToSet(b)
  <2>1. ToSet(g) \subseteq ToSet(f)
    <3> HIDE DEF At
    <3> QED BY <1>1, <1>4 DEF ToSet
  <2>2. ToSet(b) \subseteq ToSet(f)
    <3> SUFFICES ASSUME NEW i \in 1..n PROVE b[i] \in ToSet(f)
      BY <1>1 DEF ToSet
    <3>1. m + i \in DOMAIN f /\ f[m + i] = b[i]
      BY <1>1
    <3> DEFINE j == m + i
    <3>2. j \in DOMAIN f /\ f[j] = b[i]
      BY <3>1
    <3> HIDE DEF j
    <3> QED BY <3>2 DEF ToSet
  <2>3. ASSUME NEW i \in 1..(m + n + k) PROVE f[i] \in ToSet(g) \cup ToSet(b)
    <3>1. CASE i <= m
      <4>1. i \in 1..(m + k) /\ g[i] = f[i]
        BY <1>1, <3>1
      <4> QED BY <1>1, <4>1 DEF ToSet
    <3>2. CASE m < i /\ i <= m + n
      <4>1. i - m \in 1..n /\ m + (i - m) = i
        BY <1>1, <3>2
      <4>2. b[i - m] = f[i]
        BY <1>1, <4>1
      <4> QED BY <1>1, <4>1, <4>2 DEF ToSet
    <3>3. CASE m + n < i
      <4>1. i - n \in (m + 1)..(m + k) /\ (i - n) + n = i /\ i - n \in 1..(m + k)
        BY <1>1, <3>3
      <4>2. g[i - n] = f[i]
        BY <1>1, <4>1
      <4> QED BY <1>1, <4>1, <4>2 DEF ToSet
    <3>4. i <= m \/ (m < i /\ i <= m + n) \/ m + n < i
      BY <1>1
    <3> QED BY <3>1, <3>2, <3>3, <3>4
  <2>4. ToSet(f) \subseteq ToSet(g) \cup ToSet(b)
    <3>1. DOMAIN f = 1..(m + n + k)
      BY <1>1
    <3> QED BY <2>3, <3>1 DEF ToSet
  <2> QED BY <2>1, <2>2, <2>4
<1>7. ToSet(g) \cap ToSet(b) = {}
  <2> SUFFICES ASSUME NEW i \in 1..(m + k), NEW j \in 1..n PROVE g[i] # b[j]
    BY <1>1 DEF ToSet
  <2>1. At(i) # m + j /\ At(i) \in 1..(m + n + k) /\ m + j \in 1..(m + n + k)
    BY <1>1
  <2>2. g[i] = f[At(i)] /\ b[j] = f[m + j]
    BY <1>1, <1>4
  <2> DEFINE x == At(i)
             y == m + j
  <2>3. x \in 1..(m + n + k) /\ y \in 1..(m + n + k) /\ x # y
    BY <2>1
  <2> HIDE DEF x, y
  <2>4. f[x] # f[y]
    <3>1. x < y \/ y < x
      BY <2>3, <1>1
    <3>2. f[x] \in Nat /\ f[y] \in Nat
      BY <1>1, <2>3
    <3>3. CASE x < y
      <4>1. f[x] < f[y]
        BY <1>3, <2>3, <3>3
      <4> QED BY <3>2, <4>1
    <3>4. CASE y < x
      <4>1. f[y] < f[x]
        BY <1>3, <2>3, <3>4
      <4> QED BY <3>2, <4>1
    <3> QED BY <3>1, <3>3, <3>4
  <2> QED BY <2>2, <2>4 DEF x, y
<1>8. Accounts(g, d \cup ToSet(b), o, w)
  BY <1>2, <1>5, <1>6, <1>7 DEF Accounts
<1> QED BY <1>8 DEF g

\* The types of the parts of the uplink.
LEMMA UplinkTypes ==
    ASSUME TypeInv
    PROVE  /\ sent \in Seq(Nat) /\ ring \in Seq(Nat) /\ wired \in Nat
           /\ Hand \in Seq(OutMessages) /\ Bytes(Hand) \in Seq(Nat)
           /\ toTcp \in Seq(OutMessages) /\ Bytes(toTcp) \in Seq(Nat)
           /\ rxMsg \in Seq(OutMessages) /\ Bytes(rxMsg) \in Seq(Nat)
<1>1. /\ sent \in Seq(Nat) /\ ring \in Seq(Nat) /\ wired \in Nat
      /\ toTcp \in Seq(OutMessages) /\ rxMsg \in Seq(OutMessages)
  BY TypeParts DEF TcpType, QueueType, RxType, CounterType, Option
<1>2. Hand \in Seq(OutMessages)
  <2>1. CASE tcpPc = "send"
    <3>1. tcpMsg \in Option(OutMessages)
      BY <2>1, TypeParts DEF TcpType
    <3> QED BY <2>1, <3>1 DEF Hand, Option
  <2>2. CASE tcpPc # "send"
    BY <2>2 DEF Hand
  <2> QED BY <2>1, <2>2
<1> QED BY <1>1, <1>2, BodiesType

\* A step that moves bytes along, or leaves them where they are.
LEMMA SameFlow ==
    ASSUME BytesInOrder, Flow' = Flow, UNCHANGED <<dropped, overrun, wired>>
    PROVE  BytesInOrder'
BY DEF BytesInOrder

\* A step that leaves the bytes and the queues of the uplink alone.
LEMMA BytesFrame ==
    ASSUME BytesInOrder, Hand' = Hand,
           UNCHANGED <<sent, toTcp, rxMsg, ring, dropped, overrun, wired>>
    PROVE  BytesInOrder'
<1>1. Flow' = Flow
  BY DEF Flow
<1> QED BY <1>1, SameFlow

\* tcp_task takes a message to send, sends it, or fails to.
LEMMA BytesTcp == TypeInv /\ BytesInOrder /\ tcp_task => BytesInOrder'
<1> SUFFICES ASSUME TypeInv, BytesInOrder, tcp_task PROVE BytesInOrder'
  OBVIOUS
<1> DEFINE k == Bytes(Hand)
           q == Bytes(toTcp)
           h == Bytes(rxMsg)
<1>a. /\ sent \in Seq(Nat) /\ ring \in Seq(Nat) /\ wired \in Nat /\ toTcp \in Seq(OutMessages)
      /\ k \in Seq(Nat) /\ q \in Seq(Nat) /\ h \in Seq(Nat)
  BY UplinkTypes
<1>b. Flow = (((sent \o k) \o q) \o h) \o ring
  BY DEF Flow
<1>c. UNCHANGED <<rxMsg, ring, overrun, wired>> /\ Bytes(rxMsg') = h
  BY TcpFrame DEF rxVars, counters
<1>d. sent \o <<>> = sent /\ (sent \o k) \o <<>> = sent \o k
  BY <1>a
<1> HIDE DEF k, q, h
<1>1. CASE Drain
  <2> DEFINE b == BytesOf(Head(toTcp))
             t == Bytes(Tail(toTcp))
  <2>1. /\ toTcp # <<>> /\ toTcp' = Tail(toTcp) /\ tcpPc = "drain" /\ tcpPc' = "send"
        /\ tcpMsg' = <<Head(toTcp)>> /\ UNCHANGED <<sent, dropped>>
    BY <1>1 DEF Drain, ghosts
  <2>2. Head(toTcp) \in OutMessages /\ Tail(toTcp) \in Seq(OutMessages)
    BY <1>a, <2>1
  <2>3. q = b \o t /\ b \in Seq(Nat) /\ t \in Seq(Nat)
    BY <1>a, <2>1, <2>2, BytesPop, BytesOfType, BodiesType DEF q
  <2>4. k = <<>> /\ Bytes(Hand') = b /\ Bytes(toTcp') = t
    BY <2>1, <2>2, BytesNone, BytesOne DEF Hand, k
  <2> HIDE DEF b, t
  <2>5. sent \o (b \o t) = (sent \o b) \o t
    <3>1. sent \in Seq(Nat) /\ b \in Seq(Nat) /\ t \in Seq(Nat)
      BY <1>a, <2>3
    <3> QED BY <3>1, ByteRegroup, Zenon DEF Regroups
  <2>6. Flow' = (((sent \o b) \o t) \o h) \o ring
    BY <1>c, <2>1, <2>4 DEF Flow
  <2>7. Flow = ((sent \o (b \o t)) \o h) \o ring
    BY <1>b, <1>d, <2>3, <2>4, Zenon
  <2>8. Flow' = Flow
    BY <2>5, <2>6, <2>7, Zenon
  <2> QED BY <1>c, <2>1, <2>8, SameFlow
<1>2. CASE Send
  <2>1. /\ tcpPc = "send" /\ tcpPc' = "drain" /\ sent' = sent \o Bytes(tcpMsg)
        /\ UNCHANGED <<toTcp, dropped>>
    BY <1>2 DEF Send
  <2>2. k = Bytes(tcpMsg) /\ Bytes(Hand') = <<>> /\ Bytes(toTcp') = q
    BY <2>1, BytesNone DEF Hand, k, q
  <2>3. Flow' = ((((sent \o k) \o <<>>) \o q) \o h) \o ring
    BY <1>c, <2>1, <2>2 DEF Flow
  <2>4. Flow' = Flow
    BY <1>b, <1>d, <2>3, Zenon
  <2> QED BY <1>c, <2>1, <2>4, SameFlow
<1>3. CASE SendFailed
  <2> DEFINE r == (q \o h) \o ring
  <2>1. /\ tcpPc = "send" /\ tcpPc' = "accept" /\ dropped' = dropped \cup ToSet(Bytes(tcpMsg))
        /\ UNCHANGED <<sent, toTcp>>
    BY <1>3 DEF SendFailed, ForgetClient
  <2>2. k = Bytes(tcpMsg) /\ Bytes(Hand') = <<>> /\ Bytes(toTcp') = q
    BY <2>1, BytesNone DEF Hand, k, q
  <2>3. r \in Seq(Nat) /\ sent \o k \in Seq(Nat)
    BY <1>a
  <2>a. ASSUME NEW x \in Seq(Nat) PROVE ((x \o q) \o h) \o ring = x \o r
    <3>1. q \in Seq(Nat) /\ h \in Seq(Nat) /\ ring \in Seq(Nat) /\ q \o h \in Seq(Nat)
      BY <1>a
    <3>2. (x \o q) \o h = x \o (q \o h)
      BY <3>1, ByteRegroup, Zenon DEF Regroups
    <3>3. (x \o (q \o h)) \o ring = x \o ((q \o h) \o ring)
      BY <3>1, ByteRegroup, Zenon DEF Regroups
    <3> QED BY <3>2, <3>3, Zenon
  <2> HIDE DEF r
  <2>4. Flow = (sent \o k) \o r
    BY <1>b, <2>3, <2>a, Zenon
  <2>5. Flow' = sent \o r
    <3>1. Flow' = (((sent \o <<>>) \o q) \o h) \o ring
      BY <1>c, <2>1, <2>2 DEF Flow
    <3>2. Flow' = ((sent \o q) \o h) \o ring
      BY <1>d, <3>1, Zenon
    <3>3. sent \in Seq(Nat)
      BY <1>a
    <3> QED BY <2>a, <3>2, <3>3, Zenon
  <2>6. Accounts((sent \o k) \o r, dropped, overrun, wired)
    BY <2>4 DEF BytesInOrder, Accounts
  <2>7. Accounts(sent \o r, dropped \cup ToSet(k), overrun, wired)
    BY <1>a, <2>3, <2>6, AccountsDrop
  <2>8. Accounts(Flow', dropped', overrun', wired')
    BY <1>c, <2>1, <2>2, <2>5, <2>7
  <2> QED BY <2>8 DEF BytesInOrder, Accounts
<1>4. CASE tcpPc # "send" /\ tcpPc' # "send" /\ UNCHANGED <<sent, dropped, toTcp>>
  <2>1. Hand' = Hand
    BY <1>4 DEF Hand
  <2> QED BY <1>4, <1>c, <2>1, BytesFrame
<1>5. \/ Drain \/ Send \/ SendFailed
      \/ tcpPc # "send" /\ tcpPc' # "send" /\ UNCHANGED <<sent, dropped, toTcp>>
  BY DEF tcp_task, handle_client, serve_client, Accept, AcceptFailed, Select, SelectFailed,
     ForgetClient, ReadMsg, ReadMsgFailed, PushToUart, ReadEfd, DrainEnd, ghosts
<1> QED BY <1>1, <1>2, <1>3, <1>4, <1>5

\* uart_rx_task moves bytes from the driver into a message and this into the queue.
LEMMA BytesRx == TypeInv /\ BytesInOrder /\ uart_rx_task => BytesInOrder'
<1> SUFFICES ASSUME TypeInv, BytesInOrder, uart_rx_task PROVE BytesInOrder'
  OBVIOUS
<1>0. RxType
  BY TypeParts
<1> DEFINE u == sent \o Bytes(Hand)
           q == Bytes(toTcp)
           h == Bytes(rxMsg)
<1>a. /\ u \in Seq(Nat) /\ ring \in Seq(Nat) /\ toTcp \in Seq(OutMessages)
      /\ q \in Seq(Nat) /\ h \in Seq(Nat)
  BY UplinkTypes
<1>b. Flow = ((u \o q) \o h) \o ring
  BY DEF Flow
<1>c. UNCHANGED <<sent, dropped, wired>> /\ Hand' = Hand
  BY RxFrame DEF Elsewhere, ghosts, counters, tcpVars, Hand
<1>d. UNCHANGED overrun
  BY DEF uart_rx_task, RxEvent, RxRead, RxReadEnd, RxPush, RxNotify
<1>e. Flow' = ((u \o Bytes(toTcp')) \o Bytes(rxMsg')) \o ring'
  BY <1>c DEF Flow
<1> HIDE DEF u, q, h
<1>1. CASE RxRead
  <2> DEFINE n == Least(Len(ring), MaxBody)
             s == SubSeq(ring, 1, n)
             r == SubSeq(ring, n + 1, Len(ring))
             m == [kind |-> "Data", body |-> s]
  <2>1. Len(ring) \in Nat \ {0} /\ MaxBody \in Nat \ {0}
    BY <1>a, <1>1, FirmwareAssumption DEF RxRead
  <2>2. n \in 1..Len(ring)
    BY <2>1 DEF Least
  <2>3. rxMsg' = <<m>> /\ ring' = r /\ UNCHANGED toTcp /\ rxMsg = <<>>
    BY <1>0, <1>1 DEF RxRead, RxType
  <2> HIDE DEF n
  <2>4. s \in Seq(Nat) /\ r \in Seq(Nat) /\ ring = s \o r
    <3>1. s \in Seq(Nat) /\ r \in Seq(Nat)
      <4>1. n \in Nat /\ 0 + n <= Len(ring) /\ 0 + 1 = 1 /\ 0 + n = n /\ 0 \in Nat
        BY <2>1, <2>2
      <4>2. SubSeq(ring, 0 + 1, 0 + n) \in Seq(Nat)
        BY <1>a, <4>1, Piece
      <4>3. r \in Seq(Nat)
        BY <1>a, <4>1, Rest
      <4> QED BY <4>1, <4>2, <4>3
    <3>2. 1 \in 1..(Len(ring) + 1) /\ n \in (1 - 1)..Len(ring) /\ Len(ring) \in n..Len(ring)
      BY <2>1, <2>2
    <3>3. s \o r = SubSeq(ring, 1, Len(ring))
      BY <1>a, <3>2, ConcatAdjacentSubSeq
    <3> QED BY <1>a, <3>1, <3>3, SubSeqFull
  <2>5. m \in OutMessages /\ BytesOf(m) = s
    BY <2>4 DEF OutMessages, BytesOf
  <2>6. Bytes(rxMsg') = s /\ h = <<>> /\ Bytes(toTcp') = q
    BY <2>3, <2>5, BytesOne, BytesNone DEF h, q
  <2> HIDE DEF s, r, m
  <2>7. u \o q \in Seq(Nat) /\ (u \o q) \o <<>> = u \o q
    BY <1>a
  <2>8. (u \o q) \o (s \o r) = ((u \o q) \o s) \o r
    BY <2>4, <2>7, ByteRegroup, Zenon DEF Regroups
  <2>9. Flow' = Flow
    BY <1>b, <1>e, <2>3, <2>4, <2>6, <2>7, <2>8
  <2> QED BY <1>c, <1>d, <2>9, SameFlow
<1>2. CASE RxPush
  <2>1. toTcp' = toTcp \o rxMsg /\ rxMsg' = <<>> /\ UNCHANGED ring
    BY <1>2 DEF RxPush
  <2>2. Bytes(toTcp') = q \o h
    <3>1. CASE rxMsg = <<>>
      <4>1. toTcp' = toTcp
        BY <1>a, <2>1, <3>1
      <4>2. h = <<>>
        BY <3>1, BytesNone DEF h
      <4> QED BY <1>a, <4>1, <4>2 DEF q
    <3>2. CASE rxMsg = <<rxMsg[1]>> /\ rxMsg[1] \in OutMessages
      <4>1. h = BytesOf(rxMsg[1])
        BY <3>2, BytesOne DEF h
      <4>2. Bytes(toTcp \o <<rxMsg[1]>>) = q \o BytesOf(rxMsg[1])
        BY <1>a, <3>2, BytesPush DEF q
      <4> QED BY <2>1, <3>2, <4>1, <4>2
    <3> QED BY <1>0, <3>1, <3>2, OptionCases DEF RxType
  <2>3. Bytes(rxMsg') = <<>>
    BY <2>1, BytesNone
  <2>4. (u \o q) \o h = (u \o (q \o h)) \o <<>>
    <3>0. u \in Seq(Nat) /\ q \in Seq(Nat) /\ h \in Seq(Nat)
      BY <1>a
    <3>1. u \o (q \o h) = (u \o q) \o h
      BY <3>0, ByteRegroup, Zenon DEF Regroups
    <3>2. (u \o q) \o h \in Seq(Nat)
      BY <3>0
    <3> QED BY <3>1, <3>2
  <2>5. Flow' = Flow
    BY <1>b, <1>e, <2>1, <2>2, <2>3, <2>4
  <2> QED BY <1>c, <1>d, <2>5, SameFlow
<1>3. CASE UNCHANGED <<ring, rxMsg, toTcp>>
  BY <1>3, <1>c, <1>d, BytesFrame
<1>4. RxRead \/ RxPush \/ UNCHANGED <<ring, rxMsg, toTcp>>
  BY DEF uart_rx_task, RxEvent, RxReadEnd, RxNotify
<1> QED BY <1>1, <1>2, <1>3, <1>4

\* The answer to a control request holds no bytes of the UART.
LEMMA BytesTx == TypeInv /\ BytesInOrder /\ uart_tx_task => BytesInOrder'
<1> SUFFICES ASSUME TypeInv, BytesInOrder, uart_tx_task PROVE BytesInOrder'
  OBVIOUS
<1>0. TxType
  BY TypeParts
<1>a. toTcp \in Seq(OutMessages) /\ Bytes(toTcp) \in Seq(Nat)
  BY UplinkTypes
<1>b. UNCHANGED <<sent, dropped, overrun, wired, ring, rxMsg>> /\ Hand' = Hand
  BY TxFrame DEF TxElsewhere, rxVars, ghosts, counters, tcpVars, Hand
<1>1. CASE Respond
  <2>1. toTcp' = toTcp \o txMsg /\ txMsg = <<txMsg[1]>> /\ txMsg[1] \in Answers
    BY <1>0, <1>1 DEF Respond, TxType, Option
  <2>2. txMsg[1] \in OutMessages /\ BytesOf(txMsg[1]) = <<>>
    BY <2>1 DEF Answers, OutMessages, BytesOf
  <2>3. Bytes(toTcp') = Bytes(toTcp)
    <3>1. Bytes(toTcp \o <<txMsg[1]>>) = Bytes(toTcp) \o <<>>
      BY <1>a, <2>2, BytesPush
    <3>2. Bytes(toTcp) \o <<>> = Bytes(toTcp)
      BY <1>a
    <3> QED BY <2>1, <3>1, <3>2, Zenon
  <2>4. Flow' = Flow
    BY <1>b, <2>3 DEF Flow
  <2> QED BY <1>b, <2>4, SameFlow
<1>2. CASE UNCHANGED toTcp
  BY <1>b, <1>2, BytesFrame
<1>3. Respond \/ UNCHANGED toTcp
  BY DEF uart_tx_task, handle_control, TxData, TxWrite, apply_config, TxIgnored,
     ResetBegin, ResetEnd, NotSupported, TxNotify
<1> QED BY <1>1, <1>2, <1>3

\* A byte that arrives joins the flow at its end or is lost.
LEMMA BytesDriver == TypeInv /\ BytesInOrder /\ Driver => BytesInOrder'
<1> SUFFICES ASSUME TypeInv, BytesInOrder, Driver PROVE BytesInOrder'
  OBVIOUS
<1> DEFINE u == ((sent \o Bytes(Hand)) \o Bytes(toTcp)) \o Bytes(rxMsg)
<1>a. u \in Seq(Nat) /\ ring \in Seq(Nat) /\ wired \in Nat
  BY UplinkTypes
<1>b. UNCHANGED <<sent, dropped, toTcp, rxMsg>> /\ Hand' = Hand
  BY DriverFrame DEF DriverElsewhere, ghosts, tcpVars, Hand
<1>c. Flow = u \o ring /\ Flow' = u \o ring'
  BY <1>b DEF Flow
<1>d. Accounts(Flow, dropped, overrun, wired)
  BY DEF BytesInOrder, Accounts
<1> HIDE DEF u
<1>1. CASE ring' = Append(ring, wired) /\ UNCHANGED overrun /\ wired' = wired + 1
  <2>1. Flow' = Append(Flow, wired)
    BY <1>a, <1>c, <1>1, ByteAppend, Zenon
  <2>2. Flow \in Seq(Nat)
    BY <1>a, <1>c
  <2>3. Accounts(Append(Flow, wired), dropped, overrun, wired + 1)
    BY <1>a, <1>d, <2>2, AccountsAppend
  <2>4. Accounts(Flow', dropped', overrun', wired')
    BY <1>b, <1>1, <2>1, <2>3
  <2> QED BY <2>4 DEF BytesInOrder, Accounts
<1>2. CASE UNCHANGED ring /\ overrun' = overrun \cup {wired} /\ wired' = wired + 1
  <2>1. Flow' = Flow
    BY <1>c, <1>2
  <2>2. Accounts(Flow, dropped, overrun \cup {wired}, wired + 1)
    BY <1>a, <1>d, AccountsOverrun
  <2>3. Accounts(Flow', dropped', overrun', wired')
    BY <1>b, <1>2, <2>1, <2>2
  <2> QED BY <2>3 DEF BytesInOrder, Accounts
<1>3. CASE UNCHANGED <<ring, overrun, wired>>
  BY <1>b, <1>3, BytesFrame
<1> QED BY <1>1, <1>2, <1>3 DEF Driver, WireIn, LineEvent, WireOut

\* BytesInOrder is inductive, given the types.
LEMMA BytesNext == TypeInv /\ BytesInOrder /\ [Next]_vars => BytesInOrder'
<1>1. BytesInOrder /\ Client => BytesInOrder'
  <2> SUFFICES ASSUME BytesInOrder, Client PROVE BytesInOrder'
    OBVIOUS
  <2>1. UNCHANGED <<sent, toTcp, rxMsg, ring, dropped, overrun, wired>> /\ Hand' = Hand
    BY ClientFrame DEF ClientElsewhere, rxVars, ghosts, Hand
  <2> QED BY <2>1, BytesFrame
<1>2. BytesInOrder /\ UNCHANGED vars => BytesInOrder'
  <2> SUFFICES ASSUME BytesInOrder, UNCHANGED vars PROVE BytesInOrder'
    OBVIOUS
  <2>1. UNCHANGED <<sent, toTcp, rxMsg, ring, dropped, overrun, wired>> /\ Hand' = Hand
    BY DEF vars, rxVars, ghosts, tcpVars, counters, Hand
  <2> QED BY <2>1, BytesFrame
<1> QED BY <1>1, <1>2, BytesTcp, BytesRx, BytesTx, BytesDriver DEF Next

\* The bytes of the UART reach the socket in the order of their arrival, each at
\* most once, and only those of a failed send and of an overflow are missing.
THEOREM BytesInOrderAlways == Spec => []BytesInOrder
<1>1. Init => BytesInOrder
  <2> SUFFICES ASSUME Init PROVE BytesInOrder
    OBVIOUS
  <2>1. /\ sent = <<>> /\ toTcp = <<>> /\ rxMsg = <<>> /\ ring = <<>> /\ tcpPc = "accept"
        /\ dropped = {} /\ overrun = {} /\ wired = 0
    BY DEF Init
  <2>2. Bytes(toTcp) = <<>> /\ Bytes(rxMsg) = <<>> /\ Bytes(Hand) = <<>>
    BY <2>1, BytesNone DEF Hand
  <2>3. <<>> \o <<>> = <<>>
    OBVIOUS
  <2>4. Flow = <<>>
    BY <2>1, <2>2, <2>3 DEF Flow
  <2>5. ToSet(<<>>) = {} /\ Increasing(<<>>) /\ 0..(0 - 1) = {}
    BY DEF ToSet, Increasing
  <2> QED BY <2>1, <2>4, <2>5 DEF BytesInOrder
<1> QED BY <1>1, TypeInit, TypeNext, BytesNext, PTL DEF Spec

-------------------------------------------------------------------------------
(* The answers to control requests *)

\* The messages on their way from the client to uart_tx_task.
Pipe == (toUart \o (IF tcpPc = "push" THEN tcpMsg ELSE <<>>)) \o inbox

\* The ids in p ascend, come after those in reqs and are none above n.
Ascending(p, reqs, n) ==
    /\ \A i, j \in 1..Len(p) : i < j => p[i].id < p[j].id
    /\ \A i \in 1..Len(p) : p[i].id <= n /\ \A r \in reqs : r < p[i].id
    /\ \A r \in reqs : r <= n

\* No message overtakes another, and none is met twice.
PipeInv == Ascending(Pipe, requests, received)

\* ResetAnsweredAfterPulse, and what makes it so: the request in hand has been
\* taken, an Ok is in hand only after its pulse.
AnswerInv ==
    /\ ResetAnsweredAfterPulse
    /\ txPc \in {"pulse", "respond"} => txMsg[1].id \in requests
    /\ txPc = "respond" /\ txMsg[1].kind = "Ok" => txMsg[1].id \in pulsed
    /\ txPc = "write" => txMsg[1].id \notin requests

\* The ids of messages are numbers.
LEMMA IdsAreNumbers ==
    ASSUME NEW p \in Seq(InMessages)
    PROVE  \A i \in 1..Len(p) : p[i].id \in Nat
<1>1. \A i \in 1..Len(p) : p[i] \in InMessages
  OBVIOUS
<1>2. \A m \in InMessages : m.id \in Nat
  BY DEF InMessages
<1> QED BY <1>1, <1>2

\* Taking the first message, be it a request or not.
LEMMA AscendingTail ==
    ASSUME NEW p \in Seq(InMessages), p # <<>>, NEW reqs \in SUBSET Nat, NEW n \in Nat,
           Ascending(p, reqs, n), NEW more, more = reqs \/ more = reqs \cup {Head(p).id}
    PROVE  Ascending(Tail(p), more, n) /\ Head(p).id \notin reqs
<1>1. /\ Len(p) \in Nat \ {0} /\ Len(Tail(p)) = Len(p) - 1 /\ Head(p) = p[1]
      /\ \A i \in 1..Len(Tail(p)) : Tail(p)[i] = p[i + 1]
  OBVIOUS
<1>2. \A i \in 1..Len(p) : p[i].id \in Nat
  BY IdsAreNumbers
<1>3. \A i \in 1..Len(Tail(p)) : i + 1 \in 1..Len(p) /\ 1 < i + 1 /\ 1 \in 1..Len(p)
  BY <1>1
<1>4. \A i, j \in 1..Len(Tail(p)) : i < j => Tail(p)[i].id < Tail(p)[j].id
  BY <1>1, <1>3 DEF Ascending
<1>5. \A i \in 1..Len(Tail(p)) : Tail(p)[i].id <= n /\ p[1].id < Tail(p)[i].id
                                 /\ \A r \in reqs : r < Tail(p)[i].id
  BY <1>1, <1>3 DEF Ascending
<1>6. 1 \in 1..Len(p) /\ p[1].id \in Nat /\ p[1].id <= n /\ \A r \in reqs : r < p[1].id
  BY <1>1, <1>2 DEF Ascending
<1>7. p[1].id \notin reqs
  BY <1>6
<1> QED BY <1>1, <1>4, <1>5, <1>6, <1>7 DEF Ascending

\* The client's next message.
LEMMA AscendingAppend ==
    ASSUME NEW p \in Seq(InMessages), NEW reqs \in SUBSET Nat, NEW n \in Nat,
           Ascending(p, reqs, n), NEW m \in InMessages, m.id = n + 1
    PROVE  Ascending(Append(p, m), reqs, n + 1)
<1>1. /\ Len(Append(p, m)) = Len(p) + 1 /\ Append(p, m)[Len(p) + 1] = m
      /\ \A i \in 1..Len(p) : Append(p, m)[i] = p[i] /\ p[i].id \in Nat
      /\ Len(p) \in Nat
  BY IdsAreNumbers
<1>2. \A i \in 1..Len(p) : p[i].id <= n /\ p[i].id < n + 1
  BY <1>1 DEF Ascending
<1>3. \A r \in reqs : r <= n /\ r < n + 1 /\ r <= n + 1
  BY DEF Ascending
<1>4. \A i \in 1..(Len(p) + 1) : i \in 1..Len(p) \/ i = Len(p) + 1
  BY <1>1
<1>5. \A i, j \in 1..(Len(p) + 1) : i < j => i \in 1..Len(p)
  BY <1>1
<1>6. \A i, j \in 1..(Len(p) + 1) : i < j => Append(p, m)[i].id < Append(p, m)[j].id
  <2> SUFFICES ASSUME NEW i \in 1..(Len(p) + 1), NEW j \in 1..(Len(p) + 1), i < j
               PROVE  Append(p, m)[i].id < Append(p, m)[j].id
    OBVIOUS
  <2>1. i \in 1..Len(p) /\ Append(p, m)[i] = p[i]
    BY <1>1, <1>5
  <2>2. CASE j \in 1..Len(p)
    BY <1>1, <2>1, <2>2 DEF Ascending
  <2>3. CASE j = Len(p) + 1
    BY <1>1, <1>2, <2>1, <2>3
  <2> QED BY <1>4, <2>2, <2>3
<1>7. \A i \in 1..(Len(p) + 1) : /\ Append(p, m)[i].id <= n + 1
                                 /\ \A r \in reqs : r < Append(p, m)[i].id
  <2> SUFFICES ASSUME NEW i \in 1..(Len(p) + 1)
               PROVE  /\ Append(p, m)[i].id <= n + 1
                      /\ \A r \in reqs : r < Append(p, m)[i].id
    OBVIOUS
  <2>1. CASE i \in 1..Len(p)
    BY <1>1, <1>2, <2>1 DEF Ascending
  <2>2. CASE i = Len(p) + 1
    BY <1>1, <1>3, <2>2
  <2> QED BY <1>4, <2>1, <2>2
<1> HIDE DEF Ascending
<1> QED BY <1>1, <1>3, <1>6, <1>7 DEF Ascending

\* A message appended to the last part of the pipe.
LEMMA MessageAppend ==
    ASSUME NEW a \in Seq(InMessages), NEW b \in Seq(InMessages), NEW x \in InMessages
    PROVE  a \o Append(b, x) = Append(a \o b, x)
<1>1. /\ Append(a \o b, x) \in Seq(InMessages) /\ a \o Append(b, x) \in Seq(InMessages)
      /\ Len(Append(a \o b, x)) = Len(a) + Len(b) + 1
      /\ Len(a \o Append(b, x)) = Len(a) + Len(b) + 1
  OBVIOUS
<1>2. \A i \in 1..(Len(a) + Len(b) + 1) : Append(a \o b, x)[i] = (a \o Append(b, x))[i]
  OBVIOUS
<1> QED BY <1>1, <1>2, SeqEqual

\* Dropping what the socket still held.
LEMMA AscendingPrefix ==
    ASSUME NEW p \in Seq(InMessages), NEW t \in Seq(InMessages), NEW reqs, NEW n,
           Ascending(p \o t, reqs, n)
    PROVE  Ascending(p, reqs, n)
<1>1. /\ \A i \in 1..Len(p) : (p \o t)[i] = p[i] /\ i \in 1..Len(p \o t)
  OBVIOUS
<1> QED BY <1>1 DEF Ascending

\* The pipe is a sequence of messages.
LEMMA PipeType ==
    ASSUME TypeInv
    PROVE  /\ toUart \in Seq(InMessages) /\ inbox \in Seq(InMessages)
           /\ tcpPc = "push" => tcpMsg \in Seq(InMessages)
           /\ Pipe \in Seq(InMessages) /\ requests \in SUBSET Nat /\ received \in Nat
<1>1. /\ toUart \in Seq(InMessages) /\ inbox \in Seq(InMessages)
      /\ tcpPc = "push" => tcpMsg \in Seq(InMessages)
      /\ requests \in SUBSET Nat /\ received \in Nat
  BY TypeParts DEF TcpType, QueueType, TxType, CounterType, Option
<1>2. Pipe \in Seq(InMessages)
  BY <1>1 DEF Pipe
<1> QED BY <1>1, <1>2

\* The messages of the client move along the pipe without changing it.
LEMMA PipeMoves ==
    ASSUME TypeInv, ReadMsg \/ PushToUart
    PROVE  Pipe' = Pipe
<1>1. /\ toUart \in Seq(InMessages) /\ inbox \in Seq(InMessages)
      /\ tcpPc = "push" => tcpMsg \in Seq(InMessages)
  BY PipeType
<1>2. CASE ReadMsg
  <2>1. inbox # <<>> /\ inbox' = Tail(inbox) /\ toUart' = toUart
        /\ Pipe = (toUart \o <<>>) \o inbox
        /\ Pipe' = (toUart \o <<Head(inbox)>>) \o Tail(inbox)
    BY <1>2 DEF ReadMsg, Pipe
  <2>2. <<Head(inbox)>> \in Seq(InMessages) /\ Tail(inbox) \in Seq(InMessages)
    BY <1>1, <2>1
  <2>3. (toUart \o <<Head(inbox)>>) \o Tail(inbox) = toUart \o (<<Head(inbox)>> \o Tail(inbox))
    <3>1. Regroups(InMessages)
      BY Regroup, Zenon
    <3>2. toUart \in Seq(InMessages)
      BY <1>1, Zenon
    <3> QED BY <2>2, <3>1, <3>2, Zenon DEF Regroups
  <2>4. toUart \o <<>> = toUart /\ inbox = <<Head(inbox)>> \o Tail(inbox)
    BY <1>1, <2>1
  <2> QED BY <2>1, <2>3, <2>4
<1>3. CASE PushToUart
  <2>1. /\ Pipe = (toUart \o tcpMsg) \o inbox
        /\ Pipe' = ((toUart \o tcpMsg) \o <<>>) \o inbox
    BY <1>3 DEF PushToUart, Pipe
  <2>2. toUart \o tcpMsg \in Seq(InMessages)
    BY <1>1, <1>3 DEF PushToUart
  <2>3. (toUart \o tcpMsg) \o <<>> = toUart \o tcpMsg
    BY <2>2, ConcatEmptySeq
  <2> QED BY <2>1, <2>3, Zenon
<1> QED BY <1>2, <1>3

\* uart_tx_task takes the first message of the pipe.
LEMMA PipeTakes ==
    ASSUME TypeInv, NEW kinds, TxTake(kinds), UNCHANGED tcpVars
    PROVE  Pipe # <<>> /\ Pipe' = Tail(Pipe) /\ Head(Pipe) = Head(toUart)
<1> DEFINE h == IF tcpPc = "push" THEN tcpMsg ELSE <<>>
<1>1. /\ toUart \in Seq(InMessages) /\ toUart # <<>> /\ inbox \in Seq(InMessages)
      /\ h \in Seq(InMessages)
  BY PipeType DEF TxTake
<1>2. Pipe = (toUart \o h) \o inbox /\ Pipe' = (Tail(toUart) \o h) \o inbox
  BY DEF Pipe, TxTake, tcpVars
<1> HIDE DEF h
<1>3. \A s, t \in Seq(InMessages) :
          s # <<>> => s \o t # <<>> /\ Head(s \o t) = Head(s) /\ Tail(s \o t) = Tail(s) \o t
  <2> SUFFICES ASSUME NEW s \in Seq(InMessages), NEW t \in Seq(InMessages), s # <<>>
               PROVE  s \o t # <<>> /\ Head(s \o t) = Head(s) /\ Tail(s \o t) = Tail(s) \o t
    OBVIOUS
  <2>1. s \o t # <<>> /\ Head(s \o t) = Head(s)
    OBVIOUS
  <2>2. /\ Tail(s \o t) \in Seq(InMessages) /\ Tail(s) \o t \in Seq(InMessages)
        /\ Len(Tail(s \o t)) = Len(s) + Len(t) - 1
        /\ Len(Tail(s) \o t) = Len(s) + Len(t) - 1
    OBVIOUS
  <2>3. \A i \in 1..(Len(s) + Len(t) - 1) : Tail(s \o t)[i] = (Tail(s) \o t)[i]
    OBVIOUS
  <2>4. Tail(s \o t) = Tail(s) \o t
    BY <2>2, <2>3, SeqEqual
  <2> QED BY <2>1, <2>4
<1>4. toUart \o h \in Seq(InMessages)
  BY <1>1
<1>5. /\ toUart \o h # <<>> /\ Head(toUart \o h) = Head(toUart)
      /\ Tail(toUart \o h) = Tail(toUart) \o h
  BY <1>1, <1>3
<1>6. /\ (toUart \o h) \o inbox # <<>>
      /\ Head((toUart \o h) \o inbox) = Head(toUart \o h)
      /\ Tail((toUart \o h) \o inbox) = Tail(toUart \o h) \o inbox
  BY <1>1, <1>3, <1>4, <1>5
<1> QED BY <1>2, <1>5, <1>6

\* PipeInv is inductive, given the types: the queues are first-in first-out and
\* each message is taken once.
LEMMA PipeNext == TypeInv /\ PipeInv /\ [Next]_vars => PipeInv'
<1> SUFFICES ASSUME TypeInv, PipeInv, [Next]_vars PROVE PipeInv'
  OBVIOUS
<1>0. /\ toUart \in Seq(InMessages) /\ inbox \in Seq(InMessages)
      /\ Pipe \in Seq(InMessages) /\ requests \in SUBSET Nat /\ received \in Nat
  BY PipeType
<1>a. ASSUME Pipe' = Pipe, UNCHANGED <<requests, received>> PROVE PipeInv'
  BY <1>a DEF PipeInv
<1>b. ASSUME UNCHANGED <<toUart, tcpPc, tcpMsg, inbox, requests, received>> PROVE PipeInv'
  <2>1. Pipe' = Pipe
    BY <1>b DEF Pipe
  <2> QED BY <1>a, <1>b, <2>1
<1>1. CASE tcp_task
  <2>1. UNCHANGED <<requests, received>>
    BY <1>1, TcpFrame DEF txVars, counters
  <2>2. CASE ReadMsg \/ PushToUart
    BY <1>a, <2>1, <2>2, PipeMoves
  <2>3. CASE ReadMsgFailed \/ SendFailed \/ SelectFailed
    <3>1. /\ Pipe = (toUart \o <<>>) \o inbox /\ Pipe' = (toUart \o <<>>) \o <<>>
      BY <2>3 DEF ReadMsgFailed, SendFailed, SelectFailed, ForgetClient, Pipe
    <3>2. toUart \o <<>> = toUart
      BY <1>0
    <3>3. Ascending(toUart, requests, received)
      BY <1>0, <3>1, <3>2, AscendingPrefix DEF PipeInv
    <3> QED BY <2>1, <3>1, <3>2, <3>3 DEF PipeInv
  <2>4. CASE UNCHANGED <<toUart, inbox>> /\ tcpPc # "push" /\ tcpPc' # "push"
    <3>1. Pipe' = Pipe
      BY <2>4 DEF Pipe
    <3> QED BY <1>a, <2>1, <3>1
  <2> QED BY <1>1, <2>2, <2>3, <2>4
          DEF tcp_task, handle_client, serve_client, Accept, AcceptFailed, Select,
              ReadEfd, Drain, DrainEnd, Send
<1>2. CASE uart_rx_task
  BY <1>2, <1>b, RxFrame DEF Elsewhere, tcpVars, txVars, counters
<1>3. CASE uart_tx_task
  <2>1. UNCHANGED <<tcpVars, received>>
    BY <1>3, TxFrame DEF TxElsewhere, counters
  <2>2. ASSUME NEW kinds, TxTake(kinds),
               requests' = requests \/ requests' = requests \cup {Head(toUart).id}
        PROVE  PipeInv'
    <3>1. Pipe # <<>> /\ Pipe' = Tail(Pipe) /\ Head(Pipe) = Head(toUart)
      BY <2>1, <2>2, PipeTakes
    <3>2. Ascending(Tail(Pipe), requests', received)
      BY <1>0, <2>2, <3>1, AscendingTail DEF PipeInv
    <3> QED BY <2>1, <3>1, <3>2 DEF PipeInv
  <2>3. CASE TxData
    BY <2>2, <2>3 DEF TxData
  <2>4. CASE apply_config
    BY <2>2, <2>4 DEF apply_config
  <2>5. CASE TxIgnored
    BY <2>2, <2>5 DEF TxIgnored
  <2>6. CASE ResetBegin
    BY <2>2, <2>6 DEF ResetBegin
  <2>7. CASE NotSupported
    BY <2>2, <2>7 DEF NotSupported
  <2>8. CASE UNCHANGED <<toUart, requests>>
    BY <1>b, <2>1, <2>8 DEF tcpVars
  <2> QED BY <1>3, <2>3, <2>4, <2>5, <2>6, <2>7, <2>8
          DEF uart_tx_task, handle_control, TxWrite, ResetEnd, Respond, TxNotify
<1>4. CASE Driver
  BY <1>4, <1>b, DriverFrame DEF DriverElsewhere, tcpVars
<1>5. CASE Client
  <2>1. UNCHANGED <<toUart, tcpPc, tcpMsg, requests>>
    BY <1>5, ClientFrame DEF ClientElsewhere, txVars
  <2>2. CASE ClientSend
    <3> DEFINE front == toUart \o (IF tcpPc = "push" THEN tcpMsg ELSE <<>>)
    <3>1. PICK k \in InKinds : inbox' = Append(inbox, [kind |-> k, id |-> received + 1])
      BY <2>2 DEF ClientSend
    <3> DEFINE m == [kind |-> k, id |-> received + 1]
    <3>2. m \in InMessages /\ m.id = received + 1
      BY <1>0, FirmwareAssumption DEF InMessages
    <3>3. front \in Seq(InMessages)
      BY PipeType
    <3>4. Pipe = front \o inbox /\ Pipe' = front \o Append(inbox, m)
      BY <2>1, <3>1 DEF Pipe
    <3>5. received' = received + 1
      BY <2>2 DEF ClientSend
    <3> HIDE DEF front, m
    <3>6. Pipe' = Append(Pipe, m)
      BY <1>0, <3>2, <3>3, <3>4, MessageAppend
    <3>7. Ascending(Append(Pipe, m), requests, received + 1)
      BY <1>0, <3>2, AscendingAppend DEF PipeInv
    <3> QED BY <2>1, <3>5, <3>6, <3>7 DEF PipeInv
  <2>3. CASE UNCHANGED <<inbox, received>>
    BY <1>b, <2>1, <2>3
  <2> QED BY <1>5, <2>2, <2>3 DEF Client, ClientConnect, ClientRead, ClientClose
<1>6. CASE UNCHANGED vars
  BY <1>6, <1>b DEF vars, tcpVars, txVars, counters
<1> QED BY <1>1, <1>2, <1>3, <1>4, <1>5, <1>6 DEF Next

AnsweredIds == {responses[i].id : i \in 1..Len(responses)}
InHandIds == {txMsg[i].id : i \in 1..Len(txMsg)}

\* The request in hand, if any.
LEMMA InHandCases ==
    ASSUME TypeInv
    PROVE  /\ txPc \in {"recv", "notify"} => txMsg = <<>> /\ InHandIds = {}
           /\ txPc \in {"write", "pulse", "respond"} =>
                  txMsg = <<txMsg[1]>> /\ InHandIds = {txMsg[1].id}
<1>1. TxType
  BY TypeParts
<1>2. ASSUME txPc \in {"recv", "notify"} PROVE txMsg = <<>> /\ InHandIds = {}
  BY <1>1, <1>2 DEF TxType, InHandIds
<1>3. ASSUME txPc \in {"write", "pulse", "respond"}
      PROVE  txMsg = <<txMsg[1]>> /\ InHandIds = {txMsg[1].id}
  <2>1. Len(txMsg) = 1
    BY <1>1, <1>3 DEF TxType
  <2>2. txMsg = <<txMsg[1]>>
    <3>1. txMsg \in Option(InMessages) \/ txMsg \in Option(OutMessages)
      BY <1>1 DEF TxType
    <3>2. txMsg # <<>>
      BY <2>1
    <3> QED BY <3>1, <3>2, OptionCases
  <2> QED BY <2>1, <2>2 DEF InHandIds
<1> QED BY <1>2, <1>3

\* A message taken by uart_tx_task is not among the requests taken before.
LEMMA TakenIsNew ==
    ASSUME TypeInv, PipeInv, NEW kinds, TxTake(kinds), UNCHANGED tcpVars
    PROVE  Head(toUart).id \notin requests
<1>1. Pipe # <<>> /\ Head(Pipe) = Head(toUart)
  BY PipeTakes
<1>2. Pipe \in Seq(InMessages) /\ requests \in SUBSET Nat /\ received \in Nat
  BY PipeType
<1> QED BY <1>1, <1>2, AscendingTail DEF PipeInv

\* AnswerInv is inductive, given PipeInv.
LEMMA AnswerNext ==
    TypeInv /\ PipeInv /\ AnswerInv /\ [Next]_vars => AnswerInv'
<1> SUFFICES ASSUME TypeInv, PipeInv, AnswerInv, [Next]_vars PROVE AnswerInv'
  OBVIOUS
<1>0. TxType /\ TypeInv'
  BY TypeParts, TypeNext
<1>a. ASSUME UNCHANGED txVars PROVE AnswerInv'
  BY <1>a DEF txVars, AnswerInv, ResetAnsweredAfterPulse
<1>b. /\ \A i, j \in 1..Len(responses) : responses[i].id = responses[j].id => i = j
      /\ AnsweredIds = requests \ InHandIds
      /\ \A i \in 1..Len(responses) : responses[i].kind = "Ok" => responses[i].id \in pulsed
      /\ pin = "active" => txPc = "pulse"
  BY DEF AnswerInv, ResetAnsweredAfterPulse, AnsweredIds, InHandIds
<1>c. ASSUME UNCHANGED responses, AnsweredIds = requests' \ InHandIds',
             pulsed \subseteq pulsed', pin' = "active" => txPc' = "pulse",
             txPc' \in {"pulse", "respond"} => txMsg'[1].id \in requests',
             txPc' = "respond" /\ txMsg'[1].kind = "Ok" => txMsg'[1].id \in pulsed',
             txPc' = "write" => txMsg'[1].id \notin requests'
      PROVE  AnswerInv'
  <2>1. AnsweredIds' = AnsweredIds
    BY <1>c DEF AnsweredIds
  <2>2. \A i \in 1..Len(responses) : responses[i].kind = "Ok" => responses[i].id \in pulsed'
    BY <1>b, <1>c
  <2>3. ResetAnsweredAfterPulse'
    BY <1>b, <1>c, <2>1, <2>2 DEF ResetAnsweredAfterPulse, AnsweredIds, InHandIds
  <2> QED BY <1>c, <2>3 DEF AnswerInv
<1>1. CASE uart_tx_task
  <2>0. UNCHANGED tcpVars
    BY <1>1, TxFrame DEF TxElsewhere
  <2>1. CASE TxData
    <3>1. /\ TxTake({"Data"}) /\ txPc = "recv" /\ txPc' = "write" /\ txMsg' = <<Head(toUart)>>
          /\ UNCHANGED <<pin, requests, responses, pulsed>>
      BY <2>1 DEF TxData, TxTake
    <3>2. Head(toUart).id \notin requests
      BY <2>0, <3>1, TakenIsNew
    <3>3. InHandIds = {} /\ InHandIds' = {Head(toUart).id} /\ txMsg'[1] = Head(toUart)
      BY <3>1, InHandCases DEF InHandIds
    <3>4. AnsweredIds = requests' \ InHandIds'
      BY <1>b, <3>1, <3>2, <3>3
    <3> QED BY <1>b, <1>c, <3>1, <3>2, <3>3, <3>4
  <2>2. CASE TxWrite
    <3>1. /\ txPc = "write" /\ txPc' = "recv" /\ txMsg' = <<>>
          /\ UNCHANGED <<pin, requests, responses, pulsed>>
      BY <2>2 DEF TxWrite
    <3>2. InHandIds = {txMsg[1].id} /\ InHandIds' = {} /\ txMsg[1].id \notin requests
      BY <3>1, InHandCases DEF InHandIds, AnswerInv
    <3>3. AnsweredIds = requests' \ InHandIds'
      BY <1>b, <3>1, <3>2
    <3> QED BY <1>b, <1>c, <3>1, <3>3
  <2>3. CASE apply_config \/ TxIgnored
    <3>1. UNCHANGED <<txPc, txMsg, pin, requests, responses, pulsed>>
      BY <2>3 DEF apply_config, TxIgnored
    <3> QED BY <3>1 DEF AnswerInv, ResetAnsweredAfterPulse
  <2>4. CASE ResetBegin
    <3> DEFINE a == [kind |-> "Ok", id |-> Head(toUart).id]
    <3>1. /\ TxTake({"Reset"}) /\ txPc = "recv" /\ txPc' = "pulse" /\ txMsg' = <<a>>
          /\ requests' = requests \cup {Head(toUart).id} /\ UNCHANGED <<responses, pulsed>>
      BY <2>4 DEF ResetBegin, TxTake
    <3>2. Head(toUart).id \notin requests
      BY <2>0, <3>1, TakenIsNew
    <3>3. InHandIds = {} /\ InHandIds' = {Head(toUart).id} /\ txMsg'[1].id = Head(toUart).id
      BY <3>1, InHandCases DEF InHandIds
    <3>4. AnsweredIds = requests' \ InHandIds'
      BY <1>b, <3>1, <3>2, <3>3
    <3> QED BY <1>c, <3>1, <3>3, <3>4
  <2>5. CASE ResetEnd
    <3>1. /\ txPc = "pulse" /\ txPc' = "respond" /\ pin' = "inactive"
          /\ pulsed' = pulsed \cup {txMsg[1].id}
          /\ UNCHANGED <<txMsg, requests, responses>>
      BY <2>5 DEF ResetEnd
    <3>2. InHandIds' = InHandIds /\ txMsg[1].id \in requests
      BY <3>1 DEF InHandIds, AnswerInv
    <3> QED BY <1>b, <1>c, <3>1, <3>2
  <2>6. CASE NotSupported
    <3> DEFINE a == [kind |-> "NotSupported", id |-> Head(toUart).id]
               kinds == IF ResetEnabled THEN {"Unknown"} ELSE {"Unknown", "Reset"}
    <3>1. /\ TxTake(kinds) /\ txPc = "recv" /\ txPc' = "respond" /\ txMsg' = <<a>>
          /\ requests' = requests \cup {Head(toUart).id}
          /\ UNCHANGED <<pin, responses, pulsed>>
      BY <2>6 DEF NotSupported, TxTake
    <3> HIDE DEF kinds
    <3>2. Head(toUart).id \notin requests
      BY <2>0, <3>1, TakenIsNew
    <3>3. InHandIds = {} /\ InHandIds' = {Head(toUart).id} /\ txMsg'[1] = a
      BY <3>1, InHandCases DEF InHandIds
    <3>4. AnsweredIds = requests' \ InHandIds'
      BY <1>b, <3>1, <3>2, <3>3
    <3>5. txMsg'[1].id = Head(toUart).id /\ txMsg'[1].kind = "NotSupported"
      BY <3>3
    <3> QED BY <1>b, <1>c, <3>1, <3>4, <3>5
  <2>7. CASE Respond
    <3> DEFINE n == Len(responses)
               a == txMsg[1]
    <3>1. /\ txPc = "respond" /\ txPc' = "notify" /\ txMsg' = <<>>
          /\ responses' = responses \o txMsg /\ UNCHANGED <<pin, requests, pulsed>>
      BY <2>7 DEF Respond
    <3>2. txMsg = <<a>> /\ InHandIds = {a.id} /\ InHandIds' = {} /\ a.id \in requests
          /\ (a.kind = "Ok" => a.id \in pulsed)
      BY <3>1, InHandCases DEF InHandIds, AnswerInv
    <3> HIDE DEF a
    <3>3. /\ n \in Nat /\ Len(responses') = n + 1 /\ responses'[n + 1] = a
          /\ \A i \in 1..n : responses'[i] = responses[i]
      BY <1>0, <3>1, <3>2 DEF TxType
    <3> HIDE DEF n
    <3>4. AnsweredIds = {responses[i].id : i \in 1..n}
          /\ AnsweredIds' = {responses'[i].id : i \in 1..(n + 1)}
      BY <3>3 DEF AnsweredIds, n
    <3>5. AnsweredIds' = AnsweredIds \cup {a.id}
      BY <3>3, <3>4
    <3>6. AnsweredIds' = requests' \ InHandIds'
      BY <1>b, <3>1, <3>2, <3>5
    <3>7. \A i \in 1..n : responses[i].id # a.id
      BY <1>b, <3>2, <3>4
    <3>8. \A i, j \in 1..(n + 1) : responses'[i].id = responses'[j].id => i = j
      <4>1. \A i, j \in 1..n : responses[i].id = responses[j].id => i = j
        BY <1>b DEF n
      <4>2. \A i \in 1..(n + 1) : i \in 1..n \/ i = n + 1
        BY <3>3
      <4> QED BY <3>3, <3>7, <4>1, <4>2
    <3>9. \A i \in 1..(n + 1) : responses'[i].kind = "Ok" => responses'[i].id \in pulsed'
      <4>1. \A i \in 1..n : responses[i].kind = "Ok" => responses[i].id \in pulsed
        BY <1>b DEF n
      <4>2. \A i \in 1..(n + 1) : i \in 1..n \/ i = n + 1
        BY <3>3
      <4> QED BY <3>1, <3>2, <3>3, <4>1, <4>2
    <3>10. ResetAnsweredAfterPulse'
      BY <1>b, <3>1, <3>3, <3>6, <3>8, <3>9
         DEF ResetAnsweredAfterPulse, AnsweredIds, InHandIds
    <3> QED BY <3>1, <3>10 DEF AnswerInv
  <2>8. CASE TxNotify
    <3>1. /\ txPc = "notify" /\ txPc' = "recv"
          /\ UNCHANGED <<txMsg, pin, requests, responses, pulsed>>
      BY <2>8 DEF TxNotify
    <3>2. InHandIds' = InHandIds
      BY <3>1 DEF InHandIds
    <3> QED BY <1>b, <1>c, <3>1, <3>2
  <2> QED BY <1>1, <2>1, <2>2, <2>3, <2>4, <2>5, <2>6, <2>7, <2>8
          DEF uart_tx_task, handle_control
<1>2. CASE tcp_task
  BY <1>2, <1>a, TcpFrame
<1>3. CASE uart_rx_task
  BY <1>3, <1>a, RxFrame
<1>4. CASE Driver
  <2>1. UNCHANGED <<txPc, txMsg, pin, requests, responses, pulsed>>
    BY <1>4, DriverFrame DEF DriverElsewhere
  <2> QED BY <2>1 DEF AnswerInv, ResetAnsweredAfterPulse
<1>5. CASE Client
  BY <1>5, <1>a, ClientFrame DEF ClientElsewhere
<1>6. CASE UNCHANGED vars
  BY <1>6, <1>a DEF vars
<1> QED BY <1>1, <1>2, <1>3, <1>4, <1>5, <1>6 DEF Next

\* Every control request is answered exactly once, with OK only after the pulse
\* is over and the pin is released.
THEOREM ResetAnsweredAlways == Spec => []ResetAnsweredAfterPulse
<1>1. Init => PipeInv
  <2> SUFFICES ASSUME Init PROVE PipeInv
    OBVIOUS
  <2>1. toUart = <<>> /\ inbox = <<>> /\ tcpPc = "accept" /\ requests = {}
    BY DEF Init
  <2>2. Pipe = (<<>> \o <<>>) \o <<>>
    BY <2>1 DEF Pipe
  <2>3. Len(Pipe) = 0
    BY <2>2
  <2> QED BY <2>1, <2>3 DEF PipeInv, Ascending
<1>2. Init => AnswerInv
  BY DEF Init, AnswerInv, ResetAnsweredAfterPulse
<1>3. AnswerInv => ResetAnsweredAfterPulse
  BY DEF AnswerInv
<1> QED BY <1>1, <1>2, <1>3, TypeInit, TypeNext, PipeNext, AnswerNext, PTL DEF Spec

===============================================================================
