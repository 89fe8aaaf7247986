------------------------------- MODULE Firmware -------------------------------
(***************************************************************************)
(* The ESP32 bridge between one TCP client and the UART: tcp_task          *)
(* (server/main/tcp.c), uart_rx_task and uart_tx_task (server/main/uart.c) *)
(* and the two queues and the eventfd of main.c that join them.            *)
(*                                                                         *)
(* Each FreeRTOS call that can block is a suspension point of its task and *)
(* a step of its own; the three tasks interleave at these points.  The     *)
(* UART driver, the TCP stack and the client are external and modelled     *)
(* from the way the tasks use them.                                        *)
(***************************************************************************)
EXTENDS Naturals, Sequences, SequencesExt

CONSTANTS
    TcpToUartCap,   \* depth of tcp_to_uart_queue (16 in the code)
    UartToTcpCap,   \* depth of uart_to_tcp_queue (128)
    EventCap,       \* depth of the UART event queue (16)
    RxBuf, TxBuf,   \* sizes of the UART driver's ring buffers (1024 bytes)
    SockBuf,        \* messages the client's socket buffers
    MaxBody,        \* MAX_MESSAGE_BODY_SIZE (255 bytes)
    MaxSockets,     \* client sockets the TCP stack can hold open
    ResetEnabled,   \* CONFIG_ESP_UART_RESET_ENABLED
    InKinds,        \* kinds of messages the client sends
    MaxIn,          \* bound: messages the client sends
    MaxWire,        \* bound: bytes arriving on the UART
    MaxOther,       \* bound: UART events other than UART_DATA
    MaxClients      \* bound: TCP connections

\* "Malformed" is a Config or Control message of a wrong length, or a message
\* of an unknown kind; "Unknown" a Control message with an unknown command.
Kinds == {"Data", "Config", "Reset", "Unknown", "Malformed"}

ASSUME FirmwareAssumption ==
    /\ \A n \in {TcpToUartCap, UartToTcpCap, EventCap, RxBuf, TxBuf, SockBuf, MaxBody} :
           n \in Nat \ {0}
    /\ \A n \in {MaxSockets, MaxIn, MaxWire, MaxOther, MaxClients} : n \in Nat
    /\ ResetEnabled \in BOOLEAN
    /\ InKinds \subseteq Kinds

VARIABLES
    tcpPc,      \* where tcp_task is suspended
    tcpMsg,     \* the message it holds, an Option
    efdSet,     \* FD_ISSET(uart_to_tcp_efd) of the last select
    peer,       \* the client being served: "none", "up", or "closed" by it
    open,       \* client sockets held open
    inbox,      \* messages the client sent, not yet read
    outbox,     \* messages sent, not yet read by the client
    backlog,    \* connections waiting for accept, at most one
    toUart,     \* tcp_to_uart_queue
    toTcp,      \* uart_to_tcp_queue
    efd,        \* the counter of uart_to_tcp_efd
    rxPc, rxMsg,    \* uart_rx_task
    txPc, txMsg,    \* uart_tx_task
    events,     \* the UART event queue
    ring,       \* the driver's receive buffer
    uartOut,    \* the driver's transmit buffer
    config,     \* id of the Config message in force, 0 for the default
    pin,        \* the reset GPIO
    overrun,    \* history: bytes that met a full receive buffer
    sent,       \* history: bytes handed to a socket, in order
    dropped,    \* history: bytes of the messages whose send failed
    requests,   \* history: ids of the control requests taken
    responses,  \* history: responses put in the queue
    pulsed,     \* history: ids whose reset pulse is complete
    cut,        \* history: the last drain ended in a failed send
    blind,      \* history: a UART_DATA event was dropped and none is queued
    received, wired, others, clients    \* counters of the bounds

tcpVars == <<tcpPc, tcpMsg, efdSet, peer, open, inbox, outbox, backlog>>
rxVars == <<rxPc, rxMsg, events, ring, overrun, blind>>
txVars == <<txPc, txMsg, uartOut, config, pin, requests, responses, pulsed>>
ghosts == <<sent, dropped, cut>>
counters == <<received, wired, others, clients>>
vars == <<tcpVars, toUart, toTcp, efd, rxVars, txVars, ghosts, counters>>

-------------------------------------------------------------------------------
(* Values *)

InMessages == [kind : Kinds, id : Nat]
OutMessages == [kind : {"Data"}, body : Seq(Nat)]
               \cup [kind : {"Ok", "NotSupported"}, id : Nat]

Option(S) == {s \in Seq(S) : Len(s) <= 1}

BytesOf(m) == IF m.kind = "Data" THEN m.body ELSE <<>>
Bytes(q) == FlattenSeq([i \in 1..Len(q) |-> BytesOf(q[i])])

Least(a, b) == IF a < b THEN a ELSE b

-------------------------------------------------------------------------------
(* tcp_task and handle_client *)

Accept ==
    /\ tcpPc = "accept" /\ backlog > 0
    /\ open < MaxSockets
    /\ backlog' = backlog - 1 /\ open' = open + 1 /\ peer' = "up"
    /\ tcpPc' = "select"
    /\ UNCHANGED <<tcpMsg, efdSet, inbox, outbox, toUart, toTcp, efd, rxVars, txVars,
                   ghosts, counters>>

\* No socket is left: the stack drops the connection and accept is called again.
AcceptFailed ==
    /\ tcpPc = "accept" /\ backlog > 0
    /\ open >= MaxSockets
    /\ backlog' = backlog - 1
    /\ UNCHANGED <<tcpPc, tcpMsg, efdSet, peer, open, inbox, outbox, toUart, toTcp, efd,
                   rxVars, txVars, ghosts, counters>>

\* Mutant: the end of the stream is not looked for.
Readable_data == inbox # <<>>

\* The client's socket has a message or the end of the stream to deliver.
Readable == inbox # <<>> \/ peer = "closed"

\* select returns which of the two descriptors are ready.
Select ==
    /\ tcpPc = "select"
    /\ Readable \/ efd > 0
    /\ efdSet' = (efd > 0)
    /\ tcpPc' = IF Readable THEN "read" ELSE "read_efd"
    /\ UNCHANGED <<tcpMsg, peer, open, inbox, outbox, backlog, toUart, toTcp, efd, rxVars,
                   txVars, ghosts, counters>>

ForgetClient == peer' = "none" /\ inbox' = <<>> /\ outbox' = <<>> /\ tcpPc' = "accept"

\* select fails and handle_client breaks out of its loop: the socket is not
\* closed, whether the client is still there or not.
SelectFailed ==
    /\ tcpPc = "select"
    /\ ForgetClient
    /\ UNCHANGED <<tcpMsg, efdSet, open, backlog, toUart, toTcp, efd, rxVars, txVars,
                   ghosts, counters>>

\* read_msg has the whole message.
ReadMsg ==
    /\ tcpPc = "read" /\ inbox # <<>>
    /\ tcpMsg' = <<Head(inbox)>> /\ inbox' = Tail(inbox)
    /\ tcpPc' = "push"
    /\ UNCHANGED <<efdSet, peer, open, outbox, backlog, toUart, toTcp, efd, rxVars, txVars,
                   ghosts, counters>>

\* read_msg fails, with the same end: the socket is not closed.
ReadMsgFailed ==
    /\ tcpPc = "read" /\ peer = "closed"
    /\ ForgetClient
    /\ UNCHANGED <<tcpMsg, efdSet, open, backlog, toUart, toTcp, efd, rxVars, txVars,
                   ghosts, counters>>

\* xQueueSend(tcp_to_uart_queue, portMAX_DELAY)
PushToUart ==
    /\ tcpPc = "push" /\ Len(toUart) < TcpToUartCap
    /\ toUart' = toUart \o tcpMsg /\ tcpMsg' = <<>>
    /\ tcpPc' = IF efdSet THEN "read_efd" ELSE "select"
    /\ UNCHANGED <<efdSet, peer, open, inbox, outbox, backlog, toTcp, efd, rxVars, txVars,
                   ghosts, counters>>

\* The eventfd is cleared before the queue is drained.
ReadEfd ==
    /\ tcpPc = "read_efd"
    /\ efd' = 0 /\ cut' = FALSE
    /\ tcpPc' = "drain"
    /\ UNCHANGED <<tcpMsg, efdSet, peer, open, inbox, outbox, backlog, toUart, toTcp, rxVars,
                   txVars, sent, dropped, counters>>

\* xQueueReceive(uart_to_tcp_queue, 0) yields a message.
Drain ==
    /\ tcpPc = "drain" /\ toTcp # <<>>
    /\ tcpMsg' = <<Head(toTcp)>> /\ toTcp' = Tail(toTcp)
    /\ tcpPc' = "send"
    /\ UNCHANGED <<efdSet, peer, open, inbox, outbox, backlog, toUart, efd, rxVars, txVars,
                   ghosts, counters>>

\* The queue is empty: back to select.
DrainEnd ==
    /\ tcpPc = "drain" /\ toTcp = <<>>
    /\ tcpPc' = "select"
    /\ UNCHANGED <<tcpMsg, efdSet, peer, open, inbox, outbox, backlog, toUart, toTcp, efd,
                   rxVars, txVars, ghosts, counters>>

\* Mutant: one message per wakeup.
Send_one ==
    /\ tcpPc = "send" /\ Len(outbox) < SockBuf
    /\ outbox' = outbox \o tcpMsg /\ tcpMsg' = <<>>
    /\ sent' = sent \o Bytes(tcpMsg)
    /\ tcpPc' = "select"
    /\ UNCHANGED <<efdSet, peer, open, inbox, backlog, toUart, toTcp, efd, rxVars, txVars,
                   dropped, cut, counters>>

\* Header and body are in the socket; the next message is taken.
Send ==
    /\ tcpPc = "send" /\ Len(outbox) < SockBuf
    /\ outbox' = outbox \o tcpMsg /\ tcpMsg' = <<>>
    /\ sent' = sent \o Bytes(tcpMsg)
    /\ tcpPc' = "drain"
    /\ UNCHANGED <<efdSet, peer, open, inbox, backlog, toUart, toTcp, efd, rxVars, txVars,
                   dropped, cut, counters>>

\* Mutant: the socket is closed by handle_client and again by its caller.
SendFailed_twice ==
    /\ tcpPc = "send" /\ peer = "closed"
    /\ ForgetClient
    /\ tcpMsg' = <<>> /\ open' = open - 2 /\ cut' = TRUE
    /\ dropped' = dropped \cup ToSet(Bytes(tcpMsg))
    /\ UNCHANGED <<efdSet, backlog, toUart, toTcp, efd, rxVars, txVars, sent, counters>>

\* send fails: the socket is closed, and what is left in the queue stays there.
SendFailed ==
    /\ tcpPc = "send" /\ peer = "closed"
    /\ ForgetClient
    /\ tcpMsg' = <<>> /\ open' = open - 1 /\ cut' = TRUE
    /\ dropped' = dropped \cup ToSet(Bytes(tcpMsg))
    /\ UNCHANGED <<efdSet, backlog, toUart, toTcp, efd, rxVars, txVars, sent, counters>>

-------------------------------------------------------------------------------
(* uart_rx_task *)

Elsewhere == <<tcpVars, toUart, ghosts, counters>>

\* An event of another type is dropped.
RxEvent ==
    /\ rxPc = "event" /\ events # <<>>
    /\ events' = Tail(events)
    /\ rxPc' = IF Head(events) = "UART_DATA" THEN "read" ELSE "event"
    /\ UNCHANGED <<rxMsg, ring, overrun, blind, toTcp, efd, txVars, Elsewhere>>

\* Mutant: only one message is read per event.
RxRead_once ==
    /\ rxPc = "read" /\ ring # <<>>
    /\ LET n == Least(Len(ring), MaxBody) IN
           /\ rxMsg' = <<[kind |-> "Data", body |-> SubSeq(ring, 1, n)]>>
           /\ ring' = <<>>
    /\ rxPc' = "push"
    /\ UNCHANGED <<events, overrun, blind, toTcp, efd, txVars, Elsewhere>>

\* uart_read_bytes takes at most one message body from the driver.
RxRead ==
    /\ rxPc = "read" /\ ring # <<>>
    /\ LET n == Least(Len(ring), MaxBody) IN
           /\ rxMsg' = <<[kind |-> "Data", body |-> SubSeq(ring, 1, n)]>>
           /\ ring' = SubSeq(ring, n + 1, Len(ring))
    /\ rxPc' = "push"
    /\ UNCHANGED <<events, overrun, blind, toTcp, efd, txVars, Elsewhere>>

\* buffered_len is 0: the loop ends.
RxReadEnd ==
    /\ rxPc = "read" /\ ring = <<>>
    /\ rxPc' = "event" /\ blind' = FALSE
    /\ UNCHANGED <<rxMsg, events, ring, overrun, toTcp, efd, txVars, Elsewhere>>

\* xQueueSend(uart_to_tcp_queue, portMAX_DELAY)
RxPush ==
    /\ rxPc = "push" /\ Len(toTcp) < UartToTcpCap
    /\ toTcp' = toTcp \o rxMsg /\ rxMsg' = <<>>
    /\ rxPc' = "notify"
    /\ UNCHANGED <<events, ring, overrun, blind, efd, txVars, Elsewhere>>

\* Mutant: no second look at buffered_len.
RxNotify_stop ==
    /\ rxPc = "notify"
    /\ efd' = efd + 1
    /\ rxPc' = "event"
    /\ UNCHANGED <<rxMsg, events, ring, overrun, blind, toTcp, txVars, Elsewhere>>

\* Mutant: tcp_task is not told.
RxNotify_silent ==
    /\ rxPc = "notify"
    /\ rxPc' = "read"
    /\ UNCHANGED <<rxMsg, events, ring, overrun, blind, toTcp, efd, txVars, Elsewhere>>

\* write(uart_to_tcp_efd), then buffered_len is read again.
RxNotify ==
    /\ rxPc = "notify"
    /\ efd' = efd + 1
    /\ rxPc' = "read"
    /\ UNCHANGED <<rxMsg, events, ring, overrun, blind, toTcp, txVars, Elsewhere>>

-------------------------------------------------------------------------------
(* uart_tx_task *)

TxTake(kinds) ==
    /\ txPc = "recv" /\ toUart # <<>> /\ Head(toUart).kind \in kinds
    /\ toUart' = Tail(toUart)

TxElsewhere == <<tcpVars, rxVars, ghosts, counters>>

\* Mutant: the message is peeked at and stays in the queue.
TxData_peek ==
    /\ txPc = "recv" /\ toUart # <<>> /\ Head(toUart).kind = "Data"
    /\ txPc' = "write" /\ txMsg' = <<Head(toUart)>>
    /\ UNCHANGED <<toUart, toTcp, efd, uartOut, config, pin, requests, responses, pulsed,
                   TxElsewhere>>

TxData ==
    /\ TxTake({"Data"})
    /\ txPc' = "write" /\ txMsg' = <<Head(toUart)>>
    /\ UNCHANGED <<toTcp, efd, uartOut, config, pin, requests, responses, pulsed,
                   TxElsewhere>>

\* uart_write_bytes waits for room in the driver's transmit buffer.
TxWrite ==
    /\ txPc = "write" /\ Len(uartOut) < TxBuf
    /\ uartOut' = uartOut \o txMsg /\ txMsg' = <<>>
    /\ txPc' = "recv"
    /\ UNCHANGED <<toUart, toTcp, efd, config, pin, requests, responses, pulsed, TxElsewhere>>

\* The settings change at once, whatever is still in the transmit buffer.
apply_config ==
    /\ TxTake({"Config"})
    /\ config' = Head(toUart).id
    /\ UNCHANGED <<txPc, txMsg, toTcp, efd, uartOut, pin, requests, responses, pulsed,
                   TxElsewhere>>

\* A wrong length or an unknown kind is only logged, or not even that.
TxIgnored ==
    /\ TxTake({"Malformed"})
    /\ UNCHANGED <<txPc, txMsg, toTcp, efd, uartOut, config, pin, requests, responses,
                   pulsed, TxElsewhere>>

\* handle_control: the reset pulse begins.
ResetBegin ==
    /\ ResetEnabled
    /\ TxTake({"Reset"})
    /\ pin' = "active"
    /\ requests' = requests \cup {Head(toUart).id}
    /\ txPc' = "pulse" /\ txMsg' = <<[kind |-> "Ok", id |-> Head(toUart).id]>>
    /\ UNCHANGED <<toTcp, efd, uartOut, config, responses, pulsed, TxElsewhere>>

\* Mutant: the pin is left active.
ResetEnd_held ==
    /\ txPc = "pulse"
    /\ txPc' = "respond"
    /\ UNCHANGED <<toUart, txMsg, toTcp, efd, uartOut, config, pin, requests, responses,
                   pulsed, TxElsewhere>>

\* vTaskDelay is over: the pin is released.
ResetEnd ==
    /\ txPc = "pulse"
    /\ pin' = "inactive"
    /\ pulsed' = pulsed \cup {txMsg[1].id}
    /\ txPc' = "respond"
    /\ UNCHANGED <<toUart, txMsg, toTcp, efd, uartOut, config, requests, responses,
                   TxElsewhere>>

\* handle_control: the command is unknown, or reset is compiled out.
NotSupported ==
    /\ TxTake(IF ResetEnabled THEN {"Unknown"} ELSE {"Unknown", "Reset"})
    /\ requests' = requests \cup {Head(toUart).id}
    /\ txPc' = "respond" /\ txMsg' = <<[kind |-> "NotSupported", id |-> Head(toUart).id]>>
    /\ UNCHANGED <<toTcp, efd, uartOut, config, pin, responses, pulsed, TxElsewhere>>

\* xQueueSend(uart_to_tcp_queue, portMAX_DELAY)
Respond ==
    /\ txPc = "respond" /\ Len(toTcp) < UartToTcpCap
    /\ toTcp' = toTcp \o txMsg /\ responses' = responses \o txMsg /\ txMsg' = <<>>
    /\ txPc' = "notify"
    /\ UNCHANGED <<toUart, efd, uartOut, config, pin, requests, pulsed, TxElsewhere>>

\* write(uart_to_tcp_efd)
TxNotify ==
    /\ txPc = "notify"
    /\ efd' = efd + 1
    /\ txPc' = "recv"
    /\ UNCHANGED <<toUart, txMsg, toTcp, uartOut, config, pin, requests, responses, pulsed,
                   TxElsewhere>>

-------------------------------------------------------------------------------
(* The UART driver and the wire (external) *)

DriverElsewhere == <<tcpVars, toUart, toTcp, efd, rxPc, rxMsg, txPc, txMsg, config, pin,
                     requests, responses, pulsed, ghosts, received, clients>>

\* An event that does not fit in the event queue is dropped by the driver.
Post(e) == events' = IF Len(events) < EventCap THEN Append(events, e) ELSE events

\* A byte arrives; with a full buffer it is lost.
WireIn ==
    /\ wired < MaxWire
    /\ wired' = wired + 1
    /\ IF Len(ring) < RxBuf
       THEN /\ ring' = Append(ring, wired) /\ Post("UART_DATA")
            /\ blind' = ("UART_DATA" \notin ToSet(events'))
            /\ UNCHANGED overrun
       ELSE /\ overrun' = overrun \cup {wired} /\ Post("UART_BUFFER_FULL")
            /\ UNCHANGED <<ring, blind>>
    /\ UNCHANGED <<uartOut, others, DriverElsewhere>>

\* A break, a framing error or another line condition is reported.
LineEvent ==
    /\ others < MaxOther
    /\ others' = others + 1
    /\ Post("UART_BREAK")
    /\ UNCHANGED <<ring, overrun, blind, wired, uartOut, DriverElsewhere>>

WireOut ==
    /\ uartOut # <<>>
    /\ uartOut' = Tail(uartOut)
    /\ UNCHANGED <<events, ring, overrun, blind, wired, others, DriverElsewhere>>

-------------------------------------------------------------------------------
(* The client and the network (external) *)

ClientElsewhere == <<tcpPc, tcpMsg, efdSet, open, toUart, toTcp, efd, rxVars, txVars, ghosts,
                     wired, others>>

ClientConnect ==
    /\ clients < MaxClients /\ backlog = 0
    /\ clients' = clients + 1 /\ backlog' = 1
    /\ UNCHANGED <<peer, inbox, outbox, received, ClientElsewhere>>

ClientSend ==
    /\ peer = "up" /\ received < MaxIn
    /\ \E k \in InKinds : inbox' = Append(inbox, [kind |-> k, id |-> received + 1])
    /\ received' = received + 1
    /\ UNCHANGED <<peer, outbox, backlog, clients, ClientElsewhere>>

ClientRead ==
    /\ peer = "up" /\ outbox # <<>>
    /\ outbox' = Tail(outbox)
    /\ UNCHANGED <<peer, inbox, backlog, received, clients, ClientElsewhere>>

ClientClose ==
    /\ peer = "up"
    /\ peer' = "closed"
    /\ UNCHANGED <<inbox, outbox, backlog, received, clients, ClientElsewhere>>

-------------------------------------------------------------------------------
(* The specification *)

\* state_init, then app_main starts the tasks.
Init ==
    /\ tcpPc = "accept" /\ tcpMsg = <<>> /\ efdSet = FALSE
    /\ peer = "none" /\ open = 0 /\ inbox = <<>> /\ outbox = <<>> /\ backlog = 0
    /\ toUart = <<>> /\ toTcp = <<>> /\ efd = 0
    /\ rxPc = "event" /\ rxMsg = <<>> /\ events = <<>> /\ ring = <<>> /\ overrun = {}
    /\ blind = FALSE
    /\ txPc = "recv" /\ txMsg = <<>> /\ uartOut = <<>> /\ config = 0 /\ pin = "inactive"
    /\ requests = {} /\ responses = <<>> /\ pulsed = {}
    /\ sent = <<>> /\ dropped = {} /\ cut = FALSE
    /\ received = 0 /\ wired = 0 /\ others = 0 /\ clients = 0

serve_client == Select \/ ReadMsg \/ ReadMsgFailed \/ PushToUart \/ ReadEfd \/ Drain
                \/ DrainEnd \/ Send \/ SendFailed
handle_client == serve_client \/ SelectFailed
tcp_task == Accept \/ AcceptFailed \/ handle_client
uart_rx_task == RxEvent \/ RxRead \/ RxReadEnd \/ RxPush \/ RxNotify
handle_control == ResetBegin \/ ResetEnd \/ NotSupported \/ Respond \/ TxNotify
uart_tx_task == TxData \/ TxWrite \/ apply_config \/ TxIgnored \/ handle_control

Driver == WireIn \/ LineEvent \/ WireOut
Client == ClientConnect \/ ClientSend \/ ClientRead \/ ClientClose

Next == tcp_task \/ uart_rx_task \/ uart_tx_task \/ Driver \/ Client

Spec == Init /\ [][Next]_vars

-------------------------------------------------------------------------------
(* Safety *)

TypeOK ==
    /\ tcpPc \in {"accept", "select", "read", "push", "read_efd", "drain", "send"}
    /\ tcpMsg \in Option(IF tcpPc = "send" THEN OutMessages ELSE InMessages)
    /\ efdSet \in BOOLEAN /\ peer \in {"none", "up", "closed"}
    /\ open \in 0..MaxSockets /\ backlog \in 0..1
    /\ inbox \in Seq(InMessages) /\ outbox \in Seq(OutMessages)
    /\ toUart \in Seq(InMessages) /\ Len(toUart) <= TcpToUartCap
    /\ toTcp \in Seq(OutMessages) /\ Len(toTcp) <= UartToTcpCap
    /\ efd \in Nat
    /\ rxPc \in {"event", "read", "push", "notify"} /\ rxMsg \in Option(OutMessages)
    /\ txPc \in {"recv", "write", "pulse", "respond", "notify"}
    /\ txMsg \in Option(IF txPc = "write" THEN InMessages ELSE OutMessages)
    /\ events \in Seq({"UART_DATA", "UART_BUFFER_FULL", "UART_BREAK"})
    /\ ring \in Seq(Nat) /\ uartOut \in Seq(InMessages)
    /\ config \in Nat /\ pin \in {"active", "inactive"}
    /\ sent \in Seq(Nat) /\ dropped \subseteq Nat /\ overrun \subseteq Nat
    /\ requests \subseteq Nat /\ responses \in Seq(OutMessages) /\ pulsed \subseteq Nat
    /\ cut \in BOOLEAN /\ blind \in BOOLEAN
    /\ received \in Nat /\ wired \in Nat /\ others \in Nat /\ clients \in Nat

WakeupDue == efd > 0 \/ rxPc = "notify" \/ txPc = "notify" \/ cut

\* tcp_task never sleeps in select on a queue with messages unless a wakeup is
\* on its way: the eventfd is cleared before the queue is drained and written
\* after every push.  The one exception is a drain that a failed send cut short.
NoLostWakeup ==
    tcpPc \in {"accept", "select"} /\ toTcp # <<>> => WakeupDue

\* NoLostWakeup strengthened to every place where tcp_task is not draining.
WakeupInv ==
    /\ efd \in Nat
    /\ tcpPc \notin {"drain", "send"} /\ toTcp # <<>> => WakeupDue

\* The message tcp_task is sending, and the bytes of the UART on their way: sent,
\* being sent, in the queue, in uart_rx_task's hand, in the driver's buffer.
Hand == IF tcpPc = "send" THEN tcpMsg ELSE <<>>
Flow == sent \o Bytes(Hand) \o Bytes(toTcp) \o Bytes(rxMsg) \o ring

Increasing(s) == \A i, j \in 1..Len(s) : i < j => s[i] < s[j]

\* The bytes of the UART reach the socket in the order of their arrival, each at
\* most once, whatever the sizes of the chunks and however full the queue and
\* whoever the client; and each byte that arrived is sent or on its way, but for
\* those of a message whose send failed and those that met a full buffer.
BytesInOrder ==
    /\ Increasing(Flow)
    /\ ToSet(Flow) \cup dropped \cup overrun = 0..(wired - 1)
    /\ ToSet(Flow) \cap dropped = {}
    /\ (ToSet(Flow) \cup dropped) \cap overrun = {}

\* uart_rx_task never waits for an event while bytes wait for it, although the
\* driver drops events: each wakeup reads until the buffer is empty.  The one
\* exception: other events had filled the event queue when the byte arrived.
NoStrandedBytes ==
    rxPc = "event" /\ ring # <<>> => "UART_DATA" \in ToSet(events) \/ blind

\* Every control request is answered exactly once, with OK only after the pulse
\* is over and the pin is released.
ResetAnsweredAfterPulse ==
    /\ \A i, j \in 1..Len(responses) : responses[i].id = responses[j].id => i = j
    /\ {responses[i].id : i \in 1..Len(responses)} =
           requests \ {txMsg[i].id : i \in 1..Len(txMsg)}
    /\ \A i \in 1..Len(responses) : responses[i].kind = "Ok" => responses[i].id \in pulsed
    /\ pin = "active" => txPc = "pulse"

-------------------------------------------------------------------------------
(* Liveness *)

\* FreeRTOS runs a task whose blocking call can return; the client reads its
\* socket and the UART transmits.  Nothing obliges select to fail.
FairSpec ==
    /\ Spec
    /\ WF_vars(Accept \/ AcceptFailed \/ serve_client)
    /\ WF_vars(uart_rx_task) /\ WF_vars(uart_tx_task)
    /\ WF_vars(ClientRead) /\ WF_vars(WireOut)

\* A byte the driver accepted is sent to the client, as long as there is one
\* ("bridges all traffic bidirectionally", README).
UplinkFlows ==
    \A b \in 0..(MaxWire - 1) : b \in ToSet(Flow) ~> b \in ToSet(sent) \/ peer # "up"

\* The same for any number of clients in turn, up to a drain that a failed send
\* cut short, which leaves bytes with no wakeup to come.
UplinkFlowsUncut ==
    \A b \in 0..(MaxWire - 1) : b \in ToSet(Flow) ~> b \in ToSet(sent) \/ peer # "up" \/ cut

\* tcp_task does not stay blocked on a full tcp_to_uart_queue.
NeverBacksUp == tcpPc = "push" ~> tcpPc # "push"

\* One client is served at a time, so the next waits for the first to be
\* given up: once the first has left, the one in the backlog is accepted, as long
\* as a socket is left for it.
NextServed == backlog > 0 /\ peer # "up" /\ open < MaxSockets ~> peer = "up"

===============================================================================
