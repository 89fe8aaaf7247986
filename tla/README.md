# tcpuart in TLA+

tcpuart exposes a serial device behind an ESP32 as a pseudo-terminal on the host.
This directory models the parts of it that run concurrently, checks them with TLC
on small instances, and proves their safety properties with TLAPS for every value of the
constants. Paths below are relative to the repository's root.

## 1. The system

```
application <-PTY-> connection task <-TCP-> tcp_task <-queues-> uart tasks <-UART-> device
                        |     ^
             event channel   control channel (requests with a oneshot each)
                        v     |
        CLI <-Unix socket-> main loop of the daemon
```

| Component | State it keeps | Operations | What makes it correct |
|---|---|---|---|
| Connection task (`daemon/src/connection.rs`) | `ConnState`, the message kept for a reconnect, the request awaiting its response | three `select!` loops, `shutdown`; `send_hardware_ctl`, `get_status`, `shutdown` of the handle | nothing taken from the PTY is lost or reordered; no caller is forgotten; it ends when told to |
| TCP bridge (`daemon/src/tcp_bridge.rs`) | `framed` | `send`, `next`, `try_connect` | it has a stream exactly when the state machine counts on one |
| Asynchronous PTY (`daemon/src/async_pty.rs`) | last termios settings | `new`, `read`, `set_extproc`, `poll_write` | every change of the settings is reported, none is overwritten |
| Main loop, table, events (`daemon/src/main.rs`, `state.rs`, `event.rs`) | the `Vec` of connections, the event channel | `Add`, `Remove`, `List`, `Reset`, `ConnectionClosed`, accept, SIGINT | unique names; each command is answered once; dead connections are unlisted |
| Codecs (`common/src/msg.rs`, `common/src/ctl.rs`) | none | encode, decode | decode inverts encode whatever pieces the bytes arrive in; an error means a stream cut within a message |
| CLI (`cli/src/main.rs`) and `handle_stream` (`daemon/src/main.rs`) | one request and its stream | send, wait, show, exit | the user sees the daemon's answer to this request, and is not left waiting |
| `tcp_task` (`server/main/tcp.c`) | the client's socket, an eventfd | accept, select, read a message, drain the queue | no lost wakeup; once a client has left, the next is served |
| UART tasks (`server/main/uart.c`) | the driver, the settings, the reset pin | forward bytes, write, `apply_config`, `handle_control` | bytes in order, each once; a response after each pulse |
| Wi-Fi (`server/main/wifi.c`) | retry counter, index, event group | `event_handler`, `wifi_init` | the counter counts passes through the list; a hopeless boot restarts |
| Status LED (`server/main/status.c`) | three countdowns, a queue of depth 2 | post a message, wait, count down | no light stays on for want of a timer or goes out early; a failure is shown before the restart it announces |
| Start-up (`server/main/main.c`) | the phase of `app_main` | Wi-Fi, Tailscale, start of the tasks, restart | a boot that fails restarts |
| Test server (`test-server/src/main.rs`) | the status it answered last | `handle_conn` | it speaks the device's protocol |

What is hard about it: the daemon runs on a single thread, but every `.await` is a
place where other tasks run, and an `.await` *inside* the handler of a `select!`
arm is a place where the other arms are not even polled. Connections are lost in the
middle of a send, while a request is under way, and again during the resync. The
firmware's three tasks wait for each other through two bounded queues and an eventfd.
Main loop and connection tasks wait for each other through two bounded channels. The
application behind the PTY is another process, which changes the terminal between any two
system calls of the daemon. Bytes arrive in pieces, and either end may die within a message.
`PROJECT.json` lists these hazards, each at its line with the properties that would
catch it.

## 2. Modules

| Module | Models | Built on |
|---|---|---|
| `ConnLifecycle` | abstract: what a connection task promises the holders of its handle | - |
| `ConnectionTask` | the connection task and its TCP bridge | `PtyPort`; implements `ConnLifecycle` |
| `PtyPort` | what `AsyncPty::read` hands to the connection task | - |
| `AsyncPty` | packet mode, EXTPROC and the termios settings, with the application | `PtyPort` |
| `Bridge` | application, PTY, connection task and device composed | `ConnectionTask`, `AsyncPty` |
| `Daemon` | main loop, table, stream tasks, event channel; connection tasks reduced to the states of `ConnLifecycle` | - |
| `Wire` | numbers, strings and the cursor both codecs are built from | - |
| `MsgCodec`, `CtlCodec` | the two protocols, as functions between messages and bytes | `Wire` |
| `Framed` | a byte stream in each direction, delivered in pieces | - |
| `CtlSession` | one run of the CLI against `handle_stream` | `CtlCodec`, `Framed` |
| `DeviceSession` | `TcpBridge` against the firmware or the test server | `MsgCodec`, `Framed` |
| `Sessions` | either of the two | `CtlSession`, `DeviceSession` |
| `Firmware` | `tcp_task`, `uart_rx_task`, `uart_tx_task`, queues, eventfd | - |
| `Wifi` | the event handler and `wifi_init` | - |
| `StatusLed` | the LED's task and its queue | - |
| `BootStatus` | `app_main`: Wi-Fi, Tailscale, the LED and everything that posts to it | `Wifi`, `StatusLed` |
| `ConnectionTaskProofs`, `BridgeProofs`, `DaemonProofs`, `SessionsProofs`, `FirmwareProofs`, `WifiProofs`, `BootStatusProofs` | theorems about the module they are named after | TLAPS |
| `SeqLemmas` | induction and recursion in a first-order form, what `FlattenSeq` computes | TLAPS |
| `MCConnectionTask`, `MCBridge`, `MCDaemon`, `MCSessions`, `MCFirmware`, `MCWifi`, `MCBootStatus` | the sets the configurations instantiate | - |

Operators whose name ends in `_` and a word, with a comment that starts "Mutant:",
are not part of any specification: each is a plausible wrong version of the
definition that follows it, used to see that a property notices the difference.

### ConnectionTask

`pc` is the `.await` the task is suspended at: `"select"` for the `select!` of the
current state, `"send"`, `"send_ctl"`, `"write_pty"` and `"connect"` for the awaits
inside handlers, `"notify"` for the send to the event channel. The code between two
awaits is one action. `state`, `backoff`, `pending`, `pending_hw_ctl` and `framed` are
the variables of the code. An `Option` is a sequence of length at most one. `reply[r]`
is what the oneshot of request `r` has carried; `"closed"` means its sender was
dropped. Messages are a kind and an identity: the task never looks inside a body, so
this is all it can tell apart. `consumed`, `sent` and `lost` are history variables.
`ShutdownSignal`, `CtlClosed`, `CtlStatus` and `CtlHardwareRefused` are the arms the
three `select!`s have in common. The PTY's application, the device and the network are
the environment. When the task ends, the requests left in the channel have their
oneshots dropped by the drop of the receiver, in the same step.

### AsyncPty and Bridge

The daemon's side of `read` is one `.await` (`readable`) followed by system calls, and the
application may act between any two of them: `rd` names the next call. The kernel's
terminal (`tio`, `pktStatus`, `ptyData`) is external and modelled as the code relies on it:
a status byte is read alone and before data, and a `tcsetattr` announces itself only while
EXTPROC is set before or after it. `reports` is what `read` has returned so far; a `Config`
in a message of `ConnectionTask` is an index into it. This is the Linux build of
`async_pty.rs`. `wanted` and `cleared` are history variables.

`Bridge` joins this with `ConnectionTask` through `ptyIn`: `read` makes progress only while
the task is at the `select!` of `step_connected`, and its result is handled before any
other arm. The device is reduced to the settings it runs with. A restart of the device is
a failure of the connection after which it has its default settings. `forgotten` records
that a `Config` which the daemon no longer keeps was undone, by a restart or by a session that
broke with the `Config` unread.

### Daemon

The main loop is at `"loop"` (its `select!`) or awaiting a connection task inside
`handle_daemon_request` (`"status"`, `"reset"`); `Answers(t)` says when such an await
can end. Task identities stand for `Connection` objects, so that two connections which
had the same name at different times are distinguished, as the code cannot. `Add` is
one step: it contains no `.await`. A SIGINT exists only for the `ctrl_c()` future of
the current round: `OtherArm` drops it when another arm wins.

### Wire, the codecs and the sessions

A message is the number of its variant and its fields; encoding and decoding compute the
bytes. A byte has `B` values, 256 in the code and 10 in the run: the smallest base in which
the kinds and the length of a `Config` fit, so that "the longest string" and "one byte too
long" are short. Numbers are written in base `B` with the code's widths (`Weight` is what each byte
counts for). `Typed` says which values a message's fields can have. `Max8` is both the
kind of an `Error` response and the byte no UTF-8 text contains, as 255 is in the code.
Decoders follow the code's order of checks: `none` asks for more bytes, `error` is a
decoding error, `item` comes with the rest of the buffer.

`Framed` delivers the bytes in pieces of one byte or of everything under way; other pieces
are sequences of these with no decoding in between. An end that dies within a message
leaves its first bytes (`CutOff`). In `CtlSession` the main loop may give any answer
`handle_daemon_request` has for the request; `Daemon` says which. `DeviceSession` reads as
`TcpBridge` does on one side and as the firmware's `read_msg` or the test server's
`handle_conn` does on the other.

### Firmware

Every FreeRTOS call that can block is a suspension point. The driver drops events when
its queue is full (`Post`) and bytes when its buffer is full (`WireIn`). A byte of the
UART is the number of its arrival. `sent` (handed to a socket), `dropped` (in a message whose
`send_all` failed), `overrun` (met a full buffer), `requests`, `responses`, `pulsed`, `cut` and
`blind` are history variables. A failed `select` leaves the loop of `handle_client` as a
failed read does, with the socket left open, but whether or not the client is still there
(`SelectFailed`). `efd` counts as the eventfd does; a read clears it. Whole messages arrive
from the client; their lengths matter only as "well formed" or not.

### Wifi

`radio` is the station as the event loop sees it; the events that end an attempt are
the environment's choice. `failed` is a history variable: how often each network failed
since the last address or the start; `from` is where the walk through the networks stood
then.

`Wifi` by itself is the build without an LED.

### StatusLed and BootStatus

Time passes in ticks; the task computes in milliseconds and learns of time only from the
length of its waits, in whole ticks (`waited`). `owed` is a history variable: how long each
colour is still to be shown, by the ticks that have really passed. With a rest shorter than a
tick the wait is none, and the task goes round its loop while ticks pass (`Polling`): a tick
that falls within its wait is counted, one that falls between `end_wait` and the next
`start_wait` is not. The task has the lowest priority: while the serving tasks exist it may be
held up for up to `MaxHeld` ticks although it is ready. Before that, and with Tailscale's
tasks taken to leave it time, it runs before the next tick once it is ready. `BootStatus`
adds the messages to the steps of `Wifi` and follows `app_main` (`phase`, `rebootIn`). The
posts of one handler call are one step. `wifi_params` is a local variable of `app_main` that
the event handler keeps: after `app_main` has returned, what the handler reads there is
undefined, so that its message
arrives, is lost, or the device restarts (`HandlerPost`, `HandlerPanics`).

## 3. Runs

Passing runs, with the bounds that make the interesting cases happen:

| Run | Shows | Bounds |
|---|---|---|
| `conn_data` | order and completeness of the uplink, session and state in step; every message is sent in the end | two PTY messages, two broken sessions: one can break a send and the next one the resync of the same message; a reset in between |
| `conn_ctl` | no orphaned request, no request across sessions, refinement of `ConnLifecycle`; requests are answered, shutdown completes | two resets: one pending while the other is queued or refused; a status request; one broken session; a device message, solicited or not |
| `settings` | no change of the terminal is missed or overwritten; data does not overtake its settings; the device ends up with the terminal's settings | two `tcsetattr` calls, each with or without EXTPROC, so that one falls between the system calls that answer the other; three settings, of which two differ for the device; a chunk of data, a flush, one broken session or restart |
| `daemon_table` | unique names; a client waits exactly as long as its command is queued or in the main loop's hands; commands are answered, dead connections leave the list | three tasks, two names, four commands: add, remove and add again with late events; room in the channel for every event |
| `sessions` | decoding inverts encoding in pieces, errors only from cut streams, the CLI shows the daemon's answer and is never stranded | base 10; names at, below and above the longest; lists of zero, one and two connections; two messages of the daemon, one input that fills more than a message; death of either end at any byte, or at the header and body of a device message |
| `fw_uplink` | bytes reach the socket in order and once, and only failed sends and overflows lose any; wakeups, no stranded bytes; without control requests the tasks make progress, and the second client is served once the first has left | three bytes, a driver buffer of two, a body and an event queue of one, so that bursts are split, driver events dropped and the buffer overflows; two messages down into a queue of one, so that `tcp_task` waits for it; two clients, the first of which may cut a drain short |
| `fw_downlink` | one response per control request, after its pulse | all kinds of messages, three of them, two clients, queues of one, one socket: accept fails once the first client's socket is left open; an event of another type |
| `boot` | the count of passes through the networks, the restart after a failed boot; every light lasts as long as it should, has a timer, and a failure is shown before its restart | two networks, two retries, one lost connection, one restart, Tailscale on; a queue of two and two messages of the serving tasks, so that a message can be dropped; ticks of two milliseconds and durations of one to five ticks in the code's order, with one of a tick and a half; the task held up for a tick |

`daemon_table` has one client at a time: its safety properties are proved for any number of
clients (section 5), and a second client adds nothing to liveness but commands that wait in the
channel. `fw_uplink` has bodies of one byte; `BytesInOrder` is proved for all sizes. The runs of the firmware, `boot`, `settings` and `sessions` switch the deadlock check off:
when the bounds of the environment are used up, the tasks rightly wait for input. The others
keep it on; in `daemon_table` this shows that the main loop and the tasks never wait on
each other as long as the event channel has room.

Violations, each a disagreement between the code and a line of the repository (the
`findings` of `PROJECT.json` quote both):

| Run | What happens |
|---|---|
| `daemon_stale_close` | `remove x`, `add x`, and the old task's closed event takes the new connection away |
| `fw_standstill` | both queues full: `tcp_task` and `uart_tx_task` wait for each other |
| `fw_cut_drain` | a failed send leaves messages in the queue with no wakeup due |
| `wifi_no_reboot` | after boot nobody acts on `FAILED_BIT` |

The type invariants of `ConnectionTask` and `Daemon`, and `NoLostWakeup` with control requests are left to the proofs (section 5).

The models contain further behaviours of the code that no run is about:

- Connection: an application that does not read stops `write_all` inside its handler and
  with it `get_status` and shutdown; `StatusAnswered` and `ShutdownCompletes` therefore
  rest on `AppFairness`. A `Config` the socket accepted is not sent again when the
  session breaks before the device read it, nor after a restart of the device, and the
  settings a PTY starts with are never sent: `SettingsConverge` says from when on the device
  follows (`ConfigStands`), although the application may be using the PTY "as if it
  were a directly connected `/dev/ttyUSB0`" (README.md:3).
- Daemon: a device that keeps its session and never answers a reset stops the main loop
  (`Answers`); with an event channel smaller than the number of events under way, the
  main loop in `list` and a task in its last send wait for each other (TLC finds this with
  `EventCap = 2`, two clients and four commands; it is 128 in the code); a SIGINT that arrives while another arm runs is gone (`OtherArm`); an error text
  that does not fit its length byte ends the stream without a response (`ReplyPanics`).
- Firmware: the sockets of departed clients stay open until accept fails (`ReadMsgFailed`,
  `SelectFailed`, `AcceptFailed`), so that `NextServed` asks for a socket to be left; a message
  whose send fails is lost (`dropped`); `uart_rx_task` waits on a full queue (`RxPush`); when events of other
  types fill the driver's event queue, a byte that arrives waits in the driver until the
  next one (`blind`, excluded from `NoStrandedBytes`; `fw_uplink` has no other events, so
  `UplinkFlowsUncut` does not meet this case); new line settings overtake bytes still in the
  transmit buffer (`apply_config`).
- Boot: after a drop the walk through the networks goes on behind the one that worked
  (wifi.c:84-88), so that the first retry is counted although the networks before it were not
  tried again. README.md:212 says "it cycles through all networks before incrementing the
  retry counter"; that is so only for a walk that starts at the first network. With three
  networks, an address from the second and a drop, the counter is 1 after the failure of the
  third alone. `CyclesBeforeRetry` says exactly how far the counter may be ahead: by the one
  shortened pass, for the networks before `from`.
  A duration that is no multiple of the tick (`CONFIG_ESP_UART_RESET_DURATION_MS` may be 1 to
  5000) leaves a rest shorter than a tick, for which the task polls (status.c:119); a
  light may then stay on longer, by as many ticks as fall outside its wait, and no bound on
  that follows from the code. `ShownInFull` says it never goes out early. A failure announced
  while the LED's queue is full is not shown (`unheard`).
  UART activity lights the LED for 10 ms, where README.md:90-91
  says 50 ms.

## 4. Fairness

- Arms of a `select!` (`ConnectionTask`): strong fairness each, because Tokio polls the
  arms in random order; awaits inside a handler: weak fairness. The device reads
  (`DeviceRead`), is reachable in the end (`SF` of `ConnectOk`), and the application
  reads (`AppRead`).
- `Bridge`: the same for the arms that carry settings; a `read` that has begun runs to its
  end, as it contains no `.await`. The application is not obliged to do anything.
- `Daemon`: weak fairness of the loop and of the tasks that were told to stop (what
  `ShutdownCompletes` establishes), strong fairness of the sends into the channel, which
  grants room in the order it was asked for. That devices answer is an assumption of its
  own. Nobody is obliged to type a command.
- `Firmware`: FreeRTOS runs a task whose blocking call can return; the client reads and
  the UART transmits. A client is not obliged to send, to close or to stay, and `select` is not
  obliged to fail.
- `Wifi`, `BootStatus`: an attempt ends (in a failure or an address), the tasks run, and time
  passes. An established connection is not obliged to drop. The handler has no timeout for an association without an
  address. The memory fault of `HandlerPanics` is not obliged to happen.
- `Sessions` states no fairness: that nobody is left waiting is an invariant about the states
  in which no byte is under way (`ToolNotStranded`, `AllArrive`).

## 5. Proofs

All theorems hold for every value of the constants under the named assumptions of the
modules, which TLC evaluates on every run. They give types and say that

- there is a name, and capacities, sizes and the maximum of retries are positive (with a
  maximum of 0, which the configuration menu does not exclude, the handler would retry for
  ever);
- the messages a session starts from are messages: each field has a value of its type
  (`CtlAssumption`, `DeviceAssumption`), as the Rust types guarantee, and a byte has at least ten
  values (`WireAssumption`);
- the lights of the start-up are whole ticks long, and the delay before a restart is at least a
  tick longer (`RestartAssumption`; 250 and 3000 ms against 5000 in the code, with ticks of 10
  or 1 ms). The other durations, the configured one of a reset among them, are arbitrary.

Every safety property of a passing run is the statement of a theorem.

`ConnectionTaskProofs`:

- `TypeCorrect`, `SessionAlways`, `NothingDroppedAlways` come from one inductive
  invariant, `DataInv`. `NothingDropped` alone is not inductive: that a failed send can
  put its message in `pending` without overwriting one needs `Control` (`Connected`
  holds no pending message, a handler is suspended in `send` only in `Connected`).
- `NoOrphanAlways` and `PendingAlways` come from `RequestInv`, which adds that no
  request is owed an answer in two places (`OwedOnce`): otherwise answering one place
  would leave the other owing to a caller that has its answer.
- `ImplementsLifecycle`: under `RequestInv` each step is a step of `ConnLifecycle` or a
  stutter of it. The steps into `ShuttingDown` map to `Close`, the end to `Exit`.

`BridgeProofs`:

- `EqualMeansSameSettings`: whatever `check_termios_change` takes for equal is the same to
  the device.
- `PtyInvariant`: `PtyInv` is inductive for `AsyncPty` alone. `NoMissedChange` by itself is
  not: while EXTPROC is off the kernel is silent, so the invariant says where in `read`
  that can be, and that what `set_extproc` writes back is announced.
- `ConnectionUsesPty`: every step of `Bridge` is a step of `AsyncPty` or leaves the PTY
  alone. `PtyTypeCorrect`, `NoChangeMissed` and `SettingsKept` follow for the connection.
- `DataMeetsItsSettingsAlways`, from `DataInv`, `PtyInv` and `BridgeInv` together. A chunk and the
  settings it was written under pass four places: the kernel's buffers, `ptyIn`, the hands
  of the connection task (`InFlight`, also across a reconnect) and the socket. `BridgeInv` speaks
  of the last three as one sequence, `Path`: its last `Config` is the newest report; a chunk
  written after the last `tcsetattr` was read when everything had been reported, so that
  no `Config` follows it; and a device with no `Config` on the way has the newest, unless that
  was undone. Each step moves messages along `Path` or drops a part of it, and the one that drops
  a `Config` sets `forgotten`. That the pieces are in this order needs `DataInv` (where the
  task's message is) and that the newest report is the terminal's setting needs `PtyInv`.

`DaemonProofs`: `DaemonTypeCorrect`, `UniqueNamesAlways` and `DeadAnnouncedAlways` come from `TableInv`. None is inductive alone: that a removal
announces or stops the right task needs unique names (`RemoveEffect`: exactly the
connection of that name leaves the table); that a new name does not touch a listed task
needs that listed tasks were spawned; that `list` and `reset` hold a valid index needs
that the table changes only at the top of the loop. `AnsweredOnceAlways` is the safety half of
`CommandsAnswered`, for any number of clients: it comes from `ReplyInv`, which adds that the
main loop takes a command only with empty hands and that a client sends it with a fresh oneshot.

`SessionsProofs`, in three layers:

- `RequestRead`, `ResponseRead`, `DeviceRead` and `FirmwareRead`: a decoder, applied to any buffer that
  shows the code of a message (a part of it, or all of it and whatever follows), asks for
  more bytes until all of it is there, and then returns the message and the rest. They rest on
  `Number` and `BigEndian` being inverse, one lemma per kind of field, and the cursor's walk over
  a list of fields, which for a list of connections is as long as the list.
- `SessionInv`. `StreamsIntact` alone is not inductive: what is decoded next depends on the bytes
  under way. `Line` says what they are: the bytes in the buffer and on the wire of a
  direction are the codes of the messages written and not yet decoded, followed by part of
  one more only if the stream was cut. `Lane` adds when a direction is open, cut or broken, and
  `Good` is both directions together. For the control protocol `Ends`, `Talk` and `Shown` add who
  holds the request and the response, and why the tool stopped.
- `SessionTypeCorrect`, `StreamsIntactAlways`, `BrokenOnlyIfCutAlways`, `ToolShowsVerdictAlways`,
  `ToolNotStrandedAlways` and `AllArriveAlways` follow from `SessionInv` (with `Apart`: in a device
  session the tool does nothing) and the decoders' theorems.

`FirmwareProofs`:

- `NoLostWakeupAlways`, from `WakeupInv`, which extends the claim to every place of
  `tcp_task` outside the drain.
- `FirmwareTypeCorrect`, from `TypeInv`: `TypeOK` needs what each task holds where
  (`Held`), because the answer in hand is completed when the pulse ends.
- `NoStrandedAlways`: a read that empties the ring is followed by no wait with bytes left.
- `BytesInOrderAlways`: `Flow` is the bytes sent, in `tcp_task`'s hand, in the queue, in
  `uart_rx_task`'s hand and in the driver, in a row. Given the types, `BytesInOrder` is inductive:
  a step moves bytes between neighbouring places of `Flow`, which leaves it as it is
  (`SameFlow`), appends the byte that arrives (`AccountsAppend`), or takes a part out of its
  middle when a send fails (`AccountsDrop`); an overflow is accounted for by `AccountsOverrun`.
- `ResetAnsweredAlways`, from `AnswerInv` and `PipeInv`. That no request is answered twice needs
  that the identities of the messages on their way to `uart_tx_task` ascend and are above
  all that were taken.

`WifiProofs`: `CyclesAlways` and `NoSilentGiveUpAlways` from `WifiInv`, which adds that
the counter is below its maximum while the station is busy.

`BootStatusProofs`, all from `BootInv`:

- `ShownInFullAlways`, from `OwedInv`: what is owed to a colour, together with the time waited and
  not yet subtracted, is at most its countdown. Ticks that are not counted only widen the gap.
- `BootTypeCorrect` and `LitHasTimerAlways`: the countdowns share one elapsed time, which
  `update_delays` subtracts only as far as zero, turning off a light whose time is over.
- `BootCyclesAlways` and `BootNoSilentGiveUp`: the two invariants of `Wifi` under the steps of
  `BootStatus`, restarts and faults of the handler included.
- `ShownBeforeRestartAlways`: no tick passes before the LED has taken a failure from its
  queue (`HeardInv`), only messages with short lights are posted before that (`EarlyInv`), and
  the timers that run then end before the restart is due (`TimerInv`, in ticks left and
  ticks waited).

`SeqLemmas` holds what the data needs. The library's induction theorems take an operator, which
the provers cannot instantiate, so induction is stated over the set of the numbers for which
a claim holds (`SetInduction`, from the least element of a set of numbers), and a recursive
function is shown to exist and to be unique that way before anything is said of its values
(`FlattensExists`, `FlattenSeqIs`; in `SessionsProofs` the same for `Number` and `ReadFields`).

Only model-checked: the liveness properties `MessageSent`, `StatusAnswered`, `HardwareTaken`,
`ShutdownCompletes`, `SettingsConverge`, `CommandsAnswered`, `DeadUnlisted`, `UplinkFlowsUncut`,
`NeverBacksUp`, `NextServed` and `BootRecovers`: the prover does not handle fairness or ENABLED.

## 6. Plan

Done: the modules of section 2 with the runs above and the theorems of section 5. Next:

1. The safety half of the other liveness properties, as `AnsweredOnce` is for `CommandsAnswered`:
   where a thing that must happen is due, and that it stays due until it happens.
2. Shorter proofs where a lemma about the streams or the queues would serve several steps.

## 7. Not modelled

- MicroLink, the Tailscale client: a third-party component; only what `app_main` does with
  its results is modelled.
- Arguments, logging and wording of the CLI and the daemon, and the broadcast channel that
  hands the test server's stdin to several connections.
- Failures of start-up calls (`bind`, NVS, driver installation): they end the program
  before any modelled state exists. The same holds for a refused PTY (`Add` fails as one step).
- The build of `async_pty.rs` for systems other than Linux.
- Brightness and the LED driver, and times in milliseconds other than the LED's and the
  restart's.
- A client that vanishes without closing its connection, or stops within a message: the
  firmware waits without limit and has nothing that would end the wait.
