------------------------------- MODULE StatusLed -------------------------------
(***************************************************************************)
(* The status LED of the firmware (server/main/status.c): a task that      *)
(* takes messages from a queue nobody waits for and shows each as a colour *)
(* for some time.                                                          *)
(*                                                                         *)
(* Time passes in ticks.  The task computes in milliseconds, and learns of *)
(* time only from the ticks between its two looks at the tick counter,     *)
(* before and after its wait.                                              *)
(***************************************************************************)
EXTENDS Naturals, Sequences, FiniteSetsExt

CONSTANTS
    QueueCap,       \* depth of status_update_queue (2 in the code)
    TickMs,         \* milliseconds per FreeRTOS tick
    BriefMs,        \* UART activity (10)
    FlashMs,        \* Wi-Fi events (250)
    ClientMs,       \* TCP clients and Tailscale's start (500)
    ResetMs,        \* CONFIG_ESP_UART_RESET_DURATION_MS
    LongMs,         \* Tailscale connected (1500)
    SolidMs,        \* failures that end in a restart (3000)
    MaxHeld         \* bound: ticks by which tasks of higher priority hold it up

ASSUME StatusAssumption ==
    \A n \in {QueueCap, TickMs, BriefMs, FlashMs, ClientMs, ResetMs, LongMs, SolidMs, MaxHeld} :
        n \in Nat \ {0}

VARIABLES
    statusQ,        \* status_update_queue
    delay,          \* s_red_delay_ms, s_green_delay_ms, s_blue_delay_ms
    lit,            \* the colours whose value is 255, as last shown
    waited,         \* ticks since start_wait was read
    owed            \* history: milliseconds each colour is still to be shown,
                    \* by the ticks that have really passed

ledVars == <<statusQ, delay, lit, waited, owed>>

-------------------------------------------------------------------------------
(* Messages *)

Colors == {"red", "green", "blue"}

\* The colours a message lights, and for how long.
Lights == [WIFI_CONNECTING |-> {"red", "green"}, WIFI_CONNECTED |-> {"green"},
           WIFI_CONNECTION_FAILED |-> {"red"}, WIFI_RETRIES_FAILED |-> {"red"},
           TCP_CLIENT_CONNECTED |-> {"blue"}, TCP_CLIENT_DISCONNECTED |-> {"blue"},
           UART_SEND |-> {"red"}, UART_RECV |-> {"green"}, REMOTE_RESET |-> {"red", "blue"},
           TAILSCALE_CONNECTING |-> {"green", "blue"},
           TAILSCALE_CONNECTED |-> {"green", "blue"}, TAILSCALE_FAILED |-> {"red", "blue"}]

LightMs == [WIFI_CONNECTING |-> FlashMs, WIFI_CONNECTED |-> FlashMs,
            WIFI_CONNECTION_FAILED |-> FlashMs, WIFI_RETRIES_FAILED |-> SolidMs,
            TCP_CLIENT_CONNECTED |-> ClientMs, TCP_CLIENT_DISCONNECTED |-> ClientMs,
            UART_SEND |-> BriefMs, UART_RECV |-> BriefMs, REMOTE_RESET |-> ResetMs,
            TAILSCALE_CONNECTING |-> ClientMs, TAILSCALE_CONNECTED |-> LongMs,
            TAILSCALE_FAILED |-> SolidMs]

Messages == DOMAIN Lights

\* Tailscale's messages also put a colour out; its timer runs on.
PutsOut(m) == CASE m \in {"TAILSCALE_CONNECTING", "TAILSCALE_CONNECTED"} -> {"red"}
                [] m = "TAILSCALE_FAILED" -> {"green"}
                [] OTHER -> {}

\* xQueueSend with no time to wait: what does not fit is dropped.
Posted(q, ms) == SubSeq(q \o ms, 1, Min({QueueCap, Len(q \o ms)}))

-------------------------------------------------------------------------------
(* status_led_task *)

Running(d) == {c \in Colors : d[c] # 0}

\* calculate_queue_wait: whole ticks to the end of the first timer, rounded down;
\* without a timer the task waits for ever.
calculate_queue_wait == Min({delay[c] : c \in Running(delay)}) \div TickMs

\* Mutant: an elapsed time is taken off every timer as it is.
update_delays_plain(ms) == [c \in Colors |-> delay[c] - ms]

update_delays(ms) == [c \in Colors |-> delay[c] - Min({ms, delay[c]})]

ElapsedMs == waited * TickMs

\* What a message asks to be shown from now on.
Asked(m) == [c \in Colors |-> IF c \in Lights[m] THEN LightMs[m]
                              ELSE IF c \in PutsOut(m) THEN 0 ELSE owed[c]]

\* Mutant: the timers are not set.
handle_queue_msg_untimed(m, d) ==
    /\ lit' = ((lit \cap Running(d)) \ PutsOut(m)) \cup Lights[m]
    /\ delay' = d
    /\ owed' = Asked(m)

handle_queue_msg(m, d) ==
    /\ lit' = ((lit \cap Running(d)) \ PutsOut(m)) \cup Lights[m]
    /\ delay' = [c \in Colors |-> IF c \in Lights[m] THEN LightMs[m] ELSE d[c]]
    /\ owed' = Asked(m)

\* Mutant: start_wait is read again only after a time-out.
Receive_stale ==
    /\ statusQ # <<>>
    /\ statusQ' = Tail(statusQ)
    /\ handle_queue_msg(Head(statusQ), update_delays(ElapsedMs))
    /\ waited' = waited

\* xQueueReceive returns a message.
Receive ==
    /\ statusQ # <<>>
    /\ statusQ' = Tail(statusQ)
    /\ handle_queue_msg(Head(statusQ), update_delays(ElapsedMs))
    /\ waited' = 0

\* xQueueReceive returns without one.
TimesOut ==
    /\ statusQ = <<>> /\ Running(delay) # {} /\ waited >= calculate_queue_wait
    /\ delay' = update_delays(ElapsedMs)
    /\ lit' = lit \cap Running(update_delays(ElapsedMs))
    /\ waited' = 0
    /\ UNCHANGED <<statusQ, owed>>

status_led_task == Receive \/ TimesOut

\* The task can run: its wait is over, or there is a message.
Ready == statusQ # <<>> \/ (Running(delay) # {} /\ waited >= calculate_queue_wait)

\* The rest of a timer is shorter than a tick: the wait is none at all, and the
\* task goes round its loop until ticks have passed.
Polling == statusQ = <<>> /\ Running(delay) # {} /\ calculate_queue_wait = 0 /\ waited = 0

\* A tick.  A task that is ready runs before the next one, unless it is held up by
\* tasks of higher priority or goes round its loop.  Then the tick may also fall
\* between end_wait and the next start_wait, and is not counted.  Without a timer
\* what was counted is of no account.
LedTick(held) ==
    /\ held \/ Polling \/ ~Ready
    /\ \/ Running(delay) = {} /\ waited' = waited
       \/ Running(delay) # {} /\ (held \/ Polling) /\ waited = 0 /\ waited' = waited
       \/ Running(delay) # {} /\ waited < calculate_queue_wait + MaxHeld /\ waited' = waited + 1
    /\ owed' = [c \in Colors |-> owed[c] - Min({TickMs, owed[c]})]
    /\ UNCHANGED <<statusQ, delay, lit>>

Dark == [c \in Colors |-> 0]
LedInit == statusQ = <<>> /\ delay = Dark /\ lit = {} /\ waited = 0 /\ owed = Dark
LedReset == statusQ' = <<>> /\ delay' = Dark /\ lit' = {} /\ waited' = 0 /\ owed' = Dark

-------------------------------------------------------------------------------
(* Properties *)

LedTypeOK ==
    /\ statusQ \in Seq(Messages) /\ Len(statusQ) <= QueueCap
    /\ delay \in [Colors -> Nat] /\ lit \subseteq Colors /\ waited \in Nat
    /\ owed \in [Colors -> Nat]

\* A colour is lit only while its timer runs: whatever the order of the messages
\* and of the time-outs, none can stay on with nothing left to put it out.
LitHasTimer == \A c \in lit : delay[c] > 0

\* A light is on for as long as its message asked, counted in the ticks that have
\* really passed, although the three timers share one measurement, every message
\* interrupts it, and a duration need be no multiple of the tick.  Only a message
\* of Tailscale puts a colour out early.
ShownInFull == \A c \in Colors : owed[c] > 0 => c \in lit

===============================================================================
