------------------------------ MODULE BootStatus ------------------------------
(***************************************************************************)
(* The start of the firmware with the status LED: app_main                 *)
(* (server/main/main.c), the Wi-Fi event handler and wifi_init (Wifi), the *)
(* optional Tailscale link, and the LED's task (StatusLed) to which each   *)
(* of them posts, as do the tasks that serve the client later.             *)
(*                                                                         *)
(* Wifi by itself is the build without a LED; here its steps also post.    *)
(***************************************************************************)
EXTENDS Wifi, StatusLed

CONSTANTS
    Tailscale,      \* CONFIG_ESP_TAILSCALE_ENABLED
    RebootMs,       \* time from a failure to the restart (5000)
    MaxPosts        \* bound: messages of the TCP and UART tasks

ASSUME BootAssumption ==
    /\ Tailscale \in BOOLEAN /\ RebootMs \in Nat /\ MaxPosts \in Nat

\* The lights of the start-up are whole ticks long, and the restart waits at least
\* a tick longer (250 and 3000 ms against 5000, with ticks of 10 ms or of 1 ms).
ASSUME RestartAssumption ==
    \A n \in {FlashMs, SolidMs} :
        /\ \E k \in 1..n : n = k * TickMs
        /\ n + TickMs <= (RebootMs \div TickMs) * TickMs

VARIABLES
    phase,          \* app_main: "wifi_init", "vpn", "vpn_failed", "returned"
    rebootIn,       \* ticks of vTaskDelay left before esp_restart
    unheard,        \* history: the LED's queue had no room for the failure
    posts           \* number of messages of the TCP and UART tasks

bootVars == <<vars, ledVars, phase, rebootIn, unheard, posts>>

-------------------------------------------------------------------------------
(* Posting *)

Post(ms) == statusQ' = Posted(statusQ, ms) /\ UNCHANGED <<delay, lit, waited, owed>>

\* The failure that ends in a restart: announced, then the task sleeps.
AnnounceFailure(m) ==
    /\ Post(<<m>>)
    /\ unheard' = (Len(statusQ) >= QueueCap)
    /\ rebootIn' = RebootMs \div TickMs

\* WifiParams is a local of app_main: once that has returned, the handler posts
\* through memory that may hold something else.  The message arrives or is lost.
HandlerPost(ms) ==
    \/ Post(ms)
    \/ phase = "returned" /\ UNCHANGED ledVars

-------------------------------------------------------------------------------
(* event_handler *)

\* What the handler posts for a station event that ends in r.
AfterDisconnect(r) ==
    <<"WIFI_CONNECTION_FAILED">> \o IF r = "idle" THEN <<>> ELSE <<"WIFI_CONNECTING">>

Start == StaStart /\ HandlerPost(<<"WIFI_CONNECTING">>)
         /\ UNCHANGED <<phase, rebootIn, unheard, posts>>
Refused == AttemptFails /\ HandlerPost(AfterDisconnect(radio'))
           /\ UNCHANGED <<phase, rebootIn, unheard, posts>>
Dropped == Drop /\ HandlerPost(AfterDisconnect(radio'))
           /\ UNCHANGED <<phase, rebootIn, unheard, posts>>
Address == GotIp /\ UNCHANGED <<ledVars, phase, rebootIn, unheard, posts>>

-------------------------------------------------------------------------------
(* app_main *)

\* wifi_init returns; with Tailscale the next message follows at once.
WifiUp ==
    /\ Connected
    /\ Post(<<"WIFI_CONNECTED">> \o IF Tailscale THEN <<"TAILSCALE_CONNECTING">> ELSE <<>>)
    /\ phase' = IF Tailscale THEN "vpn" ELSE "returned"
    /\ UNCHANGED <<rebootIn, unheard, posts>>

\* Mutant: the delay before the restart is given in ticks for milliseconds.
WifiFailed_early ==
    /\ Failed
    /\ Post(<<"WIFI_RETRIES_FAILED">>)
    /\ unheard' = (Len(statusQ) >= QueueCap)
    /\ rebootIn' = RebootMs \div (TickMs * TickMs)
    /\ UNCHANGED <<phase, posts>>

WifiFailed ==
    /\ Failed
    /\ AnnounceFailure("WIFI_RETRIES_FAILED")
    /\ UNCHANGED <<phase, posts>>

\* The link comes up within its time and the tasks are started.
VpnUp ==
    /\ phase = "vpn"
    /\ Post(<<"TAILSCALE_CONNECTED">>)
    /\ phase' = "returned"
    /\ UNCHANGED <<vars, rebootIn, unheard, posts>>

\* microlink_init fails, or the link is not up after its 60 seconds.
VpnFailed ==
    /\ phase = "vpn"
    /\ AnnounceFailure("TAILSCALE_FAILED")
    /\ phase' = "vpn_failed"
    /\ UNCHANGED <<vars, posts>>

Restarting ==
    /\ rebootIn = 0
    /\ (boot = "delay" /\ Restart) \/ (phase = "vpn_failed" /\ esp_restart /\ UNCHANGED drops)
    /\ phase' = "wifi_init" /\ unheard' = FALSE
    /\ LedReset
    /\ UNCHANGED <<rebootIn, posts>>

\* The other outcome of the handler's access to the memory app_main has left.
HandlerPanics ==
    /\ phase = "returned" /\ radio \in {"connecting", "connected"}
    /\ esp_restart /\ UNCHANGED drops
    /\ phase' = "wifi_init" /\ unheard' = FALSE
    /\ LedReset
    /\ UNCHANGED <<rebootIn, posts>>

-------------------------------------------------------------------------------
(* The other tasks, the LED and time *)

Serving == {"TCP_CLIENT_CONNECTED", "TCP_CLIENT_DISCONNECTED", "UART_SEND", "UART_RECV",
            "REMOTE_RESET"}

TaskPost ==
    /\ phase = "returned" /\ posts < MaxPosts
    /\ \E m \in Serving : Post(<<m>>)
    /\ posts' = posts + 1
    /\ UNCHANGED <<vars, phase, rebootIn, unheard>>

Led == status_led_task /\ UNCHANGED <<vars, phase, rebootIn, unheard, posts>>

\* The tasks that serve a client have higher priorities than the LED's.
Tick ==
    /\ LedTick(phase = "returned")
    /\ rebootIn' = IF rebootIn > 0 THEN rebootIn - 1 ELSE 0
    /\ UNCHANGED <<vars, phase, unheard, posts>>

-------------------------------------------------------------------------------
(* The specification *)

BootInit ==
    /\ Init /\ LedInit
    /\ phase = "wifi_init" /\ rebootIn = 0 /\ unheard = FALSE /\ posts = 0

app_main == WifiUp \/ WifiFailed \/ VpnUp \/ VpnFailed \/ Restarting

BootNext == Start \/ Refused \/ Dropped \/ Address \/ app_main \/ HandlerPanics \/ TaskPost
            \/ Led \/ Tick

BootSpec == BootInit /\ [][BootNext]_bootVars

\* The station answers every attempt, the tasks run, and time passes.  Nothing
\* obliges an established connection to drop.
BootFairSpec ==
    /\ BootSpec
    /\ WF_bootVars(Start) /\ WF_bootVars(Refused \/ Address) /\ WF_bootVars(app_main)
    /\ WF_bootVars(Led) /\ WF_bootVars(Tick)

-------------------------------------------------------------------------------
(* Properties *)

BootTypeOK ==
    /\ TypeOK /\ LedTypeOK
    /\ phase \in {"wifi_init", "vpn", "vpn_failed", "returned"}
    /\ rebootIn \in Nat /\ unheard \in BOOLEAN /\ posts \in Nat

\* A restart after a failure comes only when the LED has taken the announcement
\* from its queue, and after the last network failed only when it has shown it
\* to its end ("Solid for 3 seconds, then reboot"), unless the queue was full
\* when the failure was announced.  (A station event after a failure of Tailscale
\* may cut the light short.)
ShownBeforeRestart ==
    [][Restarting => \/ unheard
                     \/ /\ \A i \in 1..Len(statusQ) :
                               statusQ[i] \notin {"WIFI_RETRIES_FAILED", "TAILSCALE_FAILED"}
                        /\ boot = "delay" => lit = {}]_bootVars

===============================================================================
