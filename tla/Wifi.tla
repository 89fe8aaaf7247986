--------------------------------- MODULE Wifi ---------------------------------
(***************************************************************************)
(* The Wi-Fi connection of the firmware (server/main/wifi.c): the event    *)
(* handler that walks through the configured networks, and wifi_init,      *)
(* which app_main calls and which waits for the outcome.                   *)
(*                                                                         *)
(* The handler runs in ESP-IDF's event loop task, wifi_init in the main    *)
(* task; they share the retry counter, the index and the event group.      *)
(***************************************************************************)
EXTENDS Naturals

CONSTANTS
    Networks,       \* s_num_wifi_networks
    MaxRetries,     \* CONFIG_ESP_WIFI_MAX_RETRIES
    MaxRestarts,    \* bound: restarts of the ESP32
    MaxDrops        \* bound: times an established connection drops

ASSUME WifiAssumption ==
    /\ Networks \in Nat \ {0} /\ MaxRetries \in Nat \ {0}
    /\ MaxRestarts \in Nat /\ MaxDrops \in Nat

VARIABLES
    radio,      \* the station: "off", "connecting", "connected", "idle"
    retry,      \* s_retry_count
    idx,        \* s_current_wifi_idx
    bits,       \* the event group: a subset of {CONNECTED_BIT, FAILED_BIT}
    boot,       \* wifi_init: "waiting", "delay" (5 s to the restart), "serving"
    failed,     \* history: how often each network failed or dropped since the last
                \* address was obtained or the ESP32 started
    from,       \* history: the index at that time
    restarts, drops     \* counters of the bounds

vars == <<radio, retry, idx, bits, boot, failed, from, restarts, drops>>

Index == 0..(Networks - 1)

-------------------------------------------------------------------------------
(* event_handler *)

\* esp_wifi_connect is asynchronous: its outcome is a later event.
update_config_and_connect == radio' = "connecting"

StaStart ==
    /\ radio = "off"
    /\ update_config_and_connect
    /\ UNCHANGED <<retry, idx, bits, boot, failed, from, restarts, drops>>

Wrapped == idx + 1 >= Networks

NextIndex == IF Wrapped THEN 0 ELSE idx + 1

\* Mutant: the handler returns without a bit.
GiveUp_silent == radio' = "idle" /\ bits' = bits

\* FAILED_BIT is set and no further attempt is made.
GiveUp == radio' = "idle" /\ bits' = bits \cup {"FAILED_BIT"}

\* Mutant: every failure counts as a cycle.
StaDisconnected_every ==
    /\ idx' = NextIndex
    /\ retry' = retry + 1
    /\ IF retry + 1 = MaxRetries
       THEN GiveUp
       ELSE update_config_and_connect /\ bits' = bits

\* The station event of a failed attempt or a dropped connection.
StaDisconnected ==
    /\ idx' = NextIndex
    /\ retry' = IF Wrapped THEN retry + 1 ELSE retry
    /\ IF Wrapped /\ retry + 1 = MaxRetries
       THEN GiveUp
       ELSE update_config_and_connect /\ bits' = bits

\* An attempt fails.
AttemptFails ==
    /\ radio = "connecting"
    /\ StaDisconnected
    /\ failed' = [failed EXCEPT ![idx] = @ + 1]
    /\ UNCHANGED <<boot, from, restarts, drops>>

\* An established connection drops.
Drop ==
    /\ radio = "connected" /\ drops < MaxDrops
    /\ StaDisconnected
    /\ drops' = drops + 1
    /\ failed' = [failed EXCEPT ![idx] = @ + 1]
    /\ UNCHANGED <<boot, from, restarts>>

\* The index stays at the network that worked.
GotIp ==
    /\ radio = "connecting"
    /\ radio' = "connected" /\ retry' = 0 /\ bits' = bits \cup {"CONNECTED_BIT"}
    /\ failed' = [i \in Index |-> 0] /\ from' = idx
    /\ UNCHANGED <<idx, boot, restarts, drops>>

-------------------------------------------------------------------------------
(* wifi_init and app_main *)

\* xEventGroupWaitBits returns; CONNECTED_BIT is looked at first.
Connected ==
    /\ boot = "waiting" /\ "CONNECTED_BIT" \in bits
    /\ boot' = "serving"
    /\ UNCHANGED <<radio, retry, idx, bits, failed, from, restarts, drops>>

Failed ==
    /\ boot = "waiting" /\ bits = {"FAILED_BIT"}
    /\ boot' = "delay"
    /\ UNCHANGED <<radio, retry, idx, bits, failed, from, restarts, drops>>

\* The ESP32 starts from the beginning.
esp_restart ==
    /\ restarts < MaxRestarts
    /\ restarts' = restarts + 1
    /\ radio' = "off" /\ retry' = 0 /\ idx' = 0 /\ bits' = {} /\ boot' = "waiting"
    /\ failed' = [i \in Index |-> 0] /\ from' = 0

\* The delay is over.
Restart ==
    /\ boot = "delay"
    /\ esp_restart
    /\ UNCHANGED drops

-------------------------------------------------------------------------------
(* The specification *)

Init ==
    /\ radio = "off" /\ retry = 0 /\ idx = 0 /\ bits = {} /\ boot = "waiting"
    /\ failed = [i \in Index |-> 0] /\ from = 0 /\ restarts = 0 /\ drops = 0

event_handler == StaStart \/ AttemptFails \/ Drop \/ GotIp
wifi_init == Connected \/ Failed \/ Restart

Next == event_handler \/ wifi_init

Spec == Init /\ [][Next]_vars

-------------------------------------------------------------------------------
(* Properties *)

TypeOK ==
    /\ radio \in {"off", "connecting", "connected", "idle"}
    /\ retry \in 0..MaxRetries /\ idx \in Index
    /\ bits \subseteq {"CONNECTED_BIT", "FAILED_BIT"}
    /\ boot \in {"waiting", "delay", "serving"}
    /\ failed \in [Index -> Nat] /\ from \in Index /\ restarts \in Nat /\ drops \in Nat

\* The counter is how often the walk has come to the end of the list since the
\* start or the last address: every network has failed that many times, the ones
\* before the index once more, and the ones before the network the walk set out
\* from (the first, or the one that gave the address) once less.
CyclesBeforeRetry ==
    \A i \in Index : failed[i] + (IF i < from THEN 1 ELSE 0) = retry + (IF i < idx THEN 1 ELSE 0)

\* The station gives up only with FAILED_BIT set and the counter at its maximum:
\* otherwise an attempt is under way or a connection up.
NoSilentGiveUp ==
    radio = "idle" => "FAILED_BIT" \in bits /\ retry = MaxRetries

\* What makes these inductive: the counter is below its maximum while the
\* station is busy, and a connection has set its bit.
WifiInv ==
    /\ TypeOK /\ CyclesBeforeRetry /\ NoSilentGiveUp
    /\ radio # "idle" => retry < MaxRetries
    /\ radio = "connected" => "CONNECTED_BIT" \in bits

\* The events of the station and the wake-ups of the main task happen.
FairSpec ==
    /\ Spec
    /\ WF_vars(StaStart) /\ WF_vars(AttemptFails \/ GotIp)
    /\ WF_vars(wifi_init)

\* A boot that finds no network restarts the ESP32 (up to the bound on restarts).
BootRecovers ==
    (boot = "waiting" /\ radio = "idle") ~> radio # "idle" \/ restarts = MaxRestarts
                                            \/ "CONNECTED_BIT" \in bits

\* "Once the retry counter reaches the configured maximum, the ESP32 logs the
\* failure and reboots after a short delay" (README).
ReachingMaximumReboots == retry = MaxRetries ~> restarts = MaxRestarts \/ retry # MaxRetries

===============================================================================
