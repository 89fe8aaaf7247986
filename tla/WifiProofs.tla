------------------------------ MODULE WifiProofs ------------------------------
(***************************************************************************)
(* That the retry counter of wifi.c counts how often the walk through the  *)
(* networks came to its end, and that the station never gives up           *)
(* unnoticed, for every number of networks and every maximum of retries.   *)
(***************************************************************************)
EXTENDS Wifi, TLAPS

\* StaDisconnected, whichever event reports it, preserves the type invariant
\* of the handler's variables.
LEMMA StaDisconnectedType ==
    ASSUME WifiInv, radio \in {"connecting", "connected"}, StaDisconnected
    PROVE  /\ radio' \in {"connecting", "idle"}
           /\ retry' \in 0..MaxRetries /\ idx' \in Index
           /\ bits' \subseteq {"CONNECTED_BIT", "FAILED_BIT"}
           /\ bits \subseteq bits' /\ ("CONNECTED_BIT" \in bits' => "CONNECTED_BIT" \in bits)
           /\ radio' = "idle" => "FAILED_BIT" \in bits' /\ retry' = MaxRetries
           /\ radio' # "idle" => retry' < MaxRetries
  <1>1. Networks \in Nat \ {0} /\ MaxRetries \in Nat \ {0}
    BY WifiAssumption
  <1>2. /\ retry \in 0..MaxRetries /\ idx \in Index /\ retry < MaxRetries
        /\ bits \subseteq {"CONNECTED_BIT", "FAILED_BIT"}
    BY DEF WifiInv, TypeOK
  <1>3. idx' \in Index
    BY <1>1, <1>2 DEF StaDisconnected, NextIndex, Wrapped, Index
  <1>4. CASE Wrapped /\ retry + 1 = MaxRetries
    <2>1. radio' = "idle" /\ bits' = bits \cup {"FAILED_BIT"} /\ retry' = MaxRetries
      BY <1>1, <1>2, <1>4 DEF StaDisconnected, GiveUp
    <2>2. /\ bits' \subseteq {"CONNECTED_BIT", "FAILED_BIT"} /\ bits \subseteq bits'
          /\ "CONNECTED_BIT" \in bits' => "CONNECTED_BIT" \in bits
          /\ "FAILED_BIT" \in bits'
      BY <1>2, <2>1
    <2>3. retry' \in 0..MaxRetries
      BY <1>1, <2>1
    <2> QED
      BY <1>3, <2>1, <2>2, <2>3
  <1>5. CASE ~(Wrapped /\ retry + 1 = MaxRetries)
    <2>1. radio' = "connecting" /\ bits' = bits
      BY <1>5 DEF StaDisconnected, update_config_and_connect
    <2>2. retry' \in 0..MaxRetries /\ retry' < MaxRetries
      BY <1>1, <1>2, <1>5 DEF StaDisconnected
    <2> QED
      BY <1>2, <1>3, <2>1, <2>2
  <1> QED
    BY <1>4, <1>5

\* One more failure at the index moves the index on, or brings the walk to the
\* end of the list, which the counter then counts.
LEMMA CycleStep ==
    ASSUME WifiInv, StaDisconnected, failed' = [failed EXCEPT ![idx] = @ + 1], from' = from
    PROVE  CyclesBeforeRetry'
  <1>1. Networks \in Nat \ {0}
    BY WifiAssumption
  <1>2. /\ retry \in Nat /\ idx \in Index /\ from \in Index /\ failed \in [Index -> Nat]
        /\ \A i \in Index :
               failed[i] + (IF i < from THEN 1 ELSE 0) = retry + (IF i < idx THEN 1 ELSE 0)
    BY WifiAssumption DEF WifiInv, TypeOK, CyclesBeforeRetry
  <1>3. SUFFICES ASSUME NEW i \in Index
                 PROVE  failed'[i] + (IF i < from' THEN 1 ELSE 0)
                            = retry' + (IF i < idx' THEN 1 ELSE 0)
    BY DEF CyclesBeforeRetry
  <1>4. failed'[i] = IF i = idx THEN failed[i] + 1 ELSE failed[i]
    BY <1>2
  <1>5. CASE Wrapped
    BY <1>1, <1>2, <1>4, <1>5 DEF StaDisconnected, NextIndex, Wrapped, Index
  <1>6. CASE ~Wrapped
    BY <1>1, <1>2, <1>4, <1>6 DEF StaDisconnected, NextIndex, Wrapped, Index
  <1> QED
    BY <1>5, <1>6

\* Every event of the station and every step of wifi_init preserves WifiInv.
LEMMA WifiNext == WifiInv /\ [Next]_vars => WifiInv'
  <1> SUFFICES ASSUME WifiInv, [Next]_vars
               PROVE  WifiInv'
    OBVIOUS
  <1> USE WifiAssumption
  <1>1. CASE StaStart
    BY <1>1 DEF StaStart, update_config_and_connect, WifiInv, TypeOK, CyclesBeforeRetry,
                NoSilentGiveUp
  <1>2. CASE AttemptFails
    <2>1. radio = "connecting" /\ StaDisconnected
          /\ failed' = [failed EXCEPT ![idx] = @ + 1] /\ UNCHANGED <<boot, from, restarts, drops>>
      BY <1>2 DEF AttemptFails
    <2>2. TypeOK'
      BY <2>1, StaDisconnectedType DEF WifiInv, TypeOK
    <2>3. CyclesBeforeRetry'
      BY <2>1, CycleStep
    <2> QED
      BY <2>1, <2>2, <2>3, StaDisconnectedType DEF WifiInv, NoSilentGiveUp
  <1>3. CASE Drop
    <2>1. radio = "connected" /\ StaDisconnected /\ "CONNECTED_BIT" \in bits
          /\ failed' = [failed EXCEPT ![idx] = @ + 1] /\ UNCHANGED <<boot, from, restarts>>
          /\ drops' = drops + 1
      BY <1>3 DEF Drop, WifiInv
    <2>2. TypeOK'
      BY <2>1, StaDisconnectedType DEF WifiInv, TypeOK
    <2>3. CyclesBeforeRetry'
      BY <2>1, CycleStep
    <2> QED
      BY <2>1, <2>2, <2>3, StaDisconnectedType DEF WifiInv, NoSilentGiveUp
  <1>4. CASE GotIp
    BY <1>4 DEF GotIp, WifiInv, TypeOK, CyclesBeforeRetry, NoSilentGiveUp
  <1>5. CASE Connected
    BY <1>5 DEF Connected, WifiInv, TypeOK, CyclesBeforeRetry, NoSilentGiveUp
  <1>6. CASE Failed
    BY <1>6 DEF Failed, WifiInv, TypeOK, CyclesBeforeRetry, NoSilentGiveUp
  <1>7. CASE Restart
    BY <1>7 DEF Restart, esp_restart, WifiInv, TypeOK, CyclesBeforeRetry, NoSilentGiveUp, Index
  <1>8. CASE UNCHANGED vars
    BY <1>8 DEF vars, WifiInv, TypeOK, CyclesBeforeRetry, NoSilentGiveUp
  <1> QED
    BY <1>1, <1>2, <1>3, <1>4, <1>5, <1>6, <1>7, <1>8 DEF Next, event_handler, wifi_init

\* At power-on nothing has been tried and nothing counted.
LEMMA WifiInit == Init => WifiInv
  BY WifiAssumption DEF Init, WifiInv, TypeOK, CyclesBeforeRetry, NoSilentGiveUp, Index

\* s_retry_count is the number of times event_handler has come to the end of the
\* list of networks since the start or the last address, counted from the network
\* it set out from.
THEOREM CyclesAlways == Spec => []CyclesBeforeRetry
  <1>1. WifiInv => CyclesBeforeRetry
    BY DEF WifiInv
  <1> QED
    BY <1>1, WifiInit, WifiNext, PTL DEF Spec

\* The station is idle only after FAILED_BIT was set with the counter at its
\* maximum.
THEOREM NoSilentGiveUpAlways == Spec => []NoSilentGiveUp
  <1>1. WifiInv => NoSilentGiveUp
    BY DEF WifiInv
  <1> QED
    BY <1>1, WifiInit, WifiNext, PTL DEF Spec

===============================================================================
