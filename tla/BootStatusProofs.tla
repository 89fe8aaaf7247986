--------------------------- MODULE BootStatusProofs ---------------------------
(***************************************************************************)
(* Proofs about the start of the firmware with its status LED, for every   *)
(* number of networks and retries, depth of the LED's queue, tick length   *)
(* and duration of the lights, with and without Tailscale.                 *)
(***************************************************************************)
EXTENDS BootStatus, WifiProofs, SequenceTheorems

\* The ticks from a failure to the restart.
RebootTicks == RebootMs \div TickMs

\* What app_main and the event handler post before wifi_init returns.
StationMessages == {"WIFI_CONNECTING", "WIFI_CONNECTION_FAILED", "WIFI_RETRIES_FAILED"}

\* The failures that end in a restart.
Failures == {"WIFI_RETRIES_FAILED", "TAILSCALE_FAILED"}

-------------------------------------------------------------------------------
(* Arithmetic *)

\* The smaller of two numbers.
LEMMA MinOfTwo ==
    ASSUME NEW a \in Nat, NEW b \in Nat
    PROVE  /\ Min({a, b}) \in {a, b} /\ Min({a, b}) <= a /\ Min({a, b}) <= b
           /\ Min({a, b}) \in Nat
<1>1. \E x \in {a, b} : \A y \in {a, b} : x <= y
  <2>1. CASE a <= b
    BY <2>1
  <2>2. CASE b <= a
    BY <2>2
  <2> QED BY <2>1, <2>2
<1>2. Min({a, b}) \in {a, b} /\ \A y \in {a, b} : Min({a, b}) <= y
  BY <1>1 DEF Min
<1> QED BY <1>2

\* Whole ticks fit in the time they were counted from.
LEMMA TicksFit ==
    ASSUME NEW m \in Nat, NEW t \in Nat \ {0}, NEW n \in Nat, n <= m \div t
    PROVE  n * t <= m
<1>1. m \div t \in Nat /\ (m \div t) * t <= m
  OBVIOUS
<1>2. n * t <= (m \div t) * t
  BY <1>1
<1> QED BY <1>1, <1>2

\* A whole number of ticks less some ticks is a whole number of ticks.
LEMMA TicksLess ==
    ASSUME NEW t \in Nat \ {0}, NEW k \in Nat, NEW w \in Nat, w * t <= k * t
    PROVE  \E j \in Nat : k * t - w * t = j * t
<1>1. w <= k
  <2> SUFFICES ASSUME k + 1 <= w PROVE FALSE
    OBVIOUS
  <2>1. (k + 1) * t <= w * t /\ (k + 1) * t = k * t + t /\ k * t \in Nat /\ w * t \in Nat
    OBVIOUS
  <2> QED BY <2>1
<1>2. k - w \in Nat /\ (k - w) * t = k * t - w * t
  BY <1>1
<1> QED BY <1>2

\* A whole number of ticks that is not zero is at least one.
LEMMA AtLeastATick ==
    ASSUME NEW t \in Nat \ {0}, NEW k \in Nat, k * t # 0
    PROVE  (k * t) \div t # 0
<1>1. k # 0 /\ k * t \in Nat
  OBVIOUS
<1>2. k * t >= t
  <2>1. k - 1 \in Nat /\ (k - 1) * t \in Nat /\ (k - 1) * t = k * t - t
    BY <1>1
  <2> QED BY <2>1
<1> DEFINE n == k * t
<1>3. n \in Nat /\ n >= t
  BY <1>1, <1>2
<1> HIDE DEF n
<1>4. n \div t # 0
  BY <1>3
<1> QED BY <1>4 DEF n

\* Among three timers the shortest exists.
LEMMA ShortestTimer ==
    ASSUME delay \in [Colors -> Nat], NEW c \in Running(delay)
    PROVE  /\ Min({delay[d] : d \in Running(delay)}) \in Nat
           /\ Min({delay[d] : d \in Running(delay)}) <= delay[c]
           /\ \E d \in Running(delay) : Min({delay[e] : e \in Running(delay)}) = delay[d]
<1> DEFINE S == {delay[d] : d \in Running(delay)}
<1>1. \E x \in S : \A y \in S : x <= y
  <2>1. c \in Colors /\ delay[c] \in Nat /\ delay["red"] \in Nat /\ delay["green"] \in Nat
        /\ delay["blue"] \in Nat
    BY DEF Running, Colors
  <2> QED BY <2>1 DEF Running, Colors
<1>2. Min(S) \in S /\ \A y \in S : Min(S) <= y
  BY <1>1 DEF Min
<1> QED BY <1>2 DEF Running

-------------------------------------------------------------------------------
(* The LED *)

\* What fits is queued behind what was there.
LEMMA PostedEffect ==
    ASSUME NEW S, NEW q \in Seq(S), Len(q) <= QueueCap, NEW ms \in Seq(S)
    PROVE  /\ Posted(q, ms) \in Seq(S) /\ Len(Posted(q, ms)) <= QueueCap
           /\ Len(ms) # 0 => Posted(q, ms) # <<>>
           /\ \A i \in 1..Len(Posted(q, ms)) :
                  (\E j \in 1..Len(q) : Posted(q, ms)[i] = q[j])
                  \/ \E j \in 1..Len(ms) : Posted(q, ms)[i] = ms[j]
<1> DEFINE s == q \o ms
           n == Min({QueueCap, Len(s)})
<1>1. QueueCap \in Nat \ {0} /\ s \in Seq(S) /\ Len(s) \in Nat /\ Len(s) = Len(q) + Len(ms)
  BY StatusAssumption
<1>2. n \in {QueueCap, Len(s)} /\ n \in Nat /\ n <= QueueCap /\ n <= Len(s)
  BY <1>1, MinOfTwo
<1>3. Posted(q, ms) = SubSeq(s, 1, n)
  BY DEF Posted
<1>4. \A i \in 1..Len(s) : (i \in 1..Len(q) /\ s[i] = q[i])
                           \/ (i - Len(q) \in 1..Len(ms) /\ s[i] = ms[i - Len(q)])
  OBVIOUS
<1> HIDE DEF s, n
<1>5. /\ SubSeq(s, 1, n) \in Seq(S) /\ Len(SubSeq(s, 1, n)) = n
      /\ \A i \in 1..n : SubSeq(s, 1, n)[i] = s[i] /\ i \in 1..Len(s)
  BY <1>1, <1>2
<1>6. Len(ms) # 0 => n # 0
  BY <1>1, <1>2
<1>7. Len(ms) # 0 => SubSeq(s, 1, n) # <<>>
  BY <1>5, <1>6
<1>8. ASSUME NEW i \in 1..n
      PROVE  (\E j \in 1..Len(q) : SubSeq(s, 1, n)[i] = q[j])
             \/ \E j \in 1..Len(ms) : SubSeq(s, 1, n)[i] = ms[j]
  <2>1. SubSeq(s, 1, n)[i] = s[i] /\ i \in 1..Len(s)
    BY <1>5
  <2>2. CASE i \in 1..Len(q) /\ s[i] = q[i]
    BY <2>1, <2>2
  <2>3. CASE i - Len(q) \in 1..Len(ms) /\ s[i] = ms[i - Len(q)]
    BY <2>1, <2>3
  <2> QED BY <1>4, <2>1, <2>2, <2>3
<1> QED BY <1>2, <1>3, <1>5, <1>7, <1>8

\* Every message lights something, for a time that is not zero.
LEMMA LightTimes ==
    ASSUME NEW m \in Messages
    PROVE  Lights[m] \subseteq Colors /\ LightMs[m] \in Nat \ {0}
BY StatusAssumption DEF Messages, Lights, LightMs, Colors

\* The messages of the start-up are lit for one of two times.
LEMMA StationTimes ==
    ASSUME NEW m \in StationMessages
    PROVE  m \in Messages /\ LightMs[m] \in {FlashMs, SolidMs}
BY DEF StationMessages, Messages, Lights, LightMs

\* Time passing.
LEMMA DelaysEffect ==
    ASSUME delay \in [Colors -> Nat], NEW ms \in Nat
    PROVE  /\ update_delays(ms) \in [Colors -> Nat]
           /\ \A c \in Colors : /\ update_delays(ms)[c] <= delay[c]
                                /\ ms <= delay[c] => update_delays(ms)[c] = delay[c] - ms
                                /\ delay[c] <= ms => update_delays(ms)[c] = 0
<1>1. ASSUME NEW c \in Colors
      PROVE  /\ delay[c] - Min({ms, delay[c]}) \in Nat
             /\ delay[c] - Min({ms, delay[c]}) <= delay[c]
             /\ ms <= delay[c] => delay[c] - Min({ms, delay[c]}) = delay[c] - ms
             /\ delay[c] <= ms => delay[c] - Min({ms, delay[c]}) = 0
  <2>1. delay[c] \in Nat
    OBVIOUS
  <2> DEFINE x == Min({ms, delay[c]})
  <2>2. x \in {ms, delay[c]} /\ x <= ms /\ x <= delay[c] /\ x \in Nat
    BY <2>1, MinOfTwo
  <2> HIDE DEF x
  <2> QED BY <2>1, <2>2 DEF x
<1> QED BY <1>1 DEF update_delays

\* A colour that is still to be shown is lit, and its timer lasts at least as long.
OwedInv ==
    \A c \in Colors : owed[c] > 0 => c \in lit /\ owed[c] + waited * TickMs <= delay[c]

\* What holds of the LED by itself.
LedInv == LedTypeOK /\ LitHasTimer /\ OwedInv

\* A message is shown: a colour is lit with a timer of its own, the timers of the
\* others have only run down.
LEMMA ReceiveEffect ==
    ASSUME LedInv, Receive
    PROVE  /\ LedInv' /\ waited' = 0
           /\ \A c \in Colors : \/ delay'[c] \in {0, LightMs[Head(statusQ)]}
                                \/ /\ delay'[c] = delay[c] - waited * TickMs
                                   /\ waited * TickMs <= delay[c]
<1> DEFINE m == Head(statusQ)
           d == update_delays(ElapsedMs)
<1>1. /\ statusQ \in Seq(Messages) /\ Len(statusQ) <= QueueCap /\ QueueCap \in Nat
      /\ delay \in [Colors -> Nat] /\ lit \subseteq Colors /\ waited \in Nat
      /\ owed \in [Colors -> Nat] /\ OwedInv /\ statusQ # <<>> /\ TickMs \in Nat
  BY StatusAssumption DEF LedInv, LedTypeOK, Receive
<1>2. m \in Messages /\ Tail(statusQ) \in Seq(Messages) /\ Len(Tail(statusQ)) <= QueueCap
  BY <1>1
<1>3. Lights[m] \subseteq Colors /\ LightMs[m] \in Nat \ {0}
  BY <1>2, LightTimes
<1>4. ElapsedMs \in Nat /\ ElapsedMs = waited * TickMs
  BY <1>1 DEF ElapsedMs
<1>5. /\ d \in [Colors -> Nat]
      /\ \A c \in Colors : /\ ElapsedMs <= delay[c] => d[c] = delay[c] - ElapsedMs
                           /\ delay[c] <= ElapsedMs => d[c] = 0
  BY <1>1, <1>4, DelaysEffect
<1>6. /\ lit' = ((lit \cap Running(d)) \ PutsOut(m)) \cup Lights[m]
      /\ delay' = [c \in Colors |-> IF c \in Lights[m] THEN LightMs[m] ELSE d[c]]
      /\ owed' = Asked(m) /\ statusQ' = Tail(statusQ) /\ waited' = 0
  BY DEF Receive, handle_queue_msg
<1> HIDE DEF m, d
<1>7. delay' \in [Colors -> Nat] /\ lit' \subseteq Colors /\ owed' \in [Colors -> Nat]
  BY <1>1, <1>3, <1>5, <1>6 DEF Asked
<1>8. ASSUME NEW c \in lit' PROVE delay'[c] > 0
  <2>1. CASE c \in Lights[m]
    BY <1>3, <1>6, <2>1
  <2>2. CASE c \notin Lights[m]
    <3>1. c \in Running(d) /\ c \in Colors
      BY <1>6, <1>7, <2>2
    <3>2. d[c] \in Nat /\ d[c] # 0 /\ delay'[c] = d[c]
      BY <1>5, <1>6, <2>2, <3>1 DEF Running
    <3> QED BY <3>2
  <2> QED BY <2>1, <2>2
<1>9. ASSUME NEW c \in Colors
      PROVE  \/ delay'[c] \in {0, LightMs[m]}
             \/ delay'[c] = delay[c] - waited * TickMs /\ waited * TickMs <= delay[c]
  <2>1. CASE c \in Lights[m]
    BY <1>6, <2>1
  <2>2. CASE c \notin Lights[m]
    <3>1. delay'[c] = d[c] /\ delay[c] \in Nat
      BY <1>1, <1>6, <2>2
    <3> QED BY <1>4, <1>5, <3>1
  <2> QED BY <2>1, <2>2
<1>10. OwedInv'
  <2> SUFFICES ASSUME NEW c \in Colors, owed'[c] > 0
               PROVE  c \in lit' /\ owed'[c] + waited' * TickMs <= delay'[c]
    BY DEF OwedInv
  <2>0. waited' * TickMs = 0 /\ owed'[c] \in Nat /\ owed[c] \in Nat /\ delay[c] \in Nat
    BY <1>1, <1>6, <1>7
  <2>1. CASE c \in Lights[m]
    <3>1. c \in lit' /\ owed'[c] = LightMs[m] /\ delay'[c] = LightMs[m]
      BY <1>6, <2>1 DEF Asked
    <3> QED BY <1>3, <2>0, <3>1
  <2>2. CASE c \notin Lights[m]
    <3>1. c \notin PutsOut(m) /\ owed'[c] = owed[c] /\ delay'[c] = d[c]
      BY <1>6, <2>2 DEF Asked
    <3>2. c \in lit /\ owed[c] + ElapsedMs <= delay[c]
      BY <1>1, <1>4, <3>1 DEF OwedInv
    <3>3. d[c] = delay[c] - ElapsedMs /\ d[c] >= owed[c] /\ d[c] # 0
      BY <1>4, <1>5, <2>0, <3>1, <3>2
    <3>4. c \in lit'
      BY <1>6, <3>1, <3>2, <3>3 DEF Running
    <3> QED BY <2>0, <3>1, <3>3, <3>4
  <2> QED BY <2>1, <2>2
<1> QED BY <1>2, <1>6, <1>7, <1>8, <1>9, <1>10 DEF LedInv, LedTypeOK, LitHasTimer, m

\* The wait ends without a message: the timers run down, and what they ran down
\* for goes out.
LEMMA TimesOutEffect ==
    ASSUME LedInv, TimesOut
    PROVE  /\ LedInv' /\ waited' = 0 /\ UNCHANGED statusQ
           /\ \A c \in Colors :
                  \/ delay'[c] = 0
                  \/ delay'[c] = delay[c] - waited * TickMs /\ waited * TickMs <= delay[c]
<1> DEFINE d == update_delays(ElapsedMs)
<1>1. /\ delay \in [Colors -> Nat] /\ lit \subseteq Colors /\ waited \in Nat /\ TickMs \in Nat
      /\ owed \in [Colors -> Nat] /\ OwedInv /\ LedTypeOK
  BY StatusAssumption DEF LedInv, LedTypeOK
<1>2. ElapsedMs \in Nat /\ ElapsedMs = waited * TickMs
  BY <1>1 DEF ElapsedMs
<1>3. /\ d \in [Colors -> Nat]
      /\ \A c \in Colors : /\ ElapsedMs <= delay[c] => d[c] = delay[c] - ElapsedMs
                           /\ delay[c] <= ElapsedMs => d[c] = 0
  BY <1>1, <1>2, DelaysEffect
<1>4. /\ delay' = d /\ lit' = lit \cap Running(d) /\ waited' = 0 /\ statusQ' = statusQ
      /\ owed' = owed
  BY DEF TimesOut
<1> HIDE DEF d
<1>5. \A c \in lit' : delay'[c] > 0
  BY <1>3, <1>4 DEF Running
<1>6. ASSUME NEW c \in Colors
      PROVE  d[c] = 0 \/ (d[c] = delay[c] - waited * TickMs /\ waited * TickMs <= delay[c])
  <2>1. delay[c] \in Nat
    BY <1>1
  <2> QED BY <1>2, <1>3, <2>1
<1>7. OwedInv'
  <2> SUFFICES ASSUME NEW c \in Colors, owed'[c] > 0
               PROVE  c \in lit' /\ owed'[c] + waited' * TickMs <= delay'[c]
    BY DEF OwedInv
  <2>1. /\ waited' * TickMs = 0 /\ owed[c] \in Nat /\ delay[c] \in Nat /\ owed'[c] = owed[c]
        /\ delay'[c] = d[c]
    BY <1>1, <1>4
  <2>2. c \in lit /\ owed[c] + ElapsedMs <= delay[c]
    BY <1>1, <1>2, <2>1 DEF OwedInv
  <2>3. d[c] = delay[c] - ElapsedMs /\ d[c] >= owed[c] /\ d[c] # 0
    BY <1>2, <1>3, <2>1, <2>2
  <2>4. c \in lit'
    BY <1>4, <2>2, <2>3 DEF Running
  <2> QED BY <2>1, <2>3, <2>4
<1> QED BY <1>1, <1>3, <1>4, <1>5, <1>6, <1>7 DEF LedInv, LedTypeOK, LitHasTimer

\* A tick leaves a light that is still owed with timer enough.
LEMMA TickLed ==
    ASSUME LedInv, NEW held, LedTick(held)
    PROVE  LedInv'
<1>1. /\ delay \in [Colors -> Nat] /\ waited \in Nat /\ TickMs \in Nat
      /\ owed \in [Colors -> Nat] /\ OwedInv /\ LedTypeOK /\ LitHasTimer
  BY StatusAssumption DEF LedInv, LedTypeOK
<1>2. UNCHANGED <<statusQ, delay, lit>> /\ waited' \in Nat /\ waited' \in {waited, waited + 1}
  BY <1>1 DEF LedTick
<1>3. ASSUME NEW c \in Colors
      PROVE  /\ owed'[c] \in Nat /\ owed'[c] = owed[c] - Min({TickMs, owed[c]})
             /\ owed'[c] = 0 \/ owed'[c] = owed[c] - TickMs
  <2>1. owed[c] \in Nat /\ owed'[c] = owed[c] - Min({TickMs, owed[c]})
    BY <1>1 DEF LedTick
  <2> DEFINE x == Min({TickMs, owed[c]})
  <2>2. x \in {TickMs, owed[c]} /\ x <= owed[c] /\ x \in Nat
    BY <1>1, <2>1, MinOfTwo
  <2> HIDE DEF x
  <2> QED BY <2>1, <2>2 DEF x
<1>4. owed' \in [Colors -> Nat]
  BY <1>3 DEF LedTick
<1>5. OwedInv'
  <2> SUFFICES ASSUME NEW c \in Colors, owed'[c] > 0
               PROVE  c \in lit' /\ owed'[c] + waited' * TickMs <= delay'[c]
    BY DEF OwedInv
  <2>1. /\ owed[c] \in Nat /\ owed'[c] \in Nat /\ owed'[c] = owed[c] - TickMs
        /\ delay'[c] = delay[c] /\ delay[c] \in Nat
    <3>1. owed'[c] # 0
      OBVIOUS
    <3> QED BY <1>1, <1>2, <1>3, <3>1
  <2>2. c \in lit /\ owed[c] + waited * TickMs <= delay[c]
    BY <1>1, <2>1 DEF OwedInv
  <2>3. waited * TickMs \in Nat /\ waited' * TickMs <= waited * TickMs + TickMs
        /\ waited' * TickMs \in Nat
    <3>1. waited * TickMs \in Nat /\ (waited + 1) * TickMs = waited * TickMs + TickMs
      BY <1>1
    <3>2. CASE waited' = waited
      BY <1>1, <3>1, <3>2
    <3>3. CASE waited' = waited + 1
      BY <1>1, <3>1, <3>3
    <3> QED BY <1>2, <3>2, <3>3
  <2> QED BY <1>1, <1>2, <2>1, <2>2, <2>3
<1>6. LedTypeOK' /\ LitHasTimer'
  BY <1>1, <1>2, <1>4 DEF LedTypeOK, LitHasTimer
<1> QED BY <1>5, <1>6 DEF LedInv

-------------------------------------------------------------------------------
(* The inductive invariant *)

\* What app_main, the event handler and the station know of each other.
StationInv ==
    /\ "FAILED_BIT" \in bits => radio = "idle"
    /\ boot = "delay" => "FAILED_BIT" \in bits
    /\ phase = "wifi_init" <=> boot \in {"waiting", "delay"}

\* The start-up posts only messages of short lights, of whole ticks,
EarlyInv ==
    phase = "wifi_init" =>
        /\ \A i \in 1..Len(statusQ) : statusQ[i] \in StationMessages
        /\ \A c \in Colors : /\ delay[c] + TickMs <= RebootTicks * TickMs
                             /\ \E k \in Nat : delay[c] = k * TickMs

\* no tick passes before the LED has taken a failure from its queue,
HeardInv ==
    /\ boot = "delay" /\ statusQ # <<>> => rebootIn = RebootTicks
    /\ \A i \in 1..Len(statusQ) :
           statusQ[i] \in Failures => /\ rebootIn = RebootTicks
                                      /\ boot = "delay" \/ phase = "vpn_failed"

\* and from then on the timers run out before the restart is due.
TimerInv ==
    /\ boot = "delay" /\ statusQ = <<>> =>
           \A c \in Running(delay) : delay[c] + TickMs <= (rebootIn + waited) * TickMs
    /\ phase = "wifi_init" => \A c \in Running(delay) : waited * TickMs <= delay[c]

BootInv == BootTypeOK /\ LedInv /\ WifiInv /\ StationInv /\ EarlyInv /\ HeardInv /\ TimerInv

\* The numbers the invariant speaks of.
LEMMA BootNumbers ==
    /\ TickMs \in Nat \ {0} /\ RebootTicks \in Nat \ {0} /\ FlashMs \in Nat /\ SolidMs \in Nat
    /\ \A n \in {0, FlashMs, SolidMs} : /\ n + TickMs <= RebootTicks * TickMs
                                        /\ \E k \in Nat : n = k * TickMs
<1>1. /\ TickMs \in Nat \ {0} /\ RebootMs \in Nat /\ FlashMs \in Nat /\ SolidMs \in Nat \ {0}
  BY StatusAssumption, BootAssumption
<1>2. RebootTicks \in Nat
  BY <1>1 DEF RebootTicks
<1>3. \A n \in {FlashMs, SolidMs} : n + TickMs <= RebootTicks * TickMs
  BY RestartAssumption DEF RebootTicks
<1>a. \A n \in {0, FlashMs, SolidMs} : \E k \in Nat : n = k * TickMs
  <2>1. 0 = 0 * TickMs /\ 0 \in Nat
    BY <1>1
  <2>2. ASSUME NEW n \in {FlashMs, SolidMs} PROVE \E k \in Nat : n = k * TickMs
    <3>1. PICK k \in 1..n : n = k * TickMs
      BY RestartAssumption
    <3>2. k \in Nat
      BY <1>1
    <3> QED BY <3>1, <3>2
  <2> QED BY <2>1, <2>2
<1>4. RebootTicks * TickMs \in Nat
  BY <1>1, <1>2
<1>5. 0 + TickMs <= RebootTicks * TickMs
  BY <1>1, <1>3, <1>4
<1>6. RebootTicks # 0
  <2> SUFFICES ASSUME RebootTicks = 0 PROVE FALSE
    OBVIOUS
  <2>1. RebootTicks * TickMs = 0
    BY <1>1
  <2> QED BY <1>1, <1>5, <2>1
<1> QED BY <1>1, <1>2, <1>3, <1>a, <1>5, <1>6

\* A message of no failure is posted while no restart is due.
LEMMA QuietPost ==
    ASSUME BootInv, boot # "delay", boot' # "delay", UNCHANGED <<rebootIn, delay, waited>>,
           phase = "vpn_failed" => phase' = "vpn_failed",
           NEW ms \in Seq(Messages), statusQ' = Posted(statusQ, ms),
           \A j \in 1..Len(ms) : ms[j] \notin Failures,
           phase' = "wifi_init" => /\ phase = "wifi_init"
                                   /\ \A j \in 1..Len(ms) : ms[j] \in StationMessages
    PROVE  EarlyInv' /\ HeardInv' /\ TimerInv'
<1>1. statusQ \in Seq(Messages) /\ Len(statusQ) <= QueueCap
  BY DEF BootInv, BootTypeOK, LedInv, LedTypeOK
<1>2. \A i \in 1..Len(statusQ') : (\E j \in 1..Len(statusQ) : statusQ'[i] = statusQ[j])
                                  \/ \E j \in 1..Len(ms) : statusQ'[i] = ms[j]
  BY <1>1, PostedEffect
<1>3. EarlyInv'
  BY <1>2 DEF BootInv, EarlyInv
<1>4. HeardInv'
  BY <1>2 DEF BootInv, HeardInv
<1>5. TimerInv'
  BY DEF BootInv, TimerInv
<1> QED BY <1>3, <1>4, <1>5

\* A failure is announced.
LEMMA AnnounceStep ==
    ASSUME BootInv, NEW m \in Failures, AnnounceFailure(m),
           boot' = "delay" \/ phase' = "vpn_failed",
           phase' = "wifi_init" => phase = "wifi_init" /\ m \in StationMessages
    PROVE  EarlyInv' /\ HeardInv' /\ TimerInv'
<1>1. statusQ \in Seq(Messages) /\ Len(statusQ) <= QueueCap
  BY DEF BootInv, BootTypeOK, LedInv, LedTypeOK
<1>2. m \in Messages /\ <<m>> \in Seq(Messages) /\ Len(<<m>>) = 1
  BY DEF Failures, Messages, Lights
<1>3. /\ statusQ' = Posted(statusQ, <<m>>) /\ UNCHANGED <<delay, waited>>
      /\ rebootIn' = RebootTicks
  BY DEF AnnounceFailure, Post, RebootTicks
<1>4. /\ statusQ' # <<>>
      /\ \A i \in 1..Len(statusQ') :
             (\E j \in 1..Len(statusQ) : statusQ'[i] = statusQ[j]) \/ statusQ'[i] = m
  <2> DEFINE s == <<m>>
  <2>1. Len(s) # 0 /\ s \in Seq(Messages) /\ \A j \in 1..Len(s) : s[j] = m
    BY <1>2
  <2> HIDE DEF s
  <2>2. /\ Posted(statusQ, s) # <<>>
        /\ \A i \in 1..Len(Posted(statusQ, s)) :
               (\E j \in 1..Len(statusQ) : Posted(statusQ, s)[i] = statusQ[j])
               \/ \E j \in 1..Len(s) : Posted(statusQ, s)[i] = s[j]
    BY <1>1, <2>1, PostedEffect
  <2> QED BY <1>3, <2>1, <2>2 DEF s
<1>5. EarlyInv'
  BY <1>3, <1>4 DEF BootInv, EarlyInv
<1>6. HeardInv'
  BY <1>3 DEF HeardInv
<1>7. TimerInv'
  BY <1>3, <1>4 DEF BootInv, TimerInv
<1> QED BY <1>5, <1>6, <1>7

\* The LED after a restart.
LEMMA ResetStep ==
    ASSUME LedReset, boot' # "delay"
    PROVE  EarlyInv' /\ HeardInv' /\ TimerInv' /\ LedInv'
<1>1. /\ statusQ' = <<>> /\ lit' = {} /\ waited' = 0 /\ delay' = Dark /\ owed' = Dark
  BY DEF LedReset
<1>2. \A c \in Colors : delay'[c] = 0 /\ owed'[c] = 0
  BY <1>1 DEF Dark
<1>3. EarlyInv'
  BY <1>1, <1>2, BootNumbers DEF EarlyInv
<1>4. HeardInv' /\ TimerInv'
  BY <1>1, <1>2 DEF HeardInv, TimerInv, Running
<1>5. LedInv'
  BY <1>1, <1>2, StatusAssumption DEF LedInv, LedTypeOK, LitHasTimer, OwedInv, Dark
<1> QED BY <1>3, <1>4, <1>5

\* A time of the start-up: whole ticks, and over before a restart.
Short(n) == n + TickMs <= RebootTicks * TickMs /\ \E k \in Nat : n = k * TickMs

\* It stays so as it runs down.
LEMMA ShortAfter ==
    ASSUME NEW n \in Nat, Short(n), NEW w \in Nat, w * TickMs <= n
    PROVE  Short(n - w * TickMs)
<1>1. PICK k \in Nat : n = k * TickMs
  BY DEF Short
<1>2. \E j \in Nat : n - w * TickMs = j * TickMs
  BY <1>1, TicksLess, BootNumbers
<1>3. w * TickMs \in Nat /\ RebootTicks * TickMs \in Nat /\ TickMs \in Nat
  BY BootNumbers
<1>4. n - w * TickMs + TickMs <= RebootTicks * TickMs
  BY <1>3 DEF Short
<1> QED BY <1>2, <1>4 DEF Short

\* The LED shows a message.
LEMMA ReceiveStep ==
    ASSUME BootInv, Receive, UNCHANGED <<boot, phase, rebootIn>>
    PROVE  EarlyInv' /\ HeardInv' /\ TimerInv'
<1>1. /\ LedInv' /\ waited' = 0
      /\ \A c \in Colors : \/ delay'[c] \in {0, LightMs[Head(statusQ)]}
                           \/ /\ delay'[c] = delay[c] - waited * TickMs
                              /\ waited * TickMs <= delay[c]
  BY ReceiveEffect DEF BootInv
<1>2. /\ statusQ \in Seq(Messages) /\ statusQ # <<>> /\ statusQ' = Tail(statusQ)
      /\ delay \in [Colors -> Nat] /\ delay' \in [Colors -> Nat] /\ waited \in Nat
  BY <1>1 DEF BootInv, LedInv, LedTypeOK, Receive
<1>3. /\ \A i \in 1..Len(statusQ') : statusQ'[i] = statusQ[i + 1] /\ i + 1 \in 1..Len(statusQ)
      /\ Head(statusQ) = statusQ[1] /\ 1 \in 1..Len(statusQ)
  BY <1>2
<1>4. EarlyInv'
  <2> SUFFICES ASSUME phase = "wifi_init" PROVE EarlyInv'
    BY DEF EarlyInv
  <2>1. /\ \A i \in 1..Len(statusQ) : statusQ[i] \in StationMessages
        /\ \A c \in Colors : Short(delay[c])
    BY DEF BootInv, EarlyInv, Short
  <2>2. LightMs[Head(statusQ)] \in {FlashMs, SolidMs}
    BY <1>3, <2>1, StationTimes
  <2>3. \A c \in Colors : Short(delay'[c])
    <3> SUFFICES ASSUME NEW c \in Colors PROVE Short(delay'[c])
      OBVIOUS
    <3>1. delay[c] \in Nat /\ Short(delay[c])
      BY <1>2, <2>1
    <3>2. CASE delay'[c] \in {0, LightMs[Head(statusQ)]}
      BY <2>2, <3>2, BootNumbers DEF Short
    <3>3. CASE delay'[c] = delay[c] - waited * TickMs /\ waited * TickMs <= delay[c]
      BY <1>2, <3>1, <3>3, ShortAfter
    <3> QED BY <1>1, <3>2, <3>3
  <2> QED BY <1>3, <2>1, <2>3 DEF EarlyInv, Short
<1>5. HeardInv'
  BY <1>2, <1>3 DEF BootInv, HeardInv
<1>6. TimerInv'
  <2>1. waited' * TickMs = 0
    BY <1>1, BootNumbers
  <2>2. \A c \in Running(delay') : c \in Colors /\ delay'[c] \in Nat
    BY <1>2 DEF Running
  <2>3. \A c \in Running(delay') : waited' * TickMs <= delay'[c]
    BY <2>1, <2>2
  <2>4. ASSUME boot' = "delay", statusQ' = <<>>, NEW c \in Running(delay')
        PROVE  delay'[c] + TickMs <= (rebootIn' + waited') * TickMs
    <3>1. rebootIn = RebootTicks
      BY <1>2, <2>4 DEF BootInv, HeardInv
    <3>2. phase' = "wifi_init"
      BY <2>4 DEF BootInv, StationInv
    <3>3. delay'[c] + TickMs <= RebootTicks * TickMs
      BY <1>4, <2>2, <3>2 DEF EarlyInv
    <3>4. rebootIn' + waited' = RebootTicks
      BY <1>1, <3>1, BootNumbers
    <3> QED BY <3>3, <3>4
  <2> QED BY <2>3, <2>4 DEF TimerInv
<1> QED BY <1>4, <1>5, <1>6

\* Ticks are counted together.
LEMMA Distribute ==
    ASSUME NEW a \in Nat, NEW b \in Nat, NEW t \in Nat
    PROVE  /\ (a + b) * t = a * t + b * t
           /\ a * t \in Nat /\ b * t \in Nat
OBVIOUS

\* A wait of the LED ends.
LEMMA TimesOutStep ==
    ASSUME BootInv, TimesOut, UNCHANGED <<boot, phase, rebootIn>>
    PROVE  EarlyInv' /\ HeardInv' /\ TimerInv'
<1>1. /\ LedInv' /\ waited' = 0 /\ UNCHANGED statusQ
      /\ \A c \in Colors : \/ delay'[c] = 0
                           \/ /\ delay'[c] = delay[c] - waited * TickMs
                              /\ waited * TickMs <= delay[c]
  BY TimesOutEffect DEF BootInv
<1>2. /\ delay \in [Colors -> Nat] /\ delay' \in [Colors -> Nat]
      /\ waited \in Nat /\ rebootIn \in Nat
  BY <1>1 DEF BootInv, BootTypeOK, LedInv, LedTypeOK
<1>3. EarlyInv'
  <2> SUFFICES ASSUME phase = "wifi_init" PROVE EarlyInv'
    BY DEF EarlyInv
  <2>1. \A c \in Colors : Short(delay[c])
    BY DEF BootInv, EarlyInv, Short
  <2>2. \A c \in Colors : Short(delay'[c])
    <3> SUFFICES ASSUME NEW c \in Colors PROVE Short(delay'[c])
      OBVIOUS
    <3>1. delay[c] \in Nat /\ Short(delay[c])
      BY <1>2, <2>1
    <3>2. CASE delay'[c] = 0
      BY <3>2, BootNumbers DEF Short
    <3>3. CASE delay'[c] = delay[c] - waited * TickMs /\ waited * TickMs <= delay[c]
      BY <1>2, <3>1, <3>3, ShortAfter
    <3> QED BY <1>1, <3>2, <3>3
  <2> QED BY <1>1, <2>2 DEF BootInv, EarlyInv, Short
<1>4. HeardInv'
  BY <1>1 DEF BootInv, HeardInv
<1>5. TimerInv'
  <2>1. waited' * TickMs = 0
    BY <1>1, BootNumbers
  <2>2. ASSUME NEW c \in Running(delay')
        PROVE  /\ c \in Running(delay) /\ delay'[c] \in Nat /\ delay[c] \in Nat
               /\ delay'[c] = delay[c] - waited * TickMs
    <3>1. c \in Colors /\ delay'[c] # 0 /\ delay'[c] \in Nat /\ delay[c] \in Nat
      BY <1>2 DEF Running
    <3>2. delay'[c] = delay[c] - waited * TickMs /\ waited * TickMs \in Nat
      BY <1>1, <1>2, <3>1, BootNumbers
    <3>3. delay[c] # 0
      BY <3>1, <3>2
    <3> QED BY <3>1, <3>2, <3>3 DEF Running
  <2>3. \A c \in Running(delay') : waited' * TickMs <= delay'[c]
    BY <2>1, <2>2
  <2>4. ASSUME boot' = "delay", statusQ' = <<>>, NEW c \in Running(delay')
        PROVE  delay'[c] + TickMs <= (rebootIn' + waited') * TickMs
    <3>1. delay[c] + TickMs <= (rebootIn + waited) * TickMs
      BY <1>1, <2>2, <2>4 DEF BootInv, TimerInv
    <3>2. (rebootIn + waited) * TickMs = rebootIn * TickMs + waited * TickMs
          /\ rebootIn * TickMs \in Nat /\ waited * TickMs \in Nat
      BY <1>2, BootNumbers, Distribute
    <3>3. rebootIn' + waited' = rebootIn
      BY <1>1, <1>2
    <3>4. delay'[c] + TickMs <= rebootIn * TickMs
      BY <2>2, <3>1, <3>2, BootNumbers
    <3> QED BY <3>3, <3>4
  <2> QED BY <2>3, <2>4 DEF TimerInv
<1> QED BY <1>3, <1>4, <1>5

\* When the restart is due, the LED is out.
LEMMA DueIsDark ==
    ASSUME BootInv, boot = "delay", rebootIn = 0
    PROVE  statusQ = <<>> /\ Running(delay) = {} /\ lit = {}
<1>1. statusQ = <<>>
  BY BootNumbers DEF BootInv, HeardInv
<1>2. waited \in Nat /\ delay \in [Colors -> Nat] /\ lit \subseteq Colors
  BY DEF BootInv, BootTypeOK, LedInv, LedTypeOK
<1>3. Running(delay) = {}
  <2> SUFFICES ASSUME NEW c \in Running(delay) PROVE FALSE
    OBVIOUS
  <2>1. delay[c] + TickMs <= (0 + waited) * TickMs /\ waited * TickMs <= delay[c]
    BY <1>1 DEF BootInv, StationInv, TimerInv
  <2>2. delay[c] \in Nat /\ (0 + waited) * TickMs = waited * TickMs /\ waited * TickMs \in Nat
    BY <1>2, BootNumbers DEF Running
  <2> QED BY <2>1, <2>2, BootNumbers
<1>4. lit = {}
  <2> SUFFICES ASSUME NEW c \in lit PROVE FALSE
    OBVIOUS
  <2>1. c \in Colors /\ delay[c] > 0
    BY <1>2 DEF BootInv, LedInv, LitHasTimer
  <2> QED BY <1>2, <1>3, <2>1 DEF Running
<1> QED BY <1>1, <1>3, <1>4

\* A tick passes.
LEMMA TickStep ==
    ASSUME BootInv, Tick
    PROVE  EarlyInv' /\ HeardInv' /\ TimerInv'
<1>1. /\ UNCHANGED <<statusQ, delay, boot, phase>>
      /\ rebootIn' = IF rebootIn > 0 THEN rebootIn - 1 ELSE 0
      /\ phase # "returned" => statusQ = <<>>
  BY DEF Tick, LedTick, Ready, Polling, vars
<1>2. delay \in [Colors -> Nat] /\ waited \in Nat /\ rebootIn \in Nat
  BY DEF BootInv, BootTypeOK, LedInv, LedTypeOK
<1>3. EarlyInv' /\ HeardInv'
  <2>1. boot = "delay" => statusQ = <<>>
    BY <1>1 DEF BootInv, StationInv
  <2>2. \A i \in 1..Len(statusQ) : statusQ[i] \notin Failures
    BY <1>1, <2>1 DEF BootInv, HeardInv
  <2> QED BY <1>1, <2>1, <2>2 DEF BootInv, EarlyInv, HeardInv
<1>0. CASE phase # "wifi_init"
  BY <1>0, <1>1, <1>3 DEF BootInv, StationInv, TimerInv
<1>4. CASE phase = "wifi_init" /\ Running(delay) = {}
  BY <1>1, <1>3, <1>4 DEF TimerInv
<1>5. CASE phase = "wifi_init" /\ Running(delay) # {}
  <2>0. ~Polling
    <3>1. PICK c \in Running(delay) : Min({delay[e] : e \in Running(delay)}) = delay[c]
      BY <1>2, <1>5, ShortestTimer
    <3>2. PICK k \in Nat : delay[c] = k * TickMs
      BY <1>5 DEF BootInv, EarlyInv, Running
    <3>3. k * TickMs # 0
      BY <3>2 DEF Running
    <3>4. calculate_queue_wait = (k * TickMs) \div TickMs
      BY <3>1, <3>2 DEF calculate_queue_wait
    <3> QED BY <3>3, <3>4, AtLeastATick, BootNumbers DEF Polling
  <2>1. waited < calculate_queue_wait /\ waited' = waited + 1
    <3>1. ~Ready /\ waited' = waited + 1
      BY <1>5, <2>0 DEF Tick, LedTick
    <3>2. ~(waited >= calculate_queue_wait)
      BY <1>5, <3>1 DEF Ready
    <3>3. calculate_queue_wait \in Int
      <4>1. PICK c \in Running(delay) : TRUE
        BY <1>5
      <4> DEFINE s == Min({delay[d] : d \in Running(delay)})
      <4>2. s \in Nat
        BY <1>2, <4>1, ShortestTimer
      <4> HIDE DEF s
      <4>3. s \div TickMs \in Int
        BY <4>2, BootNumbers
      <4> QED BY <4>3 DEF calculate_queue_wait, s
    <3> QED BY <1>2, <3>1, <3>2, <3>3
  <2>2. ASSUME NEW c \in Running(delay) PROVE waited' * TickMs <= delay[c]
    <3> DEFINE s == Min({delay[d] : d \in Running(delay)})
    <3>1. s \in Nat /\ s <= delay[c] /\ delay[c] \in Nat
      BY <1>2, ShortestTimer DEF Running
    <3>2. calculate_queue_wait = s \div TickMs
      BY DEF calculate_queue_wait
    <3> HIDE DEF s
    <3>3. s \div TickMs \in Nat
      BY <3>1, BootNumbers
    <3>4. waited + 1 \in Nat /\ waited + 1 <= s \div TickMs
      BY <1>2, <2>1, <3>2, <3>3
    <3>5. (waited + 1) * TickMs <= s /\ (waited + 1) * TickMs \in Nat
      <4> DEFINE w == waited + 1
      <4>1. w \in Nat /\ w <= s \div TickMs /\ TickMs \in Nat \ {0}
        BY <3>4, BootNumbers
      <4> HIDE DEF w
      <4>2. w * TickMs <= s
        BY <3>1, <4>1, TicksFit
      <4>3. w * TickMs \in Nat
        BY <4>1
      <4> QED BY <4>2, <4>3 DEF w
    <3> QED BY <2>1, <3>1, <3>5
  <2>3. ASSUME boot = "delay", NEW c \in Running(delay)
        PROVE  delay[c] + TickMs <= (rebootIn' + waited') * TickMs
    <3>1. delay[c] + TickMs <= (rebootIn + waited) * TickMs
      BY <1>1, <1>5, <2>3 DEF BootInv, TimerInv
    <3>2. rebootIn # 0
      BY <1>5, <2>3, DueIsDark
    <3>3. rebootIn' + waited' = rebootIn + waited
      BY <1>1, <1>2, <2>1, <3>2
    <3> QED BY <3>1, <3>3
  <2>4. TimerInv'
    BY <1>1, <2>2, <2>3 DEF TimerInv
  <2> QED BY <1>3, <2>4
<1> QED BY <1>0, <1>4, <1>5

-------------------------------------------------------------------------------
(* Steps *)

\* A restart, wherever it comes from.
LEMMA RestartStep ==
    ASSUME WifiInv, esp_restart, UNCHANGED drops
    PROVE  WifiInv' /\ bits' = {} /\ boot' = "waiting" /\ radio' = "off"
BY WifiAssumption
   DEF esp_restart, WifiInv, TypeOK, CyclesBeforeRetry, NoSilentGiveUp, Index

\* A disconnected station has not failed for good before, and has afterwards only
\* if it is idle.
LEMMA DisconnectStep ==
    ASSUME BootInv, AttemptFails \/ Drop
    PROVE  /\ "FAILED_BIT" \in bits' => radio' = "idle"
           /\ boot # "delay" /\ UNCHANGED boot
<1>1. radio \in {"connecting", "connected"} /\ StaDisconnected /\ UNCHANGED boot
  BY DEF AttemptFails, Drop
<1>2. "FAILED_BIT" \notin bits /\ boot # "delay"
  BY <1>1 DEF BootInv, StationInv
<1>3. "FAILED_BIT" \in bits' => radio' = "idle"
  BY <1>1, <1>2 DEF StaDisconnected, GiveUp, update_config_and_connect
<1> QED BY <1>1, <1>2, <1>3

\* Two messages posted one after the other.
LEMMA TwoMessages ==
    ASSUME NEW X, NEW a \in X, NEW b \in X
    PROVE  /\ <<a>> \o <<b>> \in Seq(X)
           /\ \A j \in 1..Len(<<a>> \o <<b>>) : (<<a>> \o <<b>>)[j] \in {a, b}
<1> DEFINE s == <<a>>
           t == <<b>>
<1>1. /\ s \in Seq(X) /\ Len(s) = 1 /\ s[1] = a
      /\ t \in Seq(X) /\ Len(t) = 1 /\ t[1] = b
  OBVIOUS
<1> HIDE DEF s, t
<1>2. s \o t \in Seq(X) /\ Len(s \o t) = 2 /\ (s \o t)[1] = a /\ (s \o t)[2] = b
  <2>1. /\ s \o t \in Seq(X) /\ Len(s \o t) = Len(s) + Len(t)
        /\ \A i \in 1..(Len(s) + Len(t)) :
               (s \o t)[i] = IF i <= Len(s) THEN s[i] ELSE t[i - Len(s)]
    BY <1>1, ConcatProperties
  <2> QED BY <1>1, <2>1
<1>3. \A j \in 1..Len(s \o t) : (s \o t)[j] \in {a, b}
  <2>1. \A j \in 1..2 : j = 1 \/ j = 2
    OBVIOUS
  <2> QED BY <1>2, <2>1
<1> QED BY <1>2, <1>3 DEF s, t

\* What the handler posts.
LEMMA HandlerMessages ==
    ASSUME NEW r
    PROVE  /\ AfterDisconnect(r) \in Seq(Messages)
           /\ \A j \in 1..Len(AfterDisconnect(r)) :
                  AfterDisconnect(r)[j] \in StationMessages \ Failures
<1>1. CASE r = "idle"
  <2>1. AfterDisconnect(r) = <<"WIFI_CONNECTION_FAILED">>
    BY <1>1 DEF AfterDisconnect
  <2> QED BY <2>1 DEF Messages, Lights, StationMessages, Failures
<1>2. CASE r # "idle"
  <2>1. AfterDisconnect(r) = <<"WIFI_CONNECTION_FAILED">> \o <<"WIFI_CONNECTING">>
    BY <1>2 DEF AfterDisconnect
  <2>2. /\ {"WIFI_CONNECTION_FAILED", "WIFI_CONNECTING"} \subseteq Messages
        /\ {"WIFI_CONNECTION_FAILED", "WIFI_CONNECTING"} \subseteq StationMessages \ Failures
    BY DEF Messages, Lights, StationMessages, Failures
  <2>3. /\ AfterDisconnect(r) \in Seq(Messages)
        /\ \A j \in 1..Len(AfterDisconnect(r)) :
               AfterDisconnect(r)[j] \in {"WIFI_CONNECTION_FAILED", "WIFI_CONNECTING"}
    <3> DEFINE a == "WIFI_CONNECTION_FAILED"
               b == "WIFI_CONNECTING"
    <3>1. a \in Messages /\ b \in Messages
      BY <2>2
    <3>2. /\ <<a>> \o <<b>> \in Seq(Messages)
          /\ \A j \in 1..Len(<<a>> \o <<b>>) : (<<a>> \o <<b>>)[j] \in {a, b}
      <4> HIDE DEF a, b
      <4> QED BY <3>1, TwoMessages, Zenon
    <3> QED BY <2>1, <3>2, Zenon
  <2> QED BY <2>2, <2>3, Zenon
<1> QED BY <1>1, <1>2

\* A post keeps the type of the queue and leaves the lights alone.
LEMMA PostType ==
    ASSUME LedInv, NEW ms \in Seq(Messages), Post(ms)
    PROVE  LedInv'
<1>1. statusQ \in Seq(Messages) /\ Len(statusQ) <= QueueCap
  BY DEF LedInv, LedTypeOK
<1>2. statusQ' \in Seq(Messages) /\ Len(statusQ') <= QueueCap
  BY <1>1, PostedEffect DEF Post
<1> QED BY <1>2 DEF Post, LedInv, LedTypeOK, LitHasTimer, OwedInv

\* A post of the handler: it arrives or is lost, and no failure is among it.
LEMMA HandlerStep ==
    ASSUME BootInv, boot # "delay", boot' # "delay", UNCHANGED <<phase, rebootIn>>,
           NEW ms \in Seq(Messages), HandlerPost(ms),
           \A j \in 1..Len(ms) : ms[j] \in StationMessages \ Failures
    PROVE  LedInv' /\ EarlyInv' /\ HeardInv' /\ TimerInv'
<1>1. LedInv
  BY DEF BootInv, BootTypeOK
<1>2. CASE Post(ms)
  <2>1. EarlyInv' /\ HeardInv' /\ TimerInv'
    BY <1>2, QuietPost DEF Post
  <2> QED BY <1>1, <1>2, <2>1, PostType
<1>3. CASE UNCHANGED ledVars
  <2>1. LedInv'
    BY <1>1, <1>3 DEF ledVars, LedInv, LedTypeOK, LitHasTimer, OwedInv
  <2> QED BY <1>3, <2>1 DEF ledVars, BootInv, EarlyInv, HeardInv, TimerInv
<1> QED BY <1>2, <1>3 DEF HandlerPost

\* The station events.
LEMMA StationStep ==
    ASSUME BootInv, Start \/ Refused \/ Dropped \/ Address
    PROVE  BootInv'
<1>1. BootTypeOK /\ WifiInv /\ StationInv /\ LedInv
  BY DEF BootInv, BootTypeOK
<1>2. WifiInv'
  BY <1>1, WifiNext DEF Start, Refused, Dropped, Address, Next, event_handler
<1>3. UNCHANGED <<phase, rebootIn, unheard, posts>>
  BY DEF Start, Refused, Dropped, Address
<1>4. /\ StationInv' /\ UNCHANGED boot
      /\ LedInv' /\ EarlyInv' /\ HeardInv' /\ TimerInv'
  <2>1. CASE Start
    <3>1. radio = "off" /\ UNCHANGED <<bits, boot>> /\ HandlerPost(<<"WIFI_CONNECTING">>)
      BY <2>1 DEF Start, StaStart
    <3>2. "FAILED_BIT" \notin bits /\ boot # "delay"
      BY <1>1, <3>1 DEF StationInv
    <3>3. StationInv'
      BY <1>1, <1>3, <3>1, <3>2 DEF StationInv
    <3> DEFINE ms == <<"WIFI_CONNECTING">>
    <3>4. ms \in Seq(Messages) /\ \A j \in 1..Len(ms) : ms[j] \in StationMessages \ Failures
      BY DEF Messages, Lights, StationMessages, Failures
    <3>5. HandlerPost(ms) /\ boot # "delay" /\ boot' # "delay"
      BY <3>1, <3>2
    <3> HIDE DEF ms
    <3> QED BY <1>3, <3>1, <3>3, <3>4, <3>5, HandlerStep
  <2>2. CASE Refused \/ Dropped
    <3>1. (AttemptFails \/ Drop) /\ HandlerPost(AfterDisconnect(radio'))
      BY <2>2 DEF Refused, Dropped
    <3>2. /\ "FAILED_BIT" \in bits' => radio' = "idle"
          /\ boot # "delay" /\ UNCHANGED boot
      BY <3>1, DisconnectStep
    <3>3. StationInv'
      BY <1>1, <1>3, <3>2 DEF StationInv
    <3> DEFINE ms == AfterDisconnect(radio')
    <3>4. ms \in Seq(Messages) /\ \A j \in 1..Len(ms) : ms[j] \in StationMessages \ Failures
      BY HandlerMessages
    <3>5. HandlerPost(ms) /\ boot # "delay" /\ boot' # "delay"
      BY <3>1, <3>2
    <3> HIDE DEF ms
    <3> QED BY <1>3, <3>2, <3>3, <3>4, <3>5, HandlerStep
  <2>3. CASE Address
    <3>1. /\ radio = "connecting" /\ bits' = bits \cup {"CONNECTED_BIT"}
          /\ UNCHANGED boot /\ UNCHANGED ledVars
      BY <2>3 DEF Address, GotIp
    <3>2. StationInv'
      BY <1>1, <1>3, <3>1 DEF StationInv
    <3>3. LedInv'
      BY <1>1, <3>1 DEF ledVars, LedInv, LedTypeOK, LitHasTimer, OwedInv
    <3> QED BY <1>3, <3>1, <3>2, <3>3 DEF ledVars, BootInv, EarlyInv, HeardInv, TimerInv
  <2> QED BY <2>1, <2>2, <2>3
<1>5. BootTypeOK'
  BY <1>1, <1>2, <1>3, <1>4 DEF BootTypeOK, LedInv, WifiInv
<1> QED BY <1>2, <1>4, <1>5 DEF BootInv

\* app_main reports that the network is up, or that the link is.
LEMMA UpStep ==
    ASSUME BootInv, WifiUp \/ VpnUp
    PROVE  BootInv'
<1>1. BootTypeOK /\ WifiInv /\ StationInv /\ LedInv
  BY DEF BootInv, BootTypeOK
<1>2. WifiInv'
  BY <1>1, WifiNext DEF WifiUp, VpnUp, Next, wifi_init
<1>3. /\ UNCHANGED <<rebootIn, unheard, posts, bits, radio>> /\ boot' = "serving"
      /\ phase' \in {"vpn", "returned"} /\ boot # "delay" /\ phase # "vpn_failed"
  BY <1>1 DEF WifiUp, Connected, VpnUp, vars, StationInv, WifiInv, TypeOK
<1>4. PICK ms \in Seq(Messages) : /\ Post(ms) /\ \A j \in 1..Len(ms) : ms[j] \notin Failures
  <2>1. CASE WifiUp /\ Tailscale
    <3> DEFINE pair == {"WIFI_CONNECTED", "TAILSCALE_CONNECTING"}
               ms == <<"WIFI_CONNECTED">> \o <<"TAILSCALE_CONNECTING">>
    <3>0. pair \subseteq Messages /\ \A m \in pair : m \notin Failures
      BY DEF Messages, Lights, Failures
    <3>a. "WIFI_CONNECTED" \in Messages /\ "TAILSCALE_CONNECTING" \in Messages
      BY <3>0
    <3>b. ms \in Seq(Messages) /\ \A j \in 1..Len(ms) : ms[j] \in pair
      BY <3>a, TwoMessages
    <3>1. ms \in Seq(Messages) /\ \A j \in 1..Len(ms) : ms[j] \notin Failures
      <4> HIDE DEF ms, pair
      <4> QED BY <3>0, <3>b
    <3>2. Post(ms)
      BY <2>1 DEF WifiUp
    <3> QED BY <3>1, <3>2
  <2>2. CASE WifiUp /\ ~Tailscale
    <3> DEFINE ms == <<"WIFI_CONNECTED">>
    <3>1. ms \in Seq(Messages) /\ \A j \in 1..Len(ms) : ms[j] \notin Failures
      BY DEF Messages, Lights, Failures
    <3>2. Post(ms)
      BY <2>2 DEF WifiUp
    <3> QED BY <3>1, <3>2
  <2>3. CASE VpnUp
    <3> DEFINE ms == <<"TAILSCALE_CONNECTED">>
    <3>1. ms \in Seq(Messages) /\ \A j \in 1..Len(ms) : ms[j] \notin Failures
      BY DEF Messages, Lights, Failures
    <3>2. Post(ms)
      BY <2>3 DEF VpnUp
    <3> QED BY <3>1, <3>2
  <2> QED BY <2>1, <2>2, <2>3
<1>5. LedInv'
  BY <1>1, <1>4, PostType
<1>6. EarlyInv' /\ HeardInv' /\ TimerInv'
  BY <1>3, <1>4, QuietPost DEF Post
<1>7. StationInv'
  BY <1>1, <1>3 DEF StationInv
<1>8. BootTypeOK'
  BY <1>1, <1>2, <1>3, <1>5 DEF BootTypeOK, LedInv, WifiInv
<1> QED BY <1>2, <1>5, <1>6, <1>7, <1>8 DEF BootInv

\* app_main announces a failure.
LEMMA FailedStep ==
    ASSUME BootInv, WifiFailed \/ VpnFailed
    PROVE  BootInv'
<1>1. BootTypeOK /\ WifiInv /\ StationInv /\ LedInv
  BY DEF BootInv, BootTypeOK
<1>2. WifiInv'
  BY <1>1, WifiNext DEF WifiFailed, VpnFailed, Next, wifi_init
<1>3. /\ UNCHANGED <<posts, bits, radio>> /\ rebootIn' \in Nat /\ unheard' \in BOOLEAN
  <2>1. UNCHANGED <<posts, bits, radio>>
    BY DEF WifiFailed, Failed, VpnFailed, vars
  <2>2. /\ rebootIn' = RebootTicks
        /\ unheard' = (Len(statusQ) >= QueueCap)
    BY DEF WifiFailed, VpnFailed, AnnounceFailure, RebootTicks
  <2>3. unheard' \in BOOLEAN
    <3>1. (Len(statusQ) >= QueueCap) \in BOOLEAN
      OBVIOUS
    <3> QED BY <2>2, <3>1, Zenon
  <2> QED BY <2>1, <2>2, <2>3, BootNumbers
<1>4. CASE WifiFailed
  <2>1. /\ AnnounceFailure("WIFI_RETRIES_FAILED") /\ UNCHANGED phase /\ boot = "waiting"
        /\ boot' = "delay" /\ "FAILED_BIT" \in bits
    BY <1>4 DEF WifiFailed, Failed
  <2>2. "WIFI_RETRIES_FAILED" \in Failures \cap StationMessages
    BY DEF Failures, StationMessages
  <2>3. EarlyInv' /\ HeardInv' /\ TimerInv'
    BY <2>1, <2>2, AnnounceStep
  <2>4. StationInv'
    BY <1>1, <1>3, <2>1 DEF StationInv
  <2>5. LedInv'
    <3>1. <<"WIFI_RETRIES_FAILED">> \in Seq(Messages)
      BY DEF Messages, Lights
    <3> QED BY <1>1, <2>1, <3>1, PostType DEF AnnounceFailure
  <2>6. BootTypeOK'
    BY <1>1, <1>2, <1>3, <2>1, <2>5 DEF BootTypeOK, LedInv, WifiInv
  <2> QED BY <1>2, <2>3, <2>4, <2>5, <2>6 DEF BootInv
<1>5. CASE VpnFailed
  <2>1. /\ AnnounceFailure("TAILSCALE_FAILED") /\ phase' = "vpn_failed" /\ phase = "vpn"
        /\ UNCHANGED boot
    BY <1>5 DEF VpnFailed, vars
  <2>2. "TAILSCALE_FAILED" \in Failures
    BY DEF Failures
  <2>3. EarlyInv' /\ HeardInv' /\ TimerInv'
    BY <2>1, <2>2, AnnounceStep
  <2>4. StationInv'
    BY <1>1, <1>3, <2>1 DEF StationInv
  <2>5. LedInv'
    <3>1. <<"TAILSCALE_FAILED">> \in Seq(Messages)
      BY DEF Messages, Lights
    <3> QED BY <1>1, <2>1, <3>1, PostType DEF AnnounceFailure
  <2>6. BootTypeOK'
    BY <1>1, <1>2, <1>3, <2>1, <2>5 DEF BootTypeOK, LedInv, WifiInv
  <2> QED BY <1>2, <2>3, <2>4, <2>5, <2>6 DEF BootInv
<1> QED BY <1>4, <1>5

\* The ESP32 restarts.
LEMMA RebootStep ==
    ASSUME BootInv, Restarting \/ HandlerPanics
    PROVE  BootInv'
<1>1. /\ esp_restart /\ UNCHANGED drops /\ phase' = "wifi_init" /\ unheard' = FALSE
      /\ LedReset /\ UNCHANGED <<rebootIn, posts>>
  BY DEF Restarting, HandlerPanics, Restart
<1>2. BootTypeOK /\ WifiInv
  BY DEF BootInv
<1>3. WifiInv' /\ bits' = {} /\ boot' = "waiting"
  BY <1>1, <1>2, RestartStep
<1>4. EarlyInv' /\ HeardInv' /\ TimerInv' /\ LedInv'
  BY <1>1, <1>3, ResetStep
<1>5. StationInv'
  BY <1>1, <1>3 DEF StationInv
<1>6. unheard' \in BOOLEAN
  BY <1>1
<1>7. BootTypeOK'
  BY <1>1, <1>2, <1>3, <1>4, <1>6 DEF BootTypeOK, LedInv, WifiInv
<1> QED BY <1>3, <1>4, <1>5, <1>7 DEF BootInv

\* The tasks that serve a client post.
LEMMA ServingStep ==
    ASSUME BootInv, TaskPost
    PROVE  BootInv'
<1>1. BootTypeOK /\ WifiInv /\ StationInv /\ LedInv
  BY DEF BootInv, BootTypeOK
<1>2. PICK m \in Serving : Post(<<m>>)
  BY DEF TaskPost
<1>3. /\ phase = "returned" /\ posts' = posts + 1 /\ UNCHANGED <<vars, phase, rebootIn, unheard>>
  BY DEF TaskPost
<1>4. WifiInv' /\ UNCHANGED <<boot, bits, radio>>
  BY <1>1, <1>3, WifiNext DEF vars
<1>5. boot # "delay" /\ boot' # "delay" /\ phase' # "wifi_init"
  BY <1>1, <1>3, <1>4 DEF StationInv
<1> DEFINE ms == <<m>>
<1>6. ms \in Seq(Messages) /\ \A j \in 1..Len(ms) : ms[j] \notin Failures
  <2>1. m \in Messages /\ m \notin Failures
    BY DEF Serving, Messages, Lights, Failures
  <2> QED BY <2>1
<1>7. Post(ms)
  BY <1>2
<1> HIDE DEF ms
<1>8. LedInv'
  BY <1>1, <1>6, <1>7, PostType
<1>9. EarlyInv' /\ HeardInv' /\ TimerInv'
  BY <1>3, <1>5, <1>6, <1>7, QuietPost DEF Post
<1>10. StationInv'
  BY <1>1, <1>3, <1>4 DEF StationInv
<1>11. BootTypeOK'
  BY <1>1, <1>3, <1>4, <1>8 DEF BootTypeOK, LedInv, WifiInv
<1> QED BY <1>4, <1>8, <1>9, <1>10, <1>11 DEF BootInv

\* The LED runs, or time passes.
LEMMA LedStep ==
    ASSUME BootInv, Led \/ Tick
    PROVE  BootInv'
<1>1. BootTypeOK /\ WifiInv /\ StationInv /\ LedInv
  BY DEF BootInv, BootTypeOK
<1>2. UNCHANGED <<vars, phase, unheard, posts>> /\ rebootIn' \in Nat
  BY <1>1 DEF Led, Tick, BootTypeOK
<1>3. WifiInv' /\ UNCHANGED <<boot, bits, radio>>
  BY <1>1, <1>2, WifiNext DEF vars
<1>4. StationInv'
  BY <1>1, <1>2, <1>3 DEF StationInv
<1>5. LedInv' /\ EarlyInv' /\ HeardInv' /\ TimerInv'
  <2>1. CASE Led /\ Receive
    <3>1. UNCHANGED <<boot, phase, rebootIn>>
      BY <1>3, <2>1 DEF Led
    <3> QED BY <1>1, <2>1, <3>1, ReceiveEffect, ReceiveStep
  <2>2. CASE Led /\ TimesOut
    <3>1. UNCHANGED <<boot, phase, rebootIn>>
      BY <1>3, <2>2 DEF Led
    <3> QED BY <1>1, <2>2, <3>1, TimesOutEffect, TimesOutStep
  <2>3. CASE Tick
    <3>1. LedInv'
      BY <1>1, <2>3, TickLed DEF Tick
    <3> QED BY <2>3, <3>1, TickStep
  <2> QED BY <2>1, <2>2, <2>3 DEF Led, status_led_task
<1>6. BootTypeOK'
  BY <1>1, <1>2, <1>3, <1>5 DEF BootTypeOK, LedInv, WifiInv
<1> QED BY <1>3, <1>4, <1>5, <1>6 DEF BootInv

\* Power-on.
LEMMA BootInvInit == BootInit => BootInv
<1> SUFFICES ASSUME BootInit PROVE BootInv
  OBVIOUS
<1>1. WifiInv /\ bits = {} /\ boot = "waiting" /\ phase = "wifi_init"
  BY WifiInit DEF BootInit, Init
<1>2. /\ statusQ = <<>> /\ lit = {} /\ waited = 0 /\ delay = Dark /\ owed = Dark
      /\ rebootIn = 0 /\ posts = 0
  BY DEF BootInit, LedInit
<1>3. unheard \in BOOLEAN
  BY DEF BootInit
<1>4. \A c \in Colors : delay[c] = 0 /\ owed[c] = 0
  BY <1>2 DEF Dark
<1>5. LedInv
  BY <1>2, <1>4, StatusAssumption DEF LedInv, LedTypeOK, LitHasTimer, OwedInv, Dark
<1>6. BootTypeOK
  BY <1>1, <1>2, <1>3, <1>5 DEF BootTypeOK, LedInv, WifiInv
<1>7. StationInv
  BY <1>1 DEF StationInv
<1>8. EarlyInv
  BY <1>2, <1>4, BootNumbers DEF EarlyInv
<1>9. HeardInv /\ TimerInv
  BY <1>1, <1>2, <1>4 DEF HeardInv, TimerInv, Running
<1> QED BY <1>1, <1>5, <1>6, <1>7, <1>8, <1>9 DEF BootInv

\* Every step of the start-up keeps the invariant.
LEMMA BootInvNext == BootInv /\ [BootNext]_bootVars => BootInv'
<1> SUFFICES ASSUME BootInv, [BootNext]_bootVars PROVE BootInv'
  OBVIOUS
<1>1. CASE UNCHANGED bootVars
  <2>1. UNCHANGED <<vars, statusQ, delay, lit, waited, owed, phase, rebootIn, unheard, posts>>
    BY <1>1 DEF bootVars, ledVars
  <2>2. WifiInv' /\ UNCHANGED <<boot, bits, radio>>
    BY <2>1, WifiNext DEF vars, BootInv
  <2>3. LedInv'
    BY <2>1 DEF BootInv, BootTypeOK, LedInv, LedTypeOK, LitHasTimer, OwedInv
  <2>4. BootTypeOK'
    BY <2>1, <2>2, <2>3 DEF BootInv, BootTypeOK, LedInv, WifiInv
  <2>5. StationInv'
    BY <2>1, <2>2 DEF BootInv, StationInv
  <2>6. EarlyInv' /\ HeardInv' /\ TimerInv'
    BY <2>1, <2>2 DEF BootInv, EarlyInv, HeardInv, TimerInv
  <2> QED BY <2>2, <2>3, <2>4, <2>5, <2>6 DEF BootInv
<1>2. CASE BootNext
  BY <1>2, StationStep, UpStep, FailedStep, RebootStep, ServingStep, LedStep
     DEF BootNext, app_main
<1> QED BY <1>1, <1>2

-------------------------------------------------------------------------------
(* Results *)

\* The LED's queue stays within its depth, its timers are never negative, and
\* app_main, the handler and the station stay within their states.
THEOREM BootTypeCorrect == BootSpec => []BootTypeOK
<1>1. BootInv => BootTypeOK
  BY DEF BootInv
<1> QED BY <1>1, BootInvInit, BootInvNext, PTL DEF BootSpec

\* No colour is on without a timer to put it out.
THEOREM LitHasTimerAlways == BootSpec => []LitHasTimer
<1>1. BootInv => LitHasTimer
  BY DEF BootInv, LedInv
<1> QED BY <1>1, BootInvInit, BootInvNext, PTL DEF BootSpec

\* A light asked for is on until its time has passed.
THEOREM ShownInFullAlways == BootSpec => []ShownInFull
<1>1. BootInv => ShownInFull
  BY DEF BootInv, LedInv, OwedInv, ShownInFull
<1> QED BY <1>1, BootInvInit, BootInvNext, PTL DEF BootSpec

\* The retry counter counts the ends of the list, restarts from other causes
\* included.
THEOREM BootCyclesAlways == BootSpec => []CyclesBeforeRetry
<1>1. BootInv => CyclesBeforeRetry
  BY DEF BootInv, WifiInv
<1> QED BY <1>1, BootInvInit, BootInvNext, PTL DEF BootSpec

\* The station gives up only with FAILED_BIT set, restarts from other causes
\* included.
THEOREM BootNoSilentGiveUp == BootSpec => []NoSilentGiveUp
<1>1. BootInv => NoSilentGiveUp
  BY DEF BootInv, WifiInv
<1> QED BY <1>1, BootInvInit, BootInvNext, PTL DEF BootSpec

\* app_main restarts the ESP32 only when the LED has taken the announcement of
\* the failure, and after the last network failed only when it has shown it.
THEOREM ShownBeforeRestartAlways == BootSpec => ShownBeforeRestart
<1>1. ASSUME BootInv, Restarting
      PROVE  /\ \A i \in 1..Len(statusQ) : statusQ[i] \notin Failures
             /\ boot = "delay" => lit = {}
  <2>1. rebootIn = 0
    BY <1>1 DEF Restarting
  <2>2. \A i \in 1..Len(statusQ) : statusQ[i] \notin Failures
    BY <1>1, <2>1, BootNumbers DEF BootInv, HeardInv
  <2>3. boot = "delay" => lit = {}
    BY <1>1, <2>1, DueIsDark
  <2> QED BY <2>2, <2>3
<1>2. BootInv /\ [BootNext]_bootVars =>
          [Restarting => \/ unheard
                         \/ /\ \A i \in 1..Len(statusQ) :
                                   statusQ[i] \notin {"WIFI_RETRIES_FAILED", "TAILSCALE_FAILED"}
                            /\ boot = "delay" => lit = {}]_bootVars
  BY <1>1 DEF Failures
<1> QED BY <1>2, BootInvInit, BootInvNext, PTL DEF BootSpec, ShownBeforeRestart

===============================================================================
