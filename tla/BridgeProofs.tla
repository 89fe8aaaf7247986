----------------------------- MODULE BridgeProofs -----------------------------
(***************************************************************************)
(* AsyncPty reports every change of the terminal's settings, for every set *)
(* of settings and any number of application calls; and the whole          *)
(* connection uses the PTY as AsyncPty assumes, so that the same holds of  *)
(* it.                                                                     *)
(***************************************************************************)
EXTENDS Bridge, ConnectionTaskProofs, TLAPS

Changes == [baudrate : Nat, data_bits : 5..8, parity : 0..2, stop_bits : 1..2,
            hw_flow_ctl : BOOLEAN]

-------------------------------------------------------------------------------
(* The settings *)

\* Two terminals that check_termios_change takes for equal have the same
\* settings as the device knows them: no change is overlooked.
THEOREM EqualMeansSameSettings ==
    ASSUME NEW a \in Termios, NEW b \in Termios, ~check_termios_change(a, b)
    PROVE  get_termios_change(a) = get_termios_change(b)
BY DEF check_termios_change, get_termios_change, Termios

LEMMA ChangeTyped ==
    ASSUME NEW t \in Termios
    PROVE  get_termios_change(t) \in Changes
<1>1. DOMAIN DataBits = {"CS5", "CS6", "CS7", "CS8"}
    BY DEF DataBits
<1>2. DataBits[t.csize] \in 5..8
    BY <1>1 DEF DataBits, Termios
<1>3. speed_to_u32(t.ispeed) \in Nat
    BY DEF speed_to_u32, Termios
<1>4. t.parenb \in BOOLEAN /\ t.parodd \in BOOLEAN /\ t.cstopb \in BOOLEAN /\ t.crtscts \in BOOLEAN
    BY DEF Termios
<1> QED BY <1>2, <1>3, <1>4 DEF get_termios_change, Changes

-------------------------------------------------------------------------------
(* The inductive invariant *)

LEMMA PtyInvInit == new => PtyInv
<1> SUFFICES ASSUME new PROVE PtyInv
    OBVIOUS
<1>1. PtyTypeOK
    <2>1. InitialLine \in Lines
        BY PtyAssumption
    <2>2. ptyIn \in Seq(PtyPackets) /\ ptyData \in Seq(Nat) /\ reports \in Seq(Changes)
        BY DEF new
    <2> QED BY <2>1, <2>2 DEF new, PtyTypeOK, Changes
<1>2. Reported = get_termios_change(current_tio)
    BY DEF new, Reported
<1> QED BY <1>1, <1>2 DEF PtyInv, new, check_termios_change

LEMMA AppendLast ==
    ASSUME NEW S, NEW q \in Seq(S), NEW x
    PROVE  /\ Append(q, x) # <<>>
           /\ Len(Append(q, x)) = Len(q) + 1
           /\ Append(q, x)[Len(q) + 1] = x
OBVIOUS

LEMMA ReturnTyped ==
    ASSUME ptyIn \in Seq(PtyPackets), NEW k \in {"Data", "Config", "ControlMessage"},
           NEW i \in Nat, Return(k, i)
    PROVE  ptyIn' \in Seq(PtyPackets)
BY DEF Return, PtyPackets

\* What a comparison leaves behind, from any of the reader's steps that ends in it.
LEMMA CompareKeeps ==
    ASSUME PtyTypeOK, Reported = get_termios_change(current_tio), Compare
    PROVE  /\ ptyIn' \in Seq(PtyPackets) /\ current_tio' \in Lines /\ reports' \in Seq(Changes)
           /\ rd' = "readv"
           /\ Reported' = get_termios_change(current_tio')
           /\ ~check_termios_change(current_tio', tio.line)
<1> USE DEF Changes
<1>0. /\ reports \in Seq(Changes) /\ ptyIn \in Seq(PtyPackets) /\ tio.line \in Lines
      /\ current_tio \in Lines /\ tio.line \in Termios
    BY PtyAssumption DEF PtyTypeOK
<1>1. CASE check_termios_change(current_tio, tio.line)
    <2>1. /\ current_tio' = tio.line /\ rd' = "readv"
          /\ reports' = Append(reports, get_termios_change(tio.line))
          /\ Return("Config", Len(reports) + 1)
        BY <1>1 DEF Compare
    <2>2. reports' \in Seq(Changes)
        BY <2>1, <1>0, ChangeTyped
    <2>3. Len(reports) + 1 \in Nat
        BY <1>0
    <2>4. ptyIn' \in Seq(PtyPackets)
        BY <1>0, <2>1, <2>3, ReturnTyped
    <2>5. reports' # <<>> /\ reports'[Len(reports')] = get_termios_change(tio.line)
        BY <1>0, <2>1, AppendLast
    <2>6. Reported' = get_termios_change(current_tio')
        BY <2>1, <2>5 DEF Reported
    <2>7. ~check_termios_change(current_tio', tio.line)
        BY <2>1 DEF check_termios_change
    <2> QED BY <1>0, <2>1, <2>2, <2>4, <2>6, <2>7
<1>2. CASE ~check_termios_change(current_tio, tio.line)
    <2>1. rd' = "readv" /\ UNCHANGED <<ptyIn, current_tio, reports>>
        BY <1>2 DEF Compare
    <2>2. Reported' = get_termios_change(current_tio')
        BY <2>1 DEF Reported
    <2> QED BY <1>0, <1>2, <2>1, <2>2
<1> QED BY <1>1, <1>2

LEMMA PtyInvNext == PtyInv /\ [PtyNext]_asyncPtyVars => PtyInv'
<1> SUFFICES ASSUME PtyInv, [PtyNext]_asyncPtyVars PROVE PtyInv'
    OBVIOUS
<1> USE DEF PtyInv
<1>0. Reported = get_termios_change(current_tio) /\ PtyTypeOK
    OBVIOUS
<1>r. UNCHANGED <<current_tio, reports>> => Reported' = get_termios_change(current_tio')
    BY DEF Reported
<1>1. CASE ReadIoctl
    BY <1>1, <1>r DEF ReadIoctl, PtyTypeOK, appVars
<1>2. CASE ReadOther
    <2>1. ptyIn' \in Seq(PtyPackets)
        BY <1>2, ReturnTyped DEF ReadOther, PtyTypeOK
    <2> QED BY <1>2, <1>r, <2>1 DEF ReadOther, PtyTypeOK, readerVars, appVars
<1>3. CASE ReadData
    <2>1. Head(ptyData) \in Nat /\ ptyData' \in Seq(Nat)
        BY <1>3 DEF ReadData, PtyTypeOK
    <2>2. ptyIn' \in Seq(PtyPackets)
        BY <1>3, <2>1, ReturnTyped DEF ReadData, PtyTypeOK
    <2> QED BY <1>3, <1>r, <2>1, <2>2 DEF ReadData, PtyTypeOK, readerVars, appVars
<1>4. CASE Tcgetattr
    <2>1. CASE tio.extproc
        <3>1. Compare /\ UNCHANGED <<kernelVars, snap, appVars>>
            BY <1>4, <2>1 DEF Tcgetattr
        <3> QED BY <2>1, <3>1, CompareKeeps DEF PtyTypeOK, kernelVars, appVars, Changes,
                   check_termios_change
    <2>2. CASE ~tio.extproc
        BY <1>4, <2>2, <1>r DEF Tcgetattr, PtyTypeOK, kernelVars, appVars
    <2> QED BY <2>1, <2>2
<1>5. CASE ExtprocGet
    BY <1>5, <1>r DEF ExtprocGet, PtyTypeOK, kernelVars, appVars
<1>6. CASE ExtprocSet
    BY <1>6, <1>r DEF ExtprocSet, PtyTypeOK, appVars
<1>7. CASE Refresh
    <2>1. Compare /\ UNCHANGED <<kernelVars, snap, appVars>> /\ rd = "refresh"
        BY <1>7 DEF Refresh
    <2> QED BY <2>1, CompareKeeps DEF PtyTypeOK, kernelVars, appVars, Changes,
               check_termios_change
<1>8. CASE Application
    <2>1. CASE \E l \in Lines, e \in BOOLEAN : SetAttr(l, e)
        BY <2>1, <1>r DEF SetAttr, PtyTypeOK, readerVars
    <2>2. CASE AppWriteChunk
        BY <2>2, <1>r DEF AppWriteChunk, PtyTypeOK, readerVars
    <2>3. CASE AppOther
        BY <2>3, <1>r DEF AppOther, PtyTypeOK, readerVars
    <2> QED BY <1>8, <2>1, <2>2, <2>3 DEF Application
<1>9. CASE Handle
    BY <1>9, <1>r DEF Handle, PtyTypeOK, kernelVars, readerVars, appVars
<1>10. CASE UNCHANGED asyncPtyVars
    BY <1>10, <1>r DEF asyncPtyVars, PtyTypeOK, kernelVars, readerVars, appVars
<1> QED BY <1>1, <1>2, <1>3, <1>4, <1>5, <1>6, <1>7, <1>8, <1>9, <1>10
        DEF PtyNext, read, Readv, AfterReadv

LEMMA PtyInvNoMissed == PtyInv => NoMissedChange
<1> SUFFICES ASSUME PtyInv, rd = "readv", "IOCTL" \notin pktStatus
             PROVE  Reported = get_termios_change(tio.line)
    BY DEF NoMissedChange
<1>1. current_tio \in Termios /\ tio.line \in Termios
    BY PtyAssumption DEF PtyInv, PtyTypeOK
<1> QED BY <1>1, EqualMeansSameSettings DEF PtyInv

-------------------------------------------------------------------------------
(* AsyncPty by itself *)

THEOREM PtyInvariant == PtySpec => []PtyInv
<1> QED BY PtyInvInit, PtyInvNext, PTL DEF PtySpec

-------------------------------------------------------------------------------
(* The connection *)

\* Every step of the connection is a step of AsyncPty's specification or leaves
\* the PTY alone: the select! calls read() again only after its result was
\* handled, and handles each result once.
THEOREM ConnectionUsesPty == BridgeSpec => PtySpec
<1>1. BridgeInit => new
    BY DEF BridgeInit
<1>2. [BridgeNext]_bridgeVars => [PtyNext]_asyncPtyVars
    <2> SUFFICES ASSUME [BridgeNext]_bridgeVars PROVE [PtyNext]_asyncPtyVars
        OBVIOUS
    <2>1. CASE ReadStarts
        BY <2>1 DEF ReadStarts, PtyNext, read
    <2>2. CASE ReadGoesOn
        BY <2>2 DEF ReadGoesOn, PtyNext, read
    <2>3. CASE TaskStep
        <3>1. UNCHANGED <<kernelVars, readerVars, appVars>>
            BY <2>3 DEF TaskStep
        <3>2. PtyArm => ptyIn' = ptyIn \/ (ptyIn # <<>> /\ ptyIn' = Tail(ptyIn))
            BY DEF PtyArm, PtyMessage, PtyControlMessage, PtyReadError, ptyVars
        <3>3. conn_task /\ ptyIn = <<>> => ptyIn' = ptyIn
            <4> SUFFICES ASSUME conn_task, ptyIn = <<>> PROVE ptyIn' = ptyIn
                OBVIOUS
            <4>1. ShutdownSignal \/ CtlArm \/ EventSent => ptyIn' = ptyIn
                BY DEF ShutdownSignal, CtlArm, CtlStatus, CtlHardwareRefused, CtlHardware,
                       CtlClosed, EventSent, ptyVars
            <4>2. TcpArm \/ SendDone \/ WriteEnds => ptyIn' = ptyIn
                BY DEF TcpArm, TcpData, TcpControlRes, TcpUnexpected, TcpDisconnected,
                       SendDone, SendOk, SendDisconnected, SendCtlOk, SendCtlDisconnected,
                       WriteEnds, WriteDone, WriteError, ptyVars
            <4>3. SleepDone \/ ConnectEnds \/ ResyncArm => ptyIn' = ptyIn
                BY DEF SleepDone, ConnectEnds, ConnectOk, ConnectFailed, ResyncArm, ResyncOk,
                       ResyncDisconnected, ptyVars
            <4> QED BY <3>2, <4>1, <4>2, <4>3 DEF conn_task, step
        <3>4. ptyIn' = ptyIn \/ (ptyIn # <<>> /\ ptyIn' = Tail(ptyIn))
            BY <2>3, <3>2, <3>3 DEF TaskStep
        <3> QED BY <3>1, <3>4 DEF PtyNext, Handle, asyncPtyVars
    <2>4. CASE HandleDropped
        BY <2>4 DEF HandleDropped, shutdown, ptyVars, asyncPtyVars
    <2>5. CASE Types
        BY <2>5 DEF Types, PtyNext
    <2>6. CASE DeviceTakes \/ Breaks \/ DeviceRestarts
        BY <2>6 DEF DeviceTakes, DeviceRead, Breaks, LinkFail, DeviceRestarts, ptyVars,
                    asyncPtyVars
    <2>7. CASE UNCHANGED bridgeVars
        BY <2>7 DEF bridgeVars
    <2> QED BY <2>1, <2>2, <2>3, <2>4, <2>5, <2>6, <2>7 DEF BridgeNext
<1> QED BY <1>1, <1>2, PTL DEF BridgeSpec, PtySpec

\* The reader's state is well-formed in every state of the connection.
THEOREM PtyTypeCorrect == BridgeSpec => []PtyTypeOK
<1>1. PtyInv => PtyTypeOK
    BY DEF PtyInv
<1> QED BY <1>1, ConnectionUsesPty, PtyInvariant, PTL

\* No change of the settings is missed: a read that waits with no TIOCPKT_IOCTL
\* to come has reported the settings the terminal has.
THEOREM NoChangeMissed == BridgeSpec => []NoMissedChange
BY ConnectionUsesPty, PtyInvariant, PtyInvNoMissed, PTL

\* The daemon overwrites no setting of an application that leaves EXTPROC alone.
THEOREM SettingsKept == BridgeSpec => []SettingKept
<1>1. PtyInv => SettingKept
    BY DEF PtyInv, SettingKept
<1> QED BY <1>1, ConnectionUsesPty, PtyInvariant, PTL

-------------------------------------------------------------------------------
(* What is on the way to the device *)

Packets == [kind : {"Data", "Config", "ControlReq", "ControlMessage"}, id : Nat]

\* The front of a path is gone.
LEMMA PathDrop ==
    ASSUME NEW a \in Seq(Packets), NEW b \in Seq(Packets), NEW n, NEW s, Orderly(a \o b, n, s)
    PROVE  /\ Orderly(b, n, s) /\ (Recent(b, s) => Recent(a \o b, s))
           /\ HasConfig(a \o b) <=> HasConfig(a) \/ HasConfig(b)
<1> DEFINE q == a \o b
           k == Len(a)
<1>1. q \in Seq(Packets) /\ k \in Nat /\ Len(b) \in Nat /\ Len(q) = k + Len(b)
  OBVIOUS
<1>2. (\A i \in 1..k : q[i] = a[i]) /\ (\A i \in 1..Len(b) : q[k + i] = b[i])
  OBVIOUS
<1>3. Orderly(q, n, s)
  OBVIOUS
<1> HIDE DEF q, k
<1>4. \A i \in 1..Len(b) : LastFrom(b, i) <=> LastFrom(q, k + i)
  <2>1. SUFFICES ASSUME NEW i \in 1..Len(b) PROVE LastFrom(b, i) <=> LastFrom(q, k + i)
    OBVIOUS
  <2>2. ASSUME LastFrom(b, i), NEW j \in (k + i + 1)..Len(q) PROVE q[j].kind # "Config"
    <3>1. j - k \in (i + 1)..Len(b) /\ j - k \in 1..Len(b) /\ q[k + (j - k)] = b[j - k]
          /\ k + (j - k) = j
      BY <1>1, <1>2
    <3> QED BY <2>2, <3>1 DEF LastFrom
  <2>3. ASSUME LastFrom(q, k + i), NEW j \in (i + 1)..Len(b) PROVE b[j].kind # "Config"
    <3>1. k + j \in (k + i + 1)..Len(q) /\ q[k + j] = b[j]
      BY <1>1, <1>2
    <3> QED BY <2>3, <3>1 DEF LastFrom
  <2> QED BY <2>2, <2>3 DEF LastFrom
<1>5. \A i \in 1..Len(b) : k + i \in 1..Len(q) /\ q[k + i] = b[i]
  BY <1>1, <1>2
<1>6. Orderly(b, n, s)
  BY <1>3, <1>4, <1>5 DEF Orderly
<1>7. Recent(b, s) => Recent(q, s)
  BY <1>5 DEF Recent
<1>8. HasConfig(q) <=> HasConfig(a) \/ HasConfig(b)
  <2>1. HasConfig(b) => HasConfig(q)
    BY <1>5 DEF HasConfig
  <2>2. HasConfig(a) => HasConfig(q)
    BY <1>1, <1>2 DEF HasConfig, k
  <2>3. ASSUME NEW i \in 1..Len(q), q[i].kind = "Config" PROVE HasConfig(a) \/ HasConfig(b)
    <3>1. CASE i <= k
      <4>1. i \in 1..Len(a) /\ a[i].kind = "Config"
        BY <1>1, <1>2, <2>3, <3>1 DEF k
      <4> QED BY <4>1 DEF HasConfig
    <3>2. CASE ~(i <= k)
      <4>1. i - k \in 1..Len(b) /\ k + (i - k) = i
        BY <1>1, <3>2
      <4>2. b[i - k] = q[i]
        BY <1>2, <4>1
      <4> QED BY <2>3, <4>1, <4>2 DEF HasConfig
    <3> QED BY <3>1, <3>2
  <2>4. HasConfig(q) => HasConfig(a) \/ HasConfig(b)
    BY <2>3 DEF HasConfig
  <2> QED BY <2>1, <2>2, <2>4
<1> QED BY <1>6, <1>7, <1>8 DEF q

\* Positions of a path with one more message.
LEMMA PathAppend ==
    ASSUME NEW q \in Seq(Packets), NEW m \in Packets
    PROVE  LET t == Append(q, m) IN
           /\ t \in Seq(Packets) /\ Len(q) \in Nat /\ Len(t) = Len(q) + 1
           /\ \A i \in 1..Len(q) : i \in 1..Len(t) /\ t[i] = q[i]
           /\ t[Len(q) + 1] = m /\ Len(q) + 1 \in 1..Len(t) /\ LastFrom(t, Len(q) + 1)
           /\ \A i \in 1..Len(t) : i \in 1..Len(q) \/ i = Len(q) + 1
           /\ \A i \in 1..Len(q) :
                  LastFrom(t, i) <=> LastFrom(q, i) /\ m.kind # "Config"
           /\ HasConfig(t) <=> HasConfig(q) \/ m.kind = "Config"
           /\ \A s : Recent(t, s) <=> Recent(q, s) \/ (m.kind = "Data" /\ m.id = s)
<1> DEFINE t == Append(q, m)
           k == Len(q)
<1>1. t \in Seq(Packets) /\ k \in Nat /\ Len(t) = k + 1
  OBVIOUS
<1>2. (\A i \in 1..k : i \in 1..Len(t) /\ t[i] = q[i]) /\ t[k + 1] = m /\ k + 1 \in 1..Len(t)
  OBVIOUS
<1> HIDE DEF t
<1>3. \A i \in 1..Len(t) : i \in 1..k \/ i = k + 1
  BY <1>1
<1>4. LastFrom(t, k + 1)
  BY <1>1 DEF LastFrom
<1>5. ASSUME NEW i \in 1..k PROVE LastFrom(t, i) <=> LastFrom(q, i) /\ m.kind # "Config"
  <2>1. \A j \in (i + 1)..Len(t) : j \in (i + 1)..k \/ j = k + 1
    BY <1>1
  <2>2. (\A j \in (i + 1)..k : j \in (i + 1)..Len(t) /\ t[j] = q[j]) /\ k + 1 \in (i + 1)..Len(t)
    BY <1>1, <1>2
  <2> QED BY <1>2, <2>1, <2>2 DEF LastFrom
<1>6. HasConfig(t) <=> HasConfig(q) \/ m.kind = "Config"
  BY <1>2, <1>3 DEF HasConfig
<1>7. \A s : Recent(t, s) <=> Recent(q, s) \/ (m.kind = "Data" /\ m.id = s)
  BY <1>2, <1>3 DEF Recent
<1> QED BY <1>1, <1>2, <1>3, <1>4, <1>5, <1>6, <1>7 DEF t

\* A message that is no Config joins the path, ...
LEMMA PathMore ==
    ASSUME NEW q \in Seq(Packets), NEW m \in Packets, NEW n, NEW s \in Nat, Orderly(q, n, s),
           m.kind # "Config", m.kind = "Data" => m.id <= s
    PROVE  Orderly(Append(q, m), n, s)
<1> DEFINE t == Append(q, m)
<1>1. /\ \A i \in 1..Len(q) : t[i] = q[i]
      /\ t[Len(q) + 1] = m /\ LastFrom(t, Len(q) + 1)
      /\ \A i \in 1..Len(t) : i \in 1..Len(q) \/ i = Len(q) + 1
      /\ \A i \in 1..Len(q) : LastFrom(t, i) <=> LastFrom(q, i)
  BY PathAppend
<1> HIDE DEF t
<1>2. Orderly(t, n, s)
  BY <1>1 DEF Orderly
<1> QED BY <1>2 DEF t

\* ... or is taken off its end.
LEMMA PathLess ==
    ASSUME NEW q \in Seq(Packets), NEW m \in Packets, NEW n, NEW s,
           Orderly(Append(q, m), n, s), m.kind # "Config"
    PROVE  Orderly(q, n, s)
<1> DEFINE t == Append(q, m)
<1>1. /\ \A i \in 1..Len(q) : i \in 1..Len(t) /\ t[i] = q[i]
      /\ \A i \in 1..Len(q) : LastFrom(t, i) <=> LastFrom(q, i)
  BY PathAppend
<1>2. Orderly(t, n, s)
  OBVIOUS
<1> HIDE DEF t
<1> QED BY <1>1, <1>2 DEF Orderly

\* A new report joins a path with no chunk written since the last tcsetattr.
LEMMA PathReport ==
    ASSUME NEW q \in Seq(Packets), NEW m \in Packets, NEW n, NEW s, NEW k, Orderly(q, n, s),
           ~Recent(q, s), m.kind = "Config", m.id = k
    PROVE  Orderly(Append(q, m), k, s)
<1> DEFINE t == Append(q, m)
<1>1. /\ \A i \in 1..Len(q) : t[i] = q[i]
      /\ t[Len(q) + 1] = m
      /\ \A i \in 1..Len(t) : i \in 1..Len(q) \/ i = Len(q) + 1
      /\ \A i \in 1..Len(q) : ~LastFrom(t, i)
  BY PathAppend
<1> HIDE DEF t
<1>2. Orderly(t, k, s)
  BY <1>1 DEF Orderly, Recent
<1> QED BY <1>2 DEF t

\* The application sets the terminal again.
LEMMA PathSet ==
    ASSUME NEW q \in Seq(Packets), NEW n, NEW s \in Nat, Orderly(q, n, s)
    PROVE  Orderly(q, n, s + 1) /\ ~Recent(q, s + 1)
<1>1. \A i \in 1..Len(q) : q[i].id \in Nat
  <2>1. \A i \in 1..Len(q) : q[i] \in Packets
    OBVIOUS
  <2> QED BY <2>1 DEF Packets
<1>2. \A i \in 1..Len(q) : q[i].kind = "Data" => q[i].id <= s + 1 /\ q[i].id # s + 1
  BY <1>1 DEF Orderly
<1> QED BY <1>2 DEF Orderly, Recent

-------------------------------------------------------------------------------
(* The connection task in the composition *)

\* The parts of the path.
LEMMA PathType ==
    ASSUME DataInv
    PROVE  /\ toDev \in Seq(Packets) /\ InFlight \in Seq(Packets) /\ ptyIn \in Seq(Packets)
           /\ Path \in Seq(Packets)
<1>1. TypeOK
  BY DEF DataInv
<1>2. DeviceMessages \subseteq Packets /\ PtyPackets \subseteq Packets
  BY DEF DeviceMessages, PtyPackets, Packets
<1>3. toDev \in Seq(Packets) /\ ptyIn \in Seq(Packets)
  BY <1>1, <1>2 DEF TypeOK
<1>4. InFlight \in Seq(DeviceMessages)
  <2>1. pending \in Seq(DeviceMessages) /\ lost \in Seq(DeviceMessages)
        /\ (pc = "send" => arg \in Seq(DeviceMessages))
    BY <1>1 DEF TypeOK, Option, Some
  <2> QED BY <2>1 DEF InFlight
<1>5. InFlight \in Seq(Packets)
  BY <1>2, <1>4
<1> QED BY <1>3, <1>5 DEF Path

PathOK == Path \in Seq(Packets)

LEMMA PathTypedNext == DataInv' => PathOK'
<1>1. DataInv => PathOK
  BY PathType DEF PathOK
<1> QED BY <1>1, PTL

\* The invariant of the data path holds in the composition too.
LEMMA DataBridge ==
    ASSUME DataInv, PtyTypeOK', [BridgeNext]_bridgeVars
    PROVE  DataInv'
<1>1. CASE ReadStarts \/ ReadGoesOn \/ Types
  <2>1. UNCHANGED connRest /\ ptyIn' \in Seq(PtyPackets)
    BY <1>1 DEF ReadStarts, ReadGoesOn, Types, PtyTypeOK
  <2>2. TypeOK'
    BY <2>1 DEF DataInv, TypeOK, connRest, connVars, ctlVars, netVars, hist, counters
  <2>3. Control' /\ SessionMatchesState'
    BY <2>1 DEF DataInv, Control, SessionMatchesState, connRest, connVars, ctlVars
  <2>4. NothingDropped'
    BY <2>1 DEF DataInv, NothingDropped, InFlight, connRest, connVars, hist
  <2> QED BY <2>2, <2>3, <2>4 DEF DataInv
<1>2. CASE TaskStep \/ HandleDropped \/ DeviceTakes \/ Breaks
  <2>1. Next
    BY <1>2 DEF TaskStep, HandleDropped, DeviceTakes, Breaks, Next, conn_task, step, Environment
  <2> QED BY <2>1, DataNext
<1>3. CASE DeviceRestarts
  <2>1. /\ UNCHANGED <<taskVars, ptyVars, toDev, toHost, typed, emitted>>
        /\ linkUp' = FALSE /\ failures' = failures + 1
    BY <1>3 DEF DeviceRestarts
  <2>2. TypeOK'
    <3>0. failures \in Nat
      BY DEF DataInv, TypeOK
    <3>a. failures' = failures + 1 /\ linkUp' = FALSE
      BY <2>1
    <3>b. failures' \in Nat
      BY <3>0, <3>a
    <3>1. failures' \in Nat /\ linkUp' \in BOOLEAN
      BY <3>a, <3>b, Zenon
    <3>2. /\ state' = state /\ backoff' = backoff /\ pending' = pending /\ pc' = pc
          /\ arg' = arg /\ pending_hw_ctl' = pending_hw_ctl /\ framed' = framed
          /\ ctlQ' = ctlQ /\ reply' = reply /\ handle' = handle /\ ptyIn' = ptyIn
          /\ ptyOut' = ptyOut /\ ptyOk' = ptyOk /\ toDev' = toDev /\ toHost' = toHost
          /\ consumed' = consumed /\ sent' = sent /\ lost' = lost /\ typed' = typed
          /\ emitted' = emitted
      BY <2>1 DEF taskVars, ptyVars, connVars, ctlVars, hist
    <3> QED BY <3>1, <3>2 DEF DataInv, TypeOK
  <2>3. Control' /\ SessionMatchesState'
    BY <2>1 DEF DataInv, Control, SessionMatchesState, taskVars, connVars, ctlVars
  <2>4. NothingDropped'
    BY <2>1 DEF DataInv, NothingDropped, InFlight, taskVars, connVars, hist
  <2> QED BY <2>2, <2>3, <2>4 DEF DataInv
<1>4. CASE UNCHANGED bridgeVars
  BY <1>4, DataNext DEF bridgeVars
<1> QED BY <1>1, <1>2, <1>3, <1>4 DEF BridgeNext

\* How a step of the task may move the path: not at all, by dropping the messages
\* of a lost session, by a control request, or by a byte that is only logged.
Moved ==
    \/ Path' = Path
    \/ Path' = InFlight \o ptyIn /\ framed /\ ~framed'
    \/ \E m \in Packets : m.kind = "ControlReq" /\ Path' = Append(Path, m)
    \/ \E m \in Packets : m.kind = "ControlMessage" /\ Path = Append(Path', m)

\* The rest of BridgeInv after a step of the task.
Placed ==
    /\ ptyOk' /\ Len(ptyIn') <= 1
    /\ ptyIn' # <<>> => AtSelect("Connected")'
    /\ state' = "Reconnecting" => toDev' = <<>>

LEMMA PathKept ==
    ASSUME toDev' = toDev, InFlight' = InFlight, ptyIn' = ptyIn
    PROVE  Path' = Path
BY DEF Path

\* The steps that leave the path alone.
LEMMA StillSteps ==
    ASSUME DataInv, BridgeInv, ptyIn = <<>>,
           \/ ShutdownSignal \/ CtlStatus \/ CtlHardwareRefused \/ CtlHardware \/ CtlClosed
           \/ TcpData \/ TcpControlRes \/ TcpUnexpected \/ WriteDone \/ SleepDone
           \/ ConnectFailed \/ EventSent
    PROVE  Moved /\ Placed
<1>1. ptyOk /\ (state = "Reconnecting" => toDev = <<>>) /\ Control /\ Len(<<>>) = 0
  BY DEF BridgeInv, DataInv
<1>2. ptyIn' = ptyIn /\ ptyOk' = ptyOk /\ toDev' = toDev
  BY DEF ShutdownSignal, CtlStatus, CtlHardwareRefused, CtlHardware, CtlClosed, EnterShutdown,
         TcpData, TcpControlRes, TcpUnexpected, WriteDone, SleepDone, ConnectFailed, EventSent,
         ptyVars, netVars
<1>3. state' = "Reconnecting" => state = "Reconnecting"
  BY DEF ShutdownSignal, CtlStatus, CtlHardwareRefused, CtlHardware, CtlClosed, EnterShutdown,
         TcpData, TcpControlRes, TcpUnexpected, WriteDone, SleepDone, ConnectFailed, EventSent,
         Suspend, BackToSelect, connVars
<1>4. InFlight' = InFlight
  <2>1. CASE ShutdownSignal \/ CtlClosed
    BY <2>1 DEF ShutdownSignal, CtlClosed, EnterShutdown, Running, InFlight
  <2>2. CASE CtlStatus \/ CtlHardwareRefused \/ TcpControlRes \/ TcpUnexpected
    BY <2>2 DEF CtlStatus, CtlHardwareRefused, TcpControlRes, TcpUnexpected, InFlight,
                connVars, hist
  <2>3. CASE CtlHardware \/ TcpData \/ WriteDone \/ SleepDone
    BY <2>3 DEF CtlHardware, TcpData, WriteDone, SleepDone, BackToSelect, Suspend, AtSelect,
                InFlight, connVars, hist
  <2>4. CASE ConnectFailed
    BY <2>4 DEF ConnectFailed, InFlight, hist
  <2>5. CASE EventSent
    BY <2>5 DEF EventSent, InFlight, connVars, hist
  <2> QED BY <2>1, <2>2, <2>3, <2>4, <2>5
<1>5. Path' = Path
  BY <1>2, <1>4, PathKept
<1> QED BY <1>1, <1>2, <1>3, <1>5 DEF Moved, Placed

\* The steps that send a message or lose the session.
LEMMA MovingSteps ==
    ASSUME DataInv, BridgeInv, ptyIn = <<>>,
           \/ TcpDisconnected \/ SendOk \/ SendDisconnected \/ SendCtlOk \/ SendCtlDisconnected
           \/ ConnectOk \/ ResyncOk \/ ResyncDisconnected
    PROVE  Moved /\ Placed
<1>1. ptyOk /\ (state = "Reconnecting" => toDev = <<>>) /\ Control /\ SessionMatchesState /\ TypeOK
  BY DEF BridgeInv, DataInv
<1>2. ptyIn' = ptyIn /\ ptyOk' = ptyOk
  BY DEF TcpDisconnected, SendOk, SendDisconnected, SendCtlOk, SendCtlDisconnected, ConnectOk,
         ResyncOk, ResyncDisconnected, ptyVars
<1>3. /\ toDev \in Seq(Packets) /\ InFlight \in Seq(Packets) /\ Path = toDev \o InFlight
      /\ \A q \in Seq(Packets) : q \o <<>> = q /\ <<>> \o q = q
  BY PathType DEF Path
<1>4. Path' = toDev' \o InFlight' \o <<>>
  BY <1>2 DEF Path
<1>5. Len(<<>>) = 0
  OBVIOUS
<1>6. CASE TcpDisconnected \/ SendDisconnected \/ SendCtlDisconnected \/ ResyncDisconnected
  <2>1. framed
    BY <1>1, <1>6 DEF TcpDisconnected, SendDisconnected, SendCtlDisconnected, ResyncDisconnected,
                      AtSelect, Control, SessionMatchesState
  <2>2. framed' = FALSE /\ toDev' = <<>>
    BY <1>6 DEF TcpDisconnected, SendDisconnected, SendCtlDisconnected, ResyncDisconnected,
                EnterReconnecting, DropFramed
  <2>3. InFlight' = InFlight
    <3>1. CASE TcpDisconnected
      BY <1>1, <3>1 DEF TcpDisconnected, EnterReconnecting, AtSelect, Control, InFlight
    <3>2. CASE SendDisconnected
      BY <3>2 DEF SendDisconnected, EnterReconnecting, InFlight
    <3>3. CASE SendCtlDisconnected
      BY <1>1, <3>3 DEF SendCtlDisconnected, EnterReconnecting, Control, InFlight
    <3>4. CASE ResyncDisconnected
      BY <3>4 DEF ResyncDisconnected, EnterReconnecting, AtSelect, InFlight
    <3> QED BY <1>6, <3>1, <3>2, <3>3, <3>4
  <2>4. Path' = InFlight \o ptyIn
    BY <1>3, <1>4, <2>2, <2>3
  <2> QED BY <1>1, <1>2, <1>5, <2>1, <2>2, <2>4 DEF Moved, Placed
<1>7. CASE SendOk
  <2>1. /\ toDev' = toDev \o arg /\ InFlight = arg /\ InFlight' = <<>>
        /\ state = "Connected" /\ state' = state
    BY <1>1, <1>7 DEF SendOk, BackToSelect, Suspend, Control, InFlight, connVars
  <2>2. Path' = Path
    BY <1>3, <1>4, <2>1
  <2> QED BY <1>1, <1>2, <1>5, <2>1, <2>2 DEF Moved, Placed
<1>8. CASE ResyncOk
  <2>1. /\ toDev' = toDev \o pending /\ InFlight = pending /\ InFlight' = <<>>
        /\ state' = "Connected"
    BY <1>1, <1>8 DEF ResyncOk, AtSelect, InFlight
  <2>2. Path' = Path
    BY <1>3, <1>4, <2>1
  <2> QED BY <1>1, <1>2, <1>5, <2>1, <2>2 DEF Moved, Placed
<1>9. CASE SendCtlOk
  <2> DEFINE m == [kind |-> "ControlReq", id |-> Head(arg)]
  <2>1. /\ toDev' = Append(toDev, m) /\ InFlight = <<>> /\ InFlight' = <<>>
        /\ state = "Connected" /\ state' = state
    BY <1>1, <1>9 DEF SendCtlOk, BackToSelect, Suspend, Control, InFlight, connVars
  <2>2. m \in Packets /\ m.kind = "ControlReq"
    <3>1. arg \in Some(HwReqs) /\ HwReqs \subseteq Nat
      BY <1>1, <1>9, ConnectionAssumption DEF SendCtlOk, TypeOK
    <3>2. Head(arg) \in HwReqs
      BY <3>1, SomeCases
    <3> QED BY <3>1, <3>2 DEF Packets
  <2> HIDE DEF m
  <2>3. Path = toDev /\ Append(toDev, m) \in Seq(Packets)
    BY <1>3, <2>1, <2>2
  <2>4. Path' = Append(Path, m)
    BY <1>3, <1>4, <2>1, <2>3
  <2> QED BY <1>1, <1>2, <1>5, <2>1, <2>2, <2>4 DEF Moved, Placed
<1>10. CASE ConnectOk
  <2>1. state = "Reconnecting" /\ ~framed /\ toDev = <<>>
    BY <1>1, <1>10 DEF ConnectOk, Control, SessionMatchesState
  <2>2. toDev' = toDev /\ state' # "Reconnecting"
    BY <1>10, <2>1 DEF ConnectOk
  <2>3. InFlight' = InFlight
    BY <1>10, <2>1 DEF ConnectOk, InFlight
  <2>4. Path' = Path
    BY <1>2, <2>2, <2>3, PathKept
  <2> QED BY <1>1, <1>2, <1>5, <2>2, <2>4 DEF Moved, Placed
<1> QED BY <1>6, <1>7, <1>8, <1>9, <1>10

LEMMA TaskMoves ==
    ASSUME DataInv, BridgeInv, TaskStep
    PROVE  Moved /\ Placed
<1>1. CASE ptyIn = <<>>
  <2>1. conn_task /\ ptyOk
    BY <1>1 DEF TaskStep, BridgeInv
  <2>2. ~PtyArm /\ ~WriteError
    BY <1>1, <2>1 DEF PtyArm, PtyMessage, PtyControlMessage, PtyReadError, WriteError
  <2> QED BY <1>1, <2>1, <2>2, StillSteps, MovingSteps
          DEF conn_task, step, CtlArm, TcpArm, SendDone, WriteEnds, ConnectEnds, ResyncArm
<1>2. CASE ptyIn # <<>>
  <2> DEFINE h == Head(ptyIn)
  <2>1. PtyArm /\ ptyOk /\ AtSelect("Connected") /\ Len(ptyIn) <= 1 /\ Control
    BY <1>2 DEF TaskStep, BridgeInv, DataInv
  <2>2. /\ ptyIn \in Seq(Packets) /\ toDev \in Seq(Packets)
        /\ \A q \in Seq(Packets) : q \o <<>> = q
    BY PathType
  <2>3. h \in Packets /\ ptyIn = <<h>> /\ Tail(ptyIn) = <<>>
    <3>1. Len(ptyIn) \in Nat /\ Len(ptyIn) # 0 /\ Len(ptyIn) <= 1
      BY <1>2, <2>1, <2>2
    <3>2. Len(ptyIn) = 1
      <4>1. \A k \in Nat : k # 0 /\ k <= 1 => k = 1
        OBVIOUS
      <4> QED BY <3>1, <4>1
    <3>3. h = ptyIn[1] /\ ptyIn[1] \in Packets
      BY <2>2, <3>2
    <3>4. ptyIn = <<ptyIn[1]>>
      BY <2>2, <3>2
    <3>5. Len(Tail(ptyIn)) = 0 /\ Tail(ptyIn) \in Seq(Packets)
      BY <1>2, <2>2, <3>2
    <3>6. Tail(ptyIn) = <<>>
      <4>1. \A q \in Seq(Packets) : Len(q) = 0 => q = <<>>
        OBVIOUS
      <4> QED BY <3>5, <4>1
    <3> QED BY <3>3, <3>4, <3>6
  <2>4. InFlight = <<>>
    BY <2>1 DEF AtSelect, Control, InFlight
  <2>5. Path = Append(toDev, h)
    <3>1. Path = toDev \o <<h>>
      BY <2>2, <2>3, <2>4 DEF Path
    <3> QED BY <2>2, <2>3, <3>1
  <2>6. Len(<<>>) = 0
    OBVIOUS
  <2>7. CASE PtyMessage
    <3>1. /\ ptyIn' = <<>> /\ toDev' = toDev /\ InFlight' = <<h>> /\ ptyOk' = ptyOk
          /\ state' = "Connected"
      BY <2>1, <2>3, <2>7 DEF PtyMessage, Suspend, AtSelect, InFlight, netVars, connVars
    <3>2. Path' = (toDev \o <<h>>) \o <<>>
      BY <3>1 DEF Path
    <3>3. Path' = Path
      BY <2>2, <2>3, <2>5, <3>2
    <3> QED BY <2>1, <2>6, <3>1, <3>3 DEF Moved, Placed
  <2>8. CASE PtyControlMessage
    <3>1. /\ ptyIn' = <<>> /\ toDev' = toDev /\ InFlight' = InFlight /\ ptyOk' = ptyOk
          /\ state' = "Connected" /\ h.kind = "ControlMessage"
      BY <2>1, <2>3, <2>8 DEF PtyControlMessage, AtSelect, InFlight, netVars, connVars, hist
    <3>2. Path' = (toDev \o <<>>) \o <<>>
      BY <2>4, <3>1 DEF Path
    <3>3. Path' = toDev
      BY <2>2, <3>2
    <3>4. h \in Packets /\ h.kind = "ControlMessage" /\ Path = Append(Path', h)
      BY <2>3, <2>5, <3>1, <3>3
    <3> HIDE DEF h
    <3>5. Moved
      BY <3>4 DEF Moved
    <3> QED BY <2>1, <2>6, <3>1, <3>5 DEF Placed
  <2> QED BY <2>1, <2>7, <2>8 DEF PtyArm, PtyReadError
<1> QED BY <1>1, <1>2

-------------------------------------------------------------------------------
(* Data meets its settings *)

\* The parts of BridgeInv that concern the path.
PathInv ==
    /\ Orderly(Path, Len(reports), sets) /\ (Recent(Path, sets) => Quiet)
    /\ ~HasConfig(Path) /\ ConfigStands => devConfig = <<reports[Len(reports)]>>

LEMMA TaskInv ==
    ASSUME DataInv, DataInv', PtyInv, BridgeInv, TaskStep
    PROVE  BridgeInv'
<1>1. Moved /\ Placed
  BY TaskMoves
<1>2. /\ UNCHANGED <<kernelVars, readerVars, appVars, devConfig>> /\ rd = "readv"
      /\ forgotten' = (forgotten \/ (framed /\ ~framed' /\ HasConfig(toDev)))
  BY DEF TaskStep
<1>3. /\ reports' = reports /\ sets' = sets /\ devConfig' = devConfig /\ rd' = rd
      /\ ptyData' = ptyData /\ (Quiet' <=> Quiet)
  BY <1>2 DEF kernelVars, readerVars, appVars, Quiet
<1>4. PathInv /\ Path \in Seq(Packets) /\ Path' \in Seq(Packets) /\ sets \in Nat
  <2>1. PathInv /\ Path \in Seq(Packets) /\ sets \in Nat
    BY PathType DEF BridgeInv, PathInv, PtyInv, PtyTypeOK
  <2>2. Path' \in Seq(Packets)
    BY PathTypedNext DEF PathOK
  <2> QED BY <2>1, <2>2
<1>5. ConfigStands' => ConfigStands
  BY <1>2, <1>3 DEF ConfigStands
<1>6. PathInv'
  <2> DEFINE p == Path
             t == Path'
             n == Len(reports)
  <2> SUFFICES /\ Orderly(t, n, sets) /\ (Recent(t, sets) => Recent(p, sets))
               /\ ~HasConfig(t) /\ ConfigStands' => ~HasConfig(p)
    BY <1>3, <1>4, <1>5 DEF PathInv
  <2>1. /\ Orderly(p, n, sets) /\ p \in Seq(Packets) /\ t \in Seq(Packets)
    BY <1>4 DEF PathInv
  <2>2. CASE Path' = Path
    BY <2>1, <2>2
  <2>3. CASE Path' = InFlight \o ptyIn /\ framed /\ ~framed'
    <3> DEFINE a == toDev
               b == InFlight \o ptyIn
    <3>1. a \in Seq(Packets) /\ b \in Seq(Packets) /\ p = a \o b /\ t = b
      <4>1. InFlight \in Seq(Packets) /\ ptyIn \in Seq(Packets) /\ toDev \in Seq(Packets)
        BY PathType
      <4>2. (toDev \o InFlight) \o ptyIn = toDev \o (InFlight \o ptyIn)
        BY <4>1
      <4> QED BY <2>3, <4>1, <4>2 DEF Path
    <3>2. ConfigStands' => ~HasConfig(a)
      BY <1>2, <2>3 DEF ConfigStands
    <3> HIDE DEF a, b, p, t
    <3>3. Orderly(a \o b, n, sets)
      BY <2>1, <3>1
    <3>4. /\ Orderly(b, n, sets) /\ (Recent(b, sets) => Recent(a \o b, sets))
          /\ HasConfig(a \o b) <=> HasConfig(a) \/ HasConfig(b)
      BY <3>1, <3>3, PathDrop
    <3> QED BY <3>1, <3>2, <3>4
  <2>4. CASE \E m \in Packets : m.kind = "ControlReq" /\ Path' = Append(Path, m)
    <3>1. PICK m \in Packets : m.kind = "ControlReq" /\ t = Append(p, m)
      BY <2>4
    <3> HIDE DEF p, t, n
    <3>2. Orderly(t, n, sets)
      BY <1>4, <2>1, <3>1, PathMore
    <3>3. (HasConfig(t) <=> HasConfig(p)) /\ (Recent(t, sets) => Recent(p, sets))
      BY <2>1, <3>1, PathAppend
    <3> QED BY <3>2, <3>3
  <2>5. CASE \E m \in Packets : m.kind = "ControlMessage" /\ Path = Append(Path', m)
    <3>1. PICK m \in Packets : m.kind = "ControlMessage" /\ p = Append(t, m)
      BY <2>5
    <3> HIDE DEF p, t, n
    <3>2. Orderly(t, n, sets)
      BY <2>1, <3>1, PathLess
    <3>3. (HasConfig(p) <=> HasConfig(t)) /\ (Recent(t, sets) => Recent(p, sets))
      BY <2>1, <3>1, PathAppend
    <3> QED BY <3>2, <3>3
  <2> QED BY <1>1, <2>2, <2>3, <2>4, <2>5 DEF Moved
<1>7. \A i \in 1..Len(ptyData') : ptyData'[i] <= sets'
  BY <1>3 DEF BridgeInv
<1> QED BY <1>1, <1>2, <1>3, <1>6, <1>7 DEF BridgeInv, PathInv, Placed

\* A step that changes neither the path nor what it carries.
LEMMA StillInv ==
    ASSUME BridgeInv, UNCHANGED <<state, pc, arg, pending, lost, toDev, ptyIn, ptyOk>>,
           UNCHANGED <<kernelVars, readerVars, appVars>>,
           ConfigStands' => ConfigStands /\ devConfig' = devConfig
    PROVE  BridgeInv'
<1>1. /\ state' = state /\ pc' = pc /\ toDev' = toDev /\ ptyIn' = ptyIn /\ ptyOk' = ptyOk
      /\ reports' = reports /\ sets' = sets /\ rd' = rd /\ ptyData' = ptyData
      /\ pktStatus' = pktStatus
  BY DEF kernelVars, readerVars, appVars
<1>2. Path' = Path
  BY DEF Path, InFlight
<1>3. Quiet' <=> Quiet
  BY <1>1 DEF Quiet
<1>4. PathInv'
  BY <1>1, <1>2, <1>3 DEF BridgeInv, PathInv
<1> QED BY <1>1, <1>4 DEF BridgeInv, PathInv, AtSelect

\* The device takes a message.
LEMMA DeviceInv ==
    ASSUME DataInv, PtyInv, BridgeInv, DeviceTakes
    PROVE  BridgeInv'
<1> DEFINE h == Head(toDev)
           b == Tail(toDev) \o InFlight \o ptyIn
           n == Len(reports)
<1>1. /\ toDev # <<>> /\ toDev' = Tail(toDev) /\ UNCHANGED <<taskVars, ptyVars>>
      /\ devConfig' = IF h.kind = "Config" THEN <<reports[h.id]>> ELSE devConfig
      /\ forgotten' = (forgotten /\ h.kind # "Config")
      /\ UNCHANGED <<kernelVars, readerVars, appVars>>
  BY DEF DeviceTakes, DeviceRead
<1>2. /\ state' = state /\ pc' = pc /\ ptyIn' = ptyIn /\ ptyOk' = ptyOk
      /\ reports' = reports /\ sets' = sets /\ rd' = rd /\ ptyData' = ptyData
      /\ (Quiet' <=> Quiet) /\ InFlight' = InFlight
  BY <1>1 DEF taskVars, ptyVars, kernelVars, readerVars, appVars, connVars, hist, Quiet, InFlight
<1>3. /\ toDev \in Seq(Packets) /\ InFlight \in Seq(Packets) /\ ptyIn \in Seq(Packets)
      /\ sets \in Nat
  BY PathType DEF PtyInv, PtyTypeOK
<1>4. Path' = b
  BY <1>1, <1>2 DEF Path
<1>5. h \in Packets /\ b \in Seq(Packets) /\ <<h>> \in Seq(Packets)
  BY <1>1, <1>3
<1>6. Path = <<h>> \o b
  <2>1. toDev = <<h>> \o Tail(toDev) /\ Tail(toDev) \in Seq(Packets)
    BY <1>1, <1>3
  <2>2. ((<<h>> \o Tail(toDev)) \o InFlight) \o ptyIn = <<h>> \o b
    <3> DEFINE x == <<h>>
               y == Tail(toDev)
               z == InFlight
               w == ptyIn
               v == y \o z
    <3>1. x \in Seq(Packets) /\ y \in Seq(Packets) /\ z \in Seq(Packets) /\ w \in Seq(Packets)
      BY <1>3, <1>5, <2>1
    <3> HIDE DEF x, y, z, w
    <3>2. (x \o y) \o z = x \o v /\ v \in Seq(Packets)
      BY <3>1
    <3> HIDE DEF v
    <3>3. (x \o v) \o w = x \o (v \o w)
      BY <3>1, <3>2
    <3>4. ((x \o y) \o z) \o w = x \o (v \o w)
      BY <3>2, <3>3
    <3> QED BY <3>4 DEF x, y, z, w, v
  <2> QED BY <2>1, <2>2 DEF Path
<1> HIDE DEF b, h
<1>7. PathInv
  BY DEF BridgeInv, PathInv
<1>8. Orderly(<<h>> \o b, n, sets)
  BY <1>6, <1>7 DEF PathInv
<1>9. /\ Orderly(b, n, sets) /\ (Recent(b, sets) => Recent(Path, sets))
      /\ HasConfig(Path) <=> HasConfig(<<h>>) \/ HasConfig(b)
  BY <1>5, <1>6, <1>8, PathDrop
<1>10. HasConfig(<<h>>) <=> h.kind = "Config"
  <2>1. Len(<<h>>) = 1 /\ <<h>>[1] = h /\ 1 \in 1..1 /\ \A i \in 1..1 : i = 1
    OBVIOUS
  <2> QED BY <2>1 DEF HasConfig
<1>11. ~HasConfig(b) /\ h.kind = "Config" => h.id = n
  <2> DEFINE q == <<h>> \o b
  <2>1. /\ Len(b) \in Nat /\ Len(q) = 1 + Len(b) /\ q[1] = h
        /\ \A i \in 1..Len(b) : q[1 + i] = b[i]
    BY <1>5
  <2>2. Orderly(q, n, sets)
    BY <1>8
  <2> HIDE DEF q
  <2>3. 1 \in 1..Len(q)
    BY <2>1
  <2>4. ASSUME ~HasConfig(b) PROVE LastFrom(q, 1)
    <3>1. SUFFICES ASSUME NEW j \in (1 + 1)..Len(q) PROVE q[j].kind # "Config"
      BY DEF LastFrom
    <3>2. j - 1 \in 1..Len(b) /\ 1 + (j - 1) = j
      BY <2>1
    <3>3. q[j] = b[j - 1]
      BY <2>1, <3>2
    <3> QED BY <2>4, <3>2, <3>3 DEF HasConfig
  <2> QED BY <2>1, <2>2, <2>3, <2>4 DEF Orderly
<1>12. ~HasConfig(b) /\ ConfigStands' => devConfig' = <<reports[n]>>
  <2>1. CASE h.kind = "Config"
    BY <1>1, <1>11, <2>1
  <2>2. CASE h.kind # "Config"
    <3>1. devConfig' = devConfig /\ (forgotten' <=> forgotten)
      BY <1>1, <2>2
    <3>2. ConfigStands' => ConfigStands
      BY <1>2, <3>1 DEF ConfigStands
    <3> QED BY <1>7, <1>9, <1>10, <2>2, <3>1, <3>2 DEF PathInv
  <2> QED BY <2>1, <2>2
<1>13. PathInv'
  BY <1>2, <1>4, <1>7, <1>9, <1>12 DEF PathInv
<1>14. state' = "Reconnecting" => toDev' = <<>>
  BY <1>1, <1>2 DEF BridgeInv
<1> QED BY <1>2, <1>13, <1>14 DEF BridgeInv, PathInv, AtSelect

\* The application sets the terminal, writes, or has other events posted.
LEMMA ApplicationInv ==
    ASSUME DataInv, PtyInv, BridgeInv, Types
    PROVE  BridgeInv'
<1>1. Application /\ UNCHANGED <<connRest, deviceVars>>
  BY DEF Types
<1>2. ptyIn' = ptyIn /\ UNCHANGED readerVars
  BY <1>1 DEF Application, SetAttr, AppWriteChunk, AppOther
<1>3. /\ state' = state /\ pc' = pc /\ toDev' = toDev /\ ptyOk' = ptyOk /\ InFlight' = InFlight
      /\ reports' = reports /\ rd' = rd /\ devConfig' = devConfig /\ forgotten' = forgotten
      /\ (ConfigStands' <=> ConfigStands)
  BY <1>1, <1>2 DEF connRest, connVars, netVars, hist, deviceVars, readerVars, InFlight,
                    ConfigStands
<1>4. Path' = Path
  BY <1>2, <1>3, PathKept
<1>5. PathInv /\ Path \in Seq(Packets) /\ sets \in Nat /\ ptyData \in Seq(Nat)
  BY PathType DEF BridgeInv, PathInv, PtyInv, PtyTypeOK
<1>6. /\ Orderly(Path, Len(reports), sets') /\ (Recent(Path, sets') => Quiet')
      /\ \A i \in 1..Len(ptyData') : ptyData'[i] <= sets'
  <2>1. CASE \E l \in Lines, e \in BOOLEAN : SetAttr(l, e)
    <3>1. sets' = sets + 1 /\ ptyData' = ptyData
      BY <2>1 DEF SetAttr
    <3>2. Orderly(Path, Len(reports), sets + 1) /\ ~Recent(Path, sets + 1)
      BY <1>5, PathSet DEF PathInv
    <3>3. \A i \in 1..Len(ptyData) : ptyData[i] <= sets + 1
      <4>1. \A i \in 1..Len(ptyData) : ptyData[i] \in Nat /\ ptyData[i] <= sets
        BY <1>5 DEF BridgeInv
      <4> QED BY <1>5, <4>1
    <3> QED BY <3>1, <3>2, <3>3
  <2>2. CASE AppWriteChunk
    <3>1. sets' = sets /\ ptyData' = Append(ptyData, sets) /\ (Quiet' <=> Quiet)
      BY <1>3, <2>2 DEF AppWriteChunk, Quiet
    <3>2. \A i \in 1..Len(ptyData) : ptyData[i] <= sets
      BY DEF BridgeInv
    <3>3. \A i \in 1..Len(Append(ptyData, sets)) : Append(ptyData, sets)[i] <= sets
      BY <1>5, <3>2
    <3> QED BY <1>5, <3>1, <3>3 DEF PathInv
  <2>3. CASE AppOther
    <3>1. sets' = sets /\ ptyData' = ptyData /\ (Quiet' <=> Quiet)
      BY <1>3, <2>3 DEF AppOther, Quiet
    <3> QED BY <1>5, <3>1 DEF PathInv, BridgeInv
  <2> QED BY <1>1, <2>1, <2>2, <2>3 DEF Application
<1>7. PathInv'
  BY <1>3, <1>4, <1>5, <1>6 DEF PathInv
<1> QED BY <1>2, <1>3, <1>6, <1>7 DEF BridgeInv, PathInv, AtSelect

\* A result of read() joins the path.
LEMMA ReturnPath ==
    ASSUME DataInv, ptyIn = <<>>, UNCHANGED connRest,
           NEW k \in {"Data", "Config", "ControlMessage"}, NEW i \in Nat, Return(k, i)
    PROVE  LET m == [kind |-> k, id |-> i] IN
           m \in Packets /\ ptyIn' = <<m>> /\ Path' = Append(Path, m)
<1> DEFINE m == [kind |-> k, id |-> i]
           x == toDev \o InFlight
<1>1. m \in Packets
  BY DEF Packets
<1>2. ptyIn' = Append(<<>>, m)
  BY DEF Return
<1>3. x \in Seq(Packets) /\ Path = x \o <<>>
  BY PathType DEF Path
<1>4. toDev' = toDev /\ InFlight' = InFlight
  BY DEF connRest, connVars, netVars, hist, InFlight
<1> HIDE DEF m
<1>5. ptyIn' = <<m>>
  BY <1>2
<1>6. Path' = x \o <<m>>
  BY <1>4, <1>5 DEF Path
<1> HIDE DEF x
<1>7. Path' = Append(Path, m)
  BY <1>1, <1>3, <1>6
<1> QED BY <1>1, <1>5, <1>7 DEF m

\* What a step of read() leaves alone.
LEMMA ReadFrame ==
    ASSUME UNCHANGED <<connRest, deviceVars, appVars>>
    PROVE  /\ state' = state /\ pc' = pc /\ toDev' = toDev /\ ptyOk' = ptyOk
           /\ InFlight' = InFlight /\ devConfig' = devConfig /\ forgotten' = forgotten
           /\ sets' = sets
BY DEF connRest, connVars, netVars, hist, deviceVars, appVars, InFlight

\* readv returns.
LEMMA ReadStartsInv ==
    ASSUME DataInv, PtyInv, BridgeInv, ReadStarts
    PROVE  BridgeInv'
<1> DEFINE n == Len(reports)
<1>1. /\ AtSelect("Connected") /\ ptyIn = <<>> /\ UNCHANGED connRest /\ UNCHANGED deviceVars
      /\ Readv
  BY DEF ReadStarts
<1>2. UNCHANGED appVars /\ reports' = reports /\ rd = "readv"
  BY <1>1 DEF Readv, ReadIoctl, ReadOther, ReadData, readerVars
<1>3. /\ state' = state /\ pc' = pc /\ toDev' = toDev /\ ptyOk' = ptyOk
      /\ InFlight' = InFlight /\ devConfig' = devConfig /\ forgotten' = forgotten
      /\ sets' = sets
  BY <1>1, <1>2, ReadFrame
<1>4. PathInv /\ Path \in Seq(Packets) /\ sets \in Nat /\ ptyData \in Seq(Nat)
  BY PathType DEF BridgeInv, PathInv, PtyInv, PtyTypeOK
<1>5. /\ AtSelect("Connected")' /\ (ConfigStands' <=> ConfigStands)
      /\ \A i \in 1..Len(ptyData) : ptyData[i] \in Nat /\ ptyData[i] <= sets
  BY <1>1, <1>2, <1>3, <1>4 DEF AtSelect, ConfigStands, BridgeInv
<1>6. Len(<<>>) = 0 /\ \A m : Len(<<m>>) = 1
  OBVIOUS
<1>7. CASE ReadIoctl
  <2>1. ptyIn' = ptyIn /\ ptyData' = ptyData /\ ~Quiet
    BY <1>7 DEF ReadIoctl, Quiet
  <2>2. Path' = Path
    BY <1>3, <2>1, PathKept
  <2>3. PathInv'
    BY <1>2, <1>3, <1>4, <1>5, <2>1, <2>2 DEF PathInv
  <2> QED BY <1>1, <1>3, <1>5, <1>6, <2>1, <2>3 DEF BridgeInv, PathInv
<1>8. CASE ReadOther
  <2> DEFINE m == [kind |-> "ControlMessage", id |-> 0]
  <2>1. Return("ControlMessage", 0) /\ ptyData' = ptyData /\ rd' = "readv" /\ Quiet'
    BY <1>2, <1>8 DEF ReadOther, Quiet, readerVars
  <2>2. m \in Packets /\ ptyIn' = <<m>> /\ Path' = Append(Path, m) /\ m.kind = "ControlMessage"
    BY <1>1, <2>1, ReturnPath
  <2> HIDE DEF m
  <2>3. Orderly(Append(Path, m), n, sets) /\ (HasConfig(Append(Path, m)) <=> HasConfig(Path))
    BY <1>4, <2>2, PathMore, PathAppend DEF PathInv
  <2>4. PathInv'
    BY <1>2, <1>3, <1>4, <1>5, <2>1, <2>2, <2>3 DEF PathInv
  <2> QED BY <1>1, <1>3, <1>5, <1>6, <2>1, <2>2, <2>4 DEF BridgeInv, PathInv
<1>9. CASE ReadData
  <2> DEFINE h == Head(ptyData)
             m == [kind |-> "Data", id |-> h]
  <2>1. /\ Return("Data", h) /\ ptyData # <<>> /\ ptyData' = Tail(ptyData) /\ rd' = "readv"
        /\ Quiet'
    BY <1>2, <1>9 DEF ReadData, Quiet, readerVars
  <2>2. /\ h \in Nat /\ h <= sets
        /\ \A i \in 1..Len(Tail(ptyData)) : Tail(ptyData)[i] <= sets
    <3>1. /\ h = ptyData[1] /\ Len(ptyData) \in Nat /\ 1 \in 1..Len(ptyData)
          /\ Len(Tail(ptyData)) = Len(ptyData) - 1
          /\ \A i \in 1..Len(Tail(ptyData)) : Tail(ptyData)[i] = ptyData[i + 1]
      BY <1>4, <2>1, HeadTail
    <3>2. \A i \in 1..Len(Tail(ptyData)) : i + 1 \in 1..Len(ptyData)
      BY <3>1
    <3> QED BY <1>5, <3>1, <3>2
  <2> HIDE DEF h
  <2>3. /\ m \in Packets /\ ptyIn' = <<m>> /\ Path' = Append(Path, m)
        /\ m.kind = "Data" /\ m.id = h
    BY <1>1, <2>1, <2>2, ReturnPath
  <2> HIDE DEF m
  <2>4. Orderly(Append(Path, m), n, sets) /\ (HasConfig(Append(Path, m)) <=> HasConfig(Path))
    BY <1>4, <2>2, <2>3, PathMore, PathAppend DEF PathInv
  <2>5. PathInv'
    BY <1>2, <1>3, <1>4, <1>5, <2>1, <2>3, <2>4 DEF PathInv
  <2>6. \A i \in 1..Len(ptyData') : ptyData'[i] <= sets'
    BY <1>3, <2>1, <2>2
  <2> QED BY <1>1, <1>3, <1>5, <1>6, <2>1, <2>3, <2>5, <2>6 DEF BridgeInv, PathInv
<1> QED BY <1>1, <1>7, <1>8, <1>9 DEF Readv

\* The reader compares what it has read with what it has reported.
LEMMA ReadGoesOnInv ==
    ASSUME DataInv, PtyInv, BridgeInv, ReadGoesOn
    PROVE  BridgeInv'
<1> DEFINE n == Len(reports)
<1>1. UNCHANGED connRest /\ UNCHANGED deviceVars /\ AfterReadv
  BY DEF ReadGoesOn
<1>2. UNCHANGED appVars /\ ptyData' = ptyData /\ rd # "readv"
  BY <1>1 DEF AfterReadv, Tcgetattr, ExtprocGet, ExtprocSet, Refresh, kernelVars
<1>3. /\ state' = state /\ pc' = pc /\ toDev' = toDev /\ ptyOk' = ptyOk
      /\ InFlight' = InFlight /\ devConfig' = devConfig /\ forgotten' = forgotten
      /\ sets' = sets
  BY <1>1, <1>2, ReadFrame
<1>4. /\ PathInv /\ Path \in Seq(Packets) /\ ~Recent(Path, sets)
      /\ reports \in Seq(Changes) /\ ptyIn = <<>>
  BY <1>2, PathType DEF BridgeInv, PathInv, Quiet, PtyInv, PtyTypeOK, Changes
<1>5. AtSelect("Connected")' /\ \A i \in 1..Len(ptyData') : ptyData'[i] <= sets'
  BY <1>2, <1>3 DEF AtSelect, BridgeInv
<1>6. Len(<<>>) = 0 /\ \A m : Len(<<m>>) = 1
  OBVIOUS
<1>7. CASE UNCHANGED <<ptyIn, reports>>
  <2>1. Path' = Path
    BY <1>3, <1>7, PathKept
  <2>2. ConfigStands' <=> ConfigStands
    BY <1>3, <1>7 DEF ConfigStands
  <2>3. PathInv'
    BY <1>3, <1>4, <1>7, <2>1, <2>2 DEF PathInv
  <2> QED BY <1>3, <1>4, <1>5, <1>6, <1>7, <2>3 DEF BridgeInv, PathInv
<1>8. CASE /\ rd' = "readv" /\ Return("Config", n + 1)
           /\ reports' = Append(reports, get_termios_change(tio.line))
  <2> DEFINE m == [kind |-> "Config", id |-> n + 1]
  <2>1. n + 1 \in Nat /\ Len(reports') = n + 1
    BY <1>4, <1>8
  <2>2. /\ m \in Packets /\ ptyIn' = <<m>> /\ Path' = Append(Path, m)
        /\ m.kind = "Config" /\ m.id = n + 1
    BY <1>1, <1>4, <1>8, <2>1, ReturnPath
  <2> HIDE DEF m
  <2>3. Orderly(Append(Path, m), n + 1, sets)
    BY <1>4, <2>2, PathReport DEF PathInv
  <2>4. HasConfig(Append(Path, m)) /\ ~Recent(Append(Path, m), sets)
    BY <1>4, <2>2, PathAppend
  <2>5. PathInv'
    BY <1>3, <2>1, <2>2, <2>3, <2>4 DEF PathInv
  <2> QED BY <1>3, <1>5, <1>6, <1>8, <2>2, <2>5 DEF BridgeInv, PathInv, AtSelect
<1> QED BY <1>1, <1>7, <1>8
        DEF AfterReadv, Tcgetattr, ExtprocGet, ExtprocSet, Refresh, Compare

\* The composition keeps its invariant.
LEMMA BridgeInvNext ==
    ASSUME DataInv, PtyInv, BridgeInv, DataInv', [BridgeNext]_bridgeVars
    PROVE  BridgeInv'
<1>1. CASE ReadStarts
  BY <1>1, ReadStartsInv
<1>2. CASE ReadGoesOn
  BY <1>2, ReadGoesOnInv
<1>3. CASE TaskStep
  BY <1>3, TaskInv
<1>4. CASE HandleDropped \/ Breaks \/ DeviceRestarts \/ UNCHANGED bridgeVars
  <2>1. /\ UNCHANGED <<state, pc, arg, pending, lost, toDev, ptyIn, ptyOk>>
        /\ UNCHANGED <<kernelVars, readerVars, appVars>>
    BY <1>4 DEF HandleDropped, shutdown, Breaks, LinkFail, DeviceRestarts, bridgeVars, vars,
                asyncPtyVars, taskVars, connVars, ptyVars, netVars, hist
  <2>2. ConfigStands' => ConfigStands /\ devConfig' = devConfig
    BY <1>4, <2>1 DEF HandleDropped, Breaks, DeviceRestarts, bridgeVars, deviceVars, readerVars,
                      ConfigStands
  <2> QED BY <2>1, <2>2, StillInv
<1>5. CASE Types
  BY <1>5, ApplicationInv
<1>6. CASE DeviceTakes
  BY <1>6, DeviceInv
<1> QED BY <1>1, <1>2, <1>3, <1>4, <1>5, <1>6 DEF BridgeNext

LEMMA BridgeInvInit ==
    ASSUME BridgeInit
    PROVE  BridgeInv
<1>1. /\ ptyIn = <<>> /\ ptyOk = TRUE /\ toDev = <<>> /\ pc = "select" /\ pending = <<>>
      /\ state = "Reconnecting" /\ rd = "readv" /\ ptyData = <<>> /\ reports = <<>>
  BY DEF BridgeInit, Init, new
<1>2. InFlight = <<>>
  BY <1>1 DEF InFlight
<1>3. <<>> \o <<>> \o <<>> = <<>> /\ Len(<<>>) = 0 /\ 1..0 = {}
  OBVIOUS
<1>4. Path = <<>>
  BY <1>1, <1>2, <1>3 DEF Path
<1>5. Orderly(Path, Len(reports), sets) /\ ~Recent(Path, sets)
  BY <1>3, <1>4 DEF Orderly, Recent
<1> QED BY <1>1, <1>3, <1>5 DEF BridgeInv, ConfigStands

\* Every state of the composition satisfies the invariants of its parts.
THEOREM BridgeInvAlways == BridgeSpec => [](DataInv /\ PtyInv /\ BridgeInv)
<1>1. BridgeInit => DataInv /\ BridgeInv
  BY DataInit, BridgeInvInit DEF BridgeInit
<1>2. PtyInv => PtyTypeOK
  BY DEF PtyInv
<1>3. DataInv /\ PtyTypeOK' /\ [BridgeNext]_bridgeVars => DataInv'
  BY DataBridge
<1>4. DataInv /\ PtyInv /\ BridgeInv /\ DataInv' /\ [BridgeNext]_bridgeVars => BridgeInv'
  BY BridgeInvNext
<1>5. BridgeSpec => []PtyInv
  BY ConnectionUsesPty, PtyInvariant, PTL
<1> QED BY <1>1, <1>2, <1>3, <1>4, <1>5, PTL DEF BridgeSpec

\* A chunk that the device takes, and that was written after the application's last
\* tcsetattr, meets the settings it was written under (DataMeetsItsSettings): for
\* every set of settings and any number of calls, failures and buffers.
THEOREM DataMeetsItsSettingsAlways == BridgeSpec => DataMeetsItsSettings
<1>1. ASSUME DataInv, PtyInv, BridgeInv, DeviceTakes, Head(toDev).kind = "Data",
             Head(toDev).id = sets, ConfigStands, tio.line = wanted
      PROVE  devConfig = <<get_termios_change(wanted)>>
  <2> DEFINE h == Head(toDev)
  <2>1. toDev # <<>>
    BY <1>1 DEF DeviceTakes, DeviceRead
  <2>2. toDev \in Seq(Packets) /\ InFlight \in Seq(Packets) /\ ptyIn \in Seq(Packets)
    BY <1>1, PathType
  <2>3. Len(Path) \in Nat /\ 1 \in 1..Len(Path) /\ Path[1] = h
    BY <2>1, <2>2 DEF Path
  <2>4. PathInv
    BY <1>1 DEF BridgeInv, PathInv
  <2>5. Recent(Path, sets) /\ LastFrom(Path, 1)
    BY <1>1, <2>3, <2>4 DEF Recent, PathInv, Orderly
  <2>6. ~HasConfig(Path)
    <3>1. \A i \in 1..Len(Path) : i = 1 \/ i \in (1 + 1)..Len(Path)
      BY <2>3
    <3> QED BY <1>1, <2>3, <2>5, <3>1 DEF LastFrom, HasConfig
  <2>7. devConfig = <<reports[Len(reports)]>>
    BY <1>1, <2>4, <2>6 DEF PathInv
  <2>8. Reported = get_termios_change(tio.line)
    BY <1>1, <2>4, <2>5, PtyInvNoMissed DEF PathInv, Quiet, NoMissedChange
  <2>9. Reported = reports[Len(reports)]
    BY <1>1 DEF Reported, ConfigStands
  <2> QED BY <1>1, <2>7, <2>8, <2>9
<1>2. DataInv /\ PtyInv /\ BridgeInv /\ [BridgeNext]_bridgeVars =>
          [(DeviceTakes /\ Head(toDev).kind = "Data" /\ Head(toDev).id = sets
            /\ ConfigStands /\ tio.line = wanted)
                => devConfig = <<get_termios_change(wanted)>>]_bridgeVars
  BY <1>1
<1> QED BY <1>2, BridgeInvAlways, PTL DEF BridgeSpec, DataMeetsItsSettings

===============================================================================
