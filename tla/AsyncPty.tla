------------------------------- MODULE AsyncPty -------------------------------
(***************************************************************************)
(* The PTY master in packet mode (daemon/src/async_pty.rs): how a read     *)
(* finds out that the application on the slave side changed its terminal   *)
(* settings.                                                               *)
(*                                                                         *)
(* read() suspends only at readable(); from readv to its return it runs    *)
(* without an .await, but the application is another process: it can set   *)
(* the terminal between any two of the reader's system calls, so each of   *)
(* these is a step.  The kernel's PTY is external and modelled as the code *)
(* relies on it: a status byte is read alone and before any data, and a    *)
(* tcsetattr posts TIOCPKT_IOCTL only if EXTPROC is set before or after it.*)
(***************************************************************************)
EXTENDS Naturals, Sequences, PtyPort

CONSTANTS
    Lines,          \* terminal settings the application uses
    InitialLine,    \* the settings of a fresh PTY
    MaxSets,        \* bound: tcsetattr calls of the application
    MaxWrites,      \* bound: chunks the application writes
    MaxOther        \* bound: other packet-mode events (flushes, stops)

VARIABLES
    tio,            \* the kernel's termios: the line's settings and EXTPROC
    pktStatus,      \* packet-mode status bits not read yet
    ptyData,        \* chunks the application wrote, not read yet
    current_tio,    \* AsyncPty.current_tio
    rd,             \* the reader's next system call
    snap,           \* the termios set_extproc read and is about to write
    reports,        \* history: the changes read() has returned
    wanted,         \* history: the settings the application set last
    cleared,        \* history: the application has cleared EXTPROC
    sets, writes, others    \* counters of the bounds

kernelVars == <<tio, pktStatus, ptyData>>
readerVars == <<current_tio, rd, snap, reports>>
appVars == <<wanted, cleared, sets, writes, others>>
asyncPtyVars == <<ptyIn, kernelVars, readerVars, appVars>>

-------------------------------------------------------------------------------
(* Settings *)

\* Mutant: eight bits are not recognized.
DataBits_fallthrough == [CS5 |-> 5, CS6 |-> 6, CS7 |-> 7, CS8 |-> 0]

DataBits == [CS5 |-> 5, CS6 |-> 6, CS7 |-> 7, CS8 |-> 8]

\* The settings the code looks at; rest stands for all the others.
Termios == [ispeed : Nat, csize : DOMAIN DataBits, parenb : BOOLEAN, parodd : BOOLEAN,
            cstopb : BOOLEAN, crtscts : BOOLEAN, rest : Nat]

ASSUME PtyAssumption ==
    /\ InitialLine \in Lines /\ \A l \in Lines : l \in Termios
    /\ MaxSets \in Nat /\ MaxWrites \in Nat /\ MaxOther \in Nat

\* The speeds that have a constant of their own.
KnownSpeeds == {50, 75, 110, 134, 150, 200, 300, 600, 1200, 1800, 2400, 4800, 9600,
                19200, 38400, 57600, 115200, 230400, 460800, 500000, 576000, 921600,
                1000000, 1152000, 1500000, 2000000, 2500000, 3000000, 3500000, 4000000}

speed_to_u32(speed) == IF speed \in KnownSpeeds THEN speed ELSE 9600

get_termios_change(t) ==
    [baudrate |-> speed_to_u32(t.ispeed), data_bits |-> DataBits[t.csize],
     parity |-> IF ~t.parenb THEN 0 ELSE IF t.parodd THEN 1 ELSE 2,
     stop_bits |-> IF t.cstopb THEN 2 ELSE 1, hw_flow_ctl |-> t.crtscts]

\* The raw flags are compared: PARODD counts even while PARENB is off.
check_termios_change(old, new) ==
    \/ old.ispeed # new.ispeed
    \/ old.csize # new.csize
    \/ old.parenb # new.parenb \/ old.parodd # new.parodd
    \/ old.crtscts # new.crtscts
    \/ old.cstopb # new.cstopb

-------------------------------------------------------------------------------
(* AsyncPty::read *)

Return(k, i) == ptyIn' = Append(ptyIn, [kind |-> k, id |-> i])

\* readv returns a status byte with TIOCPKT_IOCTL: other bits are ignored.
ReadIoctl ==
    /\ rd = "readv" /\ "IOCTL" \in pktStatus
    /\ pktStatus' = {}
    /\ rd' = "tcgetattr"
    /\ UNCHANGED <<ptyIn, tio, ptyData, current_tio, snap, reports, appVars>>

\* readv returns another status byte.
ReadOther ==
    /\ rd = "readv" /\ pktStatus = {"OTHER"}
    /\ pktStatus' = {}
    /\ Return("ControlMessage", 0)
    /\ UNCHANGED <<tio, ptyData, readerVars, appVars>>

\* readv returns data: there is no status to report.
ReadData ==
    /\ rd = "readv" /\ pktStatus = {} /\ ptyData # <<>>
    /\ ptyData' = Tail(ptyData)
    /\ Return("Data", Head(ptyData))
    /\ UNCHANGED <<tio, pktStatus, readerVars, appVars>>

\* The termios just read is compared with the one reported last; a difference
\* is returned, otherwise the loop goes back to readable().
Compare ==
    /\ rd' = "readv"
    /\ IF check_termios_change(current_tio, tio.line)
       THEN /\ current_tio' = tio.line
            /\ reports' = Append(reports, get_termios_change(tio.line))
            /\ Return("Config", Len(reports) + 1)
       ELSE UNCHANGED <<ptyIn, current_tio, reports>>

\* Mutant: EXTPROC is not set again.
Tcgetattr_silent ==
    /\ rd = "tcgetattr"
    /\ Compare
    /\ UNCHANGED <<kernelVars, snap, appVars>>

\* Mutant: EXTPROC is set again whether it was cleared or not.
Tcgetattr_always ==
    /\ rd = "tcgetattr"
    /\ rd' = "ext_get"
    /\ UNCHANGED <<ptyIn, current_tio, reports, kernelVars, snap, appVars>>

Tcgetattr ==
    /\ rd = "tcgetattr"
    /\ IF tio.extproc
       THEN Compare
       ELSE rd' = "ext_get" /\ UNCHANGED <<ptyIn, current_tio, reports>>
    /\ UNCHANGED <<kernelVars, snap, appVars>>

\* set_extproc: tcgetattr ...
ExtprocGet ==
    /\ rd = "ext_get"
    /\ snap' = tio.line
    /\ rd' = "ext_set"
    /\ UNCHANGED <<ptyIn, kernelVars, current_tio, reports, appVars>>

\* ... and tcsetattr of what it returned, EXTPROC added.
ExtprocSet ==
    /\ rd = "ext_set"
    /\ tio' = [line |-> snap, extproc |-> TRUE]
    /\ pktStatus' = pktStatus \cup {"IOCTL"}
    /\ rd' = "refresh"
    /\ UNCHANGED <<ptyIn, ptyData, current_tio, snap, reports, appVars>>

Refresh ==
    /\ rd = "refresh"
    /\ Compare
    /\ UNCHANGED <<kernelVars, snap, appVars>>

Readv == ReadIoctl \/ ReadOther \/ ReadData
AfterReadv == Tcgetattr \/ ExtprocGet \/ ExtprocSet \/ Refresh

-------------------------------------------------------------------------------
(* The application *)

\* tcsetattr: e is whether the flags it passes keep EXTPROC.
SetAttr(l, e) ==
    /\ sets < MaxSets
    /\ tio' = [line |-> l, extproc |-> e]
    /\ pktStatus' = IF tio.extproc \/ e THEN pktStatus \cup {"IOCTL"} ELSE pktStatus
    /\ wanted' = l
    /\ cleared' = (cleared \/ ~e)
    /\ sets' = sets + 1
    /\ UNCHANGED <<ptyIn, ptyData, readerVars, writes, others>>

\* A chunk is what one readv returns; it is known by the settings it was
\* written under.
AppWriteChunk ==
    /\ writes < MaxWrites
    /\ ptyData' = Append(ptyData, sets)
    /\ writes' = writes + 1
    /\ UNCHANGED <<ptyIn, tio, pktStatus, readerVars, wanted, cleared, sets, others>>

\* tcflush, tcflow and the like post status bits of their own.
AppOther ==
    /\ others < MaxOther
    /\ pktStatus' = pktStatus \cup {"OTHER"}
    /\ others' = others + 1
    /\ UNCHANGED <<ptyIn, tio, ptyData, readerVars, wanted, cleared, sets, writes>>

Application == \/ \E l \in Lines, e \in BOOLEAN : SetAttr(l, e)
               \/ AppWriteChunk \/ AppOther

-------------------------------------------------------------------------------
(* The specification *)

\* AsyncPty::new: its own set_extproc has posted the first TIOCPKT_IOCTL.
new ==
    /\ ptyIn = <<>>
    /\ tio = [line |-> InitialLine, extproc |-> TRUE]
    /\ pktStatus = {"IOCTL"} /\ ptyData = <<>>
    /\ current_tio = InitialLine /\ rd = "readv" /\ snap = InitialLine /\ reports = <<>>
    /\ wanted = InitialLine /\ cleared = FALSE
    /\ sets = 0 /\ writes = 0 /\ others = 0

\* read() is called again once its last result has been handled.
read == (ptyIn = <<>> /\ Readv) \/ AfterReadv

Handle == ptyIn # <<>> /\ ptyIn' = Tail(ptyIn)
          /\ UNCHANGED <<kernelVars, readerVars, appVars>>

PtyNext == read \/ Handle \/ Application

PtySpec == new /\ [][PtyNext]_asyncPtyVars

-------------------------------------------------------------------------------
(* Properties *)

PtyTypeOK ==
    /\ ptyIn \in Seq(PtyPackets)
    /\ tio \in [line : Lines, extproc : BOOLEAN]
    /\ pktStatus \subseteq {"IOCTL", "OTHER"} /\ ptyData \in Seq(Nat)
    /\ current_tio \in Lines /\ snap \in Lines
    /\ rd \in {"readv", "tcgetattr", "ext_get", "ext_set", "refresh"}
    /\ reports \in Seq([baudrate : Nat, data_bits : 5..8, parity : 0..2, stop_bits : 1..2,
                        hw_flow_ctl : BOOLEAN])
    /\ wanted \in Lines /\ cleared \in BOOLEAN
    /\ sets \in Nat /\ writes \in Nat /\ others \in Nat

\* What the connection task was told last; a fresh PTY's settings count as told.
Reported == IF reports = <<>> THEN get_termios_change(InitialLine)
            ELSE reports[Len(reports)]

\* A read that waits with no TIOCPKT_IOCTL to come has reported the settings the
\* terminal has, whatever the application set between the reader's system calls
\* and although it may have cleared EXTPROC, without which the kernel is silent.
NoMissedChange ==
    rd = "readv" /\ "IOCTL" \notin pktStatus => Reported = get_termios_change(tio.line)

\* The daemon overwrites no setting of an application that leaves EXTPROC alone:
\* its own tcsetattr only ever follows a termios with EXTPROC cleared.
SettingKept == ~cleared => tio.line = wanted

\* What makes these inductive.
PtyInv ==
    /\ PtyTypeOK
    /\ Reported = get_termios_change(current_tio)
    /\ rd = "readv" /\ "IOCTL" \notin pktStatus =>
           tio.extproc /\ ~check_termios_change(current_tio, tio.line)
    /\ rd = "refresh" => tio.extproc \/ "IOCTL" \in pktStatus
    /\ rd \in {"ext_get", "ext_set"} => cleared
    /\ ~cleared => tio.extproc /\ tio.line = wanted

===============================================================================
