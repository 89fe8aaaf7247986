-------------------------------- MODULE Sessions --------------------------------
(***************************************************************************)
(* The two protocols of the repository over their byte streams: a run of   *)
(* the command-line tool against the daemon, or a session of the daemon    *)
(* with a device.                                                          *)
(***************************************************************************)
EXTENDS CtlSession, DeviceSession

VARIABLE proto      \* "ctl" or "device": which session this behaviour is about

sessionVars == <<streamVars, ctlSessionVars, deviceSessionVars, proto>>

\* The session the behaviour is not about has one initial state.
SessionInit ==
    /\ proto \in {"ctl", "device"} /\ FramedInit /\ CtlInit /\ DeviceInit
    /\ IF proto = "ctl" THEN peer = "firmware" ELSE request = CHOOSE r \in CliRequests : TRUE

Arrives == \E d \in Dirs : Arrive(d) /\ UNCHANGED <<ctlSessionVars, deviceSessionVars, proto>>
CtlStep == proto = "ctl" /\ CtlNext /\ UNCHANGED <<deviceSessionVars, proto>>
DeviceStep == proto = "device" /\ DeviceNext /\ UNCHANGED <<ctlSessionVars, proto>>

SessionNext == Arrives \/ CtlStep \/ DeviceStep

SessionSpec == SessionInit /\ [][SessionNext]_sessionVars

-------------------------------------------------------------------------------
(* Properties *)

SessionTypeOK ==
    /\ \A d \in Dirs : wire[d] \in Seq(Bytes) /\ buf[d] \in Seq(Bytes)
    /\ open \in [Dirs -> BOOLEAN] /\ cut \in [Dirs -> BOOLEAN] /\ broken \in [Dirs -> BOOLEAN]
    /\ cli \in {"send", "await", "exited"} /\ stream \in {"read", "main", "reply", "ended"}
    /\ running \in BOOLEAN
    /\ outcome \in {"", "answered", "send failed", "undecodable", "closed", "killed"}
    /\ peer \in {"firmware", "test_server"} /\ host \in BOOLEAN /\ listens \in BOOLEAN
    /\ last_ctl_resp_status \in {Ok, NotSupported} /\ inputs \in Nat

\* A reader of a device session that has got every byte of a stream that was not
\* cut, and still finds no message, has decoded every message written: neither
\* end ever waits for more bytes than a message has.
AllArrive ==
    proto = "device" =>
        /\ /\ wire["up"] = <<>> /\ ~cut["up"] /\ listens
           /\ (IF peer = "firmware" THEN read_msg(buf["up"]) ELSE DecodeDevice(buf["up"])).st
              = "none"
           => decoded["up"] = written["up"]
        /\ wire["down"] = <<>> /\ ~cut["down"] /\ host /\ DecodeDevice(buf["down"]).st = "none"
           => decoded["down"] = written["down"]

===============================================================================
