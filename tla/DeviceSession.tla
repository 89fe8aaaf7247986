------------------------------ MODULE DeviceSession ------------------------------
(***************************************************************************)
(* One TCP session between the daemon's TcpBridge (daemon/src/             *)
(* tcp_bridge.rs) and its peer, which is the firmware or the repository's  *)
(* test server (test-server/src/main.rs).                                  *)
(***************************************************************************)
EXTENDS MsgCodec, Framed

CONSTANTS
    HostMessages,   \* messages the daemon sends
    Inputs,         \* what arrives on the UART or on the test server's stdin
    MaxSent,        \* bound: messages of the daemon
    MaxInputs       \* bound: inputs of the peer

\* The daemon sends data, settings and control requests; no input is empty (both
\* peers pass on what they have read only if it is something).
ASSUME DeviceAssumption ==
    /\ MaxSent \in Nat /\ MaxInputs \in Nat
    /\ \A m \in HostMessages :
           /\ m = [kind |-> m.kind, vals |-> m.vals]
           /\ \/ m.kind = DataKind /\ m.vals \in Seq(Bytes) /\ Len(m.vals) <= Max8
              \/ m.kind \in {ConfigKind, ControlReqKind} /\ Typed(DeviceFields(m.kind), m.vals)
    /\ Inputs \subseteq Seq(Bytes) \ {<<>>}

VARIABLES
    peer,           \* "firmware" or "test_server"
    host,           \* the bridge has its stream
    listens,        \* the peer reads on
    last_ctl_resp_status,   \* of the test server
    inputs          \* number of inputs of the peer

deviceSessionVars == <<peer, host, listens, last_ctl_resp_status, inputs>>

Response(n) == [kind |-> ControlResKind, vals |-> <<n>>]
Ok == 1
NotSupported == 2

-------------------------------------------------------------------------------
(* TcpBridge *)

BridgeSend(m) ==
    /\ host /\ Len(written["up"]) < MaxSent
    /\ Become(Wrote(Streams, "up", m, EncodeDevice(m)))
    /\ UNCHANGED deviceSessionVars

\* framed = None: the stream is dropped.
BridgeDrops(s) ==
    /\ host' = FALSE
    /\ Become(Closed(s, "up"))
    /\ UNCHANGED <<peer, listens, last_ctl_resp_status, inputs>>

\* send fails: the peer is gone.
BridgeSendFails == host /\ ~open["down"] /\ BridgeDrops(Streams)

BridgeNext ==
    LET r == NextResult("down", DecodeDevice(buf["down"])) IN
    /\ host
    /\ \/ /\ r.st = "item"
          /\ Become(Took1(Streams, "down", r))
          /\ UNCHANGED deviceSessionVars
       \/ r.st = "error" /\ BridgeDrops(Broke(Streams, "down"))
       \/ r.st = "end" /\ BridgeDrops(Streams)

\* The connection task ends, perhaps within a send of step_resyncing.
BridgeCloses(m, n) ==
    /\ host /\ n < Len(EncodeDevice(m))
    /\ host' = FALSE
    /\ Become(CutOff(Streams, "up", EncodeDevice(m), n))
    /\ UNCHANGED <<peer, listens, last_ctl_resp_status, inputs>>

-------------------------------------------------------------------------------
(* The peers *)

\* A message is taken; a control request is answered.
PeerTakes(r, answer) ==
    /\ Become(IF r.item.kind = ControlReqKind
              THEN Wrote(Took1(Streams, "up", r), "down", Response(answer),
                         EncodeDevice(Response(answer)))
              ELSE Took1(Streams, "up", r))
    /\ UNCHANGED <<peer, host, listens, inputs>>

PeerStops(s) ==
    /\ listens' = FALSE
    /\ Become(s)
    /\ UNCHANGED <<peer, host, last_ctl_resp_status, inputs>>

\* read_msg and uart_tx_task: the answer to a reset depends on the build.  At the
\* end of the stream handle_client leaves its loop, and the socket open.
FirmwareReads ==
    LET r == read_msg(buf["up"]) IN
    /\ peer = "firmware" /\ listens /\ open["down"]
    /\ \/ /\ r.st = "item"
          /\ \E a \in {Ok, NotSupported} : PeerTakes(r, a)
          /\ UNCHANGED last_ctl_resp_status
       \/ r.st = "none" /\ ~open["up"] /\ wire["up"] = <<>> /\ PeerStops(Streams)

\* handle_conn of the test server: the status it answers with alternates.  An
\* error is logged; after it, or after the end, the arm waits for more bytes.
TestServerReads ==
    LET r == NextResult("up", DecodeDevice(buf["up"]))
        toggled == IF last_ctl_resp_status = Ok THEN NotSupported ELSE Ok
    IN
    /\ peer = "test_server" /\ listens /\ open["down"]
    /\ \/ /\ r.st = "item"
          /\ PeerTakes(r, toggled)
          /\ last_ctl_resp_status' = IF r.item.kind = ControlReqKind THEN toggled
                                     ELSE last_ctl_resp_status
       \/ r.st = "error" /\ PeerStops(Broke(Streams, "up"))
       \/ r.st = "end" /\ PeerStops(Streams)

\* The firmware reads no more than a message holds; a line of stdin may be longer
\* (from_utf8_lossy puts three bytes for one).
Sendable(s) == peer = "firmware" => Len(s) <= Max8

\* Bytes of the UART, or a line of the test server's stdin.
PeerInput ==
    /\ open["down"] /\ inputs < MaxInputs
    /\ \E s \in Inputs :
           /\ Sendable(s)
           /\ Become(Wrote(Streams, "down", DataMessage(s), EncodeDevice(DataMessage(s))))
    /\ inputs' = inputs + 1
    /\ UNCHANGED <<peer, host, listens, last_ctl_resp_status>>

\* The peer goes away, perhaps between the header and the body of a message.
PeerDies ==
    /\ open["down"]
    /\ listens' = FALSE
    /\ \E n \in {0, 2}, s \in Inputs :
           /\ Sendable(s)
           /\ Become(CutOff(Streams, "down", EncodeDevice(DataMessage(s)), n))
    /\ UNCHANGED <<peer, host, last_ctl_resp_status, inputs>>

-------------------------------------------------------------------------------

DeviceInit ==
    /\ peer \in {"firmware", "test_server"} /\ host = TRUE /\ listens = TRUE
    /\ last_ctl_resp_status = NotSupported /\ inputs = 0

DeviceNext ==
    \/ \E m \in HostMessages : BridgeSend(m) \/ \E n \in {0, 1, 3} : BridgeCloses(m, n)
    \/ BridgeNext \/ BridgeSendFails \/ FirmwareReads \/ TestServerReads \/ PeerInput \/ PeerDies

===============================================================================
