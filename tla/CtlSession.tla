------------------------------- MODULE CtlSession -------------------------------
(***************************************************************************)
(* One run of the command-line tool (cli/src/main.rs) and the task         *)
(* handle_stream that serves it in the daemon (daemon/src/main.rs).  What  *)
(* the daemon's main loop answers is any response handle_daemon_request    *)
(* has for the request (the table itself is modelled in Daemon).           *)
(***************************************************************************)
EXTENDS CtlCodec, Framed

CONSTANTS
    CliRequests,    \* requests the tool is started with
    Paths,          \* PTY paths the daemon answers with
    ListedInfos,    \* contents of the table
    TextLen         \* characters an error text adds to the name

\* Requests, paths and entries are values of their Rust types, and a table is
\* counted in its first field.
ASSUME CtlAssumption ==
    /\ TextLen \in Nat
    /\ \A m \in CliRequests :
           /\ m = [kind |-> m.kind, vals |-> m.vals]
           /\ m.kind \in {AddKind, RemoveKind, ListKind, ResetKind}
           /\ Typed(RequestFields(m.kind), m.vals)
    /\ \A p \in Paths : Fits("str", p)
    /\ \A l \in ListedInfos :
           /\ Fits("u16", l[1]) /\ l[1] = Len(l) \div Len(InfoFields)
           /\ Typed(ListFields(l[1]), l)

VARIABLES
    cli,            \* "send", "await", "exited"
    request,        \* what the tool was asked to do
    outcome,        \* what it tells its user: "" until then
    stream,         \* handle_stream: "read", "main", "reply", "ended"
    verdict,        \* the response of the main loop, an Option
    running         \* the daemon's process runs

ctlSessionVars == <<cli, request, outcome, stream, verdict, running>>

-------------------------------------------------------------------------------
(* cli main *)

\* The tool prints o and exits, which closes its end.
Exit(o, s) ==
    /\ cli' = "exited" /\ outcome' = o
    /\ Become(Closed(s, "up"))
    /\ UNCHANGED <<request, stream, verdict, running>>

RequestBytes == EncodeRequest(request)

CliSend ==
    /\ cli = "send" /\ running
    /\ ~Unsendable(RequestFields(request.kind), request.vals)
    /\ cli' = "await"
    /\ Become(Wrote(Streams, "up", request, RequestBytes))
    /\ UNCHANGED <<request, outcome, stream, verdict, running>>

\* The encoder fails, and nothing it wrote before is flushed; or the daemon is
\* gone.
CliSendFails ==
    /\ cli = "send"
    /\ Unsendable(RequestFields(request.kind), request.vals) \/ ~running
    /\ Exit("send failed", Streams)

CliNext ==
    LET r == NextResult("down", DecodeResponse(buf["down"])) IN
    /\ cli = "await"
    /\ \/ r.st = "item" /\ Exit("answered", Took1(Streams, "down", r))
       \/ r.st = "error" /\ Exit("undecodable", Broke(Streams, "down"))
       \/ r.st = "end" /\ Exit("closed", Streams)

\* The tool is killed, perhaps within its write.
CliKilled ==
    /\ cli # "exited"
    /\ cli' = "exited" /\ outcome' = "killed"
    /\ \E n \in 0..(Len(RequestBytes) - 1) :
           /\ n > 0 => cli = "send" /\ ~Unsendable(RequestFields(request.kind), request.vals)
           /\ Become(CutOff(Streams, "up", RequestBytes, n))
    /\ UNCHANGED <<request, stream, verdict, running>>

-------------------------------------------------------------------------------
(* handle_stream *)

ErrorText(name) == [kind |-> ErrorKind, vals |-> <<name \o [i \in 1..TextLen |-> 0]>>]

\* Every response handle_daemon_request has for a request.
Answers(m) ==
    CASE m.kind = AddKind -> {[kind |-> AddKind, vals |-> <<p>>] : p \in Paths}
                             \cup {ErrorText(m.vals[1]), ErrorText(<<>>)}
      [] m.kind = ListKind -> {[kind |-> ListKind, vals |-> l] : l \in ListedInfos}
      [] OTHER -> {[kind |-> m.kind, vals |-> <<>>], ErrorText(m.vals[1])}

\* Mutant: the task ends, but its half of the stream stays open.
StreamEnds_open(s) ==
    /\ stream' = "ended"
    /\ Become(s)
    /\ UNCHANGED <<cli, request, outcome, verdict, running>>

\* The task ends and drops the stream.
StreamEnds(s) ==
    /\ stream' = "ended"
    /\ Become(Closed(s, "down"))
    /\ UNCHANGED <<cli, request, outcome, verdict, running>>

StreamNext ==
    LET r == NextResult("up", DecodeRequest(buf["up"])) IN
    /\ stream = "read"
    /\ \/ /\ r.st = "item"
          /\ stream' = "main"
          /\ Become(Took1(Streams, "up", r))
          /\ UNCHANGED <<cli, request, outcome, verdict, running>>
       \/ r.st = "error" /\ StreamEnds(Broke(Streams, "up"))
       \/ r.st = "end" /\ StreamEnds(Streams)

\* The main loop answers, or drops the oneshot as it stops ("Something went
\* wrong").
MainAnswers ==
    /\ stream = "main"
    /\ stream' = "reply"
    /\ \E v \in Answers(decoded["up"][Len(decoded["up"])]) \cup {ErrorText(<<>>)} :
           verdict' = <<v>>
    /\ UNCHANGED <<streamVars, cli, request, outcome, running>>

Verdict == verdict[1]

Reply ==
    /\ stream = "reply" /\ cli # "exited"
    /\ ~Unsendable(ResponseFields(Verdict), Verdict.vals)
    /\ stream' = "read"
    /\ Become(Wrote(Streams, "down", Verdict, EncodeResponse(Verdict)))
    /\ UNCHANGED <<cli, request, outcome, verdict, running>>

\* Mutant: a response that cannot be encoded is sent as far as it was encoded.
ReplyPanics_partial ==
    /\ stream = "reply"
    /\ Unsendable(ResponseFields(Verdict), Verdict.vals) \/ cli = "exited"
    /\ stream' = "ended"
    /\ Become(Closed([Streams EXCEPT !.wire["down"] = @ \o <<Verdict.kind>>], "down"))
    /\ UNCHANGED <<cli, request, outcome, verdict, running>>

\* The send fails and expect panics: the text is too long for its length byte, or
\* the tool has gone.  Nothing the encoder wrote is flushed.
ReplyPanics ==
    /\ stream = "reply"
    /\ Unsendable(ResponseFields(Verdict), Verdict.vals) \/ cli = "exited"
    /\ StreamEnds(Streams)

\* The main loop ends on SIGINT, or the process dies: the task is dropped where it
\* stands, perhaps within its write.
DaemonStops ==
    /\ running
    /\ running' = FALSE /\ stream' = "ended"
    /\ \/ Become(Closed(Streams, "down"))
       \/ /\ stream = "reply" /\ cli # "exited"
          /\ ~Unsendable(ResponseFields(Verdict), Verdict.vals)
          /\ \E n \in 1..(Len(EncodeResponse(Verdict)) - 1) :
                 Become(CutOff(Streams, "down", EncodeResponse(Verdict), n))
    /\ UNCHANGED <<cli, request, outcome, verdict>>

-------------------------------------------------------------------------------

CtlInit ==
    /\ cli = "send" /\ request \in CliRequests /\ outcome = ""
    /\ stream = "read" /\ verdict = <<>> /\ running = TRUE

CtlNext == CliSend \/ CliSendFails \/ CliNext \/ CliKilled
           \/ StreamNext \/ MainAnswers \/ Reply \/ ReplyPanics \/ DaemonStops

-------------------------------------------------------------------------------
(* Properties *)

\* What the tool shows its user is the daemon's answer to the request it was
\* started with; as long as the daemon runs, the tool says that it "closed
\* connection unexpectedly" only where the error text, with the name in it, is
\* longer than a length byte can say, and it never meets half a response.
ToolShowsVerdict ==
    /\ outcome = "answered" => decoded["up"] = <<request>> /\ decoded["down"] = verdict
    /\ outcome = "closed" /\ running =>
           verdict # <<>> /\ Unsendable(ResponseFields(Verdict), Verdict.vals)
    /\ outcome = "undecodable" => cut["down"]

\* The tool is never left waiting: once no bytes are under way, and handle_stream
\* neither waits for the main loop nor writes, one of the two finds a message, an
\* error or the end of its stream in what it has.
ToolNotStranded ==
    cli = "await" /\ stream \in {"read", "ended"} /\ (\A d \in Dirs : wire[d] = <<>>) =>
        \/ stream = "read" /\ NextResult("up", DecodeRequest(buf["up"])).st # "none"
        \/ NextResult("down", DecodeResponse(buf["down"])).st # "none"

===============================================================================
