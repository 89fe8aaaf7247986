--------------------------------- MODULE Framed ---------------------------------
(***************************************************************************)
(* A byte stream in each direction with the buffers of tokio_util's        *)
(* FramedRead and FramedWrite (external, from its use in the repository):  *)
(* bytes arrive in pieces of any size, the decoder is tried on what has    *)
(* arrived, and at the end of the stream what is left over is an error.    *)
(***************************************************************************)
EXTENDS Naturals, Sequences, SequencesExt

\* "up": from the end that connects to the one that accepts; "down": back.
Dirs == {"up", "down"}

VARIABLES
    wire,       \* bytes written, not yet arrived
    buf,        \* bytes arrived, not yet decoded
    open,       \* the writing end is open
    cut,        \* history: the writing end ended within a message
    written,    \* history: messages written
    decoded,    \* history: messages decoded
    broken      \* history: the decoder, or the end of the stream, gave an error

streamVars == <<wire, buf, open, cut, written, decoded, broken>>

FramedInit ==
    /\ wire = [d \in Dirs |-> <<>>] /\ buf = [d \in Dirs |-> <<>>]
    /\ open = [d \in Dirs |-> TRUE] /\ cut = [d \in Dirs |-> FALSE]
    /\ written = [d \in Dirs |-> <<>>] /\ decoded = [d \in Dirs |-> <<>>]
    /\ broken = [d \in Dirs |-> FALSE]

\* What each operation makes of the streams' state s.
Streams == [wire |-> wire, buf |-> buf, open |-> open, cut |-> cut, written |-> written,
            decoded |-> decoded, broken |-> broken]
Become(s) ==
    /\ wire' = s.wire /\ buf' = s.buf /\ open' = s.open /\ cut' = s.cut
    /\ written' = s.written /\ decoded' = s.decoded /\ broken' = s.broken

\* send: the message is encoded and written.
Wrote(s, d, m, bytes) ==
    [s EXCEPT !.wire[d] = @ \o bytes, !.written[d] = Append(@, m)]

Closed(s, d) == [s EXCEPT !.open[d] = FALSE]

\* The writing end dies with the first n bytes of a message written.
CutOff(s, d, bytes, n) ==
    [s EXCEPT !.wire[d] = @ \o SubSeq(bytes, 1, n), !.open[d] = FALSE,
              !.cut[d] = (@ \/ n > 0)]

\* next: the decoder's result r on the buffer, or the end of the stream.
NextResult(d, r) ==
    IF r.st # "none" THEN r
    ELSE IF open[d] \/ wire[d] # <<>> THEN r
    ELSE IF buf[d] = <<>> THEN [st |-> "end"] ELSE [st |-> "error"]

Took1(s, d, r) == [s EXCEPT !.buf[d] = r.rest, !.decoded[d] = Append(@, r.item)]
Broke(s, d) == [s EXCEPT !.broken[d] = TRUE]

\* A piece of the stream arrives.
Arrive(d) ==
    /\ wire[d] # <<>>
    /\ \E n \in {1, Len(wire[d])} :
           /\ buf' = [buf EXCEPT ![d] = @ \o SubSeq(wire[d], 1, n)]
           /\ wire' = [wire EXCEPT ![d] = SubSeq(@, n + 1, Len(@))]
    /\ UNCHANGED <<open, cut, written, decoded, broken>>

-------------------------------------------------------------------------------
(* Properties *)

\* However the bytes of a stream are cut into pieces, the messages decoded from
\* it are the ones written to it, in their order: no encoding is a prefix of
\* another one, and no decoder takes more or less than one message.
StreamsIntact == \A d \in Dirs : IsPrefix(decoded[d], written[d])

\* A decoder reports an error only if the stream ended within a message: what
\* one end encodes, the other end accepts.
BrokenOnlyIfCut == \A d \in Dirs : broken[d] => cut[d]

===============================================================================
