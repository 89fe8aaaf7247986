---------------------------------- MODULE Wire ----------------------------------
(***************************************************************************)
(* The encoding both protocols are built from (common/src/msg.rs and       *)
(* common/src/ctl.rs): big-endian numbers, strings behind a length byte,   *)
(* and a cursor that reads one field after the other.                      *)
(*                                                                         *)
(* A message is [kind, vals]: the number of its variant and its fields.    *)
(***************************************************************************)
EXTENDS Naturals, Sequences, SequencesExt

CONSTANT B      \* values of a byte (256 in the code)

\* Ten is the least base in which every kind and the length of a Config fit.
ASSUME WireAssumption == B \in Nat /\ B >= 10

Bytes == 0..(B - 1)
Max8 == B - 1           \* 255, and MAX_MESSAGE_LEN

Width == [u8 |-> 1, bool |-> 1, creq |-> 1, cres |-> 1, u16 |-> 2, u32 |-> 4]

\* What a byte counts for in a number, the last byte first.
Weight == <<1, B, B * B, B * B * B>>

BigEndian(n, w) == [i \in 1..w |-> (n \div Weight[w - i + 1]) % B]
Number(s) == LET num[i \in 0..Len(s)] == IF i = 0 THEN 0 ELSE num[i - 1] * B + s[i]
             IN  num[Len(s)]

\* The bytes a String can consist of: 0xFF is not in any UTF-8 text.
Utf8(s) == \A i \in 1..Len(s) : s[i] # Max8

\* Which values of a one-byte field decode.
Valid(f, n) ==
    CASE f = "bool" -> n <= 1
      [] f = "creq" -> n = 1
      [] f = "cres" -> n \in {1, 2}
      [] OTHER -> TRUE

\* The values of a field: a String, or a number of its width that decodes.
Fits(f, v) ==
    \/ f = "str" /\ v \in Seq(Bytes) /\ Utf8(v)
    \/ f \in DOMAIN Width /\ v \in 0..(B * Weight[Width[f]] - 1) /\ Valid(f, v)

\* vs is one value for each of the fields fs.
Typed(fs, vs) ==
    vs = [i \in 1..Len(fs) |-> vs[i]] /\ \A i \in 1..Len(fs) : Fits(fs[i], vs[i])

-------------------------------------------------------------------------------
(* Writing *)

\* Mutant: the bound is one too high.
TooLong_by_one(f, v) == f = "str" /\ Len(v) > Max8 + 1

\* encode_str refuses a string whose length does not fit a byte.
TooLong(f, v) == f = "str" /\ Len(v) > Max8

Written(f, v) == IF f = "str" THEN <<Len(v)>> \o v ELSE BigEndian(v, Width[f])

WriteFields(fs, vs) == FlattenSeq([i \in 1..Len(fs) |-> Written(fs[i], vs[i])])

-------------------------------------------------------------------------------
(* Reading: a cursor is [st, pos, vals] *)

Cursor(pos) == [st |-> "ok", pos |-> pos, vals |-> <<>>]

Missing(c) == [c EXCEPT !.st = "none"]
Bad(c) == [c EXCEPT !.st = "error"]
Took(c, n, v) == [c EXCEPT !.pos = @ + n, !.vals = Append(@, v)]

\* A length byte, the text, and a check that it is UTF-8.
decode_str(src, c) ==
    IF Len(src) <= c.pos THEN Missing(c)
    ELSE LET n == src[c.pos + 1] IN
         IF Len(src) < c.pos + 1 + n THEN Missing(c)
         ELSE LET s == SubSeq(src, c.pos + 2, c.pos + 1 + n) IN
              IF Utf8(s) THEN Took(c, 1 + n, s) ELSE Bad(c)

\* try_get_u8, try_get_u16, try_get_u32.
try_get(src, c, f) ==
    IF Len(src) < c.pos + Width[f] THEN Missing(c)
    ELSE LET n == Number(SubSeq(src, c.pos + 1, c.pos + Width[f])) IN
         IF Valid(f, n) THEN Took(c, Width[f], n) ELSE Bad(c)

\* One field after the other, up to the first that is missing or bad.
ReadFields(src, cursor, fs) ==
    LET read[i \in 0..Len(fs)] ==
            IF i = 0 THEN cursor
            ELSE LET c == read[i - 1] IN
                 IF c.st # "ok" THEN c
                 ELSE IF fs[i] = "str" THEN decode_str(src, c) ELSE try_get(src, c, fs[i])
    IN  read[Len(fs)]

-------------------------------------------------------------------------------
(* What a decoder returns *)

NoItem == [st |-> "none"]
DecodeError == [st |-> "error"]

\* The message the cursor has read, and the buffer advanced to the cursor.
Decoded(src, kind, c) ==
    IF c.st = "ok"
    THEN [st |-> "item", item |-> [kind |-> kind, vals |-> c.vals],
          rest |-> SubSeq(src, c.pos + 1, Len(src))]
    ELSE [st |-> c.st]

===============================================================================
