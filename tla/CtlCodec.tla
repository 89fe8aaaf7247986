-------------------------------- MODULE CtlCodec --------------------------------
(***************************************************************************)
(* The protocol between the command-line tool and the daemon               *)
(* (common/src/ctl.rs).                                                    *)
(***************************************************************************)
EXTENDS Wire

(* DaemonRequest *)
AddKind == 1
RemoveKind == 2
ListKind == 3
ResetKind == 4
(* DaemonResponse: the answers have the numbers of their requests *)
ErrorKind == Max8

RequestFields(kind) ==
    CASE kind = AddKind -> <<"str", "u32", "u16">>
      [] kind \in {RemoveKind, ResetKind} -> <<"str">>
      [] kind = ListKind -> <<>>

\* A ConnectionInfo: name, addr, port, pts_path, connected.
InfoFields == <<"str", "u32", "u16", "str", "bool">>

\* A List carries the number of its entries before them.
ListFields(n) == <<"u16">> \o FlattenSeq([i \in 1..n |-> InfoFields])

ResponseFields(m) ==
    CASE m.kind \in {AddKind, ErrorKind} -> <<"str">>
      [] m.kind \in {RemoveKind, ResetKind} -> <<>>
      [] m.kind = ListKind -> ListFields(Len(m.vals) \div Len(InfoFields))

\* An encoder fails at the first string that is too long; what it wrote before
\* that stays in the buffer.
Unsendable(fs, vs) == \E i \in 1..Len(fs) : TooLong(fs[i], vs[i])

EncodeRequest(m) == <<m.kind>> \o WriteFields(RequestFields(m.kind), m.vals)
EncodeResponse(m) == <<m.kind>> \o WriteFields(ResponseFields(m), m.vals)

DecodeRequest(src) ==
    IF src = <<>> THEN NoItem
    ELSE IF src[1] \in {AddKind, RemoveKind, ListKind, ResetKind}
    THEN Decoded(src, src[1], ReadFields(src, Cursor(1), RequestFields(src[1])))
    ELSE DecodeError

\* Mutant: the entries are read without their count.
DecodeList_one(src) == Decoded(src, ListKind, ReadFields(src, Cursor(1), ListFields(1)))

\* The count is read first, then as many entries as it says.
DecodeList(src) ==
    LET count == ReadFields(src, Cursor(1), <<"u16">>) IN
    IF count.st # "ok" THEN NoItem
    ELSE Decoded(src, ListKind, ReadFields(src, Cursor(1), ListFields(count.vals[1])))

DecodeResponse(src) ==
    IF src = <<>> THEN NoItem
    ELSE CASE src[1] \in {AddKind, ErrorKind} -> Decoded(src, src[1], ReadFields(src, Cursor(1), <<"str">>))
           [] src[1] \in {RemoveKind, ResetKind} -> Decoded(src, src[1], Cursor(1))
           [] src[1] = ListKind -> DecodeList(src)
           [] OTHER -> DecodeError

===============================================================================
