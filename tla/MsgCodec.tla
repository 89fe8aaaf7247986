-------------------------------- MODULE MsgCodec --------------------------------
(***************************************************************************)
(* The protocol between the daemon and the device, as DeviceCodec          *)
(* (common/src/msg.rs) and as the firmware (server/main/message.h, tcp.c,  *)
(* uart.c) encode and decode it.                                           *)
(***************************************************************************)
EXTENDS Wire

DataKind == 1
ConfigKind == 2
ControlReqKind == 3
ControlResKind == 4

\* DeviceMessage::from(&[u8]): what does not fit one message is cut off.
DataMessage(s) == [kind |-> DataKind, vals |-> SubSeq(s, 1, IF Len(s) < Max8 THEN Len(s) ELSE Max8)]

\* The fields behind the header: baudrate, data_bits, stop_bits, parity,
\* hw_flow_ctl; a request; a response.
DeviceFields(kind) ==
    CASE kind = ConfigKind -> <<"u32", "u8", "u8", "u8", "bool">>
      [] kind = ControlReqKind -> <<"creq">>
      [] kind = ControlResKind -> <<"cres">>

Body(m) == IF m.kind = DataKind THEN m.vals ELSE WriteFields(DeviceFields(m.kind), m.vals)

EncodeDevice(m) == <<m.kind, Len(Body(m))>> \o Body(m)

\* Mutant: the header is taken for the whole message.
DecodeDevice_header(src) ==
    IF Len(src) < 2 THEN NoItem
    ELSE LET kind == src[1]  len == src[2] IN
         CASE kind = DataKind -> Decoded(src, DataKind, [st |-> "ok",
                                 pos |-> IF 2 + len < Len(src) THEN 2 + len ELSE Len(src),
                                 vals |-> SubSeq(src, 3, IF 2 + len < Len(src) THEN 2 + len
                                                         ELSE Len(src))])
           [] kind \in {ConfigKind, ControlReqKind, ControlResKind} ->
                  Decoded(src, kind, ReadFields(src, Cursor(2), DeviceFields(kind)))
           [] OTHER -> DecodeError

\* Mutant: a message counts as complete only with a byte of the next one.
DecodeDevice_late(src) ==
    IF Len(src) < 2 \/ Len(src) - 2 <= src[2] THEN NoItem
    ELSE Decoded(src, src[1],
                 IF src[1] = DataKind
                 THEN [st |-> "ok", pos |-> 2 + src[2], vals |-> SubSeq(src, 3, 2 + src[2])]
                 ELSE ReadFields(src, Cursor(2), DeviceFields(src[1])))

\* DeviceCodec::decode.  Only a Data message is as long as its header says; for
\* the others the cursor decides how much is consumed.
DecodeDevice(src) ==
    IF Len(src) < 2 \/ Len(src) - 2 < src[2] THEN NoItem
    ELSE LET kind == src[1]  len == src[2] IN
         CASE kind = DataKind -> Decoded(src, DataKind, [st |-> "ok", pos |-> 2 + len,
                                                 vals |-> SubSeq(src, 3, 2 + len)])
           [] kind \in {ConfigKind, ControlReqKind, ControlResKind} ->
                  Decoded(src, kind, ReadFields(src, Cursor(2), DeviceFields(kind)))
           [] OTHER -> DecodeError

-------------------------------------------------------------------------------
(* The firmware *)

\* ConfigMessage and ControlMessage of message.h.
StructFields(kind) == IF kind = ConfigKind THEN <<"u32", "u8", "u8", "u8", "u8">> ELSE <<"u8">>
StructSize(kind) == IF kind = ConfigKind THEN 8 ELSE 1

\* read_msg, and what uart_tx_task makes of it: a message of another length or
\* kind is consumed and ignored.
read_msg(src) ==
    IF Len(src) < 2 \/ Len(src) - 2 < src[2] THEN NoItem
    ELSE LET kind == src[1]
             body == SubSeq(src, 3, 2 + src[2])
             rest == SubSeq(src, 3 + src[2], Len(src))
             item(vs) == [st |-> "item", item |-> [kind |-> kind, vals |-> vs], rest |-> rest]
         IN  CASE kind = DataKind -> item(body)
               [] kind \in {ConfigKind, ControlReqKind} /\ Len(body) = StructSize(kind) ->
                      item(ReadFields(body, Cursor(0), StructFields(kind)).vals)
               [] OTHER -> [st |-> "ignored", rest |-> rest]

===============================================================================
