------------------------------ MODULE Protocol ------------------------------
(***************************************************************************)
(* The wire format of src/protocol.cpp: commands packed into big-endian    *)
(* payloads, payloads framed with type, length and checksum.  A byte is a  *)
(* number, a string of bytes a sequence.  The widths are parameters: a u64 *)
(* has WordBytes bytes, a u32 LengthBytes.                                 *)
(***************************************************************************)
EXTENDS Outgoing

CONSTANTS
    WordBytes,      \* 8
    LengthBytes,    \* 4
    MaxAddPayload   \* 4096

ASSUME ProtocolAssumption ==
    WordBytes \in Nat \ {0} /\ LengthBytes \in Nat \ {0} /\ MaxAddPayload \in Nat

MessageType == [Add |-> 1, Cancel |-> 2, Replace |-> 3, Event |-> 10]
TifCode == [GTC |-> 1, IOC |-> 2, FOK |-> 3, MARKET |-> 4]
StpCode == [None |-> 0, CancelAggressor |-> 1, CancelPassive |-> 2, CancelBoth |-> 3]

\* code_to_tif(), code_to_stp() throw for a code no name has.
Known(codes, code) == \E name \in DOMAIN codes : codes[name] = code
NameOf(codes, code) == CHOOSE name \in DOMAIN codes : codes[name] = code

\* What unpack_*() and decode_command() come to when they throw.
Malformed == [type |-> "malformed"]

\* The number of values n bytes have.
Power[n \in Nat] == IF n = 0 THEN 1 ELSE 256 * Power[n - 1]

-----------------------------------------------------------------------------
(***************************************************************************)
(* The commands.                                                           *)
(***************************************************************************)
Int64 == {v \in Int : -Power[WordBytes] <= 2 * v /\ 2 * v < Power[WordBytes]}

\* pack_*() throw for a symbol or participant of more than 255 bytes: such a
\* command is never on the wire.
Name == {s \in Seq(Byte) : Len(s) <= 255}

AddOrder ==
    [type: {"Add"}, symbol: Name, participant: Name, side: {"Buy", "Sell"},
     tif: DOMAIN TifCode, stp: DOMAIN StpCode, order_id: Int64, price: Int64, quantity: Int64]
CancelOrder == [type: {"Cancel"}, symbol: Name, order_id: Int64]
ReplaceOrder ==
    [type: {"Replace"}, symbol: Name, tif: DOMAIN TifCode, order_id: Int64, new_order_id: Int64,
     new_price: Int64, new_quantity: Int64]
Command == AddOrder \cup CancelOrder \cup ReplaceOrder

-----------------------------------------------------------------------------
\* put_u8(), put_u32(), put_u64(): the low n bytes of v, most significant first.
Put(n, v) == [i \in 1..n |-> (v \div Power[n - i]) % 256]
Put64(v) == Put(WordBytes, v)

\* get_u8(), get_u32(), get_u64(): n bytes of buf from offset (counted from 0).
Get(buf, offset, n) ==
    LET v[i \in 0..n] == IF i = 0 THEN 0 ELSE 256 * v[i - 1] + buf[offset + i]
    IN  v[n]

\* get_u64() of word number i behind the offset, as a signed number.
Get64Unsigned(buf, offset, i) == Get(buf, offset + WordBytes * i, WordBytes)
Get64(buf, offset, i) ==
    LET v == Get(buf, offset + WordBytes * i, WordBytes)
    IN  IF 2 * v < Power[WordBytes] THEN v ELSE v - Power[WordBytes]

\* std::string::substr(offset, len)
Substr(buf, offset, len) == SubSeq(buf, offset + 1, offset + len)

-----------------------------------------------------------------------------
PackAdd(c) ==
    <<Len(c.symbol), Len(c.participant), IF c.side = "Buy" THEN 1 ELSE 2,
      TifCode[c.tif], StpCode[c.stp]>>
    \o Put64(c.order_id) \o Put64(c.price) \o Put64(c.quantity) \o c.symbol \o c.participant

UnpackAdd(buf) ==
    LET head == 5 + 3 * WordBytes
    IN  IF \/ Len(buf) < head
           \/ Len(buf) > MaxAddPayload
           \/ Len(buf) < head + buf[1] + buf[2]
           \/ ~Known(TifCode, buf[4]) \/ ~Known(StpCode, buf[5])
          THEN Malformed
          ELSE [type |-> "Add",
                symbol |-> Substr(buf, head, buf[1]),
                participant |-> Substr(buf, head + buf[1], buf[2]),
                side |-> IF buf[3] = 1 THEN "Buy" ELSE "Sell",
                tif |-> NameOf(TifCode, buf[4]), stp |-> NameOf(StpCode, buf[5]),
                order_id |-> Get64(buf, 5, 0), price |-> Get64(buf, 5, 1),
                quantity |-> Get64(buf, 5, 2)]

PackCancel(c) == <<Len(c.symbol)>> \o Put64(c.order_id) \o c.symbol

UnpackCancel(buf) ==
    LET head == 1 + WordBytes
    IN  IF Len(buf) < head \/ Len(buf) < head + buf[1]
          THEN Malformed
          ELSE [type |-> "Cancel", order_id |-> Get64(buf, 1, 0),
                symbol |-> Substr(buf, head, buf[1])]

PackReplace(c) ==
    <<Len(c.symbol), TifCode[c.tif]>> \o Put64(c.order_id) \o Put64(c.new_order_id)
    \o Put64(c.new_price) \o Put64(c.new_quantity) \o c.symbol

UnpackReplace(buf) ==
    LET head == 2 + 4 * WordBytes
    IN  IF Len(buf) < head \/ Len(buf) < head + buf[1] \/ ~Known(TifCode, buf[2])
          THEN Malformed
          ELSE [type |-> "Replace", tif |-> NameOf(TifCode, buf[2]),
                order_id |-> Get64(buf, 2, 0), new_order_id |-> Get64(buf, 2, 1),
                new_price |-> Get64(buf, 2, 2), new_quantity |-> Get64(buf, 2, 3),
                symbol |-> Substr(buf, head, buf[1])]

-----------------------------------------------------------------------------
FrameMessage(type, payload) ==
    <<MessageType[type]>> \o Put(LengthBytes, Len(payload)) \o payload
    \o Put(LengthBytes, Crc32(payload))

\* parse_frame(): "short" leaves the offset where it is, "bad" throws.
Frame(status, code, payload, offset) ==
    [status |-> status, code |-> code, payload |-> payload, offset |-> offset]

ParsedFrame(data, offset) ==
    LET header == offset + 1 + LengthBytes
        len == Get(data, offset + 1, LengthBytes)
        body == Substr(data, header, len)
    IN  IF Len(data) < header \/ Len(data) < header + len + LengthBytes
          THEN Frame("short", 0, <<>>, offset)
        ELSE IF Crc32(body) # Get(data, header + len, LengthBytes)
          THEN Frame("bad", 0, <<>>, offset)
          ELSE Frame("ok", data[offset + 1], body, header + len + LengthBytes)

Payload(c) ==
    CASE c.type = "Add" -> PackAdd(c)
      [] c.type = "Cancel" -> PackCancel(c)
      [] c.type = "Replace" -> PackReplace(c)
EncodeCommand(c) == FrameMessage(c.type, Payload(c))

DecodeCommand(code, payload) ==
    CASE code = MessageType.Add -> UnpackAdd(payload)
      [] code = MessageType.Cancel -> UnpackCancel(payload)
      [] code = MessageType.Replace -> UnpackReplace(payload)
      [] OTHER -> Malformed
=============================================================================
