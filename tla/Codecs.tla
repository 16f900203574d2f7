------------------------------- MODULE Codecs -------------------------------
(***************************************************************************)
(* The two ways a command leaves memory, byte by byte: two commands go to  *)
(* the log as lines (WalBytes) and to the wire as frames (Wire), and a     *)
(* document is dumped as a snapshot is.  The writer is cut behind any      *)
(* byte: the process dies, or the rest of the stream is still on its way.  *)
(***************************************************************************)
EXTENDS WalCodec, Checksum, WalBytes, Wire

CONSTANTS
    Commands,   \* the commands written
    Documents,  \* the documents dumped
    Bursts      \* the pairs of changes that damage two neighbouring bytes

VARIABLE doc  \* the document being dumped, when no commands are written

\* The checksum fills its field, and the commands can be sent.
ASSUME CodecsAssumption ==
    /\ CrcBits = 8 * LengthBytes /\ CrcBits = 4 * CrcDigits
    /\ Commands \subseteq Sendable

vars == <<batch, doc, cut>>

Init ==
    /\ \/ batch \in Commands \X Commands /\ doc = Null
       \/ batch = <<>> /\ doc \in Documents
    /\ cut = 0

WriteByte ==
    /\ cut < IF batch = <<>> THEN Len(Dump(doc))
             ELSE Max({Len(Stream), LineSize(LogRecord(batch[1]))})
    /\ cut' = cut + 1
    /\ UNCHANGED <<batch, doc>>

Next == WriteByte
Spec == Init /\ [][Next]_vars

-----------------------------------------------------------------------------
\* parse() reads back what dump() wrote, whatever bytes its strings hold, and a
\* document that is cut short is refused and never taken for a smaller one.
DocumentSurvives ==
    batch = <<>> =>
        IF cut = Len(Dump(doc))
          THEN Parse(Dump(doc)).value = doc
          ELSE doc[1] \in {"Object", "Array", "String"} => ~Parse(SubSeq(Dump(doc), 1, cut)).ok

\* The record of a command is one line of text, whatever bytes its names hold,
\* and a command read back from it is the command: no name, sign or escaped byte
\* is lost.  A risk reject gives no command.
CommandSurvivesLog ==
    batch # <<>> /\ cut = 0 =>
        /\ Loggable(Record(batch[1]))
        /\ ApplyRecord(Parse(Dump(Record(batch[1]))).value) = batch[1]
        /\ batch[1].type = "Add" =>
              ApplyRecord(Parse(Dump(RiskReject(batch[1], batch[1].symbol))).value) = NULL

\* Two neighbouring bytes of a payload, or of its checksum, that are damaged in
\* any of these ways are noticed: the frame is refused.
DamageDetected ==
    LET frame == EncodeCommand(batch[1])
        payload == (2 + LengthBytes)..(Len(frame) - LengthBytes)
        checksum == (Len(frame) - LengthBytes + 1)..Len(frame)
    IN  batch # <<>> /\ ({cut, cut + 1} \subseteq payload \/ {cut, cut + 1} \subseteq checksum) =>
            \A b \in Bursts :
                ParsedFrame([frame EXCEPT ![cut] = (@ + b[1]) % 256,
                                         ![cut + 1] = (@ + b[2]) % 256], 0).status = "bad"
=============================================================================
