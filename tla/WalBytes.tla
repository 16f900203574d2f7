------------------------------ MODULE WalBytes ------------------------------
(***************************************************************************)
(* The log of src/recovery.cpp in bytes: the line append() stages for a    *)
(* record, and replay_commands() reading a file that processes which died  *)
(* in the middle of a line have written.  WalFile says the same of lines   *)
(* and of what is left of them.                                            *)
(***************************************************************************)
EXTENDS WalFile, Outgoing

CONSTANTS
    CrcDigits,     \* 8
    LogRecord(_),  \* the record of a command
    Encoded(_),    \* dump(): the text of a record
    Decoded(_)     \* parse(): what a text is read as

ASSUME WalBytesAssumption == CrcDigits \in Nat \ {0}

\* append(): the checksum in hexadecimal, a blank, the document, a newline.
Line(record) ==
    LET json == Encoded(record)
    IN  Hex(CrcDigits, Crc32(json)) \o <<Space>> \o json \o <<NewLine>>

LineSize(record) == CrcDigits + 1 + Len(Encoded(record)) + 1

\* What a record needs to be a line: a text of one line that is read as the
\* record, and a checksum that its digits can hold.
Loggable(record) ==
    /\ Encoded(record) \in Seq(Byte \ {NewLine, Return})
    /\ Decoded(Encoded(record)) = record
    /\ Crc32(Encoded(record)) \in 0..(HexPower[CrcDigits] - 1)

-----------------------------------------------------------------------------
(***************************************************************************)
(* replay_commands(): getline() takes byte after byte, and the last line   *)
(* may lack its newline.                                                   *)
(***************************************************************************)
Chomp(line) ==
    IF line # <<>> /\ line[Len(line)] = Return THEN SubSeq(line, 1, Len(line) - 1) ELSE line
HasPrefix(line) == Len(line) > CrcDigits /\ line[CrcDigits + 1] = Space
Document(line) == SubSeq(line, CrcDigits + 2, Len(line))
Intact(line) == Crc32(Document(line)) = HexValue(SubSeq(line, 1, CrcDigits))

\* The line so far, what has been read, and whether the loop was left.
Reader(line, commands, stopped) == [line |-> line, commands |-> commands, stopped |-> stopped]

TakeLine(r) ==
    LET line == Chomp(r.line)
    IN  IF r.stopped \/ ~HasPrefix(line) THEN Reader(<<>>, r.commands, r.stopped)
        ELSE IF ~Intact(line) THEN Reader(<<>>, r.commands, TRUE)
        ELSE Reader(<<>>, Append(r.commands, Decoded(Document(line))), FALSE)

ReadByte(r, b) ==
    IF b = NewLine THEN TakeLine(r) ELSE [r EXCEPT !.line = Append(@, b)]

ReadBytes(r, bytes) ==
    LET after[i \in 0..Len(bytes)] == IF i = 0 THEN r ELSE ReadByte(after[i - 1], bytes[i])
    IN  after[Len(bytes)]

ReplayBytes(bytes) ==
    LET r == ReadBytes(Reader(<<>>, <<>>, FALSE), bytes)
    IN  IF r.line = <<>> THEN r.commands ELSE TakeLine(r).commands

-----------------------------------------------------------------------------
(***************************************************************************)
(* The file.  A rest is a record of which the first bytes were written.    *)
(***************************************************************************)
Rest(record, size) == [record |-> record, size |-> size]
Complete(record) == Rest(record, LineSize(record))

\* What the pieces of WalFile are in bytes.
Form(p) ==
    LET size == LineSize(p.record)
    IN  IF p.size <= CrcDigits THEN "short" ELSE IF p.size < size - 1 THEN "long"
        ELSE IF p.size < size THEN "whole" ELSE "full"
Pieces(g) == [i \in DOMAIN g |-> [form |-> Form(g[i]), record |-> g[i].record]]

Joined(parts) ==
    LET upTo[i \in 0..Len(parts)] == IF i = 0 THEN <<>> ELSE upTo[i - 1] \o parts[i]
    IN  upTo[Len(parts)]

File(g) == Joined([i \in DOMAIN g |-> SubSeq(Line(g[i].record), 1, g[i].size)])

\* Read in bytes or in pieces, a log gives the same commands.
ReadsAsPieces(g) == ReplayBytes(File(g)) = ReplayCommands(Pieces(g))

\* The log in bytes reads as the log in pieces of WalFile, on which Shard is
\* built: with its last line cut anywhere, and when the next process then goes on
\* writing behind the cut.
LogReadsAsPieces ==
    batch # <<>> /\ cut \in 1..LineSize(LogRecord(batch[1])) =>
        LET rest == Rest(LogRecord(batch[1]), cut)
            first == Complete(LogRecord(batch[1]))
            second == Complete(LogRecord(batch[2]))
        IN  /\ ReadsAsPieces(<<second, rest>>)
            /\ ReadsAsPieces(<<rest, second, first>>)
=============================================================================
