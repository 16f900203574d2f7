-------------------------------- MODULE Wire --------------------------------
(***************************************************************************)
(* Commands on a connection: encode_command() writes them one frame behind *)
(* the other, the loop of drain_connection() of src/net.cpp reads what has *)
(* arrived of them.                                                        *)
(***************************************************************************)
EXTENDS Protocol

\* The commands that arrive as they were sent: the length of the payload fits
\* its field and unpack_add_order() does not find it too large.
Sendable ==
    {c \in Command : /\ Len(Payload(c)) < Power[LengthBytes]
                     /\ c.type = "Add" => Len(Payload(c)) <= MaxAddPayload}

\* The bytes of the first k commands, for each k.
FramesOf(commands) ==
    LET frames[k \in 0..Len(commands)] ==
            IF k = 0 THEN <<>> ELSE frames[k - 1] \o EncodeCommand(commands[k])
    IN  frames
Stream == FramesOf(batch)[Len(batch)]

-----------------------------------------------------------------------------
(***************************************************************************)
(* The loop.  It goes on while the status is "ok"; with "short" the rest   *)
(* is awaited, with "bad" the session is dropped.                          *)
(***************************************************************************)
Received(status, offset, commands) ==
    [status |-> status, offset |-> offset, commands |-> commands]

NextFrame(data, r) ==
    LET frame == ParsedFrame(data, r.offset)
        command == DecodeCommand(frame.code, frame.payload)
    IN  IF r.status # "ok" THEN r
        ELSE IF frame.status # "ok" THEN [r EXCEPT !.status = frame.status]
        ELSE IF frame.code = MessageType.Event THEN [r EXCEPT !.offset = frame.offset]
        ELSE IF command.type = "malformed" THEN [r EXCEPT !.status = "bad"]
        ELSE Received("ok", frame.offset, Append(r.commands, command))

\* Every frame takes a byte at least, so the loop has ended after Len(data) + 1
\* rounds.
ReadFrames(data) ==
    LET after[n \in 0..(Len(data) + 1)] ==
            IF n = 0 THEN Received("ok", 0, <<>>) ELSE NextFrame(data, after[n - 1])
    IN  after[Len(data) + 1]

-----------------------------------------------------------------------------
\* However much of a stream has arrived, the reader hands on exactly the commands
\* that are there whole, equal to the ones sent, stops behind the last of them
\* and waits for the rest.
FramesReassembled ==
    cut <= Len(Stream) =>
        \E k \in 0..Len(batch) :
            LET end == Len(FramesOf(batch)[k])
            IN  /\ end <= cut
                /\ k < Len(batch) => cut < Len(FramesOf(batch)[k + 1])
                /\ ReadFrames(SubSeq(Stream, 1, cut)) = Received("short", end, SubSeq(batch, 1, k))
=============================================================================
