--------------------------- MODULE OrderEntryServer ---------------------------
(***************************************************************************)
(* The poll-based TCP order-entry server of src/net.cpp, its clients, and  *)
(* the handler it calls: the ingress of Gateway, which is where commands   *)
(* enter the pipeline.  The server's I/O thread is one actor, each client  *)
(* another, the thread that calls start() and stop() a third.              *)
(*                                                                         *)
(* A client writes the bytes of its script, cut anywhere.  The kernel      *)
(* keeps what the server has not read; a reset throws it away.             *)
(***************************************************************************)
EXTENDS Gateway, Selection, SequencesExt

CONSTANTS
    Clients,
    Messages,     \* what a client can say
    Plans,        \* what the clients may be going to send: messages for each
    HeaderBytes,  \* the bytes of a frame that tell its length: 5
    Chunk,        \* sizeof(buf) in drain_connection()
    MaxStops      \* bound: calls of stop()

(***************************************************************************)
(* A message is the number of bytes the client sends, the number that the  *)
(* frame claims to have, the symbol of its command and what parse_frame()  *)
(* and decode_command() make of it once it is there: "command", "event",   *)
(* or "malformed".  Protocol says what is malformed.                       *)
(***************************************************************************)
ASSUME ServerAssumption ==
    /\ HeaderBytes \in Nat \ {0} /\ Chunk \in Nat \ {0} /\ MaxStops \in Nat
    /\ Plans \subseteq [Clients -> Seq(Messages)]
    /\ \A m \in Messages :
          /\ m.bytes \in Nat \ {0} /\ m.claims \in Nat /\ m.claims >= HeaderBytes
          /\ m.kind \in {"command", "event", "malformed"}
          /\ m.bytes # m.claims => m.kind = "malformed"

VARIABLES
    script,   \* what each client has to say
    sent,     \* how many bytes of it are sent
    line,     \* the client's end: "none", "open", "closed", "reset", "over"
    kernel,   \* received by the kernel, not yet read by the server
    backlog,  \* connections not yet accepted, oldest first
    conns,    \* conns_: the sessions of the server, oldest first
    fd,       \* the server's end of each session: "none", "open", "closed"
    buffer,   \* Conn::buffer
    running,  \* running_
    stops,    \* number of calls of stop()
    pc,       \* where the I/O thread is
    ready,    \* the sessions of this round that drain_connection() has still to see
    offset,   \* the local variable of drain_connection()
    handled   \* history: the messages given to the handler, per client

clientVars == <<script, sent, line>>
sessionVars == <<backlog, conns, fd>>
controlVars == <<running, stops>>
vars == <<script, sent, line, kernel, backlog, conns, fd, buffer, running, stops,
          pc, ready, offset, handled, gatewayVars>>

\* Where each message of a script ends in its stream of bytes.
Ends(messages) ==
    LET end[i \in 0..Len(messages)] == IF i = 0 THEN 0 ELSE end[i - 1] + messages[i].bytes
    IN  end

\* The bytes of a script: byte k of message i is <<i, k>>.
Bytes(messages) ==
    LET end == Ends(messages)
    IN  [b \in 1..end[Len(messages)] |->
            LET i == CHOOSE j \in 1..Len(messages) : end[j - 1] < b /\ b <= end[j]
            IN  <<i, b - end[i - 1]>>]

Init ==
    /\ script \in Plans
    /\ sent = [c \in Clients |-> 0]
    /\ line = [c \in Clients |-> "none"]
    /\ kernel = [c \in Clients |-> <<>>]
    /\ backlog = <<>>
    /\ conns = <<>>
    /\ fd = [c \in Clients |-> "none"]
    /\ buffer = [c \in Clients |-> <<>>]
    /\ running = FALSE
    /\ stops = 0
    /\ pc = "stopped"
    /\ ready = <<>>
    /\ offset = 0
    /\ handled = [c \in Clients |-> <<>>]
    /\ GatewayInit

-----------------------------------------------------------------------------
(***************************************************************************)
(* The clients.                                                            *)
(***************************************************************************)
\* A client that has nothing to say stays away.
Connect(c) ==
    /\ line[c] = "none"
    /\ script[c] # <<>>
    /\ line' = [line EXCEPT ![c] = "open"]
    /\ backlog' = Append(backlog, c)
    /\ UNCHANGED <<script, sent, kernel, conns, fd, buffer, controlVars, pc, ready, offset,
                   handled, gatewayVars>>

\* The client sends up to byte n of its script.
Send(c, n) ==
    /\ line[c] = "open"
    /\ fd[c] # "closed"
    /\ sent[c] < n
    /\ sent' = [sent EXCEPT ![c] = n]
    /\ kernel' = [kernel EXCEPT ![c] = @ \o SubSeq(Bytes(script[c]), sent[c] + 1, n)]
    /\ UNCHANGED <<script, line, sessionVars, buffer, controlVars, pc, ready, offset, handled,
                   gatewayVars>>

CloseClient(c) ==
    /\ line[c] = "open"
    /\ line' = [line EXCEPT ![c] = "closed"]
    /\ UNCHANGED <<script, sent, kernel, sessionVars, buffer, controlVars, pc, ready, offset,
                   handled, gatewayVars>>

ResetClient(c) ==
    /\ line[c] = "open"
    /\ line' = [line EXCEPT ![c] = "reset"]
    /\ kernel' = [kernel EXCEPT ![c] = <<>>]
    /\ UNCHANGED <<script, sent, sessionVars, buffer, controlVars, pc, ready, offset, handled,
                   gatewayVars>>

-----------------------------------------------------------------------------
(***************************************************************************)
(* start() and stop()                                                      *)
(***************************************************************************)
Start ==
    /\ ~running
    /\ pc = "stopped"
    /\ stops < MaxStops
    /\ running' = TRUE
    /\ pc' = "poll"
    /\ UNCHANGED <<clientVars, kernel, sessionVars, buffer, stops, ready, offset, handled,
                   gatewayVars>>

Stop ==
    /\ running
    /\ running' = FALSE
    /\ stops' = stops + 1
    /\ UNCHANGED <<clientVars, kernel, sessionVars, buffer, pc, ready, offset, handled, gatewayVars>>

\* The I/O thread has ended: stop() joins it and closes every session.
Join ==
    /\ pc = "ended"
    /\ pc' = "stopped"
    /\ fd' = [c \in Clients |-> IF fd[c] = "open" THEN "closed" ELSE fd[c]]
    /\ conns' = <<>>
    /\ buffer' = [c \in Clients |-> <<>>]
    /\ kernel' = [c \in Clients |-> IF fd[c] = "open" THEN <<>> ELSE kernel[c]]
    /\ UNCHANGED <<clientVars, backlog, controlVars, ready, offset, handled, gatewayVars>>

-----------------------------------------------------------------------------
(***************************************************************************)
(* run(): poll, accept, drain every ready session, erase the closed ones.  *)
(***************************************************************************)
ReadableWhenFull(c) == Len(kernel[c]) >= Chunk \/ line[c] # "open"
Readable(c) == kernel[c] # <<>> \/ line[c] # "open"

RunEndsWhenIdle ==
    /\ pc = "poll"
    /\ ~running /\ conns = <<>>
    /\ pc' = "ended"
    /\ UNCHANGED <<clientVars, kernel, sessionVars, buffer, controlVars, ready, offset, handled,
                   gatewayVars>>

RunEnds ==
    /\ pc = "poll"
    /\ ~running
    /\ pc' = "ended"
    /\ UNCHANGED <<clientVars, kernel, sessionVars, buffer, controlVars, ready, offset, handled,
                   gatewayVars>>

\* poll() reports something; as long as it does not, the loop only turns.
Poll ==
    /\ pc = "poll"
    /\ running
    /\ ready' = Kept(conns, {i \in DOMAIN conns : Readable(conns[i])})
    /\ backlog # <<>> \/ ready' # <<>>
    /\ pc' = IF backlog # <<>> THEN "accept" ELSE "drain"
    /\ UNCHANGED <<clientVars, kernel, sessionVars, buffer, controlVars, offset, handled, gatewayVars>>

Accept ==
    /\ pc = "accept"
    /\ conns' = conns \o backlog
    /\ fd' = [c \in Clients |-> IF c \in ToSet(backlog) THEN "open" ELSE fd[c]]
    /\ backlog' = <<>>
    /\ pc' = "drain"
    /\ UNCHANGED <<clientVars, kernel, buffer, controlVars, ready, offset, handled, gatewayVars>>

EraseClosed ==
    /\ pc = "drain"
    /\ ready = <<>>
    /\ conns' = Kept(conns, {i \in DOMAIN conns : fd[conns[i]] = "open"})
    /\ pc' = "poll"
    /\ UNCHANGED <<clientVars, kernel, backlog, fd, buffer, controlVars, ready, offset, handled,
                   gatewayVars>>

-----------------------------------------------------------------------------
(***************************************************************************)
(* drain_connection(): read until there is nothing, then handle frames.    *)
(***************************************************************************)
Draining == pc = "drain" /\ ready # <<>>
session == Head(ready)

\* The session is over: its descriptor is closed, with what the kernel holds.
Drop ==
    /\ fd' = [fd EXCEPT ![session] = "closed"]
    /\ kernel' = [kernel EXCEPT ![session] = <<>>]
    /\ buffer' = [buffer EXCEPT ![session] = <<>>]
    /\ ready' = Tail(ready)
    /\ pc' = "drain"
    /\ offset' = 0
    /\ UNCHANGED <<clientVars, backlog, conns, controlVars, handled, gatewayVars>>

RecvData ==
    LET n == IF Len(kernel[session]) < Chunk THEN Len(kernel[session]) ELSE Chunk
    IN  /\ Draining
        /\ kernel[session] # <<>>
        /\ buffer' = [buffer EXCEPT ![session] = @ \o SubSeq(kernel[session], 1, n)]
        /\ kernel' = [kernel EXCEPT ![session] = SubSeq(@, n + 1, Len(@))]
        /\ UNCHANGED <<clientVars, sessionVars, controlVars, pc, ready, offset, handled,
                       gatewayVars>>

RecvNothingEnds == Draining /\ kernel[session] = <<>> /\ Drop

\* recv() returns 0: the session is closed, whatever is in its buffer.
RecvEof ==
    /\ Draining
    /\ kernel[session] = <<>>
    /\ line[session] \in {"closed", "over"}
    /\ Drop

\* recv() fails: EAGAIN, or once the error of a reset, which is taken for it.
RecvNothing ==
    /\ Draining
    /\ kernel[session] = <<>>
    /\ line[session] \in {"open", "reset"}
    /\ line' = [line EXCEPT ![session] = IF @ = "reset" THEN "over" ELSE @]
    /\ pc' = "parse"
    /\ UNCHANGED <<script, sent, kernel, sessionVars, buffer, controlVars, ready, offset, handled,
                   gatewayVars>>

(***************************************************************************)
(* parse_frame() at the offset.  It is "short" while bytes are missing;    *)
(* read from anywhere but the first byte of a message, it is nonsense.     *)
(***************************************************************************)
Rest == Len(buffer[session]) - offset
First == buffer[session][offset + 1]
Message == script[session][First[1]]

ParseFrame ==
    IF Rest < HeaderBytes THEN "short"
    ELSE IF First[2] # 1 THEN "malformed"
    ELSE IF Rest < Message.claims THEN "short"
    ELSE Message.kind

\* No further whole frame: what was handled is erased from the buffer.
EraseNothing == buffer[session]
EraseHandled == SubSeq(buffer[session], offset + 1, Len(buffer[session]))

ParseShort ==
    /\ pc = "parse"
    /\ ParseFrame = "short"
    /\ buffer' = [buffer EXCEPT ![session] = EraseHandled]
    /\ offset' = 0
    /\ ready' = Tail(ready)
    /\ pc' = "drain"
    /\ UNCHANGED <<clientVars, kernel, sessionVars, controlVars, handled, gatewayVars>>

\* A frame that fails its checksum or does not decode: drop the session.
ParseBad ==
    /\ pc = "parse"
    /\ ParseFrame = "malformed"
    /\ Drop

SkipEvent ==
    /\ pc = "parse"
    /\ ParseFrame = "event"
    /\ offset' = offset + Message.claims
    /\ UNCHANGED <<clientVars, kernel, sessionVars, buffer, controlVars, pc, ready, handled,
                   gatewayVars>>

Handle ==
    /\ pc = "parse"
    /\ ParseFrame = "command"
    /\ handled' = [handled EXCEPT ![session] = Append(@, First[1])]
    /\ Ingest(Message.symbol)
    /\ offset' = offset + Message.claims
    /\ UNCHANGED <<clientVars, kernel, sessionVars, buffer, controlVars, pc, ready>>

\* The consumer of the ring takes a command; it is on the I/O thread too, since
\* the ring has no lock.
Feed ==
    /\ pc = "poll"
    /\ Deliver
    /\ UNCHANGED <<clientVars, kernel, sessionVars, buffer, controlVars, pc, ready, offset, handled>>

-----------------------------------------------------------------------------
IoThread ==
    \/ RunEnds \/ Poll \/ Accept \/ EraseClosed
    \/ RecvData \/ RecvEof \/ RecvNothing
    \/ ParseShort \/ ParseBad \/ SkipEvent \/ Handle

Client(c) ==
    \/ Connect(c) \/ CloseClient(c) \/ ResetClient(c)
    \/ \E n \in 1..Len(Bytes(script[c])) : Send(c, n)

Next == IoThread \/ Feed \/ Start \/ Stop \/ Join \/ \E c \in Clients : Client(c)

\* The I/O thread runs, and stop() goes on to join it.
Spec == Init /\ [][Next]_vars
FairSpec == Spec /\ WF_vars(IoThread) /\ WF_vars(Join)

-----------------------------------------------------------------------------
(***************************************************************************)
(* Properties.                                                             *)
(***************************************************************************)
\* Every variable keeps its type.
TypeOK ==
    /\ script \in Plans
    /\ sent \in [Clients -> Nat] /\ \A c \in Clients : sent[c] <= Len(Bytes(script[c]))
    /\ line \in [Clients -> {"none", "open", "closed", "reset", "over"}]
    /\ fd \in [Clients -> {"none", "open", "closed"}]
    /\ kernel \in [Clients -> Seq(Nat \X Nat)] /\ buffer \in [Clients -> Seq(Nat \X Nat)]
    /\ conns \in Seq(Clients) /\ backlog \in Seq(Clients) /\ ready \in Seq(Clients)
    /\ handled \in [Clients -> Seq(Nat)]
    /\ running \in BOOLEAN /\ stops \in 0..MaxStops
    /\ pc \in {"stopped", "poll", "accept", "drain", "parse", "ended"}
    /\ offset \in Nat
    /\ IF pc = "parse" THEN ready # <<>> ELSE offset = 0

WellFormed(c) == \A i \in DOMAIN script[c] : script[c][i].kind # "malformed"

\* The commands of a client's script before its first malformed message.
Meant(c) ==
    Kept([i \in 1..Len(script[c]) |-> i],
         {i \in DOMAIN script[c] : /\ script[c][i].kind = "command"
                                   /\ \A j \in 1..i : script[c][j].kind # "malformed"})

\* However the bytes are cut and whatever the other sessions do, the handler
\* sees the commands of each session in the order sent, none twice, and none
\* behind a malformed frame.
HandledAsMeant == \A c \in Clients : IsPrefix(handled[c], Meant(c))

\* A session ends only for a reason of its own: its client closed or reset it,
\* it sent something malformed, or the server was stopped.
DroppedForReason ==
    \A c \in Clients : fd[c] = "closed" =>
        \/ line[c] # "open"
        \/ stops > 0
        \/ ~WellFormed(c)

\* Commands leave the ingress in the order in which they got their numbers, and
\* none is skipped but by a full ring, which holds the latest ones without gaps;
\* an id stands for one symbol for ever, in what the ring still holds too.
IngressSound ==
    /\ \A i \in DOMAIN ring : ring[i].ingress = next - 1 - (Len(ring) - i)
    /\ \A i \in DOMAIN delivered :
          /\ \A j \in DOMAIN delivered : i < j => delivered[i] < delivered[j]
          /\ \A j \in DOMAIN ring : delivered[i] < ring[j].ingress
    /\ Capacity > 0 => Len(ring) <= Capacity
    /\ \A s \in DOMAIN ids : names[ids[s] + 1] = s
    /\ \A i \in DOMAIN names : ids[names[i]] = i - 1

\* A session whose client says nothing malformed and stays is served to the
\* last byte, as long as the server runs; so is one that waited in the backlog
\* while the server was stopped.
SessionServed ==
    \A c \in Clients :
        (WellFormed(c) /\ sent[c] = Len(Bytes(script[c])) /\ fd[c] # "closed" /\ running)
            ~> (handled[c] = Meant(c) \/ line[c] # "open" \/ ~running)

\* stop() returns, in the middle of a round too.
StopReturns == ~running ~> pc = "stopped"

\* Every command of a stream that reached the server whole is given to the
\* handler before the session is over.
ClosedAfterHandled ==
    \A c \in Clients :
        fd[c] = "closed" /\ line[c] = "closed" /\ stops = 0 /\ sent[c] = Len(Bytes(script[c]))
            => handled[c] = Meant(c)
=============================================================================
