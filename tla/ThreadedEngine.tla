--------------------------- MODULE ThreadedEngine ---------------------------
(***************************************************************************)
(* ThreadedShardedEngine (include/threaded_engine.hpp): one producer       *)
(* thread in submit(), one worker thread per shard, one consumer thread in *)
(* drain(), which may be the producer's, and one thread that calls start() *)
(* and stop().  The queues between them are the bounded FIFO that          *)
(* SpscQueue implements, so a push() or pop() is one step.                 *)
(*                                                                         *)
(* push() takes its argument by value: push(std::move(msg)) empties msg    *)
(* whether or not the queue takes it.  A message is therefore its id and   *)
(* whether its strings and vectors are still there (whole); the shard of a *)
(* command is a hash of its symbol, which a moved-from command has lost.   *)
(***************************************************************************)
EXTENDS Integers, Sequences, SequencesExt, FiniteSetsExt

CONSTANTS
    N,            \* shard_count_
    EmptyShard,   \* the shard of the empty symbol
    Inbound,      \* capacity of an inbound queue
    Outbound,     \* capacity of an outbound queue
    MaxSubmits,   \* bound: calls of submit()
    MaxStops,     \* bound: calls of stop()
    NULL

Shards == 1..N

Message == [id: 1..MaxSubmits, shard: Shards, whole: BOOLEAN]

ASSUME ThreadAssumption ==
    /\ N \in Nat \ {0}
    /\ EmptyShard \in Shards
    /\ Inbound \in Nat \ {0} /\ Outbound \in Nat \ {0}
    /\ MaxSubmits \in Nat /\ MaxStops \in Nat
    /\ NULL \notin Message

VARIABLES
    running,    \* running_
    control,    \* the thread of start() and stop(): "stopped", "started", "joining"
    stops,      \* number of calls of stop()
    next,       \* next_correlation_
    submit,     \* the message submit() is pushing and its queue, NULL outside
    inbound,    \* inbound_
    worker,     \* each worker's place, and the command or result it holds
    outbound,   \* outbound_
    drain,      \* the queue drain() is at, 0 outside
    results,    \* what drain() has returned, by the queue it came from
    dropped,    \* history: the results a stop() threw away
    window,     \* history: the most commands of a shard that were at once under way
                \* from submit() to drain()
    oneThread   \* submit() and drain() are called from one thread

queues == <<inbound, outbound>>
controls == <<running, control, stops>>
vars == <<running, control, stops, next, submit, inbound, worker, outbound, drain, results, dropped,
          window, oneThread>>
log == <<window, oneThread>>

\* What push(std::move(msg)) leaves in msg.
Emptied(m) == [m EXCEPT !.whole = FALSE]

Place(pc, m) == [pc |-> pc, msg |-> m]

\* A queue takes a message unless it is full.
RoomButOne(q, capacity) == Len(q) < capacity - 1
Room(q, capacity) == Len(q) < capacity

\* The shard that ShardedMatchingEngine routes a command to.
Routed(m) == IF m.whole THEN m.shard ELSE EmptyShard

Init ==
    /\ running = FALSE
    /\ control = "stopped"
    /\ stops = 0
    /\ next = 0
    /\ submit = NULL
    /\ inbound = [s \in Shards |-> <<>>]
    /\ worker = [s \in Shards |-> Place("ended", NULL)]
    /\ outbound = [s \in Shards |-> <<>>]
    /\ drain = 0
    /\ results = [s \in Shards |-> <<>>]
    /\ dropped = {}
    /\ window = [s \in Shards |-> 0]
    /\ oneThread \in BOOLEAN

-----------------------------------------------------------------------------
(***************************************************************************)
(* start() and stop()                                                      *)
(***************************************************************************)
Start ==
    /\ control = "stopped"
    /\ stops < MaxStops
    /\ running' = TRUE
    /\ control' = "started"
    /\ worker' = [s \in Shards |-> Place("loop", NULL)]
    /\ UNCHANGED <<stops, next, submit, queues, drain, results, dropped, log>>

Stop ==
    /\ control = "started"
    /\ running' = FALSE
    /\ control' = "joining"
    /\ stops' = stops + 1
    /\ UNCHANGED <<next, submit, queues, worker, drain, results, dropped, log>>

Join ==
    /\ control = "joining"
    /\ \A s \in Shards : worker[s].pc = "ended"
    /\ control' = "stopped"
    /\ UNCHANGED <<running, stops, next, submit, queues, worker, drain, results, dropped, log>>

-----------------------------------------------------------------------------
(***************************************************************************)
(* submit()                                                                *)
(***************************************************************************)
Held(m) == IF m = NULL THEN <<>> ELSE <<m>>

\* The commands of a shard that drain() has not returned.
Outstanding(s) == Len(outbound[s] \o Held(worker[s].msg) \o inbound[s])

SubmitCall(s) ==
    /\ submit = NULL
    /\ oneThread => drain = 0
    /\ next < MaxSubmits
    /\ next' = next + 1
    /\ submit' = [id |-> next', shard |-> s, whole |-> TRUE]
    /\ window' = [window EXCEPT ![s] = IF @ > Outstanding(s) THEN @ ELSE Outstanding(s) + 1]
    /\ UNCHANGED <<controls, queues, worker, drain, results, dropped, oneThread>>

SubmitPush ==
    /\ submit # NULL
    /\ Room(inbound[submit.shard], Inbound)
    /\ inbound' = [inbound EXCEPT ![submit.shard] = Append(@, submit)]
    /\ submit' = NULL
    /\ UNCHANGED <<controls, next, outbound, worker, drain, results, dropped, log>>

SubmitRetry ==
    /\ submit # NULL
    /\ ~Room(inbound[submit.shard], Inbound)
    /\ submit' = Emptied(submit)
    /\ UNCHANGED <<controls, next, queues, worker, drain, results, dropped, log>>

-----------------------------------------------------------------------------
(***************************************************************************)
(* run_worker()                                                            *)
(***************************************************************************)
WorkerLoop(s) ==
    /\ worker[s].pc = "loop"
    /\ worker' = [worker EXCEPT ![s] = Place(IF running THEN "pop" ELSE "ended", NULL)]
    /\ UNCHANGED <<controls, next, submit, queues, drain, results, dropped, log>>

WorkerIdle(s) ==
    /\ worker[s].pc = "pop"
    /\ inbound[s] = <<>>
    /\ worker' = [worker EXCEPT ![s] = Place("loop", NULL)]
    /\ UNCHANGED <<controls, next, submit, queues, drain, results, dropped, log>>

Take(q) == [msg |-> Head(q), rest |-> Tail(q)]

WorkerPopWithRoom(s) ==
    /\ worker[s].pc = "pop"
    /\ inbound[s] # <<>> /\ Room(outbound[s], Outbound)
    /\ inbound' = [inbound EXCEPT ![s] = Take(@).rest]
    /\ worker' = [worker EXCEPT ![s] = Place("execute", Take(inbound[s]).msg)]
    /\ UNCHANGED <<controls, next, submit, outbound, drain, results, dropped, log>>

WorkerPop(s) ==
    /\ worker[s].pc = "pop"
    /\ inbound[s] # <<>>
    /\ inbound' = [inbound EXCEPT ![s] = Take(@).rest]
    /\ worker' = [worker EXCEPT ![s] = Place("execute", Take(inbound[s]).msg)]
    /\ UNCHANGED <<controls, next, submit, outbound, drain, results, dropped, log>>

\* The call of add(), cancel() or replace() lasts while pc is "execute"; it ends
\* with a result that has its events.
WorkerExecute(s) ==
    /\ worker[s].pc = "execute"
    /\ worker' = [worker EXCEPT ![s] = Place("publish", [@.msg EXCEPT !.whole = TRUE])]
    /\ UNCHANGED <<controls, next, submit, queues, drain, results, dropped, log>>

\* The condition of the publishing loop: running_ first ...
WorkerPublishAlways(s) ==
    /\ worker[s].pc = "publish"
    /\ worker' = [worker EXCEPT ![s].pc = "push"]
    /\ UNCHANGED <<controls, next, submit, queues, drain, results, dropped, log>>

WorkerPublish(s) ==
    /\ worker[s].pc = "publish"
    /\ worker' = [worker EXCEPT ![s] = IF running THEN Place("push", @.msg) ELSE Place("loop", NULL)]
    /\ dropped' = IF running THEN dropped ELSE dropped \cup {worker[s].msg.id}
    /\ UNCHANGED <<controls, next, submit, queues, drain, results, log>>

\* ... then the push.
WorkerPushAgain(s) ==
    /\ worker[s].pc = "push"
    /\ Room(outbound[s], Outbound)
    /\ outbound' = [outbound EXCEPT ![s] = Append(@, worker[s].msg)]
    /\ worker' = [worker EXCEPT ![s].pc = "publish"]
    /\ UNCHANGED <<controls, next, submit, inbound, drain, results, dropped, log>>

WorkerPush(s) ==
    /\ worker[s].pc = "push"
    /\ Room(outbound[s], Outbound)
    /\ outbound' = [outbound EXCEPT ![s] = Append(@, worker[s].msg)]
    /\ worker' = [worker EXCEPT ![s] = Place("loop", NULL)]
    /\ UNCHANGED <<controls, next, submit, inbound, drain, results, dropped, log>>

WorkerRetry(s) ==
    /\ worker[s].pc = "push"
    /\ ~Room(outbound[s], Outbound)
    /\ worker' = [worker EXCEPT ![s] = Place("publish", Emptied(@.msg))]
    /\ UNCHANGED <<controls, next, submit, queues, drain, results, dropped, log>>

-----------------------------------------------------------------------------
(***************************************************************************)
(* drain(): each outbound queue in turn until it is empty.                 *)
(***************************************************************************)
DrainCall ==
    /\ drain = 0
    /\ oneThread => submit = NULL
    /\ drain' = 1
    /\ UNCHANGED <<controls, next, submit, queues, worker, results, dropped, log>>

DrainPop ==
    /\ drain # 0
    /\ outbound[drain] # <<>>
    /\ results' = [results EXCEPT ![drain] = Append(@, Take(outbound[drain]).msg)]
    /\ outbound' = [outbound EXCEPT ![drain] = Take(@).rest]
    /\ UNCHANGED <<controls, next, submit, inbound, worker, drain, dropped, log>>

DrainNextForgotten ==
    /\ drain # 0
    /\ outbound[drain] = <<>>
    /\ drain' = 0
    /\ UNCHANGED <<controls, next, submit, queues, worker, results, dropped, log>>

DrainNext ==
    /\ drain # 0
    /\ outbound[drain] = <<>>
    /\ drain' = (drain + 1) % (N + 1)
    /\ UNCHANGED <<controls, next, submit, queues, worker, results, dropped, log>>

-----------------------------------------------------------------------------
Worker(s) ==
    \/ WorkerLoop(s) \/ WorkerIdle(s) \/ WorkerPop(s) \/ WorkerExecute(s)
    \/ WorkerPublish(s) \/ WorkerPush(s) \/ WorkerRetry(s)

Submitting == SubmitPush \/ SubmitRetry
Draining == DrainCall \/ DrainPop \/ DrainNext

Next ==
    \/ Start \/ Stop \/ Join
    \/ \E s \in Shards : SubmitCall(s)
    \/ SubmitPush \/ SubmitRetry
    \/ \E s \in Shards : Worker(s)
    \/ DrainCall \/ DrainPop \/ DrainNext

\* The scheduler runs every thread again and again.
ThreadFairness ==
    /\ WF_vars(Submitting)
    /\ WF_vars(Join)
    /\ \A s \in Shards : WF_vars(Worker(s))

Spec == Init /\ [][Next]_vars
ThreadSpec == Spec /\ ThreadFairness

-----------------------------------------------------------------------------
(***************************************************************************)
(* Properties.                                                             *)
(***************************************************************************)
\* Every variable keeps its type.
TypeOK ==
    /\ running \in BOOLEAN
    /\ control \in {"stopped", "started", "joining"}
    /\ next \in 0..MaxSubmits /\ stops \in 0..MaxStops
    /\ submit \in Message \cup {NULL}
    /\ inbound \in [Shards -> Seq(Message)]
    /\ outbound \in [Shards -> Seq(Message)]
    /\ \A s \in Shards : Len(inbound[s]) <= Inbound /\ Len(outbound[s]) <= Outbound
    /\ worker \in [Shards -> [pc: {"ended", "loop", "pop", "execute", "publish", "push"},
                              msg: Message \cup {NULL}]]
    /\ results \in [Shards -> Seq(Message)]
    /\ drain \in 0..N
    /\ dropped \subseteq 1..MaxSubmits
    /\ window \in [Shards -> Nat]
    /\ oneThread \in BOOLEAN

Submitted(s) == IF submit # NULL /\ submit.shard = s THEN <<submit>> ELSE <<>>

\* The messages of a shard along the pipeline, oldest first.
Pipeline(s) ==
    results[s] \o outbound[s] \o Held(worker[s].msg) \o inbound[s] \o Submitted(s)

Ids(q) == {m.id : m \in ToSet(q)}

\* Every submitted command is in exactly one place of one shard's pipeline, in
\* submission order, from submit() to what drain() returned; only a stop() that
\* caught a worker publishing takes a result out of it.
PipelineExact ==
    /\ \A s \in Shards : \A i, j \in DOMAIN Pipeline(s) :
          i < j => Pipeline(s)[i].id < Pipeline(s)[j].id
    /\ \A s, t \in Shards : s # t => Ids(Pipeline(s)) \cap Ids(Pipeline(t)) = {}
    /\ UNION {Ids(Pipeline(s)) : s \in Shards} = (1..next) \ dropped
    /\ Cardinality(dropped) <= N * stops

\* An application that never had more commands of a shard under way than its
\* inbound queue holds loses no command, and its worker stays in its own shard;
\* one that never had more than the outbound queue holds loses no result: events,
\* trades and rejection arrive with the id.  Past that, a push() that finds the
\* queue full empties what it is then retried with.
ContentsKept ==
    \A s \in Shards :
        /\ window[s] <= Inbound =>
              /\ \A m \in ToSet(inbound[s] \o Submitted(s)) : m.whole
              /\ worker[s].pc = "execute" => Routed(worker[s].msg) = s
        /\ window[s] <= Outbound => \A m \in ToSet(results[s] \o outbound[s]) : m.whole

\* stop() returns: a worker waiting for room in its outbound queue sees that
\* running_ was cleared, even if nobody drains any more.
StopReturns == control = "joining" ~> control = "stopped"

\* While the engine is running and the application keeps calling drain(), every
\* id that submit() took comes back on a result, however small the queues are,
\* unless a stop() threw it away.
ResultsEchoed ==
    WF_vars(Draining) =>
        \A k \in 1..MaxSubmits :
            ~oneThread /\ next = k ~> \/ ~running \/ k \in dropped
                                      \/ \E s \in Shards : k \in Ids(results[s])

\* submit() returns while the engine is running and the application keeps
\* draining.  A thread that also drains, and cannot while it is in submit(), may
\* have as many commands of a shard outstanding as its two queues and its worker
\* hold.
SubmitReturns ==
    WF_vars(Draining) =>
        /\ submit # NULL
        /\ oneThread => Outstanding(submit.shard) <= Inbound + Outbound
        ~> submit = NULL \/ ~running

\* Two workers are never inside the same shard at the same time.
ShardsExclusive ==
    \A s, t \in Shards :
        s # t /\ worker[s].pc = "execute" /\ worker[t].pc = "execute"
            => Routed(worker[s].msg) # Routed(worker[t].msg)
=============================================================================
