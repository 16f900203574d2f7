------------------------ MODULE ThreadedEngineProofs ------------------------
(***************************************************************************)
(* Proofs about ThreadedEngine, for every number of shards, capacity of    *)
(* the queues and number of calls: the threads neither lose, duplicate nor *)
(* reorder a command on its way from submit() to drain().                  *)
(***************************************************************************)
EXTENDS ThreadedEngine, SequenceTheorems, FiniteSetTheorems, TLAPS

(***************************************************************************)
(* Type correctness.                                                       *)
(***************************************************************************)
Pcs == {"ended", "loop", "pop", "execute", "publish", "push"}

\* The queues of a shard, one at a time.
LEMMA TypeOfQueues ==
    ASSUME TypeOK, NEW s \in Shards
    PROVE  /\ inbound[s] \in Seq(Message) /\ Len(inbound[s]) <= Inbound
           /\ outbound[s] \in Seq(Message) /\ Len(outbound[s]) <= Outbound
           /\ results[s] \in Seq(Message)
           /\ worker[s] \in [pc: Pcs, msg: Message \cup {NULL}]
BY DEF TypeOK, Pcs

\* A worker in execute, publish or push holds a message, any other none.
WorkerHolds ==
    \A s \in Shards :
        worker[s].pc \in {"execute", "publish", "push"} <=> worker[s].msg # NULL

\* The workers have ended once stop() has returned, and running_ is set exactly
\* between start() and stop().
ControlInv ==
    /\ running <=> control = "started"
    /\ control = "stopped" => \A s \in Shards : worker[s].pc = "ended"
    /\ stops = MaxStops => control # "started"

BaseInv == TypeOK /\ WorkerHolds /\ ControlInv

\* It holds before the first start().
LEMMA BaseInit == Init => BaseInv
<1> SUFFICES ASSUME Init PROVE BaseInv  OBVIOUS
<1>1. TypeOK
  <2>1. <<>> \in Seq(Message) /\ Len(<<>>) = 0  OBVIOUS
  <2>2. /\ inbound \in [Shards -> Seq(Message)] /\ outbound \in [Shards -> Seq(Message)]
        /\ results \in [Shards -> Seq(Message)]
        /\ \A s \in Shards : Len(inbound[s]) = 0 /\ Len(outbound[s]) = 0
    BY <2>1 DEF Init
  <2>3. worker \in [Shards -> [pc: Pcs, msg: Message \cup {NULL}]]
    BY DEF Init, Place, Pcs
  <2>4. running \in BOOLEAN /\ oneThread \in BOOLEAN  BY Zenon DEF Init
  <2>5. next \in 0..MaxSubmits /\ stops \in 0..MaxStops /\ drain \in 0..N
    BY ThreadAssumption DEF Init
  <2>6. \A s \in Shards : Len(inbound[s]) <= Inbound /\ Len(outbound[s]) <= Outbound
    BY <2>2, ThreadAssumption
  <2>7. /\ control \in {"stopped", "started", "joining"} /\ submit \in Message \cup {NULL}
        /\ dropped \subseteq 1..MaxSubmits /\ window \in [Shards -> Nat]
    BY DEF Init
  <2>8. QED
    BY <2>2, <2>3, <2>4, <2>5, <2>6, <2>7 DEF TypeOK, Pcs
<1>2. WorkerHolds  BY DEF Init, WorkerHolds, Place
<1>3. ControlInv  BY DEF Init, ControlInv, Place
<1>4. QED  BY <1>1, <1>2, <1>3 DEF BaseInv

\* What is popped off a queue, and what stays in it, keeps its type.
LEMMA TakeType ==
    ASSUME NEW q \in Seq(Message), q # <<>>
    PROVE  /\ Take(q).msg \in Message /\ Take(q).msg = Head(q)
           /\ Take(q).rest \in Seq(Message) /\ Take(q).rest = Tail(q)
           /\ Len(Take(q).rest) = Len(q) - 1
BY DEF Take

\* The messages a worker and submit() hold.
AtWork(s) == IF worker[s].msg = NULL THEN 0 ELSE 1
AtDoor(s) == IF submit # NULL /\ submit.shard = s THEN 1 ELSE 0

\* What is under way, by the place where it is.
LEMMA CountUnderWay ==
    ASSUME TypeOK, NEW s \in Shards
    PROVE  /\ Len(outbound[s]) \in Nat /\ Len(inbound[s]) \in Nat
           /\ Outstanding(s) = Len(outbound[s]) + AtWork(s) + Len(inbound[s])
           /\ Outstanding(s) \in Nat
<1> DEFINE o == outbound[s]
           i == inbound[s]
           w == Held(worker[s].msg)
<1>1. /\ o \in Seq(Message) /\ i \in Seq(Message) /\ worker[s].msg \in Message \cup {NULL}
      /\ Outstanding(s) = Len((o \o w) \o i)
  BY TypeOfQueues DEF Outstanding
<1>2. w \in Seq(Message) /\ Len(w) = AtWork(s) /\ AtWork(s) \in Nat
  BY <1>1 DEF Held, AtWork
<1> HIDE DEF o, i, w
<1>3. (o \o w) \in Seq(Message) /\ Len(o \o w) = Len(o) + Len(w)  BY <1>1, <1>2, ConcatProperties
<1>4. Len((o \o w) \o i) = Len(o \o w) + Len(i)  BY <1>1, <1>3, ConcatProperties
<1>5. Len(o) \in Nat /\ Len(i) \in Nat  BY <1>1, LenProperties
<1>6. Outstanding(s) = Len(o) + AtWork(s) + Len(i) /\ Outstanding(s) \in Nat
  BY <1>1, <1>2, <1>3, <1>4, <1>5
<1>7. QED  BY <1>5, <1>6 DEF o, i

\* Every step of every thread keeps it.
LEMMA BaseNext == BaseInv /\ [Next]_vars => BaseInv'
<1> SUFFICES ASSUME BaseInv, [Next]_vars PROVE BaseInv'  OBVIOUS
<1>1. TypeOK /\ WorkerHolds /\ ControlInv  BY DEF BaseInv
<1>2. /\ running \in BOOLEAN /\ control \in {"stopped", "started", "joining"}
      /\ next \in 0..MaxSubmits /\ stops \in 0..MaxStops
      /\ submit \in Message \cup {NULL}
      /\ inbound \in [Shards -> Seq(Message)]
      /\ outbound \in [Shards -> Seq(Message)]
      /\ \A s \in Shards : Len(inbound[s]) <= Inbound /\ Len(outbound[s]) <= Outbound
      /\ worker \in [Shards -> [pc: Pcs, msg: Message \cup {NULL}]]
      /\ results \in [Shards -> Seq(Message)]
      /\ drain \in 0..N
      /\ dropped \subseteq 1..MaxSubmits /\ window \in [Shards -> Nat]
      /\ oneThread \in BOOLEAN
  BY <1>1 DEF TypeOK, Pcs
<1> USE ThreadAssumption
<1>3. CASE Start
  BY <1>1, <1>2, <1>3
  DEF Start, queues, log, BaseInv, TypeOK, WorkerHolds, ControlInv, Place, Pcs
<1>4. CASE Stop
  <2>1. stops' \in 0..MaxStops  BY <1>1, <1>2, <1>4 DEF Stop, ControlInv
  <2>2. QED
    BY <2>1, <1>1, <1>2, <1>4
    DEF Stop, queues, log, BaseInv, TypeOK, WorkerHolds, ControlInv, Pcs
<1>5. CASE Join
  BY <1>1, <1>2, <1>5
  DEF Join, queues, log, BaseInv, TypeOK, WorkerHolds, ControlInv, Pcs
<1>6. ASSUME NEW s \in Shards, SubmitCall(s) PROVE BaseInv'
  <2>1. submit' \in Message /\ next' \in 0..MaxSubmits
    BY <1>2, <1>6 DEF SubmitCall, Message
  <2>2. window' \in [Shards -> Nat]
    <3>1. Outstanding(s) \in Nat  BY <1>1, CountUnderWay
    <3>2. QED  BY <1>2, <1>6, <3>1 DEF SubmitCall
  <2>3. QED
    BY <1>1, <1>2, <1>6, <2>1, <2>2
    DEF SubmitCall, controls, queues, log, BaseInv, TypeOK, WorkerHolds, ControlInv, Pcs
<1>7. CASE SubmitPush
  <2>1. submit \in Message /\ submit.shard \in Shards
    BY <1>2, <1>7 DEF SubmitPush, Message
  <2>2. /\ inbound' \in [Shards -> Seq(Message)]
        /\ \A s \in Shards : Len(inbound'[s]) <= Inbound
    BY <1>2, <1>7, <2>1 DEF SubmitPush, Room
  <2>3. QED
    BY <1>1, <1>2, <1>7, <2>2
    DEF SubmitPush, controls, log, BaseInv, TypeOK, WorkerHolds, ControlInv, Pcs
<1>8. CASE SubmitRetry
  <2>1. submit \in Message /\ submit.id \in 1..MaxSubmits
    BY <1>2, <1>8 DEF SubmitRetry, Message
  <2>2. submit' \in Message  BY <1>8, <2>1 DEF SubmitRetry, Emptied, Message
  <2>3. QED
    BY <1>1, <1>2, <1>8, <2>1, <2>2
    DEF SubmitRetry, controls, queues, log, BaseInv, TypeOK, WorkerHolds, ControlInv, Pcs
<1>9. ASSUME NEW s \in Shards, Worker(s) PROVE BaseInv'
  <2>1. worker[s] \in [pc: Pcs, msg: Message \cup {NULL}]  BY <1>2
  <2>2. CASE WorkerLoop(s)
    BY <1>1, <1>2, <2>2
    DEF WorkerLoop, controls, queues, log, BaseInv, TypeOK, WorkerHolds, ControlInv,
        Place, Pcs
  <2>3. CASE WorkerIdle(s)
    BY <1>1, <1>2, <2>3
    DEF WorkerIdle, controls, queues, log, BaseInv, TypeOK, WorkerHolds, ControlInv,
        Place, Pcs
  <2>4. CASE WorkerPop(s)
    <3>1. /\ Take(inbound[s]).msg \in Message
          /\ Take(inbound[s]).rest \in Seq(Message)
          /\ Len(Take(inbound[s]).rest) <= Inbound
      BY <1>2, <2>4, TakeType DEF WorkerPop
    <3>2. /\ inbound' \in [Shards -> Seq(Message)]
          /\ \A t \in Shards : Len(inbound'[t]) <= Inbound
      BY <1>2, <2>4, <3>1 DEF WorkerPop
    <3>3. Take(inbound[s]).msg # NULL  BY <3>1
    <3>4. QED
      BY <1>1, <1>2, <2>4, <3>1, <3>2, <3>3
      DEF WorkerPop, controls, log, BaseInv, TypeOK, WorkerHolds, ControlInv, Place, Pcs
  <2>5. CASE WorkerExecute(s)
    <3>1. worker[s].msg \in Message  BY <1>1, <2>1, <2>5 DEF WorkerHolds, WorkerExecute
    <3>2. /\ [worker[s].msg EXCEPT !.whole = TRUE] \in Message
          /\ [worker[s].msg EXCEPT !.whole = TRUE] # NULL
      BY <3>1 DEF Message
    <3>3. QED
      BY <1>1, <1>2, <2>5, <3>2
      DEF WorkerExecute, controls, queues, log, BaseInv, TypeOK, WorkerHolds, ControlInv,
          Place, Pcs
  <2>6. CASE WorkerPublish(s)
    <3>1. worker[s].msg \in Message /\ worker[s].msg.id \in 1..MaxSubmits
      BY <1>1, <2>1, <2>6 DEF WorkerHolds, WorkerPublish, Message
    <3>2. QED
      BY <1>1, <1>2, <2>6, <3>1
      DEF WorkerPublish, controls, queues, log, BaseInv, TypeOK, WorkerHolds, ControlInv,
          Place, Pcs
  <2>7. CASE WorkerPush(s)
    <3>1. worker[s].msg \in Message  BY <1>1, <2>1, <2>7 DEF WorkerHolds, WorkerPush
    <3>2. /\ outbound' \in [Shards -> Seq(Message)]
          /\ \A t \in Shards : Len(outbound'[t]) <= Outbound
      BY <1>2, <2>7, <3>1 DEF WorkerPush, Room
    <3>3. QED
      BY <1>1, <1>2, <2>7, <3>2
      DEF WorkerPush, controls, log, BaseInv, TypeOK, WorkerHolds, ControlInv, Place, Pcs
  <2>8. CASE WorkerRetry(s)
    <3>1. worker[s].msg \in Message /\ worker[s].msg.id \in 1..MaxSubmits
      BY <1>1, <2>1, <2>8 DEF WorkerHolds, WorkerRetry, Message
    <3>2. Emptied(worker[s].msg) \in Message /\ Emptied(worker[s].msg) # NULL
      BY <3>1 DEF Emptied, Message
    <3>3. QED
      BY <1>1, <1>2, <2>8, <3>1, <3>2
      DEF WorkerRetry, controls, queues, log, BaseInv, TypeOK, WorkerHolds, ControlInv,
          Place, Pcs
  <2>9. QED
    BY <1>9, <2>2, <2>3, <2>4, <2>5, <2>6, <2>7, <2>8 DEF Worker
<1>10. CASE DrainCall
  BY <1>1, <1>2, <1>10
  DEF DrainCall, controls, queues, log, BaseInv, TypeOK, WorkerHolds, ControlInv, Pcs
<1>11. CASE DrainPop
  <2>1. drain \in Shards  BY <1>2, <1>11 DEF DrainPop, Shards
  <2>2. /\ Take(outbound[drain]).msg \in Message
        /\ Take(outbound[drain]).rest \in Seq(Message)
        /\ Len(Take(outbound[drain]).rest) <= Outbound
    BY <1>2, <1>11, <2>1, TakeType DEF DrainPop
  <2>3. /\ outbound' \in [Shards -> Seq(Message)]
        /\ \A t \in Shards : Len(outbound'[t]) <= Outbound
        /\ results' \in [Shards -> Seq(Message)]
    BY <1>2, <1>11, <2>1, <2>2 DEF DrainPop
  <2>4. QED
    BY <1>1, <1>2, <1>11, <2>3
    DEF DrainPop, controls, log, BaseInv, TypeOK, WorkerHolds, ControlInv, Pcs
<1>12. CASE DrainNext
  <2>1. drain' \in 0..N  BY <1>2, <1>12 DEF DrainNext
  <2>2. QED
    BY <1>1, <1>2, <1>12, <2>1
    DEF DrainNext, controls, queues, log, BaseInv, TypeOK, WorkerHolds, ControlInv, Pcs
<1>13. CASE UNCHANGED vars
  BY <1>1, <1>2, <1>13 DEF vars, BaseInv, TypeOK, WorkerHolds, ControlInv, Pcs
<1>14. QED
  BY <1>3, <1>4, <1>5, <1>6, <1>7, <1>8, <1>9, <1>10, <1>11, <1>12, <1>13 DEF Next

\* TypeOK, with the bounds of the queues, holds in every reachable state.
THEOREM TypeCorrect == Spec => []TypeOK
<1>1. BaseInv => TypeOK  BY DEF BaseInv
<1>2. QED  BY BaseInit, BaseNext, <1>1, PTL DEF Spec

-----------------------------------------------------------------------------
(***************************************************************************)
(* Sequences of messages, by the ids in them.                              *)
(***************************************************************************)
Increasing(q) == \A i, j \in DOMAIN q : i < j => q[i].id < q[j].id

Before(A, B) == \A a \in A, b \in B : a < b

\* The ids of a queue are those at its positions, and they are numbers.
LEMMA IdsAt ==
    ASSUME NEW q \in Seq(Message)
    PROVE  /\ \A n : n \in Ids(q) <=> \E i \in 1..Len(q) : n = q[i].id
           /\ Ids(q) \subseteq Int
<1>1. DOMAIN q = 1..Len(q) /\ \A i \in 1..Len(q) : q[i] \in Message  OBVIOUS
<1>2. ASSUME NEW n PROVE n \in Ids(q) <=> \E i \in 1..Len(q) : n = q[i].id
  BY <1>1 DEF Ids, ToSet
<1>3. \A m \in Message : m.id \in Int  BY ThreadAssumption DEF Message
<1>4. QED  BY <1>1, <1>2, <1>3

\* An empty queue holds no command.
LEMMA IdsEmpty == Ids(<<>>) = {}
BY DEF Ids, ToSet

\* A queue of one message holds its command.
LEMMA IdsOne == ASSUME NEW m PROVE Ids(<<m>>) = {m.id}
BY DEF Ids, ToSet

\* At most one message is in order.
LEMMA IncreasingShort ==
    /\ <<>> \in Seq(Message) /\ Increasing(<<>>)
    /\ \A m \in Message : <<m>> \in Seq(Message) /\ Increasing(<<m>>)
<1>1. Increasing(<<>>)  BY DEF Increasing
<1>2. ASSUME NEW m \in Message PROVE Increasing(<<m>>)
  <2>1. DOMAIN <<m>> = {1}  OBVIOUS
  <2>2. QED  BY <2>1 DEF Increasing
<1>3. QED  BY <1>1, <1>2

\* push()
LEMMA IdsAppend ==
    ASSUME NEW q \in Seq(Message), NEW m \in Message
    PROVE  /\ Ids(Append(q, m)) = Ids(q) \cup {m.id}
           /\ Increasing(q) /\ Before(Ids(q), {m.id}) => Increasing(Append(q, m))
<1> DEFINE a == Append(q, m)
<1>1. /\ a \in Seq(Message) /\ Len(a) = Len(q) + 1
      /\ \A i \in 1..Len(q) : a[i] = q[i]
      /\ a[Len(q) + 1] = m
      /\ Len(q) \in Nat
  OBVIOUS
<1> HIDE DEF a
<1>2. Ids(a) = Ids(q) \cup {m.id}
  <2>1. ASSUME NEW n \in Ids(a) PROVE n \in Ids(q) \cup {m.id}
    <3>1. PICK i \in 1..(Len(q) + 1) : n = a[i].id  BY <1>1, <2>1, IdsAt
    <3>2. CASE i = Len(q) + 1  BY <1>1, <3>1, <3>2
    <3>3. CASE i # Len(q) + 1
      <4>1. i \in 1..Len(q)  BY <1>1, <3>3
      <4>2. QED  BY <1>1, <3>1, <4>1, IdsAt
    <3>4. QED  BY <3>2, <3>3
  <2>2. ASSUME NEW n \in Ids(q) \cup {m.id} PROVE n \in Ids(a)
    <3>1. CASE n \in Ids(q)
      <4>1. PICK i \in 1..Len(q) : n = q[i].id  BY <3>1, IdsAt
      <4>2. i \in 1..Len(a) /\ n = a[i].id  BY <1>1, <4>1
      <4>3. QED  BY <1>1, <4>2, IdsAt
    <3>2. CASE n = m.id
      <4>1. Len(q) + 1 \in 1..Len(a)  BY <1>1
      <4>2. QED  BY <1>1, <3>2, <4>1, IdsAt
    <3>3. QED  BY <2>2, <3>1, <3>2
  <2>3. QED  BY <2>1, <2>2
<1>3. ASSUME Increasing(q), Before(Ids(q), {m.id}) PROVE Increasing(a)
  <2>1. SUFFICES ASSUME NEW i \in 1..(Len(q) + 1), NEW j \in 1..(Len(q) + 1), i < j
                 PROVE  a[i].id < a[j].id
    BY <1>1 DEF Increasing
  <2>2. i \in 1..Len(q) /\ a[i] = q[i]  BY <1>1, <2>1
  <2>3. CASE j = Len(q) + 1
    <3>1. q[i].id \in Ids(q)  BY <2>2, IdsAt
    <3>2. QED  BY <1>1, <1>3, <2>2, <2>3, <3>1 DEF Before
  <2>4. CASE j # Len(q) + 1
    <3>1. j \in 1..Len(q) /\ a[j] = q[j]  BY <1>1, <2>4
    <3>2. QED  BY <1>1, <1>3, <2>1, <2>2, <3>1 DEF Increasing
  <2>5. QED  BY <2>3, <2>4
<1>4. QED  BY <1>2, <1>3 DEF a

\* pop()
LEMMA IdsTail ==
    ASSUME NEW q \in Seq(Message), q # <<>>
    PROVE  /\ Head(q) \in Message /\ Tail(q) \in Seq(Message)
           /\ Ids(q) = {Head(q).id} \cup Ids(Tail(q))
           /\ Increasing(q) => /\ Increasing(Tail(q))
                               /\ Before({Head(q).id}, Ids(Tail(q)))
<1> DEFINE t == Tail(q)
<1>1. /\ Head(q) \in Message /\ t \in Seq(Message) /\ Len(t) = Len(q) - 1
      /\ \A i \in 1..Len(t) : t[i] = q[i + 1]
      /\ Head(q) = q[1] /\ Len(q) \in Nat \ {0}
  BY HeadTailProperties
<1> HIDE DEF t
<1>2. Ids(q) = {Head(q).id} \cup Ids(t)
  <2>1. ASSUME NEW n \in Ids(q) PROVE n \in {Head(q).id} \cup Ids(t)
    <3>1. PICK i \in 1..Len(q) : n = q[i].id  BY <2>1, IdsAt
    <3>2. CASE i = 1  BY <1>1, <3>1, <3>2
    <3>3. CASE i # 1
      <4>1. i - 1 \in 1..Len(t) /\ t[i - 1] = q[i]  BY <1>1, <3>3
      <4>2. QED  BY <1>1, <3>1, <4>1, IdsAt
    <3>4. QED  BY <3>2, <3>3
  <2>2. ASSUME NEW n \in {Head(q).id} \cup Ids(t) PROVE n \in Ids(q)
    <3>1. CASE n = Head(q).id
      <4>1. 1 \in 1..Len(q)  BY <1>1
      <4>2. QED  BY <1>1, <3>1, <4>1, IdsAt
    <3>2. CASE n \in Ids(t)
      <4>1. PICK i \in 1..Len(t) : n = t[i].id  BY <1>1, <3>2, IdsAt
      <4>2. i + 1 \in 1..Len(q) /\ n = q[i + 1].id  BY <1>1, <4>1
      <4>3. QED  BY <4>2, IdsAt
    <3>3. QED  BY <2>2, <3>1, <3>2
  <2>3. QED  BY <2>1, <2>2
<1>3. ASSUME Increasing(q) PROVE Increasing(t) /\ Before({Head(q).id}, Ids(t))
  <2>1. ASSUME NEW i \in 1..Len(t), NEW j \in 1..Len(t), i < j
        PROVE  t[i].id < t[j].id
    <3>1. i + 1 \in 1..Len(q) /\ j + 1 \in 1..Len(q) /\ i + 1 < j + 1  BY <1>1, <2>1
    <3>2. DOMAIN q = 1..Len(q)  OBVIOUS
    <3>3. q[i + 1].id < q[j + 1].id  BY <1>3, <3>1, <3>2 DEF Increasing
    <3>4. t[i] = q[i + 1] /\ t[j] = q[j + 1]  BY <1>1
    <3>5. QED  BY <3>3, <3>4
  <2>2. ASSUME NEW n \in Ids(t) PROVE Head(q).id < n
    <3>1. PICK i \in 1..Len(t) : n = t[i].id  BY <1>1, IdsAt
    <3>2. 1 \in 1..Len(q) /\ i + 1 \in 1..Len(q) /\ 1 < i + 1  BY <1>1
    <3>3. QED  BY <1>1, <1>3, <3>1, <3>2 DEF Increasing
  <2>3. QED  BY <1>1, <2>1, <2>2, SMTT(30) DEF Increasing, Before
<1>4. QED  BY <1>1, <1>2, <1>3 DEF t

\* Queues in a row.
LEMMA IdsConcat ==
    ASSUME NEW q \in Seq(Message), NEW r \in Seq(Message)
    PROVE  /\ q \o r \in Seq(Message)
           /\ Ids(q \o r) = Ids(q) \cup Ids(r)
           /\ Increasing(q) /\ Increasing(r) /\ Before(Ids(q), Ids(r))
                  => Increasing(q \o r)
<1> DEFINE c == q \o r
<1>1. /\ c \in Seq(Message) /\ Len(c) = Len(q) + Len(r)
      /\ \A i \in 1..(Len(q) + Len(r)) :
            c[i] = IF i <= Len(q) THEN q[i] ELSE r[i - Len(q)]
      /\ Len(q) \in Nat /\ Len(r) \in Nat
  BY ConcatProperties
<1> HIDE DEF c
<1>2. Ids(c) = Ids(q) \cup Ids(r)
  <2>1. ASSUME NEW n \in Ids(c) PROVE n \in Ids(q) \cup Ids(r)
    <3>1. PICK i \in 1..Len(c) : n = c[i].id  BY <1>1, <2>1, IdsAt
    <3>2. CASE i <= Len(q)
      <4>1. i \in 1..Len(q) /\ n = q[i].id  BY <1>1, <3>1, <3>2
      <4>2. QED  BY <4>1, IdsAt
    <3>3. CASE ~(i <= Len(q))
      <4>1. i - Len(q) \in 1..Len(r) /\ n = r[i - Len(q)].id  BY <1>1, <3>1, <3>3
      <4>2. QED  BY <4>1, IdsAt
    <3>4. QED  BY <3>2, <3>3
  <2>2. ASSUME NEW n \in Ids(q) PROVE n \in Ids(c)
    <3>1. PICK i \in 1..Len(q) : n = q[i].id  BY <2>2, IdsAt
    <3>2. i \in 1..Len(c) /\ n = c[i].id  BY <1>1, <3>1
    <3>3. QED  BY <1>1, <3>2, IdsAt
  <2>3. ASSUME NEW n \in Ids(r) PROVE n \in Ids(c)
    <3>1. PICK i \in 1..Len(r) : n = r[i].id  BY <2>3, IdsAt
    <3>2. Len(q) + i \in 1..Len(c) /\ n = c[Len(q) + i].id  BY <1>1, <3>1
    <3>3. QED  BY <1>1, <3>2, IdsAt
  <2>4. QED  BY <2>1, <2>2, <2>3
<1>3. ASSUME Increasing(q), Increasing(r), Before(Ids(q), Ids(r))
      PROVE  Increasing(c)
  <2>1. SUFFICES ASSUME NEW i \in 1..Len(c), NEW j \in 1..Len(c), i < j
                 PROVE  c[i].id < c[j].id
    BY <1>1 DEF Increasing
  <2>2. CASE j <= Len(q)
    <3>1. i \in 1..Len(q) /\ j \in 1..Len(q) /\ c[i] = q[i] /\ c[j] = q[j]
      BY <1>1, <2>1, <2>2
    <3>2. QED  BY <1>1, <1>3, <2>1, <3>1, SMTT(30) DEF Increasing
  <2>3. CASE i <= Len(q) /\ ~(j <= Len(q))
    <3>1. /\ i \in 1..Len(q) /\ c[i] = q[i]
          /\ j - Len(q) \in 1..Len(r) /\ c[j] = r[j - Len(q)]
      BY <1>1, <2>1, <2>3
    <3>2. q[i].id \in Ids(q) /\ r[j - Len(q)].id \in Ids(r)  BY <3>1, IdsAt
    <3>3. QED  BY <1>3, <3>1, <3>2 DEF Before
  <2>4. CASE ~(i <= Len(q))
    <3>1. /\ i - Len(q) \in 1..Len(r) /\ c[i] = r[i - Len(q)]
          /\ j - Len(q) \in 1..Len(r) /\ c[j] = r[j - Len(q)]
          /\ i - Len(q) < j - Len(q)
      BY <1>1, <2>1, <2>4
    <3>2. QED  BY <1>1, <1>3, <3>1 DEF Increasing
  <2>5. QED  BY <1>1, <2>1, <2>2, <2>3, <2>4
<1>4. QED  BY <1>1, <1>2, <1>3 DEF c

-----------------------------------------------------------------------------
(***************************************************************************)
(* The inductive invariant of the pipeline: the five stages of a shard, in *)
(* the order its commands pass them.                                       *)
(***************************************************************************)
Returned(s) == Ids(results[s])
Published(s) == Ids(outbound[s])
Working(s) == Ids(Held(worker[s].msg))
Waiting(s) == Ids(inbound[s])
Entering(s) == Ids(Submitted(s))

Everywhere(s) ==
    Returned(s) \cup Published(s) \cup Working(s) \cup Waiting(s) \cup Entering(s)

Chain(A, B, C, D, E) ==
    /\ Before(A, B) /\ Before(A, C) /\ Before(A, D) /\ Before(A, E)
    /\ Before(B, C) /\ Before(B, D) /\ Before(B, E)
    /\ Before(C, D) /\ Before(C, E)
    /\ Before(D, E)

\* Within a shard, a command is behind those submitted before it.
InOrder(s) ==
    /\ Increasing(results[s]) /\ Increasing(outbound[s]) /\ Increasing(inbound[s])
    /\ Chain(Returned(s), Published(s), Working(s), Waiting(s), Entering(s))

\* No command is in two shards.
Apart == \A s, t \in Shards : s # t => Everywhere(s) \cap Everywhere(t) = {}

\* Every command is somewhere, or a stop() threw its result away.
Accounted ==
    /\ \A n \in Int : (\E s \in Shards : n \in Everywhere(s)) <=> n \in (1..next) \ dropped
    /\ dropped \subseteq 1..next

PipelineInv == (\A s \in Shards : InOrder(s)) /\ Apart /\ Accounted

\* The ids a worker holds, and those of a call of submit() on its way.
LEMMA IdsHeld ==
    /\ Ids(Held(NULL)) = {}
    /\ \A m \in Message : Ids(Held(m)) = {m.id}
<1>1. Held(NULL) = <<>>  BY DEF Held
<1>2. ASSUME NEW m \in Message PROVE Held(m) = <<m>>  BY ThreadAssumption DEF Held
<1>3. QED  BY <1>1, <1>2, IdsEmpty, IdsOne

\* What submit() holds is on its way to one shard.
LEMMA IdsSubmitted ==
    ASSUME NEW s
    PROVE  /\ submit = NULL => Entering(s) = {}
           /\ submit \in Message =>
                Entering(s) = IF submit.shard = s THEN {submit.id} ELSE {}
BY ThreadAssumption, IdsEmpty, IdsOne DEF Entering, Submitted

\* The ids of a shard are numbers.
LEMMA IdsAreNumbers ==
    ASSUME TypeOK, NEW s \in Shards
    PROVE  /\ Returned(s) \subseteq Int /\ Published(s) \subseteq Int
           /\ Working(s) \subseteq Int /\ Waiting(s) \subseteq Int
           /\ Entering(s) \subseteq Int /\ Everywhere(s) \subseteq Int
<1>1. Returned(s) \subseteq Int /\ Published(s) \subseteq Int /\ Waiting(s) \subseteq Int
  BY TypeOfQueues, IdsAt DEF Returned, Published, Waiting
<1>2. \A m \in Message : m.id \in Int  BY ThreadAssumption DEF Message
<1>3. worker[s].msg \in Message \cup {NULL} /\ submit \in Message \cup {NULL}
  BY DEF TypeOK
<1>4. Working(s) \subseteq Int  BY <1>2, <1>3, IdsHeld DEF Working
<1>5. Entering(s) \subseteq Int  BY <1>2, <1>3, IdsSubmitted
<1>6. QED  BY <1>1, <1>4, <1>5 DEF Everywhere

\* No command is anywhere at first.
LEMMA PipelineInit == Init => PipelineInv
<1> SUFFICES ASSUME Init PROVE PipelineInv  OBVIOUS
<1>1. ASSUME NEW s \in Shards
      PROVE  /\ Returned(s) = {} /\ Published(s) = {} /\ Working(s) = {}
             /\ Waiting(s) = {} /\ Entering(s) = {} /\ Everywhere(s) = {}
             /\ results[s] = <<>> /\ outbound[s] = <<>> /\ inbound[s] = <<>>
  <2>1. /\ results[s] = <<>> /\ outbound[s] = <<>> /\ inbound[s] = <<>>
        /\ worker[s].msg = NULL /\ submit = NULL
    BY DEF Init, Place
  <2>2. QED
    BY <2>1, IdsEmpty, IdsHeld, IdsSubmitted
    DEF Returned, Published, Working, Waiting, Everywhere
<1>2. Increasing(<<>>)  BY DEF Increasing
<1>3. ASSUME NEW s \in Shards PROVE InOrder(s)
  BY <1>1, <1>2 DEF InOrder, Chain, Before
<1>4. Apart  BY <1>1 DEF Apart
<1>5. Accounted  BY <1>1 DEF Accounted, Init
<1>6. QED  BY <1>3, <1>4, <1>5 DEF PipelineInv

\* A step that moves no id keeps the invariant.
LEMMA QuietStep ==
    ASSUME PipelineInv,
           inbound' = inbound, outbound' = outbound, results' = results,
           next' = next, dropped' = dropped,
           \A s \in Shards : Working(s)' = Working(s) /\ Entering(s)' = Entering(s)
    PROVE  PipelineInv'
<1>1. ASSUME NEW s \in Shards
      PROVE  /\ Returned(s)' = Returned(s) /\ Published(s)' = Published(s)
             /\ Waiting(s)' = Waiting(s) /\ Everywhere(s)' = Everywhere(s)
  BY DEF Returned, Published, Waiting, Everywhere
<1>2. ASSUME NEW s \in Shards PROVE InOrder(s)'
  <2>1. InOrder(s)  BY DEF PipelineInv
  <2>2. Chain(Returned(s), Published(s), Working(s), Waiting(s), Entering(s))'
    BY <1>1, <2>1 DEF InOrder, Chain, Before
  <2>3. QED  BY <2>1, <2>2 DEF InOrder
<1>3. Apart'  BY <1>1 DEF PipelineInv, Apart
<1>4. Accounted'  BY <1>1 DEF PipelineInv, Accounted
<1>5. QED  BY <1>2, <1>3, <1>4 DEF PipelineInv

\* So does one that moves ids within one shard and keeps their order there.
LEMMA MovingStep ==
    ASSUME PipelineInv, NEW d \in Shards, InOrder(d)',
           Everywhere(d)' = Everywhere(d), next' = next, dropped' = dropped,
           \A s \in Shards \ {d} : InOrder(s)' /\ Everywhere(s)' = Everywhere(s)
    PROVE  PipelineInv'
<1>1. ASSUME NEW s \in Shards PROVE InOrder(s)' /\ Everywhere(s)' = Everywhere(s)
  OBVIOUS
<1>2. Apart'  BY <1>1 DEF PipelineInv, Apart
<1>3. Accounted'  BY <1>1 DEF PipelineInv, Accounted
<1>4. QED  BY <1>1, <1>2, <1>3 DEF PipelineInv

\* A shard whose stages all stay as they are.
LEMMA UntouchedShard ==
    ASSUME NEW s, InOrder(s),
           inbound'[s] = inbound[s], outbound'[s] = outbound[s], results'[s] = results[s],
           worker'[s] = worker[s], Entering(s)' = Entering(s)
    PROVE  InOrder(s)' /\ Everywhere(s)' = Everywhere(s)
<1>1. /\ Returned(s)' = Returned(s) /\ Published(s)' = Published(s)
      /\ Waiting(s)' = Waiting(s) /\ Working(s)' = Working(s)
  BY DEF Returned, Published, Waiting, Working
<1>2. Everywhere(s)' = Everywhere(s)  BY <1>1 DEF Everywhere
<1>3. Chain(Returned(s), Published(s), Working(s), Waiting(s), Entering(s))'
  BY <1>1 DEF InOrder, Chain, Before
<1>4. QED  BY <1>2, <1>3 DEF InOrder

\* submit() gives its command an id above all others.
LEMMA SubmitCallStep ==
    ASSUME BaseInv, PipelineInv, NEW d \in Shards, SubmitCall(d)
    PROVE  PipelineInv'
<1>1. /\ submit = NULL /\ next' = next + 1 /\ next \in Nat
      /\ submit' = [id |-> next + 1, shard |-> d, whole |-> TRUE]
      /\ UNCHANGED <<inbound, outbound, worker, results, dropped>>
  BY ThreadAssumption DEF SubmitCall, queues, BaseInv, TypeOK
<1>2. submit' \in Message
  BY <1>1, ThreadAssumption DEF SubmitCall, BaseInv, TypeOK, Message
<1>3. ASSUME NEW s \in Shards
      PROVE  /\ Entering(s) = {}
             /\ Entering(s)' = IF s = d THEN {next + 1} ELSE {}
  <2>1. Entering(s) = {}  BY <1>1, IdsSubmitted
  <2>2. Submitted(s)' = IF s = d THEN <<submit'>> ELSE <<>>
    BY <1>1, <1>2, ThreadAssumption DEF Submitted
  <2>3. QED  BY <1>1, <2>1, <2>2, IdsEmpty, IdsOne DEF Entering
<1>4. ASSUME NEW s \in Shards \ {d}
      PROVE  InOrder(s)' /\ Everywhere(s)' = Everywhere(s)
  BY <1>1, <1>3, UntouchedShard DEF PipelineInv
<1>5. /\ Returned(d)' = Returned(d) /\ Published(d)' = Published(d)
      /\ Waiting(d)' = Waiting(d) /\ Working(d)' = Working(d)
      /\ Everywhere(d)' = Everywhere(d) \cup {next + 1}
  BY <1>1, <1>3 DEF Returned, Published, Waiting, Working, Everywhere
<1>6. ASSUME NEW n \in Everywhere(d) PROVE n < next + 1
  <2>1. n \in Int  BY IdsAreNumbers DEF BaseInv
  <2>2. n \in 1..next  BY <2>1 DEF PipelineInv, Accounted
  <2>3. QED  BY <1>1, <2>2
<1>7. InOrder(d)'
  <2>1. InOrder(d)  BY DEF PipelineInv
  <2>2. Chain(Returned(d), Published(d), Working(d), Waiting(d), Entering(d))'
    BY <1>3, <1>5, <1>6, <2>1 DEF InOrder, Chain, Before, Everywhere
  <2>3. QED  BY <1>1, <2>1, <2>2 DEF InOrder
<1>8. Apart'
  <2>1. ASSUME NEW s \in Shards, next + 1 \in Everywhere(s) PROVE FALSE
    <3>1. next + 1 \in 1..next  BY <1>1, <2>1 DEF PipelineInv, Accounted
    <3>2. QED  BY <1>1, <3>1
  <2>2. QED  BY <1>4, <1>5, <2>1 DEF PipelineInv, Apart
<1>9. Accounted'
  <2>1. ASSUME NEW n \in Int
        PROVE  (\E s \in Shards : n \in Everywhere(s)') <=> n \in (1..next') \ dropped'
    <3>1. (\E s \in Shards : n \in Everywhere(s)')
             <=> (\E s \in Shards : n \in Everywhere(s)) \/ n = next + 1
      BY <1>4, <1>5
    <3>2. next + 1 \notin dropped  BY <1>1 DEF PipelineInv, Accounted
    <3>3. QED  BY <1>1, <3>1, <3>2 DEF PipelineInv, Accounted
  <2>2. dropped' \subseteq 1..next'  BY <1>1 DEF PipelineInv, Accounted
  <2>3. QED  BY <2>1, <2>2 DEF Accounted
<1>10. QED  BY <1>4, <1>7, <1>8, <1>9 DEF PipelineInv

\* push() on the inbound queue.
LEMMA SubmitPushStep ==
    ASSUME BaseInv, PipelineInv, SubmitPush
    PROVE  PipelineInv'
<1>1. /\ submit \in Message /\ submit.shard \in Shards /\ submit' = NULL
      /\ inbound \in [Shards -> Seq(Message)]
      /\ UNCHANGED <<next, outbound, worker, results, dropped>>
  BY DEF SubmitPush, BaseInv, TypeOK, Message
<1> PICK d \in Shards : d = submit.shard  BY <1>1
<1>2. /\ inbound'[d] = Append(inbound[d], submit)
      /\ \A s \in Shards \ {d} : inbound'[s] = inbound[s]
  BY <1>1 DEF SubmitPush
<1>3. ASSUME NEW s \in Shards
      PROVE  Entering(s)' = {} /\ Entering(s) = IF s = d THEN {submit.id} ELSE {}
  <2>1. Submitted(s)' = <<>>  BY <1>1 DEF Submitted
  <2>2. QED  BY <1>1, <2>1, IdsEmpty, IdsSubmitted DEF Entering
<1>4. ASSUME NEW s \in Shards \ {d}
      PROVE  InOrder(s)' /\ Everywhere(s)' = Everywhere(s)
  BY <1>1, <1>2, <1>3, UntouchedShard DEF PipelineInv
<1>5. InOrder(d)  BY <1>1 DEF PipelineInv
<1>6. /\ Waiting(d)' = Waiting(d) \cup {submit.id}
      /\ Increasing(inbound'[d])
  <2>1. Before(Waiting(d), {submit.id})  BY <1>1, <1>3, <1>5 DEF InOrder, Chain
  <2>2. QED  BY <1>1, <1>2, <1>5, <2>1, IdsAppend DEF Waiting, InOrder
<1>7. /\ Returned(d)' = Returned(d) /\ Published(d)' = Published(d)
      /\ Working(d)' = Working(d)
  BY <1>1 DEF Returned, Published, Working
<1>8. Everywhere(d)' = Everywhere(d)
  BY <1>1, <1>3, <1>6, <1>7 DEF Everywhere
<1>9. InOrder(d)'
  <2>1. Chain(Returned(d), Published(d), Working(d), Waiting(d), Entering(d))'
    BY <1>1, <1>3, <1>5, <1>6, <1>7 DEF InOrder, Chain, Before
  <2>2. QED  BY <1>1, <1>5, <1>6, <2>1 DEF InOrder
<1>10. QED  BY <1>1, <1>4, <1>8, <1>9, MovingStep

\* pop() of the inbound queue.
LEMMA WorkerPopStep ==
    ASSUME BaseInv, PipelineInv, NEW d \in Shards, WorkerPop(d)
    PROVE  PipelineInv'
<1> DEFINE q == inbound[d]
<1>1. /\ inbound \in [Shards -> Seq(Message)] /\ q \in Seq(Message) /\ q # <<>>
      /\ worker \in [Shards -> [pc: Pcs, msg: Message \cup {NULL}]]
      /\ worker[d].msg = NULL
      /\ UNCHANGED <<next, submit, outbound, results, dropped>>
  BY DEF WorkerPop, BaseInv, TypeOK, WorkerHolds, Pcs
<1>2. /\ inbound'[d] = Tail(q) /\ worker'[d].msg = Head(q)
      /\ \A s \in Shards \ {d} : inbound'[s] = inbound[s] /\ worker'[s] = worker[s]
  BY <1>1, TakeType DEF WorkerPop, Place
<1>3. ASSUME NEW s \in Shards PROVE Entering(s)' = Entering(s)
  BY <1>1 DEF Entering, Submitted
<1>4. ASSUME NEW s \in Shards \ {d}
      PROVE  InOrder(s)' /\ Everywhere(s)' = Everywhere(s)
  BY <1>1, <1>2, <1>3, UntouchedShard DEF PipelineInv
<1>5. InOrder(d)  BY DEF PipelineInv
<1> DEFINE x == Head(q).id
<1>6. /\ Waiting(d) = {x} \cup Waiting(d)'
      /\ Increasing(inbound'[d]) /\ Before({x}, Waiting(d)')
  BY <1>1, <1>2, <1>5, IdsTail DEF Waiting, InOrder
<1>7. Working(d) = {} /\ Working(d)' = {x}
  <2>1. Head(q) \in Message  BY <1>1
  <2>2. QED  BY <1>1, <1>2, <2>1, IdsHeld DEF Working
<1>8. Returned(d)' = Returned(d) /\ Published(d)' = Published(d)
  BY <1>1 DEF Returned, Published
<1> HIDE DEF x
<1>9. Everywhere(d)' = Everywhere(d)
  BY <1>3, <1>6, <1>7, <1>8 DEF Everywhere
<1>10. InOrder(d)'
  <2>1. Chain(Returned(d), Published(d), Working(d), Waiting(d), Entering(d))'
    BY <1>3, <1>5, <1>6, <1>7, <1>8 DEF InOrder, Chain, Before
  <2>2. QED  BY <1>1, <1>5, <1>6, <2>1 DEF InOrder
<1>11. QED  BY <1>1, <1>4, <1>9, <1>10, MovingStep

\* push() on the outbound queue.
LEMMA WorkerPushStep ==
    ASSUME BaseInv, PipelineInv, NEW d \in Shards, WorkerPush(d)
    PROVE  PipelineInv'
<1> DEFINE m == worker[d].msg
<1>1. /\ outbound \in [Shards -> Seq(Message)] /\ outbound[d] \in Seq(Message)
      /\ worker \in [Shards -> [pc: Pcs, msg: Message \cup {NULL}]]
      /\ m \in Message
      /\ UNCHANGED <<next, submit, inbound, results, dropped>>
  BY DEF WorkerPush, BaseInv, TypeOK, WorkerHolds, Pcs
<1>2. /\ outbound'[d] = Append(outbound[d], m) /\ worker'[d].msg = NULL
      /\ \A s \in Shards \ {d} : outbound'[s] = outbound[s] /\ worker'[s] = worker[s]
  BY <1>1 DEF WorkerPush, Place
<1>3. ASSUME NEW s \in Shards PROVE Entering(s)' = Entering(s)
  BY <1>1 DEF Entering, Submitted
<1>4. ASSUME NEW s \in Shards \ {d}
      PROVE  InOrder(s)' /\ Everywhere(s)' = Everywhere(s)
  BY <1>1, <1>2, <1>3, UntouchedShard DEF PipelineInv
<1>5. InOrder(d)  BY DEF PipelineInv
<1>6. Working(d) = {m.id} /\ Working(d)' = {}
  BY <1>1, <1>2, IdsHeld DEF Working
<1>7. Published(d)' = Published(d) \cup {m.id} /\ Increasing(outbound'[d])
  <2>1. Before(Published(d), {m.id})  BY <1>5, <1>6 DEF InOrder, Chain
  <2>2. QED  BY <1>1, <1>2, <1>5, <2>1, IdsAppend DEF Published, InOrder
<1>8. Returned(d)' = Returned(d) /\ Waiting(d)' = Waiting(d)
  BY <1>1 DEF Returned, Waiting
<1>9. Everywhere(d)' = Everywhere(d)
  BY <1>3, <1>6, <1>7, <1>8 DEF Everywhere
<1>10. InOrder(d)'
  <2>1. Chain(Returned(d), Published(d), Working(d), Waiting(d), Entering(d))'
    BY <1>3, <1>5, <1>6, <1>7, <1>8 DEF InOrder, Chain, Before
  <2>2. QED  BY <1>1, <1>5, <1>7, <2>1 DEF InOrder
<1>11. QED  BY <1>1, <1>4, <1>9, <1>10, MovingStep

\* pop() of the outbound queue by drain().
LEMMA DrainPopStep ==
    ASSUME BaseInv, PipelineInv, DrainPop
    PROVE  PipelineInv'
<1>1. /\ drain \in Shards
      /\ outbound \in [Shards -> Seq(Message)] /\ results \in [Shards -> Seq(Message)]
      /\ UNCHANGED <<next, submit, inbound, worker, dropped, drain>>
  BY ThreadAssumption DEF DrainPop, BaseInv, TypeOK, Shards
<1> PICK d \in Shards : d = drain  BY <1>1
<1> DEFINE q == outbound[d]
<1>2. q \in Seq(Message) /\ q # <<>> /\ results[d] \in Seq(Message)
  BY <1>1 DEF DrainPop
<1>3. /\ outbound'[d] = Tail(q) /\ results'[d] = Append(results[d], Head(q))
      /\ \A s \in Shards \ {d} : outbound'[s] = outbound[s] /\ results'[s] = results[s]
  BY <1>1, <1>2, TakeType DEF DrainPop
<1>4. ASSUME NEW s \in Shards
      PROVE  Entering(s)' = Entering(s) /\ Working(s)' = Working(s)
  BY <1>1 DEF Entering, Submitted, Working
<1>5. ASSUME NEW s \in Shards \ {d}
      PROVE  InOrder(s)' /\ Everywhere(s)' = Everywhere(s)
  BY <1>1, <1>3, <1>4, UntouchedShard DEF PipelineInv
<1>6. InOrder(d)  BY DEF PipelineInv
<1> DEFINE x == Head(q).id
<1>7. /\ Published(d) = {x} \cup Published(d)' /\ Head(q) \in Message
      /\ Increasing(outbound'[d]) /\ Before({x}, Published(d)')
  BY <1>2, <1>3, <1>6, IdsTail DEF Published, InOrder
<1>8. Returned(d)' = Returned(d) \cup {x} /\ Increasing(results'[d])
  <2>1. Before(Returned(d), {x})  BY <1>6, <1>7 DEF InOrder, Chain, Before
  <2>2. QED  BY <1>2, <1>3, <1>6, <1>7, <2>1, IdsAppend DEF Returned, InOrder
<1>9. Waiting(d)' = Waiting(d)  BY <1>1 DEF Waiting
<1> HIDE DEF x
<1>10. Everywhere(d)' = Everywhere(d)
  BY <1>4, <1>7, <1>8, <1>9 DEF Everywhere
<1>11. InOrder(d)'
  <2>1. Chain(Returned(d), Published(d), Working(d), Waiting(d), Entering(d))'
    BY <1>4, <1>6, <1>7, <1>8, <1>9 DEF InOrder, Chain, Before
  <2>2. QED  BY <1>1, <1>6, <1>7, <1>8, <2>1 DEF InOrder
<1>12. QED  BY <1>1, <1>5, <1>10, <1>11, MovingStep

\* A worker that sees running_ cleared throws away the result it holds.
LEMMA WorkerDropStep ==
    ASSUME BaseInv, PipelineInv, NEW d \in Shards, WorkerPublish(d), ~running
    PROVE  PipelineInv'
<1> DEFINE x == worker[d].msg.id
<1>1. /\ worker \in [Shards -> [pc: Pcs, msg: Message \cup {NULL}]]
      /\ worker[d].msg \in Message
      /\ UNCHANGED <<next, submit, inbound, outbound, results>>
      /\ dropped' = dropped \cup {x}
  BY DEF WorkerPublish, queues, BaseInv, TypeOK, WorkerHolds, Pcs
<1>2. /\ worker'[d].msg = NULL
      /\ \A s \in Shards \ {d} : worker'[s] = worker[s]
  BY <1>1 DEF WorkerPublish, Place
<1>3. ASSUME NEW s \in Shards PROVE Entering(s)' = Entering(s)
  BY <1>1 DEF Entering, Submitted
<1>4. ASSUME NEW s \in Shards \ {d}
      PROVE  InOrder(s)' /\ Everywhere(s)' = Everywhere(s)
  BY <1>1, <1>2, <1>3, UntouchedShard DEF PipelineInv
<1>5. InOrder(d)  BY DEF PipelineInv
<1>6. Working(d) = {x} /\ Working(d)' = {}
  BY <1>1, <1>2, IdsHeld DEF Working
<1>7. /\ Returned(d)' = Returned(d) /\ Published(d)' = Published(d)
      /\ Waiting(d)' = Waiting(d)
  BY <1>1 DEF Returned, Published, Waiting
<1>8. x \in Everywhere(d) /\ x \in Int
  <2>1. x \in Everywhere(d)  BY <1>6 DEF Everywhere
  <2>2. QED  BY <2>1, IdsAreNumbers DEF BaseInv
<1>9. Everywhere(d)' = Everywhere(d) \ {x}
  <2>1. /\ Returned(d) \subseteq Int /\ Published(d) \subseteq Int
        /\ Waiting(d) \subseteq Int /\ Entering(d) \subseteq Int
    BY IdsAreNumbers DEF BaseInv
  <2>2. /\ x \notin Returned(d) /\ x \notin Published(d)
        /\ x \notin Waiting(d) /\ x \notin Entering(d)
    BY <1>5, <1>6, <1>8, <2>1 DEF InOrder, Chain, Before
  <2>3. QED  BY <1>3, <1>6, <1>7, <2>2 DEF Everywhere
<1> HIDE DEF x
<1>10. InOrder(d)'
  <2>1. Chain(Returned(d), Published(d), Working(d), Waiting(d), Entering(d))'
    BY <1>3, <1>5, <1>6, <1>7 DEF InOrder, Chain, Before
  <2>2. QED  BY <1>1, <1>5, <2>1 DEF InOrder
<1>11. Apart'  BY <1>4, <1>9 DEF PipelineInv, Apart
<1>12. Accounted'
  <2>1. x \in 1..next  BY <1>8 DEF PipelineInv, Accounted
  <2>2. ASSUME NEW s \in Shards \ {d} PROVE x \notin Everywhere(s)
    BY <1>8 DEF PipelineInv, Apart
  <2>3. ASSUME NEW n \in Int
        PROVE  (\E s \in Shards : n \in Everywhere(s)') <=> n \in (1..next') \ dropped'
    <3>1. (\E s \in Shards : n \in Everywhere(s)')
             <=> (\E s \in Shards : n \in Everywhere(s)) /\ n # x
      BY <1>4, <1>9, <2>2
    <3>2. QED  BY <1>1, <3>1 DEF PipelineInv, Accounted
  <2>4. dropped' \subseteq 1..next'  BY <1>1, <2>1 DEF PipelineInv, Accounted
  <2>5. QED  BY <2>3, <2>4 DEF Accounted
<1>13. QED  BY <1>4, <1>10, <1>11, <1>12 DEF PipelineInv

\* Every step of every thread keeps the invariant of the pipeline.
LEMMA PipelineNext == BaseInv /\ PipelineInv /\ [Next]_vars => PipelineInv'
<1> SUFFICES ASSUME BaseInv, PipelineInv, [Next]_vars PROVE PipelineInv'  OBVIOUS
<1>1. worker \in [Shards -> [pc: Pcs, msg: Message \cup {NULL}]]
  BY DEF BaseInv, TypeOK, Pcs
<1>2. CASE Start
  <2>1. ASSUME NEW s \in Shards PROVE Working(s)' = Working(s)
    <3>1. worker[s].pc = "ended"  BY <1>2 DEF Start, BaseInv, ControlInv
    <3>2. worker[s].msg = NULL /\ worker'[s].msg = NULL
      BY <1>2, <3>1 DEF Start, BaseInv, WorkerHolds, Place
    <3>3. QED  BY <3>2 DEF Working
  <2>2. QED  BY <1>2, <2>1, QuietStep DEF Start, queues, Entering, Submitted
<1>3. CASE Stop
  BY <1>3, QuietStep DEF Stop, queues, Working, Entering, Submitted
<1>4. CASE Join
  BY <1>4, QuietStep DEF Join, queues, Working, Entering, Submitted
<1>5. ASSUME NEW s \in Shards, SubmitCall(s) PROVE PipelineInv'
  BY <1>5, SubmitCallStep
<1>6. CASE SubmitPush  BY <1>6, SubmitPushStep
<1>7. CASE SubmitRetry
  <2>1. /\ submit \in Message /\ submit' \in Message
        /\ submit'.id = submit.id /\ submit'.shard = submit.shard
    BY <1>7 DEF SubmitRetry, Emptied, BaseInv, TypeOK, Message
  <2>2. ASSUME NEW s \in Shards PROVE Entering(s)' = Entering(s)
    <3>1. Submitted(s)' = IF submit.shard = s THEN <<submit'>> ELSE <<>>
      BY <2>1, ThreadAssumption DEF Submitted
    <3>2. QED  BY <2>1, <3>1, IdsSubmitted, IdsOne, IdsEmpty DEF Entering
  <2>3. QED  BY <1>7, <2>2, QuietStep DEF SubmitRetry, queues, Working
<1>8. ASSUME NEW d \in Shards, Worker(d) PROVE PipelineInv'
  <2>1. ASSUME UNCHANGED <<inbound, outbound, results, next, dropped, submit>>,
               \A s \in Shards \ {d} : worker'[s] = worker[s],
               Ids(Held(worker'[d].msg)) = Ids(Held(worker[d].msg))
        PROVE  PipelineInv'
    <3>1. ASSUME NEW s \in Shards PROVE Working(s)' = Working(s)  BY <2>1 DEF Working
    <3>2. QED  BY <2>1, <3>1, QuietStep DEF Entering, Submitted
  <2>2. CASE WorkerLoop(d)
    <3>1. worker[d].msg = NULL /\ worker'[d].msg = NULL
      BY <1>1, <2>2 DEF WorkerLoop, Place, BaseInv, WorkerHolds
    <3>2. QED  BY <1>1, <2>1, <2>2, <3>1 DEF WorkerLoop, queues
  <2>3. CASE WorkerIdle(d)
    <3>1. worker[d].msg = NULL /\ worker'[d].msg = NULL
      BY <1>1, <2>3 DEF WorkerIdle, Place, BaseInv, WorkerHolds
    <3>2. QED  BY <1>1, <2>1, <2>3, <3>1 DEF WorkerIdle, queues
  <2>4. CASE WorkerPop(d)  BY <2>4, WorkerPopStep
  <2>5. CASE WorkerExecute(d)
    <3>1. worker[d].msg \in Message
      BY <1>1, <2>5 DEF WorkerExecute, BaseInv, WorkerHolds
    <3>2. worker'[d].msg = [worker[d].msg EXCEPT !.whole = TRUE]
      BY <1>1, <2>5 DEF WorkerExecute, Place
    <3>3. worker'[d].msg \in Message /\ worker'[d].msg.id = worker[d].msg.id
      BY <3>1, <3>2 DEF Message
    <3>4. Ids(Held(worker'[d].msg)) = Ids(Held(worker[d].msg))
      BY <3>1, <3>3, IdsHeld
    <3>5. QED  BY <1>1, <2>1, <2>5, <3>4 DEF WorkerExecute, queues
  <2>6. CASE WorkerPublish(d)
    <3>1. CASE ~running  BY <2>6, <3>1, WorkerDropStep
    <3>2. CASE running
      <4>1. worker'[d].msg = worker[d].msg
        BY <1>1, <2>6, <3>2 DEF WorkerPublish, Place
      <4>2. QED  BY <1>1, <2>1, <2>6, <3>2, <4>1 DEF WorkerPublish, queues
    <3>3. QED  BY <3>1, <3>2
  <2>7. CASE WorkerPush(d)  BY <2>7, WorkerPushStep
  <2>8. CASE WorkerRetry(d)
    <3>1. worker[d].msg \in Message
      BY <1>1, <2>8 DEF WorkerRetry, BaseInv, WorkerHolds
    <3>2. worker'[d].msg = Emptied(worker[d].msg)
      BY <1>1, <2>8 DEF WorkerRetry, Place
    <3>3. worker'[d].msg \in Message /\ worker'[d].msg.id = worker[d].msg.id
      BY <3>1, <3>2 DEF Message, Emptied
    <3>4. Ids(Held(worker'[d].msg)) = Ids(Held(worker[d].msg))
      BY <3>1, <3>3, IdsHeld
    <3>5. QED  BY <1>1, <2>1, <2>8, <3>4 DEF WorkerRetry, queues
  <2>9. QED
    BY <1>8, <2>2, <2>3, <2>4, <2>5, <2>6, <2>7, <2>8 DEF Worker
<1>9. CASE DrainCall
  BY <1>9, QuietStep DEF DrainCall, queues, Working, Entering, Submitted
<1>10. CASE DrainPop  BY <1>10, DrainPopStep
<1>11. CASE DrainNext
  BY <1>11, QuietStep DEF DrainNext, queues, Working, Entering, Submitted
<1>12. CASE UNCHANGED vars
  BY <1>12, QuietStep DEF vars, Working, Entering, Submitted
<1>13. QED
  BY <1>2, <1>3, <1>4, <1>5, <1>6, <1>7, <1>8, <1>9, <1>10, <1>11, <1>12 DEF Next

-----------------------------------------------------------------------------
(***************************************************************************)
(* How many results a stop() costs.                                        *)
(***************************************************************************)
Busy == {s \in Shards : worker[s].pc \in {"pop", "execute", "publish", "push"}}

\* While stop() is joining, every worker that has not seen running_ cleared may
\* still throw one result away, and only those.
DropBound ==
    Cardinality(dropped) + (IF control = "joining" THEN Cardinality(Busy) ELSE 0)
        <= N * stops

\* Sets of shards and of ids are finite.
LEMMA ShardsFinite ==
    ASSUME NEW B \in SUBSET Shards
    PROVE  IsFiniteSet(B) /\ Cardinality(B) \in Nat /\ Cardinality(B) <= N
<1>1. IsFiniteSet(Shards) /\ Cardinality(Shards) = N
  BY FS_Interval, ThreadAssumption DEF Shards
<1>2. IsFiniteSet(B) /\ Cardinality(B) <= N  BY <1>1, FS_Subset
<1>3. QED  BY <1>2, FS_CardinalityType

\* Commands can be counted.
LEMMA IdsFinite ==
    ASSUME NEW D \in SUBSET (1..MaxSubmits)
    PROVE  IsFiniteSet(D) /\ Cardinality(D) \in Nat
<1>1. IsFiniteSet(1..MaxSubmits)  BY FS_Interval, ThreadAssumption
<1>2. IsFiniteSet(D)  BY <1>1, FS_Subset
<1>3. QED  BY <1>2, FS_CardinalityType

\* One more id in a set.
LEMMA OneMore ==
    ASSUME NEW D, IsFiniteSet(D), Cardinality(D) \in Nat, NEW x
    PROVE  /\ Cardinality(D \cup {x}) \in Nat
           /\ Cardinality(D \cup {x}) <= Cardinality(D) + 1
<1>1. Cardinality(D \cup {x}) = IF x \in D THEN Cardinality(D) ELSE Cardinality(D) + 1
  BY FS_AddElement
<1>2. QED  BY <1>1

\* Only a worker that was busy when stop() was called drops a result.
LEMMA DropNext == BaseInv /\ BaseInv' /\ DropBound /\ [Next]_vars => DropBound'
<1> SUFFICES ASSUME BaseInv, BaseInv', DropBound, [Next]_vars PROVE DropBound'
  OBVIOUS
<1>1. /\ IsFiniteSet(dropped) /\ Cardinality(dropped) \in Nat
      /\ N \in Nat \ {0} /\ stops \in Nat
      /\ worker \in [Shards -> [pc: Pcs, msg: Message \cup {NULL}]]
  BY IdsFinite, ThreadAssumption DEF BaseInv, TypeOK, Pcs
<1>2. /\ IsFiniteSet(Busy) /\ Cardinality(Busy) \in Nat /\ Cardinality(Busy) <= N
      /\ IsFiniteSet(Busy') /\ Cardinality(Busy') \in Nat
  <2>1. Busy \in SUBSET Shards /\ Busy' \in SUBSET Shards  BY DEF Busy
  <2>2. QED  BY <2>1, ShardsFinite
<1>3. ASSUME UNCHANGED <<control, stops, dropped>>, Busy' \subseteq Busy
      PROVE  DropBound'
  <2>1. Cardinality(Busy') <= Cardinality(Busy)  BY <1>2, <1>3, FS_Subset
  <2>2. QED  BY <1>1, <1>2, <1>3, <2>1 DEF DropBound
<1>4. ASSUME UNCHANGED <<control, stops, dropped>>, control = "started"
      PROVE  DropBound'
  BY <1>1, <1>4 DEF DropBound
<1>5. CASE Start  BY <1>1, <1>5 DEF Start, DropBound
<1>6. CASE Stop
  <2>1. Busy' = Busy /\ dropped' = dropped /\ stops' = stops + 1
        /\ control' = "joining" /\ control = "started"
    BY <1>6 DEF Stop, Busy
  <2>2. N * (stops + 1) = N * stops + N  BY <1>1
  <2>3. QED  BY <1>1, <1>2, <2>1, <2>2 DEF DropBound
<1>7. CASE Join  BY <1>1, <1>2, <1>7 DEF Join, DropBound
<1>8. ASSUME NEW d \in Shards, Worker(d) PROVE DropBound'
  <2>1. control # "stopped" /\ (running <=> control = "started")
    <3>1. worker[d].pc # "ended"
      BY <1>8
      DEF Worker, WorkerLoop, WorkerIdle, WorkerPop, WorkerExecute, WorkerPublish,
          WorkerPush, WorkerRetry
    <3>2. QED  BY <3>1 DEF BaseInv, ControlInv
  <2>2. UNCHANGED <<control, stops>>
    BY <1>8
    DEF Worker, WorkerLoop, WorkerIdle, WorkerPop, WorkerExecute, WorkerPublish,
        WorkerPush, WorkerRetry, controls
  <2>3. CASE WorkerPublish(d) /\ ~running
    <3>1. control = "joining"  BY <2>1, <2>3 DEF BaseInv, TypeOK
    <3>2. Busy' = Busy \ {d} /\ d \in Busy
      BY <1>1, <2>3 DEF WorkerPublish, Place, Busy
    <3>3. Cardinality(Busy') = Cardinality(Busy) - 1  BY <1>2, <3>2, FS_RemoveElement
    <3>4. dropped' = dropped \cup {worker[d].msg.id}  BY <2>3 DEF WorkerPublish
    <3>5. /\ Cardinality(dropped') \in Nat
          /\ Cardinality(dropped') <= Cardinality(dropped) + 1
      BY <1>1, <3>4, OneMore
    <3>6. QED  BY <1>1, <1>2, <2>2, <3>1, <3>3, <3>5 DEF DropBound
  <2>4. CASE ~(WorkerPublish(d) /\ ~running)
    <3>1. dropped' = dropped
      BY <1>8, <2>4
      DEF Worker, WorkerLoop, WorkerIdle, WorkerPop, WorkerExecute, WorkerPublish,
          WorkerPush, WorkerRetry
    <3>2. CASE control = "started"  BY <1>4, <2>2, <3>1, <3>2
    <3>3. CASE control # "started"
      <4>1. Busy' \subseteq Busy
        BY <1>1, <1>8, <2>1, <2>4, <3>3
        DEF Worker, WorkerLoop, WorkerIdle, WorkerPop, WorkerExecute, WorkerPublish,
            WorkerPush, WorkerRetry, Place, Busy
      <4>2. QED  BY <1>3, <2>2, <3>1, <4>1
    <3>4. QED  BY <3>2, <3>3
  <2>5. QED  BY <2>3, <2>4
<1>9. ASSUME UNCHANGED <<control, stops, dropped, worker>> PROVE DropBound'
  BY <1>3, <1>9 DEF Busy
<1>10. ASSUME NEW s \in Shards, SubmitCall(s) PROVE DropBound'
  BY <1>9, <1>10 DEF SubmitCall, controls
<1>11. CASE SubmitPush  BY <1>9, <1>11 DEF SubmitPush, controls
<1>12. CASE SubmitRetry  BY <1>9, <1>12 DEF SubmitRetry, controls
<1>13. CASE DrainCall  BY <1>9, <1>13 DEF DrainCall, controls
<1>14. CASE DrainPop  BY <1>9, <1>14 DEF DrainPop, controls
<1>15. CASE DrainNext  BY <1>9, <1>15 DEF DrainNext, controls
<1>16. CASE UNCHANGED vars  BY <1>9, <1>16 DEF vars
<1>17. QED
  BY <1>5, <1>6, <1>7, <1>8, <1>10, <1>11, <1>12, <1>13, <1>14, <1>15, <1>16 DEF Next

\* Nothing has been dropped at first.
LEMMA DropInit == Init => DropBound
<1> SUFFICES ASSUME Init PROVE DropBound  OBVIOUS
<1>1. Cardinality(dropped) = 0  BY FS_EmptySet DEF Init
<1>2. QED  BY <1>1, ThreadAssumption DEF Init, DropBound

\* The segments of a pipeline joined into one sequence.
LEMMA PipelineJoined ==
    ASSUME TypeOK, NEW s \in Shards
    PROVE  /\ Pipeline(s) \in Seq(Message)
           /\ Ids(Pipeline(s)) = Everywhere(s)
           /\ InOrder(s) => Increasing(Pipeline(s))
<1> DEFINE r == results[s]
           o == outbound[s]
           w == Held(worker[s].msg)
           i == inbound[s]
           e == Submitted(s)
<1>1. /\ r \in Seq(Message) /\ o \in Seq(Message) /\ i \in Seq(Message)
      /\ worker[s].msg \in Message \cup {NULL} /\ submit \in Message \cup {NULL}
  BY TypeOfQueues DEF TypeOK
<1>2. w \in Seq(Message) /\ Increasing(w)
  <2>1. w = <<>> \/ \E m \in Message : w = <<m>>  BY <1>1 DEF Held
  <2>2. QED  BY <2>1, IncreasingShort
<1>3. e \in Seq(Message) /\ Increasing(e)
  <2>1. e = <<>> \/ \E m \in Message : e = <<m>>  BY <1>1 DEF Submitted
  <2>2. QED  BY <2>1, IncreasingShort
<1>4. /\ Returned(s) = Ids(r) /\ Published(s) = Ids(o) /\ Working(s) = Ids(w)
      /\ Waiting(s) = Ids(i) /\ Entering(s) = Ids(e)
  BY DEF Returned, Published, Working, Waiting, Entering
<1>5. Pipeline(s) = (((r \o o) \o w) \o i) \o e  BY DEF Pipeline
<1>6. InOrder(s) => /\ Increasing(r) /\ Increasing(o) /\ Increasing(i)
                    /\ Chain(Ids(r), Ids(o), Ids(w), Ids(i), Ids(e))
  BY <1>4 DEF InOrder
<1> HIDE DEF r, o, w, i, e
<1> DEFINE ro == r \o o
           row == ro \o w
           rowi == row \o i
<1>7. /\ ro \in Seq(Message) /\ Ids(ro) = Ids(r) \cup Ids(o)
      /\ InOrder(s) => Increasing(ro)
  BY <1>1, <1>6, IdsConcat DEF Chain
<1> HIDE DEF ro
<1>8. /\ row \in Seq(Message) /\ Ids(row) = Ids(ro) \cup Ids(w)
      /\ InOrder(s) => Increasing(row)
  <2>1. InOrder(s) => Before(Ids(ro), Ids(w))  BY <1>6, <1>7 DEF Chain, Before
  <2>2. QED  BY <1>2, <1>7, <2>1, IdsConcat
<1> HIDE DEF row
<1>9. /\ rowi \in Seq(Message) /\ Ids(rowi) = Ids(row) \cup Ids(i)
      /\ InOrder(s) => Increasing(rowi)
  <2>1. InOrder(s) => Before(Ids(row), Ids(i))
    BY <1>6, <1>7, <1>8 DEF Chain, Before
  <2>2. QED  BY <1>1, <1>6, <1>8, <2>1, IdsConcat
<1> HIDE DEF rowi
<1>10. /\ rowi \o e \in Seq(Message) /\ Ids(rowi \o e) = Ids(rowi) \cup Ids(e)
       /\ InOrder(s) => Increasing(rowi \o e)
  <2>1. InOrder(s) => Before(Ids(rowi), Ids(e))
    <3>1. InOrder(s) => /\ Before(Ids(r), Ids(e)) /\ Before(Ids(o), Ids(e))
                        /\ Before(Ids(w), Ids(e)) /\ Before(Ids(i), Ids(e))
      BY <1>6 DEF Chain, Before
    <3>2. Ids(rowi) = Ids(r) \cup Ids(o) \cup Ids(w) \cup Ids(i)  BY <1>7, <1>8, <1>9
    <3>3. QED  BY <3>1, <3>2 DEF Before
  <2>2. QED  BY <1>3, <1>9, <2>1, IdsConcat
<1>11. Pipeline(s) = rowi \o e  BY <1>5 DEF rowi, row, ro
<1>12. Everywhere(s) = Ids(r) \cup Ids(o) \cup Ids(w) \cup Ids(i) \cup Ids(e)
  BY <1>4 DEF Everywhere
<1>13. QED
  BY <1>7, <1>8, <1>9, <1>10, <1>11, <1>12 DEF r, o, w, i, e

\* PipelineExact for every number of shards and size of the queues: no
\* interleaving of submit(), the workers, drain(), start() and stop() loses,
\* duplicates or reorders a command, and a stop() throws away at most one result
\* of each worker.
THEOREM NothingLost == Spec => []PipelineExact
<1>1. BaseInv /\ PipelineInv /\ DropBound => PipelineExact
  <2> SUFFICES ASSUME BaseInv, PipelineInv, DropBound PROVE PipelineExact  OBVIOUS
  <2>1. TypeOK  BY DEF BaseInv
  <2>2. ASSUME NEW s \in Shards
        PROVE  \A i, j \in DOMAIN Pipeline(s) :
                  i < j => Pipeline(s)[i].id < Pipeline(s)[j].id
    BY <2>1, PipelineJoined DEF PipelineInv, Increasing
  <2>3. \A s, t \in Shards : s # t => Ids(Pipeline(s)) \cap Ids(Pipeline(t)) = {}
    BY <2>1, PipelineJoined DEF PipelineInv, Apart
  <2>4. UNION {Ids(Pipeline(s)) : s \in Shards} = (1..next) \ dropped
    <3>1. next \in Nat  BY <2>1 DEF TypeOK
    <3>2. ASSUME NEW n, n \in UNION {Ids(Pipeline(s)) : s \in Shards}
          PROVE  n \in (1..next) \ dropped
      <4>1. PICK s \in Shards : n \in Everywhere(s)  BY <2>1, <3>2, PipelineJoined
      <4>2. n \in Int  BY <2>1, <4>1, IdsAreNumbers
      <4>3. QED  BY <4>1, <4>2 DEF PipelineInv, Accounted
    <3>3. ASSUME NEW n \in (1..next) \ dropped
          PROVE  n \in UNION {Ids(Pipeline(s)) : s \in Shards}
      <4>1. PICK s \in Shards : n \in Everywhere(s)
        BY <3>1 DEF PipelineInv, Accounted
      <4>2. QED  BY <2>1, <4>1, PipelineJoined
    <3>4. QED  BY <3>2, <3>3
  <2>5. Cardinality(dropped) <= N * stops
    <3>1. Busy \in SUBSET Shards  BY DEF Busy
    <3>2. Cardinality(Busy) \in Nat  BY <3>1, ShardsFinite
    <3>3. Cardinality(dropped) \in Nat /\ N * stops \in Nat
      BY <2>1, IdsFinite, ThreadAssumption DEF TypeOK
    <3>4. QED  BY <3>2, <3>3 DEF DropBound
  <2>6. QED  BY <2>2, <2>3, <2>4, <2>5 DEF PipelineExact
<1>2. Init => BaseInv /\ PipelineInv /\ DropBound  BY BaseInit, PipelineInit, DropInit
<1>3. BaseInv /\ PipelineInv /\ DropBound /\ [Next]_vars
        => BaseInv' /\ PipelineInv' /\ DropBound'
  BY BaseNext, PipelineNext, DropNext
<1>4. QED  BY <1>1, <1>2, <1>3, PTL DEF Spec

-----------------------------------------------------------------------------
(***************************************************************************)
(* What a full queue costs.                                                *)
(***************************************************************************)
\* What is under way in a shard is counted in its window; a command without its
\* contents has found the inbound queue full, a result the outbound queue; and a
\* full queue with one more message in front of it is more than the queue holds.
KeptIn(s) ==
    /\ Len(outbound[s]) + AtWork(s) + Len(inbound[s]) + AtDoor(s) <= window[s]
    /\ \A m \in ToSet(inbound[s]) : m.shard = s /\ (m.whole \/ window[s] > Inbound)
    /\ submit # NULL /\ submit.shard = s => submit.whole \/ window[s] > Inbound
    /\ worker[s].pc = "execute" =>
          worker[s].msg.shard = s /\ (worker[s].msg.whole \/ window[s] > Inbound)
    /\ worker[s].pc \in {"publish", "push"} => worker[s].msg.whole \/ window[s] > Outbound
    /\ \A m \in ToSet(outbound[s]) : m.whole \/ window[s] > Outbound
    /\ \A m \in ToSet(results[s]) : m.whole \/ window[s] > Outbound

KeptInv == \A s \in Shards : KeptIn(s)

\* The messages of a queue after a push() and after a pop().
LEMMA ToSetSteps ==
    ASSUME NEW q \in Seq(Message)
    PROVE  /\ \A m \in Message : ToSet(Append(q, m)) \subseteq ToSet(q) \cup {m}
           /\ q # <<>> => Head(q) \in ToSet(q) /\ ToSet(Tail(q)) \subseteq ToSet(q)
<1>1. DOMAIN q = 1..Len(q) /\ Len(q) \in Nat  OBVIOUS
<1>2. ASSUME NEW m \in Message, NEW x \in ToSet(Append(q, m))
      PROVE  x \in ToSet(q) \cup {m}
  <2>1. PICK i \in 1..(Len(q) + 1) : x = Append(q, m)[i]  BY <1>1 DEF ToSet
  <2>2. CASE i = Len(q) + 1  BY <2>1, <2>2
  <2>3. CASE i # Len(q) + 1
    <3>1. i \in 1..Len(q) /\ x = q[i]  BY <1>1, <2>1, <2>3
    <3>2. QED  BY <1>1, <3>1 DEF ToSet
  <2>4. QED  BY <2>2, <2>3
<1>3. ASSUME q # <<>> PROVE Head(q) \in ToSet(q) /\ ToSet(Tail(q)) \subseteq ToSet(q)
  <2>1. Head(q) = q[1] /\ 1 \in 1..Len(q)  BY <1>3
  <2>2. ASSUME NEW x \in ToSet(Tail(q)) PROVE x \in ToSet(q)
    <3>1. /\ Tail(q) \in Seq(Message) /\ Len(Tail(q)) = Len(q) - 1
          /\ \A i \in 1..Len(Tail(q)) : Tail(q)[i] = q[i + 1]
      BY <1>3, HeadTailProperties
    <3>2. DOMAIN Tail(q) = 1..(Len(q) - 1)  BY <3>1
    <3>3. PICK i \in 1..(Len(q) - 1) : x = Tail(q)[i]  BY <3>2 DEF ToSet
    <3>4. i + 1 \in 1..Len(q) /\ x = q[i + 1]  BY <1>1, <3>1, <3>3
    <3>5. QED  BY <1>1, <3>4 DEF ToSet
  <2>3. QED  BY <1>1, <2>1, <2>2 DEF ToSet
<1>4. QED  BY <1>2, <1>3

\* The messages of two queues end to end.
LEMMA ToSetConcat ==
    ASSUME NEW a \in Seq(Message), NEW b \in Seq(Message)
    PROVE  ToSet(a \o b) = ToSet(a) \cup ToSet(b)
<1>1. /\ DOMAIN (a \o b) = 1..(Len(a) + Len(b))
      /\ DOMAIN a = 1..Len(a) /\ DOMAIN b = 1..Len(b)
      /\ Len(a) \in Nat /\ Len(b) \in Nat
      /\ \A k \in 1..(Len(a) + Len(b)) :
            (a \o b)[k] = IF k <= Len(a) THEN a[k] ELSE b[k - Len(a)]
  BY ConcatProperties
<1>2. ASSUME NEW x \in ToSet(a \o b) PROVE x \in ToSet(a) \cup ToSet(b)
  <2>1. PICK k \in 1..(Len(a) + Len(b)) : x = (a \o b)[k]  BY <1>1 DEF ToSet
  <2>2. CASE k <= Len(a)
    <3>1. k \in 1..Len(a) /\ x = a[k]  BY <1>1, <2>1, <2>2
    <3>2. QED  BY <1>1, <3>1 DEF ToSet
  <2>3. CASE ~(k <= Len(a))
    <3>1. k - Len(a) \in 1..Len(b) /\ x = b[k - Len(a)]  BY <1>1, <2>1, <2>3
    <3>2. QED  BY <1>1, <3>1 DEF ToSet
  <2>4. QED  BY <2>2, <2>3
<1>3. ASSUME NEW x \in ToSet(a) PROVE x \in ToSet(a \o b)
  <2>1. PICK k \in 1..Len(a) : x = a[k]  BY <1>1 DEF ToSet
  <2>2. k \in 1..(Len(a) + Len(b)) /\ x = (a \o b)[k]  BY <1>1, <2>1
  <2>3. QED  BY <1>1, <2>2 DEF ToSet
<1>4. ASSUME NEW x \in ToSet(b) PROVE x \in ToSet(a \o b)
  <2>1. PICK k \in 1..Len(b) : x = b[k]  BY <1>1 DEF ToSet
  <2>2. Len(a) + k \in 1..(Len(a) + Len(b)) /\ x = (a \o b)[Len(a) + k]
    BY <1>1, <2>1
  <2>3. QED  BY <1>1, <2>2 DEF ToSet
<1>5. QED  BY <1>2, <1>3, <1>4

\* The command submit() is pushing, as a queue of its own.
LEMMA SubmittedFacts ==
    ASSUME TypeOK, NEW s \in Shards
    PROVE  /\ Submitted(s) \in Seq(Message)
           /\ \A m \in ToSet(Submitted(s)) : m = submit /\ submit # NULL /\ submit.shard = s
<1>1. submit \in Message \cup {NULL}  BY DEF TypeOK
<1>2. CASE submit # NULL /\ submit.shard = s
  <2>1. Submitted(s) = <<submit>> /\ submit \in Message  BY <1>1, <1>2 DEF Submitted
  <2>2. ToSet(<<submit>>) = {submit}  BY DEF ToSet
  <2>3. QED  BY <1>2, <2>1, <2>2
<1>3. CASE ~(submit # NULL /\ submit.shard = s)
  <2>1. Submitted(s) = <<>>  BY <1>3 DEF Submitted
  <2>2. ToSet(<<>>) = {} /\ <<>> \in Seq(Message)  BY DEF ToSet
  <2>3. QED  BY <2>1, <2>2
<1>4. QED  BY <1>2, <1>3

\* There is no message that could be emptied.
LEMMA KeptInit == Init => KeptInv
<1> SUFFICES ASSUME Init, NEW s \in Shards PROVE KeptIn(s)  BY DEF KeptInv
<1>1. ToSet(<<>>) = {} /\ Len(<<>>) = 0  BY DEF ToSet
<1>2. /\ inbound[s] = <<>> /\ outbound[s] = <<>> /\ results[s] = <<>> /\ window[s] = 0
      /\ worker[s].pc = "ended" /\ AtWork(s) = 0 /\ AtDoor(s) = 0 /\ submit = NULL
  BY DEF Init, Place, AtWork, AtDoor
<1>3. QED  BY <1>1, <1>2 DEF KeptIn

\* A step that leaves a shard's queues alone, and empties nothing.
LEMMA KeptSame ==
    ASSUME NEW s \in Shards, TypeOK, KeptIn(s), window'[s] = window[s],
           inbound'[s] = inbound[s], outbound'[s] = outbound[s], results'[s] = results[s],
           \/ worker'[s] = worker[s]
           \/ worker'[s].pc \notin {"execute", "publish", "push"} /\ worker'[s].msg = NULL
           \/ /\ worker[s].pc = "publish" /\ worker'[s].pc = "push"
              /\ worker'[s].msg = worker[s].msg,
           \/ submit' = submit
           \/ /\ submit = NULL \/ submit.shard # s
              /\ submit' = NULL \/ submit'.shard # s
    PROVE  KeptIn(s)'
<1>1. Len(outbound[s]) \in Nat /\ Len(inbound[s]) \in Nat /\ window[s] \in Nat
  BY CountUnderWay DEF TypeOK
<1>2. AtWork(s) \in {0, 1} /\ AtWork(s)' \in {0, 1} /\ AtWork(s)' <= AtWork(s)
  BY DEF AtWork
<1>3. AtDoor(s) \in {0, 1} /\ AtDoor(s)' = AtDoor(s)  BY DEF AtDoor
<1>4. Len(outbound[s]) + AtWork(s) + Len(inbound[s]) + AtDoor(s) <= window[s]  BY DEF KeptIn
<1>5. Len(outbound[s]) + AtWork(s)' + Len(inbound[s]) + AtDoor(s)' <= window[s]
  BY <1>1, <1>2, <1>3, <1>4
<1>6. QED  BY <1>5 DEF KeptIn

\* A refused push has more under way than the queue holds, and only it empties.
LEMMA KeptNext == BaseInv /\ KeptInv /\ [Next]_vars => KeptInv'
<1> SUFFICES ASSUME BaseInv, KeptInv, [Next]_vars PROVE KeptInv'  OBVIOUS
<1>1. /\ TypeOK /\ WorkerHolds
      /\ worker \in [Shards -> [pc: Pcs, msg: Message \cup {NULL}]]
      /\ inbound \in [Shards -> Seq(Message)] /\ outbound \in [Shards -> Seq(Message)]
      /\ results \in [Shards -> Seq(Message)] /\ submit \in Message \cup {NULL}
      /\ window \in [Shards -> Nat] /\ drain \in 0..N /\ NULL \notin Message
      /\ Inbound \in Nat /\ Outbound \in Nat
  BY ThreadAssumption DEF BaseInv, TypeOK, Pcs
<1>2. TypeOK'  BY BaseNext DEF BaseInv
<1>3. \A s \in Shards : KeptIn(s)  BY DEF KeptInv
<1>4. ASSUME NEW s \in Shards
      PROVE  /\ Len(outbound[s]) \in Nat /\ Len(inbound[s]) \in Nat /\ window[s] \in Nat
             /\ AtWork(s) \in Nat /\ AtDoor(s) \in Nat
             /\ Len(outbound[s]) + AtWork(s) + Len(inbound[s]) + AtDoor(s) <= window[s]
  <2>1. AtWork(s) \in Nat /\ AtDoor(s) \in Nat  BY DEF AtWork, AtDoor
  <2>2. QED  BY <1>1, <1>3, <2>1, CountUnderWay DEF KeptIn
<1>5. ASSUME UNCHANGED <<inbound, outbound, results, worker, submit, window>> PROVE KeptInv'
  <2>1. ASSUME NEW s \in Shards PROVE KeptIn(s)'
    BY <1>1, <1>3, <1>5, KeptSame
  <2>2. QED  BY <2>1 DEF KeptInv
<1>6. CASE Start
  <2>1. ASSUME NEW s \in Shards PROVE KeptIn(s)'
    <3>1. worker'[s].pc = "loop" /\ worker'[s].msg = NULL  BY <1>6 DEF Start, Place
    <3>2. UNCHANGED <<inbound, outbound, results, window, submit>>  BY <1>6 DEF Start, queues, log
    <3>3. QED  BY <1>1, <1>3, <3>1, <3>2, KeptSame
  <2>2. QED  BY <2>1 DEF KeptInv
<1>7. CASE Stop  BY <1>5, <1>7 DEF Stop, queues, log
<1>8. CASE Join  BY <1>5, <1>8 DEF Join, queues, log
<1>9. ASSUME NEW d \in Shards, SubmitCall(d) PROVE KeptInv'
  <2>1. /\ submit = NULL /\ submit' # NULL /\ submit'.shard = d /\ submit'.whole = TRUE
        /\ UNCHANGED <<inbound, outbound, results, worker>>
        /\ window'[d] = IF window[d] > Outstanding(d) THEN window[d] ELSE Outstanding(d) + 1
        /\ \A s \in Shards \ {d} : window'[s] = window[s]
    <3>1. submit' = [id |-> next', shard |-> d, whole |-> TRUE]  BY <1>9 DEF SubmitCall
    <3>2. submit' \in Message \cup {NULL} /\ next' \in 0..MaxSubmits /\ next' = next + 1
          /\ next \in 0..MaxSubmits
      BY <1>1, <1>2, <1>9 DEF SubmitCall, TypeOK
    <3>3. submit' \in Message  BY <3>1, <3>2 DEF Message
    <3>4. UNCHANGED <<inbound, outbound, results, worker>> /\ submit = NULL
      BY <1>9 DEF SubmitCall, queues
    <3>5. window' = [window EXCEPT ![d] = IF @ > Outstanding(d) THEN @ ELSE Outstanding(d) + 1]
      BY <1>9 DEF SubmitCall
    <3>6. QED  BY <1>1, <3>1, <3>3, <3>4, <3>5
  <2>2. ASSUME NEW s \in Shards, s # d PROVE KeptIn(s)'
    BY <1>1, <1>3, <2>1, <2>2, KeptSame
  <2>3. KeptIn(d)'
    <3>1. AtDoor(d)' = 1 /\ AtWork(d)' = AtWork(d)  BY <2>1 DEF AtDoor, AtWork
    <3>2. Outstanding(d) = Len(outbound[d]) + AtWork(d) + Len(inbound[d])
      BY <1>1, CountUnderWay
    <3>3. /\ window[d] \in Nat /\ window'[d] \in Nat /\ window'[d] >= window[d]
          /\ window'[d] >= Outstanding(d) + 1
      BY <1>1, <1>4, <2>1, <3>2
    <3>4. Len(outbound[d]) + AtWork(d) + Len(inbound[d]) + 1 <= window'[d]
      BY <1>4, <3>2, <3>3
    <3>5. /\ window[d] > Inbound => window'[d] > Inbound
          /\ window[d] > Outbound => window'[d] > Outbound
      BY <1>1, <3>3
    <3>6. QED  BY <1>3, <2>1, <3>1, <3>4, <3>5 DEF KeptIn
  <2>4. QED  BY <2>2, <2>3 DEF KeptInv
<1>10. CASE SubmitPush
  <2>1. submit \in Message /\ submit.shard \in Shards /\ submit # NULL
    BY <1>1, <1>10 DEF SubmitPush, Message
  <2> PICK d \in Shards : d = submit.shard  BY <2>1
  <2>2. /\ UNCHANGED <<outbound, results, worker, window>> /\ submit' = NULL
        /\ inbound'[d] = Append(inbound[d], submit)
        /\ \A s \in Shards \ {d} : inbound'[s] = inbound[s]
    BY <1>1, <1>10 DEF SubmitPush, log
  <2>3. ASSUME NEW s \in Shards, s # d PROVE KeptIn(s)'
    BY <1>1, <1>3, <2>2, <2>3, KeptSame
  <2>4. KeptIn(d)'
    <3>1. AtDoor(d)' = 0 /\ AtWork(d)' = AtWork(d)  BY <2>2 DEF AtDoor, AtWork
    <3>2. AtDoor(d) = 1  BY <2>1 DEF AtDoor
    <3>3. inbound[d] \in Seq(Message)  BY <1>1
    <3>4. Len(inbound'[d]) = Len(inbound[d]) + 1  BY <2>1, <2>2, <3>3, AppendProperties
    <3>5. ToSet(inbound'[d]) \subseteq ToSet(inbound[d]) \cup {submit}
      BY <2>1, <2>2, <3>3, ToSetSteps
    <3>6. Len(outbound[d]) + AtWork(d) + Len(inbound'[d]) + 0 <= window[d]
      BY <1>4, <3>2, <3>4
    <3>7. \A m \in ToSet(inbound'[d]) : m.shard = d /\ (m.whole \/ window[d] > Inbound)
      BY <1>3, <2>1, <3>5 DEF KeptIn
    <3>8. QED  BY <1>3, <2>2, <3>1, <3>6, <3>7 DEF KeptIn
  <2>5. QED  BY <2>3, <2>4 DEF KeptInv
<1>11. CASE SubmitRetry
  <2>1. submit \in Message /\ submit.shard \in Shards /\ submit # NULL
    BY <1>1, <1>11 DEF SubmitRetry, Message
  <2> PICK d \in Shards : d = submit.shard  BY <2>1
  <2>2. /\ UNCHANGED <<inbound, outbound, results, worker, window>>
        /\ submit' # NULL /\ submit'.shard = d /\ ~(Len(inbound[d]) < Inbound)
    <3>1. submit' \in Message /\ submit'.shard = d  BY <1>11, <2>1 DEF SubmitRetry, Emptied, Message
    <3>2. QED  BY <1>1, <1>11, <3>1 DEF SubmitRetry, Room, queues, log
  <2>3. ASSUME NEW s \in Shards, s # d PROVE KeptIn(s)'
    BY <1>1, <1>3, <2>2, <2>3, KeptSame
  <2>4. KeptIn(d)'
    <3>1. AtDoor(d)' = AtDoor(d) /\ AtWork(d)' = AtWork(d) /\ AtDoor(d) = 1
      BY <2>1, <2>2 DEF AtDoor, AtWork
    <3>2. ~(Len(inbound[d]) < Inbound) /\ Inbound \in Nat  BY <1>1, <2>2
    <3>3. window[d] > Inbound  BY <1>4, <3>1, <3>2
    <3>4. QED  BY <1>3, <2>2, <3>1, <3>2, <3>3 DEF KeptIn
  <2>5. QED  BY <2>3, <2>4 DEF KeptInv
<1>12. ASSUME NEW d \in Shards, Worker(d) PROVE KeptInv'
  <2>0. /\ UNCHANGED <<results, submit, window>>
        /\ \A s \in Shards \ {d} :
              worker'[s] = worker[s] /\ inbound'[s] = inbound[s] /\ outbound'[s] = outbound[s]
    BY <1>1, <1>12
    DEF Worker, WorkerLoop, WorkerIdle, WorkerPop, WorkerExecute, WorkerPublish, WorkerPush,
        WorkerRetry, queues, log
  <2>1. AtDoor(d)' = AtDoor(d)  BY <2>0 DEF AtDoor
  <2>2. ASSUME NEW s \in Shards, s # d PROVE KeptIn(s)'
    BY <1>1, <1>3, <2>0, <2>2, KeptSame
  <2>3. SUFFICES KeptIn(d)'  BY <2>2 DEF KeptInv
  <2>4. /\ KeptIn(d) /\ window[d] \in Nat /\ worker[d] \in [pc: Pcs, msg: Message \cup {NULL}]
        /\ inbound[d] \in Seq(Message) /\ outbound[d] \in Seq(Message)
        /\ submit' = submit /\ results'[d] = results[d] /\ window'[d] = window[d]
    BY <1>1, <1>3, <2>0
  <2>5. CASE WorkerLoop(d) \/ WorkerIdle(d)
    <3>1. /\ worker'[d].pc \notin {"execute", "publish", "push"} /\ worker'[d].msg = NULL
          /\ UNCHANGED <<inbound, outbound>>
      BY <1>1, <2>5 DEF WorkerLoop, WorkerIdle, Place, queues
    <3>2. QED  BY <1>1, <2>4, <3>1, KeptSame
  <2>6. CASE WorkerPop(d)
    <3>1. /\ inbound[d] # <<>> /\ inbound'[d] = Tail(inbound[d])
          /\ worker'[d].msg = Head(inbound[d]) /\ worker'[d].pc = "execute"
          /\ worker[d].pc = "pop" /\ outbound' = outbound
          /\ Len(inbound'[d]) = Len(inbound[d]) - 1 /\ worker'[d].msg \in Message
      BY <1>1, <2>6, TakeType DEF WorkerPop, Place
    <3>2. worker[d].msg = NULL  BY <1>1, <3>1 DEF WorkerHolds
    <3>3. AtWork(d) = 0 /\ AtWork(d)' = 1  BY <1>1, <3>1, <3>2 DEF AtWork
    <3>4. Len(outbound'[d]) + AtWork(d)' + Len(inbound'[d]) + AtDoor(d)' <= window[d]
      <4> DEFINE a == Len(outbound[d])
                 b == Len(inbound[d])
                 c == AtDoor(d)
                 v == window[d]
      <4>1. a \in Nat /\ b \in Nat /\ c \in Nat /\ v \in Nat /\ a + 0 + b + c <= v
        BY <1>4, <3>3
      <4>2. Len(inbound'[d]) = Len(inbound[d]) - 1 /\ outbound'[d] = outbound[d]  BY <3>1
      <4>3. a + 1 + (b - 1) + c <= v
        <5> HIDE DEF a, b, c, v
        <5>1. QED  BY <4>1
      <4>4. QED  BY <2>1, <3>3, <4>2, <4>3
    <3>5. /\ Head(inbound[d]) \in ToSet(inbound[d])
          /\ ToSet(inbound'[d]) \subseteq ToSet(inbound[d])
      BY <2>4, <3>1, ToSetSteps
    <3>6. worker'[d].msg.shard = d /\ (worker'[d].msg.whole \/ window[d] > Inbound)
      BY <2>4, <3>1, <3>5 DEF KeptIn
    <3>7. \A m \in ToSet(inbound'[d]) : m.shard = d /\ (m.whole \/ window[d] > Inbound)
      BY <2>4, <3>5 DEF KeptIn
    <3>8. QED  BY <2>4, <3>1, <3>4, <3>6, <3>7 DEF KeptIn
  <2>7. CASE WorkerExecute(d)
    <3>1. worker[d].msg \in Message  BY <1>1, <2>4, <2>7 DEF WorkerExecute, WorkerHolds
    <3>2. /\ worker'[d].msg = [worker[d].msg EXCEPT !.whole = TRUE] /\ worker'[d].pc = "publish"
          /\ UNCHANGED <<inbound, outbound>>
      BY <1>1, <2>7 DEF WorkerExecute, Place, queues
    <3>3. worker'[d].msg.whole = TRUE /\ worker'[d].msg \in Message  BY <3>1, <3>2 DEF Message
    <3>4. AtWork(d)' = AtWork(d) /\ AtWork(d) = 1  BY <1>1, <3>1, <3>3 DEF AtWork
    <3>5. worker'[d].msg.whole \/ window[d] > Outbound  BY <3>3
    <3>6. QED  BY <2>1, <2>4, <3>2, <3>4, <3>5 DEF KeptIn
  <2>8. CASE WorkerPublish(d)
    <3>1. /\ worker[d].pc = "publish" /\ UNCHANGED <<inbound, outbound>>
          /\ \/ worker'[d].pc = "push" /\ worker'[d].msg = worker[d].msg
             \/ worker'[d].pc = "loop" /\ worker'[d].msg = NULL
      BY <1>1, <2>8 DEF WorkerPublish, Place, queues
    <3>2. QED  BY <1>1, <2>4, <3>1, KeptSame
  <2>9. CASE WorkerPush(d)
    <3>1. worker[d].msg \in Message /\ worker[d].msg # NULL
      BY <1>1, <2>4, <2>9 DEF WorkerPush, WorkerHolds
    <3>2. /\ worker'[d].msg = NULL /\ worker'[d].pc = "loop" /\ worker[d].pc = "push"
          /\ outbound'[d] = Append(outbound[d], worker[d].msg) /\ inbound' = inbound
      BY <1>1, <2>9 DEF WorkerPush, Place
    <3>3. AtWork(d) = 1 /\ AtWork(d)' = 0  BY <3>1, <3>2 DEF AtWork
    <3>4. Len(outbound'[d]) = Len(outbound[d]) + 1  BY <2>4, <3>1, <3>2, AppendProperties
    <3>5. Len(outbound'[d]) + AtWork(d)' + Len(inbound'[d]) + AtDoor(d)' <= window[d]
      <4> DEFINE a == Len(outbound[d])
                 b == Len(inbound[d])
                 c == AtDoor(d)
                 v == window[d]
      <4>1. a \in Nat /\ b \in Nat /\ c \in Nat /\ v \in Nat /\ a + 1 + b + c <= v
        BY <1>4, <3>3
      <4>2. inbound'[d] = inbound[d]  BY <3>2
      <4>3. (a + 1) + 0 + b + c <= v
        <5> HIDE DEF a, b, c, v
        <5>1. QED  BY <4>1
      <4>4. QED  BY <2>1, <3>3, <3>4, <4>2, <4>3
    <3>6. ToSet(outbound'[d]) \subseteq ToSet(outbound[d]) \cup {worker[d].msg}
      BY <2>4, <3>1, <3>2, ToSetSteps
    <3>7. \A m \in ToSet(outbound'[d]) : m.whole \/ window[d] > Outbound
      BY <2>4, <3>2, <3>6 DEF KeptIn
    <3>8. QED  BY <2>4, <3>2, <3>5, <3>7 DEF KeptIn
  <2>10. CASE WorkerRetry(d)
    <3>1. worker[d].msg \in Message /\ worker[d].msg # NULL
      BY <1>1, <2>4, <2>10 DEF WorkerRetry, WorkerHolds
    <3>2. /\ worker'[d].msg = Emptied(worker[d].msg) /\ worker'[d].pc = "publish"
          /\ ~(Len(outbound[d]) < Outbound) /\ UNCHANGED <<inbound, outbound>>
      BY <1>1, <2>10 DEF WorkerRetry, Room, Place, queues
    <3>3. worker'[d].msg \in Message  BY <3>1, <3>2 DEF Emptied, Message
    <3>4. AtWork(d)' = AtWork(d) /\ AtWork(d) = 1  BY <1>1, <3>1, <3>3 DEF AtWork
    <3>5. window[d] > Outbound
      <4>1. ~(Len(outbound[d]) < Outbound) /\ Outbound \in Nat  BY <1>1, <3>2
      <4>2. QED  BY <1>4, <3>4, <4>1
    <3>6. QED  BY <2>1, <2>4, <3>2, <3>4, <3>5 DEF KeptIn
  <2>11. QED
    BY <1>12, <2>5, <2>6, <2>7, <2>8, <2>9, <2>10 DEF Worker
<1>13. CASE DrainCall  BY <1>5, <1>13 DEF DrainCall, queues, log
<1>14. CASE DrainPop
  <2>1. drain \in Shards  BY <1>1, <1>14, ThreadAssumption DEF DrainPop, Shards
  <2> PICK d \in Shards : d = drain  BY <2>1
  <2>2. /\ outbound[d] \in Seq(Message) /\ outbound[d] # <<>> /\ results[d] \in Seq(Message)
        /\ outbound'[d] = Tail(outbound[d]) /\ Len(outbound'[d]) = Len(outbound[d]) - 1
        /\ results'[d] = Append(results[d], Head(outbound[d]))
        /\ \A s \in Shards \ {d} : outbound'[s] = outbound[s] /\ results'[s] = results[s]
        /\ UNCHANGED <<inbound, worker, submit, window>>
    BY <1>1, <1>14, TakeType DEF DrainPop, log
  <2>3. AtDoor(d)' = AtDoor(d) /\ AtWork(d)' = AtWork(d)  BY <2>2 DEF AtDoor, AtWork
  <2>4. ASSUME NEW s \in Shards, s # d PROVE KeptIn(s)'
    BY <1>1, <1>3, <2>2, <2>4, KeptSame
  <2>5. KeptIn(d)'
    <3>1. /\ Head(outbound[d]) \in ToSet(outbound[d]) /\ Head(outbound[d]) \in Message
          /\ ToSet(outbound'[d]) \subseteq ToSet(outbound[d])
      BY <2>2, ToSetSteps
    <3>2. ToSet(results'[d]) \subseteq ToSet(results[d]) \cup {Head(outbound[d])}
      BY <2>2, <3>1, ToSetSteps
    <3>3. Len(outbound'[d]) + AtWork(d) + Len(inbound[d]) + AtDoor(d) <= window[d]
      BY <1>4, <2>2
    <3>4. /\ \A m \in ToSet(outbound'[d]) : m.whole \/ window[d] > Outbound
          /\ \A m \in ToSet(results'[d]) : m.whole \/ window[d] > Outbound
      BY <1>3, <3>1, <3>2 DEF KeptIn
    <3>5. QED  BY <1>3, <2>2, <2>3, <3>3, <3>4 DEF KeptIn
  <2>6. QED  BY <2>4, <2>5 DEF KeptInv
<1>15. CASE DrainNext  BY <1>5, <1>15 DEF DrainNext, queues, log
<1>16. CASE UNCHANGED vars  BY <1>5, <1>16 DEF vars
<1>17. QED
  BY <1>6, <1>7, <1>8, <1>9, <1>10, <1>11, <1>12, <1>13, <1>14, <1>15, <1>16 DEF Next

\* ContentsKept for every number of shards and size of the queues: who keeps no
\* more commands of a shard under way than a queue holds never meets a full one,
\* whatever the threads do, and nothing is emptied on its way through it.
THEOREM WindowKeepsContents == Spec => []ContentsKept
<1>1. BaseInv /\ KeptInv => ContentsKept
  <2> SUFFICES ASSUME BaseInv, KeptInv, NEW s \in Shards
               PROVE  /\ window[s] <= Inbound =>
                            /\ \A m \in ToSet(inbound[s] \o Submitted(s)) : m.whole
                            /\ worker[s].pc = "execute" => Routed(worker[s].msg) = s
                      /\ window[s] <= Outbound =>
                            \A m \in ToSet(results[s] \o outbound[s]) : m.whole
    BY DEF ContentsKept
  <2>1. TypeOK /\ KeptIn(s) /\ window[s] \in Nat /\ Inbound \in Nat /\ Outbound \in Nat
    BY ThreadAssumption DEF BaseInv, TypeOK, KeptInv
  <2>2. ToSet(inbound[s] \o Submitted(s)) = ToSet(inbound[s]) \cup ToSet(Submitted(s))
    BY <2>1, TypeOfQueues, SubmittedFacts, ToSetConcat
  <2>3. ToSet(results[s] \o outbound[s]) = ToSet(results[s]) \cup ToSet(outbound[s])
    BY <2>1, TypeOfQueues, ToSetConcat
  <2>4. window[s] <= Inbound => ~(window[s] > Inbound)  BY <2>1
  <2>5. window[s] <= Outbound => ~(window[s] > Outbound)  BY <2>1
  <2>6. ASSUME window[s] <= Inbound, worker[s].pc = "execute" PROVE Routed(worker[s].msg) = s
    BY <2>1, <2>4, <2>6 DEF KeptIn, Routed
  <2>7. ASSUME window[s] <= Inbound, NEW m \in ToSet(inbound[s] \o Submitted(s)) PROVE m.whole
    BY <2>1, <2>2, <2>4, <2>7, SubmittedFacts DEF KeptIn
  <2>8. ASSUME window[s] <= Outbound, NEW m \in ToSet(results[s] \o outbound[s]) PROVE m.whole
    BY <2>1, <2>3, <2>5, <2>8 DEF KeptIn
  <2>9. QED  BY <2>6, <2>7, <2>8
<1>2. Init => BaseInv /\ KeptInv  BY BaseInit, KeptInit
<1>3. BaseInv /\ KeptInv /\ [Next]_vars => BaseInv' /\ KeptInv'
  BY BaseNext, KeptNext
<1>4. QED  BY <1>1, <1>2, <1>3, PTL DEF Spec
=============================================================================
