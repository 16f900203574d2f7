------------------------------ MODULE SpscQueue ------------------------------
(***************************************************************************)
(* The lock-free single-producer single-consumer ring of                   *)
(* include/spsc_queue.hpp, one action per access to shared memory.  A      *)
(* thread's load of its own index has no step of its own: nobody else      *)
(* writes it.  Indices are unsigned and wrap at Modulus.                   *)
(*                                                                         *)
(* The release store of an index and the acquire load that reads it order  *)
(* the access to the slot between them, so the interleaving of these       *)
(* actions is what the threads can observe.                                *)
(***************************************************************************)
EXTENDS Integers, FiniteSetsExt

CONSTANTS
    Values,     \* what is put into the queue
    Requested,  \* the constructor's argument
    Width,      \* bits of std::size_t
    NULL        \* a moved-from value

\* 1 shifted left k times
Pow2[k \in Nat] == IF k = 0 THEN 1 ELSE 2 * Pow2[k - 1]

Modulus == Pow2[Width]

\* round_up_pow2(): the least power of two that is not below v.
RoundUpPow2(v) == Min({p \in {Pow2[k] : k \in 0..Width} : p >= v})

Capacity == RoundUpPow2(Requested)

ASSUME QueueAssumption ==
    /\ Width \in Nat \ {0, 1}
    /\ Requested \in Nat
    /\ Requested <= Pow2[Width - 1]
    /\ NULL \notin Values

VARIABLES
    head,   \* head_: the next slot to write
    tail,   \* tail_: the next slot to read
    slots,  \* slots_
    ppc,    \* where the producer is in push()
    value,  \* the parameter of push()
    cpc,    \* where the consumer is in pop()
    out     \* the reference parameter of pop()

producer == <<head, ppc, value>>
consumer == <<tail, cpc, out>>
vars == <<head, tail, slots, ppc, value, cpc, out>>

\* index & mask_
Slot(i) == i % Capacity

Minus(a, b) == (a - b) % Modulus
Plus(a, b) == (a + b) % Modulus

Init ==
    /\ head = 0 /\ tail = 0
    /\ slots = [i \in 0..Capacity - 1 |-> NULL]
    /\ ppc = "idle" /\ value = NULL
    /\ cpc = "idle" /\ out = NULL

-----------------------------------------------------------------------------
(***************************************************************************)
(* push()                                                                  *)
(***************************************************************************)
PushCall(v) ==
    /\ ppc = "idle"
    /\ value' = v
    /\ ppc' = "load"
    /\ UNCHANGED <<head, slots, consumer>>

FullLate(t) == Minus(head, t) > Capacity
Full(t) == Minus(Plus(head, 1), t) > Capacity

PushLoadTail ==
    /\ ppc = "load"
    /\ ppc' = IF Full(tail) THEN "false" ELSE "write"
    /\ UNCHANGED <<head, value, slots, consumer>>

PushWrite ==
    /\ ppc = "write"
    /\ slots' = [slots EXCEPT ![Slot(head)] = value]
    /\ ppc' = "store"
    /\ UNCHANGED <<head, value, consumer>>

PushStoreHead ==
    /\ ppc = "store"
    /\ head' = Plus(head, 1)
    /\ ppc' = "true"
    /\ UNCHANGED <<value, slots, consumer>>

PushReturn ==
    /\ ppc \in {"true", "false"}
    /\ ppc' = "idle"
    /\ value' = NULL
    /\ UNCHANGED <<head, slots, consumer>>

-----------------------------------------------------------------------------
(***************************************************************************)
(* pop()                                                                   *)
(***************************************************************************)
PopCall ==
    /\ cpc = "idle"
    /\ out' = NULL
    /\ cpc' = "load"
    /\ UNCHANGED <<tail, slots, producer>>

Empty(h) == tail = h

PopLoadHead ==
    /\ cpc = "load"
    /\ cpc' = IF Empty(head) THEN "false" ELSE "read"
    /\ UNCHANGED <<tail, out, slots, producer>>

\* out = std::move(slot)
PopRead ==
    /\ cpc = "read"
    /\ out' = slots[Slot(tail)]
    /\ slots' = [slots EXCEPT ![Slot(tail)] = NULL]
    /\ cpc' = "store"
    /\ UNCHANGED <<tail, producer>>

PopStoreTail ==
    /\ cpc = "store"
    /\ tail' = Plus(tail, 1)
    /\ cpc' = "true"
    /\ UNCHANGED <<out, slots, producer>>

PopReturn ==
    /\ cpc \in {"true", "false"}
    /\ cpc' = "idle"
    /\ UNCHANGED <<tail, out, slots, producer>>

Next ==
    \/ \E v \in Values : PushCall(v)
    \/ PushLoadTail \/ PushWrite \/ PushStoreHead \/ PushReturn
    \/ PopCall \/ PopLoadHead \/ PopRead \/ PopStoreTail \/ PopReturn

Spec == Init /\ [][Next]_vars

-----------------------------------------------------------------------------
(***************************************************************************)
(* Properties.                                                             *)
(***************************************************************************)
Size == Minus(head, tail)

\* Every variable keeps its type.
TypeOK ==
    /\ head \in 0..Modulus - 1 /\ tail \in 0..Modulus - 1
    /\ slots \in [0..Capacity - 1 -> Values \cup {NULL}]
    /\ ppc \in {"idle", "load", "write", "store", "true", "false"}
    /\ cpc \in {"idle", "load", "read", "store", "true", "false"}
    /\ value \in Values \cup {NULL} /\ out \in Values \cup {NULL}

\* No data race: the producer never assigns the slot the consumer is moving
\* from, although neither holds a lock and the checks that separate them were
\* made earlier, on values the other thread may have changed since.
SlotsDisjoint ==
    ppc = "write" /\ cpc = "read" => Slot(head) # Slot(tail)

\* The abstract queue: push() takes effect at its store of head_, pop() at its
\* store of tail_, refusals at the load of the other thread's index.
Queued(i) ==
    IF i = 1 /\ cpc = "store" THEN out ELSE slots[Slot(Plus(tail, i - 1))]

Fifo == INSTANCE BoundedFifo WITH
    queue <- [i \in 1..Size |-> Queued(i)],
    push <- [stage |-> IF ppc \in {"load", "write", "store"} THEN "called" ELSE ppc,
             value |-> IF ppc \in {"load", "write", "store"} THEN value ELSE NULL],
    pop <- [stage |-> IF cpc \in {"load", "read", "store"} THEN "called" ELSE cpc,
            value |-> IF cpc = "true" THEN out ELSE NULL]

\* The ring implements the bounded first-in first-out queue, wrap-around of the
\* indices included: nothing is lost, duplicated or reordered, push() fails only
\* when the queue is full and pop() only when it is empty.
ImplementsFifo == Fifo!Spec
=============================================================================
