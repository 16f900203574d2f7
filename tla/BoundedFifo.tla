----------------------------- MODULE BoundedFifo -----------------------------
(***************************************************************************)
(* What SpscQueue (include/spsc_queue.hpp) promises: push() and pop() act  *)
(* at one instant between call and return on a first-in first-out queue of *)
(* bounded length; a push() that finds it full and a pop() that finds it   *)
(* empty return false and change nothing.                                  *)
(***************************************************************************)
EXTENDS Naturals, Sequences

CONSTANTS
    Values,     \* what is put into the queue
    Capacity,   \* its bound, at least one
    NULL        \* not one of Values

VARIABLES
    queue,      \* the values in the queue, oldest first
    push,       \* the producer's call: its stage and its argument
    pop         \* the consumer's call: its stage and its result

vars == <<queue, push, pop>>

Idle == [stage |-> "idle", value |-> NULL]

Init == queue = <<>> /\ push = Idle /\ pop = Idle

PushCall(v) ==
    /\ push = Idle
    /\ push' = [stage |-> "called", value |-> v]
    /\ UNCHANGED <<queue, pop>>

PushTake ==
    /\ push.stage = "called"
    /\ Len(queue) < Capacity
    /\ queue' = Append(queue, push.value)
    /\ push' = [stage |-> "true", value |-> NULL]
    /\ UNCHANGED pop

PushRefuse ==
    /\ push.stage = "called"
    /\ Len(queue) = Capacity
    /\ push' = [stage |-> "false", value |-> NULL]
    /\ UNCHANGED <<queue, pop>>

PushReturn ==
    /\ push.stage \in {"true", "false"}
    /\ push' = Idle
    /\ UNCHANGED <<queue, pop>>

PopCall ==
    /\ pop = Idle
    /\ pop' = [stage |-> "called", value |-> NULL]
    /\ UNCHANGED <<queue, push>>

PopTake ==
    /\ pop.stage = "called"
    /\ queue # <<>>
    /\ queue' = Tail(queue)
    /\ pop' = [stage |-> "true", value |-> Head(queue)]
    /\ UNCHANGED push

PopRefuse ==
    /\ pop.stage = "called"
    /\ queue = <<>>
    /\ pop' = [stage |-> "false", value |-> NULL]
    /\ UNCHANGED <<queue, push>>

PopReturn ==
    /\ pop.stage \in {"true", "false"}
    /\ pop' = Idle
    /\ UNCHANGED <<queue, push>>

Next ==
    \/ \E v \in Values : PushCall(v)
    \/ PushTake \/ PushRefuse \/ PushReturn
    \/ PopCall \/ PopTake \/ PopRefuse \/ PopReturn

Spec == Init /\ [][Next]_vars
=============================================================================
