------------------------- MODULE MCOrderEntryServer -------------------------
(***************************************************************************)
(* Small instances of OrderEntryServer for TLC.  A header has two bytes,   *)
(* and a frame two to four.                                                *)
(***************************************************************************)
EXTENDS OrderEntryServer, TLC

CONSTANTS c1, c2, x, y

Command(symbol, n) == [bytes |-> n, claims |-> n, kind |-> "command", symbol |-> symbol]
Event == [bytes |-> 2, claims |-> 2, kind |-> "event", symbol |-> x]
Malformed(n, claims) == [bytes |-> n, claims |-> claims, kind |-> "malformed", symbol |-> x]

Plan(one, two) == (c1 :> one) @@ (c2 :> two)

\* One session that says everything, one that claims more bytes than it sends,
\* and two sessions, both in order or one of them not.
MixedPlans ==
    {Plan(<<Command(x, 3), Event, Command(y, 4), Command(x, 2)>>, <<>>),
     Plan(<<Command(x, 3), Malformed(2, 5), Command(y, 3)>>, <<>>),
     Plan(<<Command(x, 3), Command(y, 2)>>, <<Command(y, 3)>>),
     Plan(<<Command(x, 3)>>, <<Malformed(3, 2), Command(x, 2)>>)}

Said(plans) == UNION {UNION {ToSet(plan[c]) : c \in Clients} : plan \in plans}
MixedMessages == Said(MixedPlans)

ClosedPlans == {Plan(<<Command(x, 3)>>, <<>>)}
ClosedMessages == Said(ClosedPlans)
=============================================================================
