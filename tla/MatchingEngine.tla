--------------------------- MODULE MatchingEngine ---------------------------
(***************************************************************************)
(* The single-writer price-time-priority engine of                         *)
(* src/matching_engine.cpp.  A public call (add, cancel, replace, reject,  *)
(* snapshot, load_snapshot) runs to completion before the next one starts; *)
(* the loops inside add() and load_snapshot() are modelled one iteration   *)
(* per step, with pc saying where the call is.                             *)
(*                                                                         *)
(* A std::map from price to std::list is its set of keys (levels) and the  *)
(* contents filed under a price (queue), so that a key left behind with an *)
(* empty list is a state the model can be in.  A list node is identified   *)
(* by the number of its allocation: that number is the iterator the index  *)
(* keeps.                                                                  *)
(***************************************************************************)
EXTENDS Integers, Sequences, SequencesExt, FiniteSetsExt

CONSTANTS
    Symbols, Ids, Participants, \* symbol, order_id and participant_id values
    Prices, Quantities,         \* tick prices and order quantities
    Styles,                     \* the <<time in force, stp>> pairs callers use
    Calls,                      \* the public operations callers use
    UniqueIds,                  \* callers never add an id that is resting
    MaxSequence,                \* bound: no call starts at this sequence_
    NULL                        \* no location, no command, no snapshot

Sides == {"Buy", "Sell"}
TimeInForce == {"GTC", "IOC", "FOK", "MARKET"}
SelfTradePrevention == {"None", "CancelAggressor", "CancelPassive", "CancelBoth"}

AddOrder ==
    [symbol: Symbols, order_id: Ids, participant: Participants, side: Sides,
     price: Prices, quantity: Quantities, tif: TimeInForce, stp: SelfTradePrevention]

\* The commands callers give to add().
Commands == {c \in AddOrder : <<c.tif, c.stp>> \in Styles}

RestingOrder ==
    [node: Nat, symbol: Symbols, order_id: Ids, participant: Participants,
     side: Sides, price: Prices, remaining: Int]

\* What snapshot() writes of an order, and the whole document.  The ledger is
\* history: the one that belongs to the document.
SavedOrder == [order_id: Ids, participant: Participants, remaining: Int]

Records == [Ids -> [open: Int, arrived: Nat]]

Documents ==
    [sequence: Nat, levels: [Symbols -> [Sides -> SUBSET Prices]],
     queue: [Symbols -> [Sides -> [Prices -> Seq(SavedOrder)]]], ledger: Records]

Location == [symbol: Symbols, side: Sides, price: Prices, iter: Nat]

ASSUME ConstantsAssumption ==
    /\ Prices \subseteq Int
    /\ Quantities \subseteq Int
    /\ Styles \subseteq TimeInForce \X SelfTradePrevention
    /\ UniqueIds \in BOOLEAN
    /\ MaxSequence \in Nat
    /\ NULL \notin Location

VARIABLES
    levels,    \* books_[symbol].bids / .asks: the keys of the price map
    queue,     \* the std::list filed under each key, front first
    index,     \* index_: order_id -> Location, NULL when absent
    sequence,  \* sequence_
    nodes,     \* number of list nodes allocated since the books were cleared
    pc,        \* where the call in progress is
    cmd,       \* the command add() is working on
    remaining, \* the local variable of add()
    trades,    \* the trades of the add() in progress
    ledger,    \* history: what the event stream says of each order
    saved,     \* the last document snapshot() returned
    todo       \* the orders load_snapshot() has still to restore

bookVars == <<levels, queue, index, nodes>>
vars == <<levels, queue, index, sequence, nodes, pc, cmd, remaining, trades,
          ledger, saved, todo>>

-----------------------------------------------------------------------------
Opposite(side) == IF side = "Buy" THEN "Sell" ELSE "Buy"

\* Price p is at least as good as q for an order resting on this side.
AtLeast(side, p, q) == IF side = "Buy" THEN p >= q ELSE p <= q

\* The key the ordered map keeps at its best end.
IsBest(s, d, p) ==
    /\ p \in levels[s][d]
    /\ \A q \in levels[s][d] : AtLeast(d, p, q)

AcceptsBeyond(c, p) == c.tif = "MARKET" \/ (c.price # p /\ AtLeast(Opposite(c.side), p, c.price))

\* The limit of command c accepts an execution at price p.
Accepts(c, p) == c.tif = "MARKET" \/ AtLeast(Opposite(c.side), p, c.price)

\* The orders resting at the limit or better.  No two are the same record: their
\* nodes differ.
Supply(s, d, limit) ==
    UNION {ToSet(queue[s][d][p]) : p \in {q \in levels[s][d] : AtLeast(d, q, limit)}}

AvailableVolumeAnyPrice(s, d, limit) ==
    SumFunction([o \in UNION {ToSet(queue[s][d][p]) : p \in levels[s][d]} |-> o.remaining])

\* The volume a fill-or-kill order may count on.
AvailableVolume(s, d, limit) == SumFunction([o \in Supply(s, d, limit) |-> o.remaining])

\* The list under one key becomes q; an emptied list takes its key with it.
SetLevelKeepingKey(s, d, p, q) ==
    /\ queue' = [queue EXCEPT ![s][d][p] = q]
    /\ levels' = levels

SetLevel(s, d, p, q) ==
    /\ queue' = [queue EXCEPT ![s][d][p] = q]
    /\ levels' = [levels EXCEPT ![s][d] = IF q = <<>> THEN @ \ {p} ELSE @]

\* A new order joins a list at the back.
EnqueueFront(q, o) == <<o>> \o q
Enqueue(q, o) == Append(q, o)

\* The front order of q keeps this much after a fill, and is popped at zero.
AfterFillNoPop(q, left) == [q EXCEPT ![1].remaining = left]
AfterFill(q, left) == IF left = 0 THEN Tail(q) ELSE [q EXCEPT ![1].remaining = left]

\* index_.erase(id), and what a fill does to the index.
UnindexForgotten(id) == index
Unindex(id) == [index EXCEPT ![id] = NULL]
IndexAfterAnyFill(id, left) == Unindex(id)
IndexAfterFill(id, left) == IF left = 0 THEN Unindex(id) ELSE index

\* rest_order: append to the list (creating its level) and index the new node.
\* entered_sequence, which nothing reads, is left out.
RestOrder(c, quantity) ==
    /\ levels' = [levels EXCEPT ![c.symbol][c.side] = @ \cup {c.price}]
    /\ queue' = [queue EXCEPT ![c.symbol][c.side][c.price] =
           Enqueue(@, [node |-> nodes, symbol |-> c.symbol, order_id |-> c.order_id,
                       participant |-> c.participant, side |-> c.side, price |-> c.price,
                       remaining |-> quantity])]
    /\ index' = [index EXCEPT ![c.order_id] =
           [symbol |-> c.symbol, side |-> c.side, price |-> c.price, iter |-> nodes]]
    /\ nodes' = nodes + 1

\* Price levels of the two sides of a book that touch or overlap.
Crossed(lv, s) == \E b \in lv[s]["Buy"], a \in lv[s]["Sell"] : b >= a

-----------------------------------------------------------------------------
(***************************************************************************)
(* History.  What the events since an order was last ACCEPTED say of it:   *)
(* the quantity neither EXECUTED nor CANCELLED yet, and the sequence number *)
(* of its RESTED event.                                                    *)
(***************************************************************************)
NoRecord == [open |-> 0, arrived |-> 0]
Closed(led, id, quantity) == [led EXCEPT ![id].open = @ - quantity]

RestingOn(s, d) == UNION {ToSet(queue[s][d][p]) : p \in Prices}
RestingId(id) == \E s \in Symbols, d \in Sides : \E o \in RestingOn(s, d) : o.order_id = id

-----------------------------------------------------------------------------
EmptyLevels == [s \in Symbols |-> [d \in Sides |-> {}]]
EmptyQueues == [s \in Symbols |-> [d \in Sides |-> [p \in Prices |-> <<>>]]]

Init ==
    /\ levels = EmptyLevels
    /\ queue = EmptyQueues
    /\ index = [id \in Ids |-> NULL]
    /\ sequence = 0
    /\ nodes = 0
    /\ pc = "idle"
    /\ cmd = NULL
    /\ remaining = 0
    /\ trades = <<>>
    /\ ledger = [id \in Ids |-> NoRecord]
    /\ saved = NULL
    /\ todo = {}

\* A caller starts a public operation.
Call(operation) ==
    /\ pc = "idle"
    /\ operation \in Calls
    /\ sequence < MaxSequence

-----------------------------------------------------------------------------
(***************************************************************************)
(* add()                                                                   *)
(***************************************************************************)
Add(c) ==
    /\ Call("add")
    /\ UniqueIds => ~RestingId(c.order_id)
    /\ cmd' = c
    /\ pc' = "add"
    /\ UNCHANGED <<bookVars, sequence, remaining, trades, ledger, saved, todo>>

\* add() returns and its local variables are gone.
Return ==
    /\ pc' = "idle"
    /\ cmd' = NULL
    /\ remaining' = 0
    /\ trades' = <<>>

FokUnfillable ==
    /\ cmd.tif = "FOK"
    /\ AvailableVolume(cmd.symbol, Opposite(cmd.side), cmd.price) < cmd.quantity

AddRejectFok ==
    /\ pc = "add"
    /\ FokUnfillable
    /\ sequence' = sequence + 1
    /\ Return
    /\ UNCHANGED <<bookVars, ledger, saved, todo>>

AddAccept ==
    /\ pc = "add"
    /\ ~FokUnfillable
    /\ sequence' = sequence + 1
    /\ remaining' = cmd.quantity
    /\ ledger' = [ledger EXCEPT ![cmd.order_id] = [NoRecord EXCEPT !.open = cmd.quantity]]
    /\ pc' = "match"
    /\ UNCHANGED <<bookVars, cmd, trades, saved, todo>>

\* The matching loop has work to do against the front order of level p.
Matching(p) ==
    /\ pc = "match"
    /\ remaining > 0
    /\ IsBest(cmd.symbol, Opposite(cmd.side), p)
    /\ Accepts(cmd, p)

Level(p) == queue[cmd.symbol][Opposite(cmd.side)][p]

SelfTrade(passive) ==
    /\ passive.participant = cmd.participant
    /\ cmd.stp # "None"

\* Whom self-trade prevention cancels, and what the aggressor goes on with.
DropPassive == cmd.stp \in {"CancelPassive", "CancelBoth"}
DropAggressor == cmd.stp \in {"CancelAggressor", "CancelBoth"}
KeptDespiteSelfTrade == remaining
KeptAfterSelfTrade == IF DropAggressor THEN 0 ELSE remaining

\* One iteration that finds the aggressor's own order at the front.
MatchSelf(p) ==
    LET passive == Head(Level(p))
        reported == IF DropPassive THEN Closed(ledger, passive.order_id, passive.remaining)
                                   ELSE ledger
    IN  /\ Matching(p)
        /\ SelfTrade(passive)
        /\ IF DropPassive
             THEN /\ SetLevel(cmd.symbol, Opposite(cmd.side), p, Tail(Level(p)))
                  /\ index' = Unindex(passive.order_id)
             ELSE UNCHANGED <<levels, queue, index>>
        /\ sequence' = sequence + (IF cmd.stp = "CancelBoth" THEN 2 ELSE 1)
        /\ ledger' = IF DropAggressor THEN Closed(reported, cmd.order_id, remaining)
                                      ELSE reported
        /\ remaining' = KeptAfterSelfTrade
        /\ UNCHANGED <<nodes, pc, cmd, trades, saved, todo>>

BuildTrade(passive, quantity) ==
    LET buy == cmd.side = "Buy" IN
    [symbol    |-> cmd.symbol,
     price     |-> passive.price,
     quantity  |-> quantity,
     buyer     |-> IF buy THEN cmd.order_id ELSE passive.order_id,
     seller    |-> IF buy THEN passive.order_id ELSE cmd.order_id,
     passive   |-> passive.order_id,
     aggressor |-> cmd.order_id]

\* One iteration that executes against the front order.  A fill that is not
\* positive or a symbol mismatch throws.
MatchFill(p) ==
    LET passive == Head(Level(p))
        fill == IF remaining < passive.remaining THEN remaining ELSE passive.remaining
        left == passive.remaining - fill
    IN  /\ Matching(p)
        /\ ~SelfTrade(passive)
        /\ remaining' = remaining - fill
        /\ SetLevel(cmd.symbol, Opposite(cmd.side), p, AfterFill(Level(p), left))
        /\ index' = IndexAfterFill(passive.order_id, left)
        /\ trades' = Append(trades, BuildTrade(passive, fill))
        /\ sequence' = sequence + 1
        /\ ledger' = Closed(Closed(ledger, passive.order_id, fill), cmd.order_id, fill)
        /\ pc' = IF fill > 0 /\ passive.symbol = cmd.symbol THEN "match" ELSE "error"
        /\ UNCHANGED <<nodes, cmd, saved, todo>>

MatchExitNoLimit ==
    /\ pc = "match"
    /\ \/ remaining <= 0
       \/ levels[cmd.symbol][Opposite(cmd.side)] = {}
    /\ pc' = "finish"
    /\ UNCHANGED <<bookVars, sequence, cmd, remaining, trades, ledger, saved, todo>>

\* The loop condition fails or the best price is beyond the limit.
MatchExit ==
    /\ pc = "match"
    /\ \/ remaining <= 0
       \/ levels[cmd.symbol][Opposite(cmd.side)] = {}
       \/ \E p \in Prices : IsBest(cmd.symbol, Opposite(cmd.side), p) /\ ~Accepts(cmd, p)
    /\ pc' = "finish"
    /\ UNCHANGED <<bookVars, sequence, cmd, remaining, trades, ledger, saved, todo>>

\* The unfilled part of a GTC order rests; check_not_crossed throws.
AddRest ==
    /\ pc = "finish"
    /\ remaining > 0
    /\ cmd.tif = "GTC"
    /\ RestOrder(cmd, remaining)
    /\ sequence' = sequence + 1
    /\ ledger' = [ledger EXCEPT ![cmd.order_id].arrived = sequence']
    /\ IF Crossed(levels', cmd.symbol)
         THEN pc' = "error" /\ UNCHANGED <<cmd, remaining, trades>>
         ELSE Return
    /\ UNCHANGED <<saved, todo>>

AddCancelRemainder ==
    /\ pc = "finish"
    /\ remaining > 0
    /\ cmd.tif \in {"IOC", "MARKET"}
    /\ sequence' = sequence + 1
    /\ ledger' = Closed(ledger, cmd.order_id, remaining)
    /\ Return
    /\ UNCHANGED <<bookVars, saved, todo>>

\* Nothing left to do: filled, cancelled by self-trade prevention, or FOK.
AddReturn ==
    /\ pc = "finish"
    /\ remaining <= 0 \/ cmd.tif = "FOK"
    /\ Return
    /\ UNCHANGED <<bookVars, sequence, ledger, saved, todo>>

-----------------------------------------------------------------------------
(***************************************************************************)
(* cancel(), replace(), reject()                                           *)
(***************************************************************************)

CancelFront(id) ==
    LET loc == index[id]
        q == queue[loc.symbol][loc.side][loc.price]
    IN  /\ loc # NULL
        /\ SetLevel(loc.symbol, loc.side, loc.price, Tail(q))
        /\ ledger' = Closed(ledger, id, Head(q).remaining)
        /\ index' = Unindex(id)
        /\ sequence' = sequence + 1

\* The index knows the id: unlink the node its location points to.  The symbol
\* of the command plays no part in the lookup.
CancelResting(id) ==
    LET loc == index[id]
        q == queue[loc.symbol][loc.side][loc.price]
    IN  /\ loc # NULL
        /\ \E i \in 1..Len(q) :
              /\ q[i].node = loc.iter
              /\ SetLevel(loc.symbol, loc.side, loc.price, RemoveAt(q, i))
              /\ ledger' = Closed(ledger, id, q[i].remaining)
        /\ index' = Unindex(id)
        /\ sequence' = sequence + 1

Cancel(id) ==
    /\ Call("cancel")
    /\ CancelResting(id)
    /\ UNCHANGED <<nodes, pc, cmd, remaining, trades, saved, todo>>

RejectUnknownInserting(id) ==
    /\ Call("cancel") \/ Call("replace")
    /\ index[id] = NULL
    /\ index' = [index EXCEPT ![id] = [symbol |-> "", side |-> "Buy", price |-> 0, iter |-> 0]]
    /\ sequence' = sequence + 1
    /\ UNCHANGED <<levels, queue, nodes, pc, cmd, remaining, trades, ledger, saved, todo>>

\* cancel() or replace() of an id the index does not know.
RejectUnknown(id) ==
    /\ Call("cancel") \/ Call("replace")
    /\ index[id] = NULL
    /\ sequence' = sequence + 1
    /\ UNCHANGED <<bookVars, pc, cmd, remaining, trades, ledger, saved, todo>>

\* replace(): cancel, then add() under the new id for the same participant and
\* side, in the book the command names and without self-trade prevention.
Replace(id, newId, s, p, quantity, tif) ==
    LET loc == index[id]
        q == queue[loc.symbol][loc.side][loc.price]
    IN  /\ Call("replace")
        /\ UniqueIds => newId = id \/ ~RestingId(newId)
        /\ CancelResting(id)
        /\ \E i \in 1..Len(q) :
              /\ q[i].node = loc.iter
              /\ cmd' = [symbol |-> s, order_id |-> newId, participant |-> q[i].participant,
                         side |-> loc.side, price |-> p, quantity |-> quantity,
                         tif |-> tif, stp |-> "None"]
        /\ pc' = "add"
        /\ UNCHANGED <<nodes, remaining, trades, saved, todo>>

\* reject(): the owner of the engine reports a rejection of its own.
Reject ==
    /\ Call("reject")
    /\ sequence' = sequence + 1
    /\ UNCHANGED <<bookVars, pc, cmd, remaining, trades, ledger, saved, todo>>

\* best_bid() and best_ask() leave the engine as it is.
Query == pc = "idle" /\ UNCHANGED vars

-----------------------------------------------------------------------------
(***************************************************************************)
(* snapshot() and load_snapshot()                                          *)
(***************************************************************************)

\* serialize_side: what the document keeps of a list.
Serialize(q) ==
    [i \in 1..Len(q) |-> [order_id |-> q[i].order_id, participant |-> q[i].participant,
                          remaining |-> q[i].remaining]]

SerializedQueues ==
    [s \in Symbols |-> [d \in Sides |-> [p \in Prices |-> Serialize(queue[s][d][p])]]]

Snapshot ==
    /\ pc = "idle"
    /\ "snapshot" \in Calls
    /\ saved' = [sequence |-> sequence, levels |-> levels, queue |-> SerializedQueues,
                 ledger |-> ledger]
    /\ UNCHANGED <<bookVars, sequence, pc, cmd, remaining, trades, ledger, todo>>

\* books_.clear() and index_.clear().
Clear ==
    /\ levels' = EmptyLevels
    /\ queue' = EmptyQueues
    /\ index' = [id \in Ids |-> NULL]
    /\ nodes' = 0

\* The orders of the document: symbol, side, price, place in the level.
Document == UNION {{<<s, d, p, i>> : i \in 1..Len(saved.queue[s][d][p])} :
                   s \in Symbols, d \in Sides, p \in Prices}

LoadSnapshot ==
    /\ pc = "idle"
    /\ "load" \in Calls
    /\ saved # NULL
    /\ Clear
    /\ sequence' = saved.sequence
    /\ ledger' = saved.ledger
    /\ todo' = Document
    /\ pc' = "load"
    /\ UNCHANGED <<cmd, remaining, trades, saved>>

\* A document without "books": the books are gone when load_snapshot() throws,
\* and the sequence is the document's, or 0 if it has none.
LoadInvalid ==
    /\ Call("load")
    /\ Clear
    /\ sequence' \in 0..MaxSequence
    /\ ledger' = [id \in Ids |-> NoRecord]
    /\ UNCHANGED <<pc, cmd, remaining, trades, saved, todo>>

DocumentOrderReversed(t, u) ==
    \/ t[2] = "Buy" /\ u[2] = "Sell"
    \/ t[2] = u[2] /\ t[3] # u[3] /\ AtLeast(t[2], t[3], u[3])
    \/ t[2] = u[2] /\ t[3] = u[3] /\ t[4] >= u[4]

\* Within a book the document lists bids before asks, each side best price
\* first, each level front first.  Books come in no particular order, but one
\* is finished before the next is begun.
DocumentOrder(t, u) ==
    \/ t[2] = "Buy" /\ u[2] = "Sell"
    \/ t[2] = u[2] /\ t[3] # u[3] /\ AtLeast(t[2], t[3], u[3])
    \/ t[2] = u[2] /\ t[3] = u[3] /\ t[4] <= u[4]

RestoreOrder(t) ==
    LET o == saved.queue[t[1]][t[2]][t[3]][t[4]] IN
    /\ pc = "load"
    /\ \A u \in todo : u[1] = t[1] => DocumentOrder(t, u)
    /\ \A u, v \in Document : u[1] # t[1] /\ v[1] = u[1] => (u \in todo <=> v \in todo)
    /\ RestOrder([symbol |-> t[1], side |-> t[2], price |-> t[3],
                  order_id |-> o.order_id, participant |-> o.participant],
                 o.remaining)
    /\ todo' = todo \ {t}
    /\ UNCHANGED <<sequence, pc, cmd, remaining, trades, ledger, saved>>

LoadReturn ==
    /\ pc = "load"
    /\ todo = {}
    /\ pc' = "idle"
    /\ UNCHANGED <<bookVars, sequence, cmd, remaining, trades, ledger, saved, todo>>

-----------------------------------------------------------------------------
\* The steps of a call in progress.
Step ==
    \/ AddRejectFok
    \/ AddAccept
    \/ \E p \in Prices : MatchSelf(p)
    \/ \E p \in Prices : MatchFill(p)
    \/ MatchExit
    \/ AddRest
    \/ AddCancelRemainder
    \/ AddReturn
    \/ \E t \in todo : RestoreOrder(t)
    \/ LoadReturn

\* The calls the callers of the engine make.
Request ==
    \/ \E c \in Commands : Add(c)
    \/ \E id \in Ids : Cancel(id)
    \/ \E id \in Ids : RejectUnknown(id)
    \/ \E id, newId \in Ids, s \in Symbols, p \in Prices, quantity \in Quantities :
          \E style \in Styles : Replace(id, newId, s, p, quantity, style[1])
    \/ Reject
    \/ Query
    \/ Snapshot
    \/ LoadSnapshot
    \/ LoadInvalid

Next == Step \/ Request

Spec == Init /\ [][Next]_vars

\* The engine's thread keeps running while a call is in progress.
FairSpec == Spec /\ WF_vars(Step)

-----------------------------------------------------------------------------
(***************************************************************************)
(* Properties                                                              *)
(***************************************************************************)
TradeReport ==
    [symbol: Symbols, price: Prices, quantity: Int, buyer: Ids, seller: Ids,
     passive: Ids, aggressor: Ids]

\* Every variable has its type, and add() has a command exactly while it runs.
TypeOK ==
    /\ levels \in [Symbols -> [Sides -> SUBSET Prices]]
    /\ queue \in [Symbols -> [Sides -> [Prices -> Seq(RestingOrder)]]]
    /\ index \in [Ids -> Location \cup {NULL}]
    /\ sequence \in Nat
    /\ nodes \in Nat
    /\ pc \in {"idle", "add", "match", "finish", "load", "error"}
    /\ IF pc \in {"add", "match", "finish", "error"} THEN cmd \in AddOrder ELSE cmd = NULL
    /\ remaining \in Int
    /\ trades \in Seq(TradeReport)
    /\ ledger \in Records
    /\ saved \in Documents \cup {NULL}
    /\ todo \subseteq Symbols \X Sides \X Prices \X (Nat \ {0})

\* "The resting book never crosses": in every book every bid is below every ask,
\* in the middle of add() and of load_snapshot() too.
NeverCrossed == \A s \in Symbols : ~Crossed(levels, s)

\* None of the exceptions that add() guards its own arithmetic with is thrown:
\* not a non-positive fill, not a symbol mismatch, not a crossed book.
NoEngineError == pc # "error"

\* An index_ entry never dangles: its iterator is a live node of the list it
\* names, under a key of the map, and that node holds the order asked for.
IndexSound ==
    \A id \in Ids : index[id] # NULL =>
        LET loc == index[id] IN
        /\ loc.price \in levels[loc.symbol][loc.side]
        /\ \E o \in ToSet(queue[loc.symbol][loc.side][loc.price]) :
              o.node = loc.iter /\ o.order_id = id

\* Every resting order can be found for cancel() and replace().
IndexComplete ==
    \A s \in Symbols, d \in Sides : \A o \in RestingOn(s, d) :
        /\ index[o.order_id] # NULL
        /\ index[o.order_id].iter = o.node

\* A price is a key of the map exactly while orders rest there, every order is
\* filed under its own symbol, side and price, and none is left with nothing.
LevelsExact ==
    \A s \in Symbols, d \in Sides, p \in Prices :
        /\ p \in levels[s][d] <=> queue[s][d][p] # <<>>
        /\ \A o \in ToSet(queue[s][d][p]) :
              o.symbol = s /\ o.side = d /\ o.price = p /\ o.remaining > 0

\* Order o of a side goes before order u: a better price, or the same price and
\* an earlier RESTED event, whatever happened to the books since.
Before(o, u) ==
    IF o.price = u.price THEN ledger[o.order_id].arrived < ledger[u.order_id].arrived
                         ELSE AtLeast(o.side, o.price, u.price)

\* Price-time priority with passive-price execution: a trade is made with an
\* order that goes before all others of its side, at that order's price and
\* within the limit of the aggressor.
PriceTimeStep ==
    Len(trades') > Len(trades) =>
        LET t == Last(trades')
            side == RestingOn(cmd.symbol, Opposite(cmd.side))
        IN  \E o \in side :
                /\ o.order_id = t.passive
                /\ o.price = t.price
                /\ Accepts(cmd, t.price)
                /\ \A u \in side \ {o} : Before(o, u)

PriceTime == [][PriceTimeStep]_vars

\* Volume balances order by order: what the events leave open is what rests, or
\* what the add() in progress still holds, and nothing once the order is gone.
VolumeConserved ==
    \A id \in Ids :
        LET held == {o \in UNION {RestingOn(s, d) : s \in Symbols, d \in Sides} :
                        o.order_id = id}
        IN  pc \notin {"load", "error"} =>
              IF pc \in {"match", "finish"} /\ cmd.order_id = id
                THEN held = {} /\ ledger[id].open = remaining
                ELSE \/ held = {} /\ ledger[id].open = 0
                     \/ \E o \in held : held = {o} /\ ledger[id].open = o.remaining

\* A fill-or-kill order that is accepted is executed whole by the time add() is
\* done with it.
FokAllOrNothing ==
    pc = "finish" /\ cmd.tif = "FOK" =>
        SumFunction([i \in DOMAIN trades |-> trades[i].quantity]) = cmd.quantity

\* load_snapshot() of a document of snapshot() ends with the books the document
\* was taken from, and their sequence number.
ReloadExact ==
    pc = "load" /\ todo = {} =>
        /\ levels = saved.levels
        /\ SerializedQueues = saved.queue
        /\ sequence = saved.sequence

\* Every call returns: the matching loop and the restoring loop end.
CallReturns == pc # "idle" ~> pc = "idle"
=============================================================================
