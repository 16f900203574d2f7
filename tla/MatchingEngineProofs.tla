------------------------ MODULE MatchingEngineProofs ------------------------
(***************************************************************************)
(* What MatchingEngine guarantees for every choice of its constants: the   *)
(* books are well formed and never cross, no index entry dangles, none of  *)
(* the engine's own exceptions is thrown, and a fill-or-kill order that is *)
(* accepted is executed whole.                                             *)
(***************************************************************************)
EXTENDS MatchingEngine, Lemmas

-----------------------------------------------------------------------------
(***************************************************************************)
(* The inductive invariant.                                                *)
(***************************************************************************)

\* An iterator names one node: no list holds two nodes with the same number,
\* and the next number is still free.
NodesUnique ==
    \A s \in Symbols, d \in Sides, p \in Prices :
        LET q == queue[s][d][p] IN
        /\ \A i \in 1..Len(q) : q[i].node < nodes
        /\ \A i, j \in 1..Len(q) : q[i].node = q[j].node => i = j

\* When the matching loop ends with quantity left, no resting order is within
\* the limit: this is why the order may rest.
ScanDone ==
    pc = "finish" /\ remaining > 0 /\ cmd.tif # "MARKET" =>
        \A p \in levels[cmd.symbol][Opposite(cmd.side)] : ~Accepts(cmd, p)

\* A document describes uncrossed books without empty orders.
SavedInv ==
    saved # NULL =>
        \A s \in Symbols :
            /\ ~Crossed(saved.levels, s)
            /\ \A d \in Sides, p \in Prices : \A i \in 1..Len(saved.queue[s][d][p]) :
                  /\ p \in saved.levels[s][d]
                  /\ saved.queue[s][d][p][i].remaining > 0

\* Loading stays within the document.
LoadInv ==
    pc = "load" =>
        /\ saved # NULL
        /\ todo \subseteq Document
        /\ \A s \in Symbols, d \in Sides : levels[s][d] \subseteq saved.levels[s][d]

\* The lists of orders a level may hold.
Lists == Seq(RestingOrder)

\* The part of TypeOK about the books.
BookType ==
    /\ levels \in [Symbols -> [Sides -> SUBSET Prices]]
    /\ queue \in [Symbols -> [Sides -> [Prices -> Lists]]]
    /\ index \in [Ids -> Location \cup {NULL}]
    /\ nodes \in Nat

\* The books and the index are well formed.
BookInv == LevelsExact /\ NodesUnique /\ IndexSound

\* The inductive invariant of the engine.
Inv == /\ TypeOK
       /\ BookInv
       /\ NeverCrossed
       /\ NoEngineError
       /\ ScanDone
       /\ SavedInv
       /\ LoadInv

-----------------------------------------------------------------------------
(***************************************************************************)
(* The list operations.                                                    *)
(***************************************************************************)

\* pop_front(): every other order moves up one place.
LEMMA TailList ==
    ASSUME NEW S, NEW q \in Seq(S), q # <<>>
    PROVE  /\ Tail(q) \in Seq(S)
           /\ Len(q) \in Nat \ {0}
           /\ Len(Tail(q)) = Len(q) - 1
           /\ Head(q) = q[1]
           /\ \A j \in 1..Len(Tail(q)) : Tail(q)[j] = q[j + 1]
  OBVIOUS

\* The members of a list are resting orders, with numbered nodes.
LEMMA ListNodes ==
    ASSUME NEW q \in Lists
    PROVE  \A i \in 1..Len(q) : q[i] \in RestingOrder /\ q[i].node \in Nat
<1>1. \A i \in 1..Len(q) : q[i] \in RestingOrder
  BY DEF Lists
<1> QED
  BY <1>1 DEF RestingOrder

\* erase(iter): the orders behind the erased one move up one place.
LEMMA RemoveAtList ==
    ASSUME NEW S, NEW q \in Seq(S), NEW i \in 1..Len(q)
    PROVE  /\ RemoveAt(q, i) \in Seq(S)
           /\ Len(RemoveAt(q, i)) = Len(q) - 1
           /\ \A j \in 1..Len(RemoveAt(q, i)) :
                 RemoveAt(q, i)[j] = IF j < i THEN q[j] ELSE q[j + 1]
<1> DEFINE front == SubSeq(q, 1, i - 1)
           back == SubSeq(q, i + 1, Len(q))
<1>1. /\ front \in Seq(S)
      /\ Len(front) = i - 1
      /\ \A j \in 1..(i - 1) : front[j] = q[j]
  OBVIOUS
<1>2. /\ back \in Seq(S)
      /\ Len(back) = Len(q) - i
      /\ \A j \in 1..(Len(q) - i) : back[j] = q[i + j]
  OBVIOUS
<1>3. RemoveAt(q, i) = front \o back
  BY DEF RemoveAt
<1> HIDE DEF front, back
<1>4. /\ front \o back \in Seq(S)
      /\ Len(front \o back) = Len(front) + Len(back)
      /\ \A j \in 1..(Len(front) + Len(back)) :
            (front \o back)[j] = IF j <= Len(front) THEN front[j] ELSE back[j - Len(front)]
  BY <1>1, <1>2, ConcatProperties
<1>5. Len(front) + Len(back) = Len(q) - 1
  BY <1>1, <1>2
<1>6. ASSUME NEW j \in 1..(Len(q) - 1)
      PROVE  (front \o back)[j] = IF j < i THEN q[j] ELSE q[j + 1]
  <2>1. CASE j < i
    BY <1>1, <1>4, <1>5, <2>1
  <2>2. CASE ~(j < i)
    <3>1. j - Len(front) \in 1..(Len(q) - i) /\ j + 1 = i + (j - Len(front))
      BY <1>1, <2>2
    <3>2. (front \o back)[j] = back[j - Len(front)]
      BY <1>1, <1>4, <1>5, <2>2
    <3> QED
      BY <1>2, <2>2, <3>1, <3>2
  <2> QED
    BY <2>1, <2>2
<1> QED
  BY <1>3, <1>4, <1>5, <1>6

-----------------------------------------------------------------------------
(***************************************************************************)
(* BookInv, level by level and entry by entry.                             *)
(***************************************************************************)
\* List q of price p has a key and holds orders of its own.
LevelOK(s, d, p, keys, q) ==
    /\ p \in keys <=> q # <<>>
    /\ \A o \in ToSet(q) : o.symbol = s /\ o.side = d /\ o.price = p /\ o.remaining > 0

\* The nodes of list q are distinct and older than n.
NodesOK(q, n) ==
    /\ \A i \in 1..Len(q) : q[i].node < n
    /\ \A i, j \in 1..Len(q) : q[i].node = q[j].node => i = j

\* Entry loc of id leads to an order of list q.
EntryOK(id, loc, keys, q) ==
    /\ loc.price \in keys
    /\ \E o \in ToSet(q) : o.node = loc.iter /\ o.order_id = id

\* The invariant of the books, list by list and entry by entry.
LEMMA BookInvParts ==
    BookInv <=>
        /\ \A s \in Symbols, d \in Sides, p \in Prices :
              /\ LevelOK(s, d, p, levels[s][d], queue[s][d][p])
              /\ NodesOK(queue[s][d][p], nodes)
        /\ \A id \in Ids : index[id] # NULL =>
              EntryOK(id, index[id], levels[index[id].symbol][index[id].side],
                      queue[index[id].symbol][index[id].side][index[id].price])
  BY DEF BookInv, LevelsExact, NodesUnique, IndexSound, LevelOK, NodesOK, EntryOK

\* What is left of a list after some of its orders were filled or removed.
Remnant(s, d, p, q, old) ==
    /\ \A j \in 1..Len(q) :
          /\ q[j].symbol = s /\ q[j].side = d /\ q[j].price = p /\ q[j].remaining > 0
          /\ \E i \in 1..Len(old) : q[j].node = old[i].node
    /\ \A i, j \in 1..Len(q) : q[i].node = q[j].node => i = j

\* The index forgot whoever is no longer in the list q at s, d, p.
IndexFollows(s, d, p, q) ==
    \A k \in Ids : index'[k] # NULL =>
        /\ index'[k] = index[k]
        /\ index[k].symbol = s /\ index[k].side = d /\ index[k].price = p =>
              \E j \in 1..Len(q) : q[j].node = index[k].iter /\ q[j].order_id = k

-----------------------------------------------------------------------------
(***************************************************************************)
(* The two ways the books change between two clear()s.                     *)
(***************************************************************************)

\* Replacing one list by what is left of it keeps the books well formed, if the
\* index forgets whoever is no longer there.
LEMMA SetLevelBook ==
    ASSUME BookType, BookInv,
           NEW s \in Symbols, NEW d \in Sides, NEW p \in Prices,
           NEW q \in Lists,
           SetLevel(s, d, p, q),
           p \in levels[s][d],
           nodes' = nodes,
           index' \in [Ids -> Location \cup {NULL}],
           Remnant(s, d, p, q, queue[s][d][p]),
           IndexFollows(s, d, p, q)
    PROVE  /\ BookType'
           /\ BookInv'
           /\ \A t \in Symbols, e \in Sides : levels'[t][e] \subseteq levels[t][e]
<1> DEFINE keys == IF q = <<>> THEN levels[s][d] \ {p} ELSE levels[s][d]
           at(t, e, r) == t = s /\ e = d /\ r = p
<1>0. keys \in SUBSET Prices
  BY DEF BookType
<1>1. /\ queue' \in [Symbols -> [Sides -> [Prices -> Lists]]]
      /\ \A t \in Symbols, e \in Sides, r \in Prices :
            queue'[t][e][r] = IF at(t, e, r) THEN q ELSE queue[t][e][r]
  BY DEF SetLevel, BookType
<1>2. /\ levels' \in [Symbols -> [Sides -> SUBSET Prices]]
      /\ \A t \in Symbols, e \in Sides :
            levels'[t][e] = IF t = s /\ e = d THEN keys ELSE levels[t][e]
  <2>1. levels' = [levels EXCEPT ![s][d] = keys]
    BY DEF SetLevel, BookType
  <2> HIDE DEF keys
  <2> QED
    BY <1>0, <2>1 DEF BookType
<1>3. BookType'
  BY <1>1, <1>2 DEF BookType
<1>4. \A t \in Symbols, e \in Sides, r \in Prices :
         /\ LevelOK(t, e, r, levels[t][e], queue[t][e][r])
         /\ NodesOK(queue[t][e][r], nodes)
  BY BookInvParts
<1>5. LevelOK(s, d, p, keys, q)
  <2>1. p \in keys <=> q # <<>>
    OBVIOUS
  <2>2. \A o \in ToSet(q) : o.symbol = s /\ o.side = d /\ o.price = p /\ o.remaining > 0
    BY DEF ToSet, Remnant
  <2> QED
    BY <2>1, <2>2 DEF LevelOK
<1>6. NodesOK(q, nodes')
  BY <1>4 DEF NodesOK, Remnant
<1>7. ASSUME NEW t \in Symbols, NEW e \in Sides, NEW r \in Prices
      PROVE  /\ LevelOK(t, e, r, levels'[t][e], queue'[t][e][r])
             /\ NodesOK(queue'[t][e][r], nodes')
  <2>1. CASE at(t, e, r)
    BY <1>1, <1>2, <1>5, <1>6, <2>1
  <2>2. CASE ~at(t, e, r)
    <3>1. queue'[t][e][r] = queue[t][e][r]
      BY <1>1, <2>2
    <3>2. r \in levels'[t][e] <=> r \in levels[t][e]
      BY <1>2, <2>2
    <3> QED
      BY <1>4, <3>1, <3>2 DEF LevelOK
  <2> QED
    BY <2>1, <2>2
<1>8. ASSUME NEW k \in Ids, index'[k] # NULL
      PROVE  EntryOK(k, index'[k], levels'[index'[k].symbol][index'[k].side],
                     queue'[index'[k].symbol][index'[k].side][index'[k].price])
  <2> DEFINE loc == index[k]
  <2>1. /\ index'[k] = loc
        /\ loc.symbol = s /\ loc.side = d /\ loc.price = p =>
              \E j \in 1..Len(q) : q[j].node = loc.iter /\ q[j].order_id = k
    BY <1>8 DEF IndexFollows
  <2>2. loc \in Location
    BY <1>8, <2>1 DEF BookType
  <2>3. loc.symbol \in Symbols /\ loc.side \in Sides /\ loc.price \in Prices
    BY <2>2 DEF Location
  <2>4. EntryOK(k, loc, levels[loc.symbol][loc.side], queue[loc.symbol][loc.side][loc.price])
    BY <1>8, <2>1, BookInvParts
  <2> HIDE DEF loc
  <2>5. CASE at(loc.symbol, loc.side, loc.price)
    <3>1. PICK j \in 1..Len(q) : q[j].node = loc.iter /\ q[j].order_id = k
      BY <2>1, <2>5
    <3>2. q[j] \in ToSet(q) /\ q # <<>>
      BY DEF ToSet
    <3>3. EntryOK(k, loc, keys, q)
      BY <2>5, <3>1, <3>2 DEF EntryOK
    <3>4. levels'[s][d] = keys /\ queue'[s][d][p] = q
      BY <1>1, <1>2
    <3> QED
      BY <2>1, <2>5, <3>3, <3>4
  <2>6. CASE ~at(loc.symbol, loc.side, loc.price)
    <3>1. queue'[loc.symbol][loc.side][loc.price] = queue[loc.symbol][loc.side][loc.price]
      BY <1>1, <2>3, <2>6
    <3>2. loc.price \in levels[loc.symbol][loc.side] => loc.price \in levels'[loc.symbol][loc.side]
      BY <1>2, <2>3, <2>6
    <3> QED
      BY <2>1, <2>4, <3>1, <3>2 DEF EntryOK
  <2> QED
    BY <2>5, <2>6
<1>9. BookInv'
  BY <1>7, <1>8
  DEF BookInv, LevelsExact, NodesUnique, IndexSound, LevelOK, NodesOK, EntryOK
<1>10. \A t \in Symbols, e \in Sides : levels'[t][e] \subseteq levels[t][e]
  BY <1>2
<1> QED
  BY <1>3, <1>9, <1>10

\* rest_order() keeps the books well formed, whether or not the id is in use.
LEMMA RestOrderBook ==
    ASSUME BookType, BookInv,
           NEW c, NEW quantity \in Int, quantity > 0,
           c.symbol \in Symbols, c.order_id \in Ids, c.participant \in Participants,
           c.side \in Sides, c.price \in Prices,
           RestOrder(c, quantity)
    PROVE  /\ BookType'
           /\ BookInv'
           /\ \A t \in Symbols, e \in Sides :
                 levels'[t][e] = IF t = c.symbol /\ e = c.side THEN levels[t][e] \cup {c.price}
                                                               ELSE levels[t][e]
<1> DEFINE o == [node |-> nodes, symbol |-> c.symbol, order_id |-> c.order_id,
                 participant |-> c.participant, side |-> c.side, price |-> c.price,
                 remaining |-> quantity]
           l == [symbol |-> c.symbol, side |-> c.side, price |-> c.price, iter |-> nodes]
           old == queue[c.symbol][c.side][c.price]
           q == Append(old, o)
           keys == levels[c.symbol][c.side] \cup {c.price}
           at(t, e, r) == t = c.symbol /\ e = c.side /\ r = c.price
<1>1. /\ queue' = [queue EXCEPT ![c.symbol][c.side][c.price] = q]
      /\ levels' = [levels EXCEPT ![c.symbol][c.side] = keys]
      /\ index' = [index EXCEPT ![c.order_id] = l]
      /\ nodes' = nodes + 1
      /\ nodes \in Nat
  BY DEF RestOrder, Enqueue, BookType
<1>2. /\ o \in RestingOrder
      /\ l \in Location
      /\ old \in Lists
      /\ keys \in SUBSET Prices
  <2>1. o \in RestingOrder
    BY <1>1 DEF RestingOrder
  <2>2. l \in Location
    BY <1>1 DEF Location
  <2>3. old \in Lists /\ keys \in SUBSET Prices
    BY DEF BookType
  <2> QED
    BY <2>1, <2>2, <2>3
<1>3. \A t \in Symbols, e \in Sides, r \in Prices :
         /\ LevelOK(t, e, r, levels[t][e], queue[t][e][r])
         /\ NodesOK(queue[t][e][r], nodes)
  BY BookInvParts
<1>4. /\ o.node = nodes /\ o.order_id = c.order_id /\ o.symbol = c.symbol
      /\ o.side = c.side /\ o.price = c.price /\ o.remaining > 0
      /\ l.iter = nodes /\ l.symbol = c.symbol /\ l.side = c.side /\ l.price = c.price
  OBVIOUS
<1>5. LevelOK(c.symbol, c.side, c.price, levels[c.symbol][c.side], old) /\ NodesOK(old, nodes)
  BY <1>3
<1> HIDE DEF o, l, old
<1>6. /\ q \in Lists
      /\ Len(old) \in Nat
      /\ Len(q) = Len(old) + 1
      /\ q # <<>>
      /\ \A i \in 1..Len(old) : q[i] = old[i]
      /\ q[Len(old) + 1] = o
  BY <1>2 DEF Lists
<1> HIDE DEF q, keys
<1>7. /\ queue' \in [Symbols -> [Sides -> [Prices -> Lists]]]
      /\ \A t \in Symbols, e \in Sides, r \in Prices :
            queue'[t][e][r] = IF at(t, e, r) THEN q ELSE queue[t][e][r]
  BY <1>1, <1>6 DEF BookType
<1>8. /\ levels' \in [Symbols -> [Sides -> SUBSET Prices]]
      /\ \A t \in Symbols, e \in Sides :
            levels'[t][e] = IF t = c.symbol /\ e = c.side THEN keys ELSE levels[t][e]
  BY <1>1, <1>2 DEF BookType
<1>9. BookType'
  BY <1>1, <1>2, <1>7, <1>8 DEF BookType
<1>10. ToSet(q) = ToSet(old) \cup {o}
  <2>1. DOMAIN old = 1..Len(old) /\ DOMAIN q = 1..(Len(old) + 1)
    BY <1>2, <1>6 DEF Lists
  <2>2. \A i \in 1..(Len(old) + 1) : i \in 1..Len(old) \/ i = Len(old) + 1
    BY <1>6
  <2>3. ToSet(q) \subseteq ToSet(old) \cup {o}
    BY <1>6, <2>1, <2>2 DEF ToSet
  <2>4. ToSet(old) \subseteq ToSet(q) /\ o \in ToSet(q)
    BY <1>6, <2>1 DEF ToSet
  <2> QED
    BY <2>3, <2>4
<1>11. LevelOK(c.symbol, c.side, c.price, keys, q)
  BY <1>4, <1>5, <1>6, <1>10 DEF LevelOK, keys
<1>12. NodesOK(q, nodes')
  <2>1. ASSUME NEW i \in 1..Len(q)
        PROVE  \/ i \in 1..Len(old) /\ q[i].node = old[i].node
               \/ i = Len(old) + 1 /\ q[i].node = nodes
    BY <1>4, <1>6
  <2>2. \A i \in 1..Len(old) : old[i].node \in Nat /\ old[i].node < nodes
    BY <1>2, <1>5, ListNodes DEF NodesOK
  <2>3. \A i, j \in 1..Len(old) : old[i].node = old[j].node => i = j
    BY <1>5 DEF NodesOK
  <2>4. \A i \in 1..Len(q) : q[i].node < nodes'
    BY <1>1, <2>1, <2>2
  <2>5. \A i, j \in 1..Len(q) : q[i].node = q[j].node => i = j
    BY <1>1, <2>1, <2>2, <2>3
  <2> QED
    BY <2>4, <2>5 DEF NodesOK
<1>13. ASSUME NEW t \in Symbols, NEW e \in Sides, NEW r \in Prices
       PROVE  /\ LevelOK(t, e, r, levels'[t][e], queue'[t][e][r])
              /\ NodesOK(queue'[t][e][r], nodes')
  <2>1. CASE at(t, e, r)
    BY <1>7, <1>8, <1>11, <1>12, <2>1
  <2>2. CASE ~at(t, e, r)
    <3>1. queue'[t][e][r] = queue[t][e][r]
      BY <1>7, <2>2
    <3>2. r \in levels'[t][e] <=> r \in levels[t][e]
      BY <1>8, <2>2 DEF keys
    <3>3. LevelOK(t, e, r, levels[t][e], queue[t][e][r]) /\ NodesOK(queue[t][e][r], nodes)
      BY <1>3
    <3>4. \A i \in 1..Len(queue[t][e][r]) : queue[t][e][r][i].node \in Nat
      BY ListNodes DEF BookType
    <3>5. NodesOK(queue[t][e][r], nodes')
      BY <1>1, <3>3, <3>4 DEF NodesOK
    <3> QED
      BY <3>1, <3>2, <3>3, <3>5 DEF LevelOK
  <2> QED
    BY <2>1, <2>2
<1>14. ASSUME NEW k \in Ids, index'[k] # NULL
       PROVE  EntryOK(k, index'[k], levels'[index'[k].symbol][index'[k].side],
                      queue'[index'[k].symbol][index'[k].side][index'[k].price])
  <2>1. CASE k = c.order_id
    <3>1. index'[k] = l
      BY <1>1, <2>1 DEF BookType
    <3>2. levels'[c.symbol][c.side] = keys /\ queue'[c.symbol][c.side][c.price] = q
      BY <1>7, <1>8
    <3>3. EntryOK(k, l, keys, q)
      BY <1>4, <1>10, <2>1 DEF EntryOK, keys
    <3> QED
      BY <1>4, <3>1, <3>2, <3>3
  <2>2. CASE k # c.order_id
    <3> DEFINE loc == index[k]
    <3>1. index'[k] = loc /\ loc \in Location
      BY <1>1, <1>14, <2>2 DEF BookType
    <3>2. loc.symbol \in Symbols /\ loc.side \in Sides /\ loc.price \in Prices
      BY <3>1 DEF Location
    <3>3. EntryOK(k, loc, levels[loc.symbol][loc.side], queue[loc.symbol][loc.side][loc.price])
      BY <1>14, <3>1, BookInvParts
    <3> HIDE DEF loc
    <3>4. ToSet(queue[loc.symbol][loc.side][loc.price])
            \subseteq ToSet(queue'[loc.symbol][loc.side][loc.price])
      <4>1. CASE at(loc.symbol, loc.side, loc.price)
        BY <1>7, <1>10, <3>2, <4>1 DEF old
      <4>2. CASE ~at(loc.symbol, loc.side, loc.price)
        BY <1>7, <3>2, <4>2
      <4> QED
        BY <4>1, <4>2
    <3>5. levels[loc.symbol][loc.side] \subseteq levels'[loc.symbol][loc.side]
      BY <1>8, <3>2 DEF keys
    <3> QED
      BY <3>1, <3>3, <3>4, <3>5 DEF EntryOK
  <2> QED
    BY <2>1, <2>2
<1>15. BookInv'
  BY <1>13, <1>14, SMTT(30)
  DEF BookInv, LevelsExact, NodesUnique, IndexSound, LevelOK, NodesOK, EntryOK
<1> QED
  BY <1>8, <1>9, <1>15 DEF keys

-----------------------------------------------------------------------------
(***************************************************************************)
(* The three ways a list shrinks.  Every one leaves a remnant, and the     *)
(* index follows it.                                                       *)
(***************************************************************************)

\* The list at a location, as BookInv describes it.
LEMMA ListAt ==
    ASSUME BookType, BookInv, NEW s \in Symbols, NEW d \in Sides, NEW p \in Prices
    PROVE  LET q == queue[s][d][p] IN
           /\ q \in Lists
           /\ p \in levels[s][d] <=> q # <<>>
           /\ \A i \in 1..Len(q) :
                 /\ q[i] \in RestingOrder
                 /\ q[i].symbol = s /\ q[i].side = d /\ q[i].price = p /\ q[i].remaining > 0
           /\ \A i, j \in 1..Len(q) : q[i].node = q[j].node => i = j
<1> DEFINE q == queue[s][d][p]
<1>1. q \in Lists
  BY DEF BookType
<1>2. LevelOK(s, d, p, levels[s][d], q) /\ NodesOK(q, nodes)
  BY BookInvParts
<1>3. \A i \in 1..Len(q) : q[i] \in ToSet(q)
  BY <1>1 DEF Lists, ToSet
<1> HIDE DEF q
<1>4. \A i \in 1..Len(q) :
         /\ q[i] \in RestingOrder
         /\ q[i].symbol = s /\ q[i].side = d /\ q[i].price = p /\ q[i].remaining > 0
  BY <1>1, <1>2, <1>3, ListNodes DEF LevelOK
<1> QED
  BY <1>1, <1>2, <1>4 DEF LevelOK, NodesOK, q

\* An index entry for this location names an order of the list.
LEMMA EntryAt ==
    ASSUME BookType, BookInv, NEW k \in Ids, index[k] # NULL
    PROVE  LET l == index[k]
               q == queue[l.symbol][l.side][l.price]
           IN  /\ l \in Location
               /\ l.symbol \in Symbols /\ l.side \in Sides /\ l.price \in Prices
               /\ \E i \in 1..Len(q) : q[i].node = l.iter /\ q[i].order_id = k
<1> DEFINE l == index[k]
           q == queue[l.symbol][l.side][l.price]
<1>1. l \in Location
  BY DEF BookType
<1>2. l.symbol \in Symbols /\ l.side \in Sides /\ l.price \in Prices
  BY <1>1 DEF Location
<1>3. EntryOK(k, l, levels[l.symbol][l.side], q)
  BY BookInvParts
<1>4. q \in Lists
  BY <1>2 DEF BookType
<1> HIDE DEF l, q
<1>5. \E i \in 1..Len(q) : q[i].node = l.iter /\ q[i].order_id = k
  BY <1>3, <1>4 DEF EntryOK, ToSet, Lists
<1> QED
  BY <1>1, <1>2, <1>5 DEF l, q

\* pop_front() of an order the index then forgets.
LEMMA PopBook ==
    ASSUME BookType, BookInv,
           NEW s \in Symbols, NEW d \in Sides, NEW p \in Prices, p \in levels[s][d],
           SetLevel(s, d, p, Tail(queue[s][d][p])),
           index' = Unindex(Head(queue[s][d][p]).order_id),
           nodes' = nodes
    PROVE  /\ BookType'
           /\ BookInv'
           /\ \A t \in Symbols, e \in Sides : levels'[t][e] \subseteq levels[t][e]
<1> DEFINE q == queue[s][d][p]
<1>1. /\ q \in Lists
      /\ q # <<>>
      /\ \A i \in 1..Len(q) :
            /\ q[i] \in RestingOrder
            /\ q[i].symbol = s /\ q[i].side = d /\ q[i].price = p /\ q[i].remaining > 0
      /\ \A i, j \in 1..Len(q) : q[i].node = q[j].node => i = j
  BY ListAt
<1>2. \A k \in Ids : index[k] # NULL /\ index[k].symbol = s /\ index[k].side = d
                        /\ index[k].price = p =>
         \E i \in 1..Len(q) : q[i].node = index[k].iter /\ q[i].order_id = k
  BY EntryAt, ZenonT(30)
<1>3. SetLevel(s, d, p, Tail(q)) /\ index' = Unindex(Head(q).order_id)
  OBVIOUS
<1> HIDE DEF q
<1>4. /\ Tail(q) \in Lists
      /\ Len(q) \in Nat \ {0}
      /\ Len(Tail(q)) = Len(q) - 1
      /\ Head(q) = q[1]
      /\ \A j \in 1..Len(Tail(q)) : Tail(q)[j] = q[j + 1]
  BY <1>1, TailList DEF Lists
<1> DEFINE r == Tail(q)
<1> HIDE DEF r
<1>5. Remnant(s, d, p, r, q)
  <2>1. \A j \in 1..Len(r) : j + 1 \in 1..Len(q) /\ r[j] = q[j + 1]
    BY <1>4 DEF r
  <2>2. \A i, j \in 1..Len(r) : i + 1 = j + 1 => i = j
    BY <1>4 DEF r
  <2> QED
    BY <1>1, <2>1, <2>2, SMTT(30) DEF Remnant
<1>6. q[1].order_id \in Ids
  BY <1>1, <1>4 DEF RestingOrder
<1>7. /\ index' \in [Ids -> Location \cup {NULL}]
      /\ \A k \in Ids : index'[k] = IF k = q[1].order_id THEN NULL ELSE index[k]
  BY <1>3, <1>4, <1>6 DEF Unindex, BookType
<1>8. IndexFollows(s, d, p, r)
  <2> SUFFICES ASSUME NEW k \in Ids, index'[k] # NULL,
                      index[k].symbol = s, index[k].side = d, index[k].price = p
               PROVE  \E j \in 1..Len(r) : r[j].node = index[k].iter /\ r[j].order_id = k
    BY <1>7 DEF IndexFollows
  <2>1. k # q[1].order_id /\ index[k] # NULL
    BY <1>7
  <2>2. PICK i \in 1..Len(q) : q[i].node = index[k].iter /\ q[i].order_id = k
    BY <1>2, <2>1
  <2>3. i - 1 \in 1..Len(r) /\ r[i - 1] = q[i]
    <3>1. i # 1
      BY <2>1, <2>2
    <3>2. i - 1 \in 1..Len(r) /\ (i - 1) + 1 = i
      BY <1>4, <3>1 DEF r
    <3> QED
      BY <1>4, <3>2 DEF r
  <2> QED
    BY <2>2, <2>3
<1>9. queue[s][d][p] = q /\ r \in Lists /\ SetLevel(s, d, p, r)
  BY <1>3, <1>4 DEF q, r
<1> QED
  BY <1>5, <1>7, <1>8, <1>9, SetLevelBook

\* A fill that leaves something of the front order.
LEMMA PartialFillBook ==
    ASSUME BookType, BookInv,
           NEW s \in Symbols, NEW d \in Sides, NEW p \in Prices, p \in levels[s][d],
           NEW left \in Int, left > 0,
           SetLevel(s, d, p, [queue[s][d][p] EXCEPT ![1].remaining = left]),
           index' = index,
           nodes' = nodes
    PROVE  /\ BookType'
           /\ BookInv'
           /\ \A t \in Symbols, e \in Sides : levels'[t][e] \subseteq levels[t][e]
<1> DEFINE q == queue[s][d][p]
           front == [q[1] EXCEPT !.remaining = left]
           r == [q EXCEPT ![1] = front]
<1>1. /\ q \in Lists
      /\ q # <<>>
      /\ \A i \in 1..Len(q) :
            /\ q[i] \in RestingOrder
            /\ q[i].symbol = s /\ q[i].side = d /\ q[i].price = p /\ q[i].remaining > 0
      /\ \A i, j \in 1..Len(q) : q[i].node = q[j].node => i = j
  BY ListAt
<1>2. \A k \in Ids : index[k] # NULL /\ index[k].symbol = s /\ index[k].side = d
                        /\ index[k].price = p =>
         \E i \in 1..Len(q) : q[i].node = index[k].iter /\ q[i].order_id = k
  BY EntryAt
<1>3. SetLevel(s, d, p, [q EXCEPT ![1].remaining = left])
  OBVIOUS
<1> HIDE DEF q
<1>4. Len(q) \in Nat \ {0} /\ DOMAIN q = 1..Len(q) /\ 1 \in 1..Len(q)
  BY <1>1 DEF Lists
<1>5. [q EXCEPT ![1].remaining = left] = r
  BY <1>4
<1>6. /\ front \in RestingOrder
      /\ front.symbol = q[1].symbol /\ front.side = q[1].side /\ front.price = q[1].price
      /\ front.node = q[1].node /\ front.order_id = q[1].order_id /\ front.remaining = left
  BY <1>1, <1>4 DEF RestingOrder
<1> HIDE DEF front
<1>7. /\ r \in Lists
      /\ Len(r) = Len(q)
      /\ \A j \in 1..Len(q) : r[j] = IF j = 1 THEN front ELSE q[j]
  BY <1>1, <1>4, <1>6 DEF Lists
<1> HIDE DEF r
<1>8. \A j \in 1..Len(r) : r[j].node = q[j].node /\ r[j].order_id = q[j].order_id
  BY <1>6, <1>7
<1>9. Remnant(s, d, p, r, q)
  BY <1>1, <1>4, <1>6, <1>7, <1>8 DEF Remnant
<1>10. IndexFollows(s, d, p, r)
  BY <1>2, <1>7, <1>8 DEF IndexFollows
<1>11. queue[s][d][p] = q /\ SetLevel(s, d, p, r) /\ index' \in [Ids -> Location \cup {NULL}]
  BY <1>3, <1>5 DEF q, BookType
<1> QED
  BY <1>7, <1>9, <1>10, <1>11, SetLevelBook

\* remove_resting(): the node an index entry points to is erased.
LEMMA EraseBook ==
    ASSUME BookType, BookInv,
           NEW id \in Ids,
           NEW s \in Symbols, NEW d \in Sides, NEW p \in Prices,
           NEW i \in 1..Len(queue[s][d][p]), queue[s][d][p][i].order_id = id,
           SetLevel(s, d, p, RemoveAt(queue[s][d][p], i)),
           index' = Unindex(id),
           nodes' = nodes
    PROVE  /\ BookType'
           /\ BookInv'
           /\ \A t \in Symbols, e \in Sides : levels'[t][e] \subseteq levels[t][e]
<1> DEFINE q == queue[s][d][p]
           r == RemoveAt(q, i)
<1>1. /\ q \in Lists
      /\ p \in levels[s][d] <=> q # <<>>
      /\ \A j \in 1..Len(q) :
            /\ q[j] \in RestingOrder
            /\ q[j].symbol = s /\ q[j].side = d /\ q[j].price = p /\ q[j].remaining > 0
      /\ \A j, k \in 1..Len(q) : q[j].node = q[k].node => j = k
  BY ListAt
<1>2. \A k \in Ids : index[k] # NULL /\ index[k].symbol = s /\ index[k].side = d
                        /\ index[k].price = p =>
         \E j \in 1..Len(q) : q[j].node = index[k].iter /\ q[j].order_id = k
  BY EntryAt, ZenonT(30)
<1>3. SetLevel(s, d, p, r) /\ i \in 1..Len(q) /\ q[i].order_id = id
  OBVIOUS
<1> HIDE DEF q
<1>4. /\ r \in Lists
      /\ Len(q) \in Nat
      /\ Len(r) = Len(q) - 1
      /\ \A j \in 1..Len(r) : r[j] = IF j < i THEN q[j] ELSE q[j + 1]
  <2>1. q \in Seq(RestingOrder) /\ i \in 1..Len(q)
    BY <1>1, <1>3 DEF Lists
  <2>2. /\ r \in Seq(RestingOrder)
        /\ Len(r) = Len(q) - 1
        /\ \A j \in 1..Len(r) : r[j] = IF j < i THEN q[j] ELSE q[j + 1]
    BY <2>1, RemoveAtList
  <2>3. Len(q) \in Nat
    BY <2>1
  <2> QED
    BY <2>2, <2>3 DEF Lists
<1> HIDE DEF r
<1>5. p \in levels[s][d]
  BY <1>1, <1>3 DEF Lists
<1>6. /\ index' \in [Ids -> Location \cup {NULL}]
      /\ \A k \in Ids : index'[k] = IF k = id THEN NULL ELSE index[k]
  BY DEF Unindex, BookType
<1> DEFINE up(j) == IF j < i THEN j ELSE j + 1
<1>7. \A j \in 1..Len(r) : up(j) \in 1..Len(q) /\ r[j] = q[up(j)]
  BY <1>3, <1>4
<1>8. \A j, k \in 1..Len(r) : up(j) = up(k) => j = k
  BY <1>3, <1>4
<1>9. \A j \in 1..Len(q) : j # i => \E k \in 1..Len(r) : up(k) = j
  <2> SUFFICES ASSUME NEW j \in 1..Len(q), j # i
               PROVE  \E k \in 1..Len(r) : up(k) = j
    OBVIOUS
  <2>1. CASE j < i
    <3>1. j \in 1..Len(r) /\ up(j) = j
      BY <1>3, <1>4, <2>1
    <3> QED
      BY <3>1
  <2>2. CASE ~(j < i)
    <3>1. j - 1 \in 1..Len(r) /\ up(j - 1) = j
      BY <1>3, <1>4, <2>2
    <3> QED
      BY <3>1
  <2> QED
    BY <2>1, <2>2
<1> HIDE DEF up
<1>10. Remnant(s, d, p, r, q)
  <2>1. \A j \in 1..Len(r) :
           /\ r[j].symbol = s /\ r[j].side = d /\ r[j].price = p /\ r[j].remaining > 0
           /\ \E k \in 1..Len(q) : r[j].node = q[k].node
    <3> SUFFICES ASSUME NEW j \in 1..Len(r)
                 PROVE  /\ r[j].symbol = s /\ r[j].side = d /\ r[j].price = p
                        /\ r[j].remaining > 0
                        /\ \E k \in 1..Len(q) : r[j].node = q[k].node
      OBVIOUS
    <3>1. up(j) \in 1..Len(q) /\ r[j] = q[up(j)]  BY <1>7
    <3>2. /\ q[up(j)].symbol = s /\ q[up(j)].side = d /\ q[up(j)].price = p
          /\ q[up(j)].remaining > 0
      BY <1>1, <3>1
    <3> QED  BY <3>1, <3>2
  <2>2. \A j, k \in 1..Len(r) : r[j].node = r[k].node => j = k
    BY <1>1, <1>7, <1>8
  <2> QED
    BY <2>1, <2>2 DEF Remnant
<1>11. IndexFollows(s, d, p, r)
  <2> SUFFICES ASSUME NEW k \in Ids, index'[k] # NULL,
                      index[k].symbol = s, index[k].side = d, index[k].price = p
               PROVE  \E j \in 1..Len(r) : r[j].node = index[k].iter /\ r[j].order_id = k
    BY <1>6 DEF IndexFollows
  <2>1. k # id /\ index[k] # NULL
    BY <1>6
  <2>2. PICK j \in 1..Len(q) : q[j].node = index[k].iter /\ q[j].order_id = k
    BY <1>2, <2>1
  <2>3. j # i
    BY <1>3, <2>1, <2>2
  <2>4. PICK m \in 1..Len(r) : up(m) = j
    BY <1>9, <2>3
  <2> QED
    BY <1>7, <2>2, <2>4
<1>12. queue[s][d][p] = q
  BY DEF q
<1> QED
  BY <1>3, <1>4, <1>5, <1>6, <1>10, <1>11, <1>12, SetLevelBook

-----------------------------------------------------------------------------
(***************************************************************************)
(* Every step keeps the books well formed and uncrossed.                   *)
(***************************************************************************)

\* The part of TypeOK that is not about the books.
ControlType ==
    /\ sequence \in Nat
    /\ pc \in {"idle", "add", "match", "finish", "load", "error"}
    /\ IF pc \in {"add", "match", "finish", "error"} THEN cmd \in AddOrder ELSE cmd = NULL
    /\ remaining \in Int
    /\ trades \in Seq(TradeReport)
    /\ ledger \in Records
    /\ saved \in Documents \cup {NULL}
    /\ todo \subseteq Symbols \X Sides \X Prices \X (Nat \ {0})

\* The type invariant, split into books and control.
LEMMA TypeParts == TypeOK <=> BookType /\ ControlType
  BY DEF TypeOK, BookType, ControlType, Lists

\* What a step has to keep of the books.
BooksGood == BookType /\ BookInv /\ NeverCrossed

\* A step that leaves the book variables alone leaves the books good.
LEMMA SameBooks ==
    ASSUME BooksGood, UNCHANGED bookVars
    PROVE  BooksGood'
<1>1. levels' = levels /\ queue' = queue /\ index' = index /\ nodes' = nodes
  BY DEF bookVars
<1>2. BookType'
  BY <1>1 DEF BooksGood, BookType
<1>3. BookInv'
  BY <1>1 DEF BooksGood, BookInv, LevelsExact, NodesUnique, IndexSound
<1>4. NeverCrossed'
  BY <1>1 DEF BooksGood, NeverCrossed, Crossed
<1> QED
  BY <1>2, <1>3, <1>4 DEF BooksGood

\* A book that only loses keys stays uncrossed.
LEMMA ShrinkUncrossed ==
    ASSUME NeverCrossed, \A t \in Symbols, e \in Sides : levels'[t][e] \subseteq levels[t][e]
    PROVE  NeverCrossed'
  BY DEF NeverCrossed, Crossed, Sides

\* The command of an add() that is under way.
LEMMA CommandTyped ==
    ASSUME ControlType, pc \in {"add", "match", "finish"}
    PROVE  /\ cmd \in AddOrder
           /\ cmd.symbol \in Symbols /\ cmd.order_id \in Ids /\ cmd.participant \in Participants
           /\ cmd.side \in Sides /\ Opposite(cmd.side) \in Sides /\ cmd.price \in Prices
           /\ cmd.quantity \in Quantities
           /\ cmd.tif \in TimeInForce
<1>1. cmd \in AddOrder
  BY DEF ControlType
<1> QED
  BY <1>1 DEF AddOrder, Opposite, Sides

\* Self-trade prevention in the matching loop leaves the books good.
LEMMA MatchSelfBooks ==
    ASSUME BooksGood, ControlType, NEW p \in Prices, MatchSelf(p)
    PROVE  BooksGood'
<1>1. pc = "match" /\ p \in levels[cmd.symbol][Opposite(cmd.side)]
  BY DEF MatchSelf, Matching, IsBest
<1>2. cmd.symbol \in Symbols /\ Opposite(cmd.side) \in Sides
  BY <1>1, CommandTyped
<1>3. CASE DropPassive
  <2> DEFINE s == cmd.symbol
             d == Opposite(cmd.side)
  <2>1. /\ SetLevel(s, d, p, Tail(queue[s][d][p]))
        /\ index' = Unindex(Head(queue[s][d][p]).order_id)
        /\ nodes' = nodes
    BY <1>3 DEF MatchSelf, Level
  <2>2. s \in Symbols /\ d \in Sides /\ p \in levels[s][d]
    BY <1>1, <1>2
  <2> HIDE DEF s, d
  <2>3. /\ BookType'
        /\ BookInv'
        /\ \A t \in Symbols, e \in Sides : levels'[t][e] \subseteq levels[t][e]
    BY <2>1, <2>2, PopBook DEF BooksGood
  <2> QED
    BY <2>3, ShrinkUncrossed DEF BooksGood
<1>4. CASE ~DropPassive
  <2>1. UNCHANGED bookVars
    BY <1>4 DEF MatchSelf, bookVars
  <2> QED
    BY <2>1, SameBooks
<1> QED
  BY <1>3, <1>4

\* The quantities of a fill: it is positive, and the passive order keeps left.
LEMMA FillQuantities ==
    ASSUME BooksGood, ControlType, NEW p \in Prices, Matching(p)
    PROVE  LET passive == Head(Level(p))
               fill == IF remaining < passive.remaining THEN remaining ELSE passive.remaining
           IN  /\ Level(p) \in Lists /\ Level(p) # <<>>
               /\ passive \in RestingOrder
               /\ passive.symbol = cmd.symbol
               /\ passive.price = p
               /\ passive.remaining \in Int
               /\ fill \in Int /\ fill > 0
               /\ passive.remaining - fill \in Nat
               /\ remaining - fill \in Int
<1> DEFINE s == cmd.symbol
           d == Opposite(cmd.side)
           q == queue[s][d][p]
<1>1. pc = "match" /\ p \in levels[s][d] /\ remaining > 0 /\ remaining \in Int
  BY DEF Matching, IsBest, ControlType
<1>2. s \in Symbols /\ d \in Sides
  BY <1>1, CommandTyped
<1>3. /\ q \in Lists
      /\ q # <<>>
      /\ \A i \in 1..Len(q) : q[i] \in RestingOrder /\ q[i].symbol = s /\ q[i].price = p
                                /\ q[i].remaining > 0
  BY <1>1, <1>2, ListAt DEF BooksGood
<1>4. Level(p) = q
  BY DEF Level
<1> HIDE DEF q, s, d
<1>5. Head(q) = q[1] /\ 1 \in 1..Len(q)
  BY <1>3, TailList DEF Lists
<1>6. q[1] \in RestingOrder /\ q[1].symbol = s /\ q[1].price = p /\ q[1].remaining > 0
      /\ q[1].remaining \in Int
  BY <1>3, <1>5 DEF RestingOrder
<1> QED
  BY <1>1, <1>3, <1>4, <1>5, <1>6 DEF s

\* An execution in the matching loop leaves the books good.
LEMMA MatchFillBooks ==
    ASSUME BooksGood, ControlType, NEW p \in Prices, MatchFill(p)
    PROVE  BooksGood'
<1> DEFINE s == cmd.symbol
           d == Opposite(cmd.side)
           passive == Head(Level(p))
           fill == IF remaining < passive.remaining THEN remaining ELSE passive.remaining
           left == passive.remaining - fill
<1>1. Matching(p)
  BY DEF MatchFill
<1>2. pc = "match" /\ p \in levels[s][d]
  BY <1>1 DEF Matching, IsBest
<1>3. s \in Symbols /\ d \in Sides
  BY <1>2, CommandTyped
<1>4. left \in Nat
  BY <1>1, FillQuantities
<1>5. /\ SetLevel(s, d, p, AfterFill(Level(p), left))
      /\ index' = IndexAfterFill(passive.order_id, left)
      /\ nodes' = nodes
      /\ Level(p) = queue[s][d][p]
  BY DEF MatchFill, Level
<1>6. /\ BookType'
      /\ BookInv'
      /\ \A t \in Symbols, e \in Sides : levels'[t][e] \subseteq levels[t][e]
  <2> HIDE DEF s, d, left
  <2>1. CASE left = 0
    <3>1. /\ SetLevel(s, d, p, Tail(queue[s][d][p]))
          /\ index' = Unindex(Head(queue[s][d][p]).order_id)
      BY <1>5, <2>1 DEF AfterFill, IndexAfterFill
    <3> QED
      BY <1>2, <1>3, <1>5, <3>1, PopBook DEF BooksGood
  <2>2. CASE left # 0
    <3>1. /\ SetLevel(s, d, p, [queue[s][d][p] EXCEPT ![1].remaining = left])
          /\ index' = index
      BY <1>5, <2>2 DEF AfterFill, IndexAfterFill
    <3>2. left \in Int /\ left > 0
      BY <1>4, <2>2
    <3> QED
      BY <1>2, <1>3, <1>5, <3>1, <3>2, PartialFillBook DEF BooksGood
  <2> QED
    BY <2>1, <2>2
<1> QED
  BY <1>6, ShrinkUncrossed DEF BooksGood

\* A GTC order rests only where nothing on the other side is within its limit.
LEMMA AddRestBooks ==
    ASSUME BooksGood, ControlType, ScanDone, AddRest
    PROVE  BooksGood' /\ ~Crossed(levels', cmd.symbol)
<1>1. pc = "finish" /\ remaining > 0 /\ cmd.tif = "GTC" /\ RestOrder(cmd, remaining)
  BY DEF AddRest
<1>2. /\ cmd.symbol \in Symbols /\ cmd.order_id \in Ids /\ cmd.participant \in Participants
      /\ cmd.side \in Sides /\ cmd.price \in Prices
      /\ remaining \in Int
  BY <1>1, CommandTyped DEF ControlType
<1>3. /\ BookType'
      /\ BookInv'
      /\ \A t \in Symbols, e \in Sides :
            levels'[t][e] = IF t = cmd.symbol /\ e = cmd.side THEN levels[t][e] \cup {cmd.price}
                                                              ELSE levels[t][e]
  BY <1>1, <1>2, RestOrderBook DEF BooksGood
<1>4. \A r \in levels[cmd.symbol][Opposite(cmd.side)] :
         ~AtLeast(Opposite(cmd.side), r, cmd.price)
  BY <1>1 DEF ScanDone, Accepts
<1>5. cmd.price \in Int /\ \A t \in Symbols, e \in Sides : levels[t][e] \subseteq Int
  BY <1>2, ConstantsAssumption DEF BooksGood, BookType
<1>6. ASSUME NEW t \in Symbols
      PROVE  ~Crossed(levels', t)
  <2> SUFFICES ASSUME NEW x \in levels'[t]["Buy"], NEW y \in levels'[t]["Sell"]
               PROVE  ~(x >= y)
    BY DEF Crossed
  <2>1. \A u \in levels[t]["Buy"], v \in levels[t]["Sell"] : ~(u >= v)
    BY DEF BooksGood, NeverCrossed, Crossed
  <2>2. CASE t = cmd.symbol /\ cmd.side = "Buy"
    <3>1. x \in levels[t]["Buy"] \/ x = cmd.price
      BY <1>3, <2>2 DEF Sides
    <3>2. y \in levels[t]["Sell"] /\ y \in Int
      BY <1>3, <1>5, <2>2 DEF Sides
    <3>3. ~(cmd.price >= y)
      BY <1>4, <1>5, <2>2, <3>2 DEF Opposite, AtLeast
    <3> QED
      BY <2>1, <3>1, <3>2, <3>3
  <2>3. CASE t = cmd.symbol /\ cmd.side = "Sell"
    <3>1. y \in levels[t]["Sell"] \/ y = cmd.price
      BY <1>3, <2>3 DEF Sides
    <3>2. x \in levels[t]["Buy"] /\ x \in Int
      BY <1>3, <1>5, <2>3 DEF Sides
    <3>3. ~(x >= cmd.price)
      BY <1>4, <1>5, <2>3, <3>2 DEF Opposite, AtLeast
    <3> QED
      BY <2>1, <3>1, <3>2, <3>3
  <2>4. CASE t # cmd.symbol
    <3>1. x \in levels[t]["Buy"] /\ y \in levels[t]["Sell"]
      BY <1>3, <2>4 DEF Sides
    <3> QED
      BY <2>1, <3>1
  <2> QED
    BY <1>2, <2>2, <2>3, <2>4 DEF Sides
<1> QED
  BY <1>2, <1>3, <1>6 DEF BooksGood, NeverCrossed

\* cancel() and the first half of replace().
LEMMA CancelBooks ==
    ASSUME BooksGood, NEW id \in Ids, CancelResting(id), nodes' = nodes
    PROVE  BooksGood'
<1> DEFINE l == index[id]
           s == l.symbol
           d == l.side
           p == l.price
           q == queue[s][d][p]
<1>1. l # NULL /\ index' = Unindex(id)
  BY DEF CancelResting
<1>2. PICK i \in 1..Len(q) : q[i].node = l.iter /\ SetLevel(s, d, p, RemoveAt(q, i))
  BY DEF CancelResting
<1>3. /\ s \in Symbols /\ d \in Sides /\ p \in Prices
      /\ \E j \in 1..Len(q) : q[j].node = l.iter /\ q[j].order_id = id
  BY <1>1, EntryAt DEF BooksGood
<1> HIDE DEF s, d, p
<1>4. \A j, k \in 1..Len(q) : q[j].node = q[k].node => j = k
  BY <1>3, ListAt DEF BooksGood
<1> HIDE DEF l
<1>5. q[i].order_id = id
  BY <1>2, <1>3, <1>4
<1>6. /\ BookType'
      /\ BookInv'
      /\ \A t \in Symbols, e \in Sides : levels'[t][e] \subseteq levels[t][e]
  BY <1>1, <1>2, <1>3, <1>5, EraseBook DEF BooksGood
<1> QED
  BY <1>6, ShrinkUncrossed DEF BooksGood

\* The engine without orders.
NoOrders ==
    /\ levels = EmptyLevels
    /\ queue = EmptyQueues
    /\ index = [id \in Ids |-> NULL]
    /\ nodes = 0

\* Books without orders are good.
LEMMA EmptyBooks == NoOrders => BooksGood
<1> SUFFICES ASSUME NoOrders PROVE BooksGood
  OBVIOUS
<1> USE DEF NoOrders
<1>1. \A s \in Symbols, d \in Sides : levels[s][d] = {}
  BY DEF EmptyLevels
<1>2. \A s \in Symbols, d \in Sides, p \in Prices : queue[s][d][p] = <<>>
  BY DEF EmptyQueues
<1>3. \A id \in Ids : index[id] = NULL
  OBVIOUS
<1>4. BookType
  <2>1. <<>> \in Lists
    BY DEF Lists
  <2> QED
    BY <2>1 DEF BookType, EmptyLevels, EmptyQueues
<1>5. LevelsExact
  BY <1>1, <1>2 DEF LevelsExact, ToSet
<1>6. NodesUnique
  BY <1>2 DEF NodesUnique
<1>7. IndexSound
  BY <1>3 DEF IndexSound
<1>8. NeverCrossed
  BY <1>1 DEF NeverCrossed, Crossed, Sides
<1> QED
  BY <1>4, <1>5, <1>6, <1>7, <1>8 DEF BooksGood, BookInv

\* The clearing that load_snapshot() starts with leaves good books.
LEMMA ClearBooks ==
    ASSUME Clear
    PROVE  BooksGood'
<1>1. NoOrders'
  BY DEF Clear, NoOrders
<1> QED
  BY <1>1, EmptyBooks, PTL

\* One order of the document comes back: its level is one of the document's, and
\* those do not cross.
LEMMA RestoreBooks ==
    ASSUME BooksGood, ControlType, SavedInv, LoadInv, NEW t \in todo, RestoreOrder(t)
    PROVE  /\ BooksGood'
           /\ \A u \in Symbols, e \in Sides : levels'[u][e] \subseteq saved.levels[u][e]
<1> DEFINE s == t[1]
           d == t[2]
           p == t[3]
           o == saved.queue[s][d][p][t[4]]
           c == [symbol |-> s, side |-> d, price |-> p,
                 order_id |-> o.order_id, participant |-> o.participant]
<1>1. pc = "load" /\ RestOrder(c, o.remaining)
  BY DEF RestoreOrder
<1>2. /\ saved # NULL
      /\ todo \subseteq Document
      /\ \A u \in Symbols, e \in Sides : levels[u][e] \subseteq saved.levels[u][e]
  BY <1>1 DEF LoadInv
<1>3. saved \in Documents
  BY <1>2 DEF ControlType
<1>4. PICK s0 \in Symbols, d0 \in Sides, p0 \in Prices :
         \E i \in 1..Len(saved.queue[s0][d0][p0]) : t = <<s0, d0, p0, i>>
  BY <1>2 DEF Document
<1>5. /\ s \in Symbols /\ d \in Sides /\ p \in Prices
      /\ t[4] \in 1..Len(saved.queue[s][d][p])
  BY <1>4
<1>6. saved.queue[s][d][p] \in Seq(SavedOrder)
  <2>1. saved.queue \in [Symbols -> [Sides -> [Prices -> Seq(SavedOrder)]]]
    BY <1>3 DEF Documents
  <2> QED
    BY <1>5, <2>1
<1>7. o \in SavedOrder
  <2> DEFINE w == saved.queue[s][d][p]
             n == t[4]
  <2>1. w \in Seq(SavedOrder) /\ n \in 1..Len(w) /\ o = w[n]
    BY <1>5, <1>6
  <2> HIDE DEF w, n, o
  <2> QED
    BY <2>1, ElementOfSeq
<1>8. p \in saved.levels[s][d] /\ o.remaining > 0
  BY <1>2, <1>5 DEF SavedInv
<1> HIDE DEF o, s, d, p
<1>9. /\ c.symbol = s /\ c.side = d /\ c.price = p
      /\ c.order_id \in Ids /\ c.participant \in Participants /\ o.remaining \in Int
  BY <1>7 DEF SavedOrder
<1> HIDE DEF c
<1>10. /\ BookType'
       /\ BookInv'
       /\ \A u \in Symbols, e \in Sides :
             levels'[u][e] = IF u = c.symbol /\ e = c.side THEN levels[u][e] \cup {c.price}
                                                           ELSE levels[u][e]
  BY <1>1, <1>5, <1>8, <1>9, RestOrderBook DEF BooksGood
<1>11. \A u \in Symbols, e \in Sides : levels'[u][e] \subseteq saved.levels[u][e]
  <2> SUFFICES ASSUME NEW u \in Symbols, NEW e \in Sides, NEW x \in levels'[u][e]
               PROVE  x \in saved.levels[u][e]
    OBVIOUS
  <2>1. CASE u = s /\ e = d
    <3>1. x \in levels[u][e] \/ x = p
      BY <1>9, <1>10, <2>1, ZenonT(30)
    <3>2. levels[u][e] \subseteq saved.levels[u][e] /\ p \in saved.levels[u][e]
      BY <1>2, <1>8, <2>1
    <3> QED
      BY <3>1, <3>2
  <2>2. CASE ~(u = s /\ e = d)
    BY <1>2, <1>9, <1>10, <2>2
  <2> QED
    BY <2>1, <2>2
<1>12. NeverCrossed'
  <2>1. \A u \in Symbols : ~Crossed(saved.levels, u)
    BY <1>2 DEF SavedInv
  <2> QED
    BY <1>11, <2>1 DEF NeverCrossed, Crossed, Sides
<1> QED
  BY <1>10, <1>11, <1>12 DEF BooksGood

\* Every step of the engine leaves the books good.
LEMMA BookStep ==
    ASSUME Inv, Next
    PROVE  BooksGood'
<1>0. BooksGood /\ ControlType /\ ScanDone /\ SavedInv /\ LoadInv
  BY TypeParts DEF Inv, BooksGood
<1>1. CASE AddRejectFok \/ AddAccept \/ MatchExit \/ AddCancelRemainder \/ AddReturn
            \/ LoadReturn \/ (\E c \in Commands : Add(c)) \/ (\E id \in Ids : RejectUnknown(id))
            \/ Reject \/ Query \/ Snapshot
  <2>1. UNCHANGED bookVars
    BY <1>1 DEF AddRejectFok, AddAccept, MatchExit, AddCancelRemainder, AddReturn, LoadReturn,
                Add, RejectUnknown, Reject, Query, Snapshot, vars, bookVars
  <2> QED
    BY <1>0, <2>1, SameBooks
<1>2. CASE \E p \in Prices : MatchSelf(p)
  BY <1>0, <1>2, MatchSelfBooks
<1>3. CASE \E p \in Prices : MatchFill(p)
  BY <1>0, <1>3, MatchFillBooks
<1>4. CASE AddRest
  BY <1>0, <1>4, AddRestBooks
<1>5. CASE \E t \in todo : RestoreOrder(t)
  BY <1>0, <1>5, RestoreBooks
<1>6. CASE \E id \in Ids : Cancel(id)
  <2>1. PICK id \in Ids : CancelResting(id) /\ nodes' = nodes
    BY <1>6 DEF Cancel
  <2> QED
    BY <1>0, <2>1, CancelBooks
<1>7. CASE \E id, newId \in Ids, s \in Symbols, p \in Prices, quantity \in Quantities :
              \E style \in Styles : Replace(id, newId, s, p, quantity, style[1])
  <2>1. PICK id \in Ids : CancelResting(id) /\ nodes' = nodes
    BY <1>7 DEF Replace
  <2> QED
    BY <1>0, <2>1, CancelBooks
<1>8. CASE LoadSnapshot \/ LoadInvalid
  <2>1. Clear
    BY <1>8 DEF LoadSnapshot, LoadInvalid
  <2> QED
    BY <2>1, ClearBooks
<1> QED
  BY <1>1, <1>2, <1>3, <1>4, <1>5, <1>6, <1>7, <1>8 DEF Next, Step, Request

-----------------------------------------------------------------------------
(***************************************************************************)
(* Every step keeps the other variables in their types.                    *)
(***************************************************************************)
\* Reporting a quantity as executed or cancelled keeps the ledger typed.
LEMMA ClosedTyped ==
    ASSUME NEW led \in Records, NEW id \in Ids, NEW quantity \in Int
    PROVE  Closed(led, id, quantity) \in Records
  BY DEF Closed, Records

\* build_trade() builds a trade report.
LEMMA TradeTyped ==
    ASSUME cmd \in AddOrder, NEW passive \in RestingOrder, NEW quantity \in Int
    PROVE  BuildTrade(passive, quantity) \in TradeReport
<1>1. cmd.order_id \in Ids /\ cmd.symbol \in Symbols
  BY DEF AddOrder
<1>2. passive.order_id \in Ids /\ passive.price \in Prices
  BY DEF RestingOrder
<1> QED
  BY <1>1, <1>2 DEF BuildTrade, TradeReport

\* serialize_side() writes a list of saved orders.
LEMMA SerializeTyped ==
    ASSUME NEW q \in Lists
    PROVE  /\ Serialize(q) \in Seq(SavedOrder)
           /\ Len(Serialize(q)) = Len(q)
           /\ \A i \in 1..Len(q) : Serialize(q)[i].remaining = q[i].remaining
<1>1. Len(q) \in Nat
  BY DEF Lists
<1>2. \A i \in 1..Len(q) : /\ q[i].order_id \in Ids
                           /\ q[i].participant \in Participants
                           /\ q[i].remaining \in Int
  BY ListNodes DEF RestingOrder
<1>3. \A i \in 1..Len(q) : [order_id |-> q[i].order_id, participant |-> q[i].participant,
                            remaining |-> q[i].remaining] \in SavedOrder
  BY <1>2 DEF SavedOrder
<1> QED
  BY <1>1, <1>3 DEF Serialize

\* The places of the orders of a document.
LEMMA DocumentTyped ==
    ASSUME saved \in Documents
    PROVE  Document \subseteq Symbols \X Sides \X Prices \X (Nat \ {0})
<1>1. \A s \in Symbols, d \in Sides, p \in Prices : Len(saved.queue[s][d][p]) \in Nat
  <2>1. saved.queue \in [Symbols -> [Sides -> [Prices -> Seq(SavedOrder)]]]
    BY DEF Documents
  <2>2. \A s \in Symbols, d \in Sides, p \in Prices : saved.queue[s][d][p] \in Seq(SavedOrder)
    BY <2>1
  <2> QED
    BY <2>2
<1> SUFFICES ASSUME NEW t \in Document
             PROVE  t \in Symbols \X Sides \X Prices \X (Nat \ {0})
  OBVIOUS
<1>2. PICK s \in Symbols, d \in Sides, p \in Prices :
         \E i \in 1..Len(saved.queue[s][d][p]) : t = <<s, d, p, i>>
  BY DEF Document
<1> QED
  BY <1>1, <1>2

\* snapshot() returns a document.
LEMMA SnapshotTyped ==
    ASSUME BookType, ControlType
    PROVE  [sequence |-> sequence, levels |-> levels, queue |-> SerializedQueues,
            ledger |-> ledger] \in Documents
<1>1. \A s \in Symbols, d \in Sides, p \in Prices :
         Serialize(queue[s][d][p]) \in Seq(SavedOrder)
  BY SerializeTyped DEF BookType
<1>2. SerializedQueues \in [Symbols -> [Sides -> [Prices -> Seq(SavedOrder)]]]
  <2> DEFINE S == Seq(SavedOrder)
  <2>1. \A s \in Symbols, d \in Sides, p \in Prices : Serialize(queue[s][d][p]) \in S
    BY <1>1
  <2> HIDE DEF S
  <2>2. SerializedQueues \in [Symbols -> [Sides -> [Prices -> S]]]
    BY <2>1 DEF SerializedQueues
  <2> QED
    BY <2>2 DEF S
<1>3. sequence \in Nat /\ ledger \in Records
      /\ levels \in [Symbols -> [Sides -> SUBSET Prices]]
  BY DEF BookType, ControlType
<1> QED
  BY <1>2, <1>3 DEF Documents

\* The return of add() leaves its locals typed.
LEMMA ReturnTyped ==
    ASSUME ControlType, Return, sequence' \in Nat, ledger' \in Records, UNCHANGED <<saved, todo>>
    PROVE  ControlType'
<1>1. trades' \in Seq(TradeReport)
  BY DEF Return
<1>2. /\ pc' = "idle" /\ cmd' = NULL /\ remaining' = 0
      /\ saved' = saved /\ todo' = todo
      /\ saved \in Documents \cup {NULL}
      /\ todo \subseteq Symbols \X Sides \X Prices \X (Nat \ {0})
  BY DEF Return, ControlType
<1> QED
  BY <1>1, <1>2 DEF ControlType

\* The steps of add() outside the matching loop keep the control state typed.
LEMMA AddTyped ==
    ASSUME BooksGood, ControlType,
           \/ \E c \in Commands : Add(c)
           \/ AddRejectFok
           \/ AddAccept
           \/ MatchExit
           \/ AddRest
           \/ AddCancelRemainder
           \/ AddReturn
    PROVE  ControlType'
<1>1. CASE \E c \in Commands : Add(c)
  <2>1. PICK c \in Commands : Add(c)
    BY <1>1
  <2>2. c \in AddOrder
    BY DEF Commands
  <2> QED
    BY <2>1, <2>2 DEF ControlType, Add
<1>2. CASE AddRejectFok
  <2>1. sequence' \in Nat /\ ledger' \in Records /\ UNCHANGED <<saved, todo>> /\ Return
    BY <1>2 DEF AddRejectFok, ControlType
  <2> QED
    BY <2>1, ReturnTyped
<1>3. CASE AddAccept
  <2>1. cmd \in AddOrder /\ cmd.order_id \in Ids /\ cmd.quantity \in Int
    BY <1>3, CommandTyped, ConstantsAssumption DEF AddAccept
  <2>2. [NoRecord EXCEPT !.open = cmd.quantity] \in [open: Int, arrived: Nat]
    BY <2>1 DEF NoRecord
  <2>3. ledger' \in Records
    BY <1>3, <2>1, <2>2 DEF AddAccept, ControlType, Records
  <2> QED
    BY <1>3, <2>1, <2>3 DEF AddAccept, ControlType
<1>4. CASE MatchExit
  BY <1>4 DEF MatchExit, ControlType
<1>5. CASE AddRest
  <2>1. pc = "finish" /\ cmd \in AddOrder /\ cmd.order_id \in Ids
    BY <1>5, CommandTyped DEF AddRest
  <2>2. sequence' \in Nat
    BY <1>5 DEF AddRest, ControlType
  <2>3. ledger' \in Records
    BY <1>5, <2>1, <2>2 DEF AddRest, ControlType, Records
  <2>4. CASE Return
    BY <1>5, <2>2, <2>3, <2>4, ReturnTyped DEF AddRest
  <2>5. CASE pc' = "error" /\ UNCHANGED <<cmd, remaining, trades>>
    BY <1>5, <2>1, <2>2, <2>3, <2>5 DEF AddRest, ControlType
  <2> QED
    BY <1>5, <2>4, <2>5 DEF AddRest
<1>6. CASE AddCancelRemainder
  <2>1. cmd.order_id \in Ids /\ remaining \in Int /\ ledger \in Records
    BY <1>6, CommandTyped DEF AddCancelRemainder, ControlType
  <2>2. sequence' \in Nat /\ UNCHANGED <<saved, todo>> /\ Return
    BY <1>6 DEF AddCancelRemainder, ControlType
  <2>3. ledger' \in Records
    BY <1>6, <2>1, ClosedTyped DEF AddCancelRemainder
  <2> QED
    BY <2>2, <2>3, ReturnTyped
<1>7. CASE AddReturn
  <2>1. sequence' \in Nat /\ ledger' \in Records /\ UNCHANGED <<saved, todo>> /\ Return
    BY <1>7 DEF AddReturn, ControlType
  <2> QED
    BY <2>1, ReturnTyped
<1> QED
  BY <1>1, <1>2, <1>3, <1>4, <1>5, <1>6, <1>7

\* The matching loop keeps the control state typed.
LEMMA MatchTyped ==
    ASSUME BooksGood, ControlType, NEW p \in Prices, MatchSelf(p) \/ MatchFill(p)
    PROVE  ControlType'
<1> DEFINE passive == Head(Level(p))
           fill == IF remaining < passive.remaining THEN remaining ELSE passive.remaining
<1>1. Matching(p) /\ pc = "match"
  BY DEF MatchSelf, MatchFill, Matching
<1>2. passive \in RestingOrder /\ passive.remaining \in Int /\ fill \in Int
  BY <1>1, FillQuantities
<1>3. passive.order_id \in Ids
  BY <1>2 DEF RestingOrder
<1>4. cmd \in AddOrder /\ cmd.order_id \in Ids
  BY <1>1, CommandTyped
<1>5. remaining \in Int /\ ledger \in Records /\ trades \in Seq(TradeReport) /\ sequence \in Nat
  BY DEF ControlType
<1> HIDE DEF passive, fill
<1>6. CASE MatchSelf(p)
  <2> DEFINE reported == IF DropPassive THEN Closed(ledger, passive.order_id, passive.remaining)
                                        ELSE ledger
  <2>1. reported \in Records
    BY <1>2, <1>3, <1>5, ClosedTyped
  <2>2. ledger' = IF DropAggressor THEN Closed(reported, cmd.order_id, remaining) ELSE reported
    BY <1>6 DEF MatchSelf, passive
  <2> HIDE DEF reported
  <2>3. ledger' \in Records
    BY <1>4, <1>5, <2>1, <2>2, ClosedTyped
  <2>4. sequence' \in Nat /\ remaining' \in Int
    BY <1>5, <1>6 DEF MatchSelf, KeptAfterSelfTrade
  <2> QED
    BY <1>4, <1>6, <2>3, <2>4 DEF MatchSelf, ControlType
<1>7. CASE MatchFill(p)
  <2>1. /\ remaining' = remaining - fill
        /\ trades' = Append(trades, BuildTrade(passive, fill))
        /\ sequence' = sequence + 1
        /\ ledger' = Closed(Closed(ledger, passive.order_id, fill), cmd.order_id, fill)
        /\ pc' \in {"match", "error"}
        /\ UNCHANGED <<cmd, saved, todo>>
    BY <1>7 DEF MatchFill, passive, fill
  <2>2. trades' \in Seq(TradeReport)
    BY <1>2, <1>4, <1>5, <2>1, TradeTyped
  <2>3. Closed(ledger, passive.order_id, fill) \in Records
    BY <1>2, <1>3, <1>5, ClosedTyped
  <2>4. ledger' \in Records
    BY <1>2, <1>4, <2>1, <2>3, ClosedTyped
  <2>5. remaining' \in Int /\ sequence' \in Nat
    BY <1>2, <1>5, <2>1
  <2> QED
    BY <1>4, <2>1, <2>2, <2>4, <2>5 DEF ControlType
<1> QED
  BY <1>6, <1>7

\* remove_resting() keeps the ledger and the sequence number typed.
LEMMA CancelTyped ==
    ASSUME BooksGood, ControlType, NEW id \in Ids, CancelResting(id)
    PROVE  ledger' \in Records /\ sequence' \in Nat
<1> DEFINE l == index[id]
           q == queue[l.symbol][l.side][l.price]
<1>1. l # NULL /\ sequence' = sequence + 1 /\ sequence \in Nat /\ ledger \in Records
  BY DEF CancelResting, ControlType
<1>2. PICK i \in 1..Len(q) : ledger' = Closed(ledger, id, q[i].remaining)
  BY DEF CancelResting
<1>3. q \in Lists
  <2>1. BookType /\ BookInv
    BY DEF BooksGood
  <2>2. l.symbol \in Symbols /\ l.side \in Sides /\ l.price \in Prices
    BY <1>1, <2>1, EntryAt
  <2> QED
    BY <2>1, <2>2 DEF BookType
<1> HIDE DEF q
<1>4. q[i].remaining \in Int
  BY <1>3, ListNodes DEF RestingOrder
<1> QED
  BY <1>1, <1>2, <1>4, ClosedTyped

\* replace() hands a well-formed command to add().
LEMMA ReplaceTyped ==
    ASSUME BooksGood, ControlType,
           NEW id \in Ids, NEW newId \in Ids, NEW s \in Symbols, NEW p \in Prices,
           NEW quantity \in Quantities, NEW style \in Styles,
           Replace(id, newId, s, p, quantity, style[1])
    PROVE  ControlType'
<1> DEFINE l == index[id]
           q == queue[l.symbol][l.side][l.price]
<1>1. CancelResting(id) /\ l # NULL /\ pc' = "add" /\ UNCHANGED <<remaining, trades, saved, todo>>
  BY DEF Replace, CancelResting
<1>2. ledger' \in Records /\ sequence' \in Nat
  BY <1>1, CancelTyped
<1>3. PICK i \in 1..Len(q) :
         cmd' = [symbol |-> s, order_id |-> newId, participant |-> q[i].participant,
                 side |-> l.side, price |-> p, quantity |-> quantity,
                 tif |-> style[1], stp |-> "None"]
  BY DEF Replace
<1>4. l.side \in Sides /\ q \in Lists
  <2>1. BookType /\ BookInv
    BY DEF BooksGood
  <2>2. l.symbol \in Symbols /\ l.side \in Sides /\ l.price \in Prices
    BY <1>1, <2>1, EntryAt
  <2> QED
    BY <2>1, <2>2 DEF BookType
<1>5. style[1] \in TimeInForce
  BY ConstantsAssumption
<1> HIDE DEF q, l
<1>6. q[i].participant \in Participants
  BY <1>4, ListNodes DEF RestingOrder
<1>7. cmd' \in AddOrder
  BY <1>3, <1>4, <1>5, <1>6 DEF AddOrder, SelfTradePrevention
<1> QED
  BY <1>1, <1>2, <1>7 DEF ControlType

\* Every step of the engine keeps the control state typed.
LEMMA ControlStep ==
    ASSUME Inv, Next
    PROVE  ControlType'
<1>0. BooksGood /\ ControlType
  BY TypeParts DEF Inv, BooksGood
<1>1. CASE \/ \E c \in Commands : Add(c)
           \/ AddRejectFok
           \/ AddAccept
           \/ MatchExit
           \/ AddRest
           \/ AddCancelRemainder
           \/ AddReturn
  BY <1>0, <1>1, AddTyped
<1>2. CASE (\E p \in Prices : MatchSelf(p)) \/ (\E p \in Prices : MatchFill(p))
  BY <1>0, <1>2, MatchTyped
<1>3. CASE \E id \in Ids : Cancel(id)
  <2>1. PICK id \in Ids : Cancel(id)
    BY <1>3
  <2>2. ledger' \in Records /\ sequence' \in Nat
    BY <1>0, <2>1, CancelTyped DEF Cancel
  <2> QED
    BY <1>0, <2>1, <2>2 DEF Cancel, ControlType
<1>4. CASE \E id, newId \in Ids, s \in Symbols, p \in Prices, quantity \in Quantities :
              \E style \in Styles : Replace(id, newId, s, p, quantity, style[1])
  BY <1>0, <1>4, ReplaceTyped
<1>5. CASE (\E id \in Ids : RejectUnknown(id)) \/ Reject
  BY <1>0, <1>5 DEF RejectUnknown, Reject, ControlType
<1>6. CASE Query
  BY <1>0, <1>6 DEF Query, vars, ControlType
<1>7. CASE Snapshot
  <2>1. saved' \in Documents
    BY <1>0, <1>7, SnapshotTyped DEF Snapshot, BooksGood
  <2> QED
    BY <1>0, <1>7, <2>1 DEF Snapshot, ControlType
<1>8. CASE LoadSnapshot
  <2>1. saved \in Documents
    BY <1>0, <1>8 DEF LoadSnapshot, ControlType
  <2>2. saved.sequence \in Nat /\ saved.ledger \in Records
    BY <2>1 DEF Documents
  <2>3. Document \subseteq Symbols \X Sides \X Prices \X (Nat \ {0})
    BY <2>1, DocumentTyped
  <2> QED
    BY <1>0, <1>8, <2>2, <2>3 DEF LoadSnapshot, ControlType
<1>9. CASE LoadInvalid
  <2>1. [id \in Ids |-> NoRecord] \in Records
    BY DEF NoRecord, Records
  <2> QED
    BY <1>0, <1>9, <2>1 DEF LoadInvalid, ControlType
<1>10. CASE \E t \in todo : RestoreOrder(t)
  BY <1>0, <1>10 DEF RestoreOrder, ControlType
<1>11. CASE LoadReturn
  BY <1>0, <1>11 DEF LoadReturn, ControlType
<1> QED
  BY <1>1, <1>2, <1>3, <1>4, <1>5, <1>6, <1>7, <1>8, <1>9, <1>10, <1>11
  DEF Next, Step, Request

-----------------------------------------------------------------------------
(***************************************************************************)
(* Every step keeps the facts that tie the books to the call in progress.  *)
(***************************************************************************)

\* A best price beyond the limit means that the whole side is.
LEMMA ExitScanDone ==
    ASSUME BooksGood, ControlType, MatchExit
    PROVE  ScanDone'
<1>0. /\ pc = "match"
      /\ UNCHANGED <<levels, cmd, remaining>>
      /\ \/ remaining <= 0
         \/ levels[cmd.symbol][Opposite(cmd.side)] = {}
         \/ \E p \in Prices : IsBest(cmd.symbol, Opposite(cmd.side), p) /\ ~Accepts(cmd, p)
  BY DEF MatchExit, bookVars
<1>1. /\ cmd.symbol \in Symbols /\ cmd.side \in Sides /\ Opposite(cmd.side) \in Sides
      /\ cmd.price \in Int /\ remaining \in Int
      /\ levels[cmd.symbol][Opposite(cmd.side)] \subseteq Int
  BY <1>0, CommandTyped, ConstantsAssumption, ZenonT(30) DEF ControlType, BooksGood, BookType
<1> SUFFICES ASSUME remaining > 0, cmd.tif # "MARKET",
                    NEW r \in levels[cmd.symbol][Opposite(cmd.side)]
             PROVE  ~Accepts(cmd, r)
  BY <1>0 DEF ScanDone, Accepts
<1>2. PICK p \in Prices : IsBest(cmd.symbol, Opposite(cmd.side), p) /\ ~Accepts(cmd, p)
  BY <1>0, <1>1
<1>3. r \in Int /\ p \in Int /\ AtLeast(Opposite(cmd.side), p, r)
      /\ ~AtLeast(Opposite(cmd.side), p, cmd.price)
  BY <1>1, <1>2, ConstantsAssumption DEF IsBest, Accepts
<1>4. ~AtLeast(Opposite(cmd.side), r, cmd.price)
  BY <1>1, <1>3 DEF AtLeast
<1> QED
  BY <1>4 DEF Accepts

\* A document of uncrossed, well-formed books.
LEMMA SnapshotSaved ==
    ASSUME BooksGood, Snapshot
    PROVE  SavedInv'
<1>1. saved'.levels = levels /\ saved'.queue = SerializedQueues
  BY DEF Snapshot
<1> SUFFICES ASSUME NEW s \in Symbols
             PROVE  /\ ~Crossed(saved'.levels, s)
                    /\ \A d \in Sides, p \in Prices : \A i \in 1..Len(saved'.queue[s][d][p]) :
                          /\ p \in saved'.levels[s][d]
                          /\ saved'.queue[s][d][p][i].remaining > 0
  BY DEF SavedInv, Crossed
<1>2. ~Crossed(saved'.levels, s)
  BY <1>1 DEF BooksGood, NeverCrossed
<1>3. ASSUME NEW d \in Sides, NEW p \in Prices, NEW i \in 1..Len(saved'.queue[s][d][p])
      PROVE  p \in saved'.levels[s][d] /\ saved'.queue[s][d][p][i].remaining > 0
  <2> DEFINE q == queue[s][d][p]
  <2>1. /\ q \in Lists
        /\ p \in levels[s][d] <=> q # <<>>
        /\ \A j \in 1..Len(q) : q[j].remaining > 0
    BY ListAt DEF BooksGood
  <2>2. saved'.queue[s][d][p] = Serialize(q)
    BY <1>1 DEF SerializedQueues
  <2> HIDE DEF q
  <2>3. i \in 1..Len(q) /\ Serialize(q)[i].remaining = q[i].remaining
    BY <2>1, <2>2, SerializeTyped
  <2>4. q # <<>>
    BY <2>1, <2>3 DEF Lists
  <2> QED
    BY <1>1, <2>1, <2>2, <2>3, <2>4
<1> QED
  BY <1>2, <1>3

\* Every step keeps the saved document one of good books.
LEMMA SavedStep ==
    ASSUME Inv, Next
    PROVE  SavedInv'
<1>0. BooksGood
  BY TypeParts DEF Inv, BooksGood
<1>1. CASE Snapshot
  BY <1>0, <1>1, SnapshotSaved
<1>2. CASE saved' = saved
  BY <1>2 DEF Inv, SavedInv, Crossed
<1> QED
  BY <1>1, <1>2
  DEF Next, Step, Request, AddRejectFok, AddAccept, MatchSelf, MatchFill, MatchExit, AddRest,
      AddCancelRemainder, AddReturn, RestoreOrder, LoadReturn, Add, Cancel, RejectUnknown,
      Replace, Reject, Query, LoadSnapshot, LoadInvalid, vars

\* Every step keeps what the control point promises: no exception, a finished scan.
LEMMA FlowStep ==
    ASSUME Inv, Next
    PROVE  NoEngineError' /\ ScanDone' /\ LoadInv'
<1>0. BooksGood /\ ControlType /\ ScanDone /\ SavedInv /\ LoadInv /\ pc # "error"
  BY TypeParts DEF Inv, BooksGood, NoEngineError
<1>1. ASSUME pc' \in {"idle", "add", "match"}
      PROVE  NoEngineError' /\ ScanDone' /\ LoadInv'
  BY <1>1 DEF NoEngineError, ScanDone, LoadInv
<1>2. CASE \E p \in Prices : MatchFill(p)
  <2>1. PICK p \in Prices : MatchFill(p)
    BY <1>2
  <2> DEFINE passive == Head(Level(p))
             fill == IF remaining < passive.remaining THEN remaining ELSE passive.remaining
  <2>2. Matching(p) /\ pc' = IF fill > 0 /\ passive.symbol = cmd.symbol THEN "match" ELSE "error"
    BY <2>1 DEF MatchFill
  <2>3. fill > 0 /\ passive.symbol = cmd.symbol
    BY <1>0, <2>2, FillQuantities
  <2> QED
    BY <1>1, <2>2, <2>3
<1>3. CASE AddRest
  <2>1. ~Crossed(levels', cmd.symbol)
    BY <1>0, <1>3, AddRestBooks
  <2>2. pc' = "idle"
    BY <1>3, <2>1 DEF AddRest, Return
  <2> QED
    BY <1>1, <2>2
<1>4. CASE MatchExit
  <2>1. pc' = "finish"
    BY <1>4 DEF MatchExit
  <2> QED
    BY <1>0, <1>4, <2>1, ExitScanDone DEF NoEngineError, LoadInv
<1>5. CASE LoadSnapshot
  <2>1. pc' = "load" /\ saved' = saved /\ saved # NULL /\ todo' = Document /\ Clear
    BY <1>5 DEF LoadSnapshot
  <2>2. \A s \in Symbols, d \in Sides : levels'[s][d] = {}
    BY <2>1 DEF Clear, EmptyLevels
  <2>3. Document' = Document
    BY <2>1 DEF Document
  <2> QED
    BY <2>1, <2>2, <2>3 DEF NoEngineError, ScanDone, LoadInv
<1>6. CASE \E t \in todo : RestoreOrder(t)
  <2>1. PICK t \in todo : RestoreOrder(t)
    BY <1>6
  <2>2. pc = "load" /\ pc' = pc /\ saved' = saved /\ todo' = todo \ {t}
    BY <2>1 DEF RestoreOrder
  <2>3. \A s \in Symbols, d \in Sides : levels'[s][d] \subseteq saved.levels[s][d]
    BY <1>0, <2>1, RestoreBooks
  <2>4. Document' = Document
    BY <2>2 DEF Document
  <2> QED
    BY <1>0, <2>2, <2>3, <2>4 DEF NoEngineError, ScanDone, LoadInv
<1>7. CASE \/ AddRejectFok
           \/ AddAccept
           \/ \E p \in Prices : MatchSelf(p)
           \/ AddCancelRemainder
           \/ AddReturn
           \/ LoadReturn
  <2>1. pc' \in {"idle", "match"}
    BY <1>7 DEF AddRejectFok, AddAccept, MatchSelf, Matching, AddCancelRemainder, AddReturn,
                LoadReturn, Return
  <2> QED
    BY <1>1, <2>1
<1>8. CASE \/ \E c \in Commands : Add(c)
           \/ \E id \in Ids : Cancel(id)
           \/ \E id \in Ids : RejectUnknown(id)
           \/ \E id, newId \in Ids, s \in Symbols, p \in Prices, quantity \in Quantities :
                 \E style \in Styles : Replace(id, newId, s, p, quantity, style[1])
           \/ Reject
           \/ Query
           \/ Snapshot
           \/ LoadInvalid
  <2>1. pc' \in {"idle", "add"}
    BY <1>8 DEF Add, Cancel, RejectUnknown, Replace, Reject, Query, Snapshot, LoadInvalid, Call,
                vars
  <2> QED
    BY <1>1, <2>1
<1> QED
  BY <1>2, <1>3, <1>4, <1>5, <1>6, <1>7, <1>8 DEF Next, Step, Request

-----------------------------------------------------------------------------
(***************************************************************************)
(* The theorems.                                                           *)
(***************************************************************************)
\* A newly constructed engine satisfies the invariant.
LEMMA InitInv == Init => Inv
<1> SUFFICES ASSUME Init PROVE Inv
  OBVIOUS
<1>1. BooksGood
  <2>1. NoOrders
    BY DEF Init, NoOrders
  <2> QED
    BY <2>1, EmptyBooks
<1>2. ControlType
  <2>1. ledger \in Records
    BY DEF Init, NoRecord, Records
  <2>2. trades \in Seq(TradeReport)
    BY DEF Init
  <2> QED
    BY <2>1, <2>2 DEF Init, ControlType
<1>3. NoEngineError /\ ScanDone /\ SavedInv /\ LoadInv
  BY DEF Init, NoEngineError, ScanDone, SavedInv, LoadInv
<1> QED
  BY <1>1, <1>2, <1>3, TypeParts DEF Inv, BooksGood

\* Every step of every operation preserves the invariant.
LEMMA StepInv == Inv /\ [Next]_vars => Inv'
<1>1. ASSUME Inv, Next PROVE Inv'
  <2>1. BooksGood' /\ ControlType'
    BY <1>1, BookStep, ControlStep
  <2>2. TypeOK'
    BY <2>1 DEF BooksGood, TypeOK, BookType, ControlType, Lists
  <2>3. SavedInv' /\ NoEngineError' /\ ScanDone' /\ LoadInv'
    BY <1>1, SavedStep, FlowStep
  <2> QED
    BY <2>1, <2>2, <2>3 DEF Inv, BooksGood
<1>2. ASSUME Inv, UNCHANGED vars PROVE Inv'
  <2>0. UNCHANGED <<levels, queue, index, sequence, nodes, pc, cmd, remaining, trades, ledger,
                    saved, todo>>
    BY <1>2 DEF vars
  <2>1. TypeOK'
    BY <1>2, <2>0 DEF Inv, TypeOK
  <2>2. BookInv' /\ NeverCrossed'
    BY <1>2, <2>0
    DEF Inv, BookInv, LevelsExact, NodesUnique, IndexSound, NeverCrossed, Crossed
  <2>3. NoEngineError' /\ ScanDone' /\ SavedInv' /\ LoadInv'
    <3>1. Document' = Document
      BY <2>0 DEF Document
    <3> QED
      BY <1>2, <2>0, <3>1 DEF Inv, NoEngineError, ScanDone, SavedInv, LoadInv, Accepts, Crossed
  <2> QED
    BY <2>1, <2>2, <2>3 DEF Inv
<1> QED
  BY <1>1, <1>2

\* The invariant holds in every state of every behaviour of the engine.
THEOREM Invariance == Spec => []Inv
  BY InitInv, StepInv, PTL DEF Spec

\* Every variable keeps its type, and add() has a command exactly while it runs.
THEOREM TypeCorrect == Spec => []TypeOK
<1>1. Inv => TypeOK
  BY DEF Inv
<1> QED
  BY <1>1, Invariance, PTL

\* "The resting book never crosses", whatever ids, prices and quantities callers
\* use and however they mix add, cancel, replace and reloading.
THEOREM BookNeverCrosses == Spec => []NeverCrossed
<1>1. Inv => NeverCrossed
  BY DEF Inv
<1> QED
  BY <1>1, Invariance, PTL

\* The exceptions add() guards its arithmetic and its books with are never thrown.
THEOREM EngineNeverThrows == Spec => []NoEngineError
<1>1. Inv => NoEngineError
  BY DEF Inv
<1> QED
  BY <1>1, Invariance, PTL

\* No entry of index_ dangles, even when callers reuse the ids of resting orders.
THEOREM IndexNeverDangles == Spec => []IndexSound
<1>1. Inv => IndexSound
  BY DEF Inv, BookInv
<1> QED
  BY <1>1, Invariance, PTL

\* The keys of the price maps are exactly the prices orders rest at, and every
\* order is filed where it belongs.
THEOREM LevelsStayExact == Spec => []LevelsExact
<1>1. Inv => LevelsExact
  BY DEF Inv, BookInv
<1> QED
  BY <1>1, Invariance, PTL

-----------------------------------------------------------------------------
(***************************************************************************)
(* Fill-or-kill.  What the books hold for an accepted order shrinks by as  *)
(* much as what is left of it, so the loop cannot run out of supply.       *)
(***************************************************************************)

\* A book has finitely many price levels.
FiniteLevels == \A s \in Symbols, d \in Sides : IsFiniteSet(levels[s][d])

\* What trades ts execute.
Executed(ts) == SumFunction([i \in DOMAIN ts |-> ts[i].quantity])

\* A fill-or-kill order that self-trade prevention cannot rob of its supply.
SureFok == cmd.tif = "FOK" /\ cmd.stp # "CancelPassive"

\* add() starts without trades.
FreshTrades == pc \in {"idle", "add", "load"} => trades = <<>>

\* Where the style of a command comes from: its caller, or replace().
StyleKnown ==
    pc \in {"add", "match", "finish"} => <<cmd.tif, cmd.stp>> \in Styles \/ cmd.stp = "None"

\* The matching loop never takes more than is left.
NotOverfilled == pc \in {"match", "finish"} => remaining >= 0

\* Without self-trade prevention, what is not left has been executed.
RestExecuted ==
    pc \in {"match", "finish"} /\ cmd.stp = "None" => Executed(trades) = cmd.quantity - remaining

\* The books still hold all that an accepted fill-or-kill order needs ...
FokCovered ==
    pc = "match" /\ SureFok /\ remaining > 0 =>
        AvailableVolume(cmd.symbol, Opposite(cmd.side), cmd.price) >= remaining

\* ... so that nothing is left of it when the matching loop ends.
FokDone == pc = "finish" /\ SureFok => remaining = 0

\* What FokAllOrNothing needs.
FokInv ==
    /\ FiniteLevels
    /\ FreshTrades
    /\ StyleKnown
    /\ NotOverfilled
    /\ RestExecuted
    /\ FokCovered
    /\ FokDone

-----------------------------------------------------------------------------
\* The supply of a side with these keys and these lists.
SupplyOf(keys, lists, d, limit) ==
    UNION {ToSet(lists[p]) : p \in {q \in keys : AtLeast(d, q, limit)}}

\* The quantity a set of orders has left.
VolumeOf(S) == SumFunctionOnSet([o \in S |-> o.remaining], S)

\* Order o has a place at the limit or better.
Supplied(o, keys, lists, d, limit) ==
    \E p \in keys : AtLeast(d, p, limit) /\ \E i \in 1..Len(lists[p]) : o = lists[p][i]

\* The orders of the supply, by place.
LEMMA SupplyPlaces ==
    ASSUME NEW keys \in SUBSET Prices, NEW lists \in [Prices -> Lists], NEW d, NEW limit
    PROVE  \A o : o \in SupplyOf(keys, lists, d, limit) <=> Supplied(o, keys, lists, d, limit)
<1> DEFINE F(p) == ToSet(lists[p])
           K == {q \in keys : AtLeast(d, q, limit)}
<1>1. SupplyOf(keys, lists, d, limit) = UNION {F(p) : p \in K}
  BY DEF SupplyOf
<1>2. ASSUME NEW p \in keys
      PROVE  \A o : o \in F(p) <=> \E i \in 1..Len(lists[p]) : o = lists[p][i]
  <2>1. lists[p] \in Lists
    OBVIOUS
  <2>2. ASSUME NEW q \in Lists
        PROVE  \A o : o \in ToSet(q) <=> \E i \in 1..Len(q) : o = q[i]
    BY DEF ToSet, Lists
  <2> QED
    BY <2>1, <2>2
<1> HIDE DEF F
<1>3. \A o : o \in SupplyOf(keys, lists, d, limit) <=> \E p \in K : o \in F(p)
  BY <1>1
<1> QED
  BY <1>2, <1>3 DEF Supplied

\* The supply of finitely many levels is finite, and its quantities are numbers.
LEMMA SupplyFinite ==
    ASSUME NEW keys \in SUBSET Prices, NEW lists \in [Prices -> Lists], NEW d, NEW limit,
           IsFiniteSet(keys)
    PROVE  /\ IsFiniteSet(SupplyOf(keys, lists, d, limit))
           /\ \A o \in SupplyOf(keys, lists, d, limit) : o.remaining \in Int
<1> DEFINE f == [p \in Prices |-> ToSet(lists[p])]
           K == {q \in keys : AtLeast(d, q, limit)}
           T == {f[p] : p \in K}
<1>1. K \subseteq Prices /\ K \in SUBSET keys
  OBVIOUS
<1>2. IsFiniteSet(K)
  <2> HIDE DEF K
  <2> QED
    BY <1>1, FS_Subset
<1>3. T = {ToSet(lists[p]) : p \in K}
  BY <1>1
<1>4. IsFiniteSet(T)
  <2> HIDE DEF f, K
  <2> QED
    BY <1>2, ImageFinite
<1>5. ASSUME NEW x \in T PROVE IsFiniteSet(x)
  <2>1. PICK p \in K : x = ToSet(lists[p])
    BY <1>3
  <2> DEFINE q == lists[p]
  <2>2. q \in Lists
    BY <1>1
  <2> HIDE DEF q
  <2>3. IsFiniteSet(1..Len(q))
    BY <2>2, FS_Interval DEF Lists
  <2>4. x = {q[i] : i \in 1..Len(q)}
    BY <2>1, <2>2 DEF ToSet, Lists, q
  <2> QED
    BY <2>3, <2>4, ImageFinite
<1>6. IsFiniteSet(UNION T)
  <2> HIDE DEF T
  <2> QED
    BY <1>4, <1>5, FS_UNION
<1>7. SupplyOf(keys, lists, d, limit) = UNION T
  BY <1>3 DEF SupplyOf
<1>8. ASSUME NEW o \in SupplyOf(keys, lists, d, limit) PROVE o.remaining \in Int
  <2>1. PICK p \in keys : \E i \in 1..Len(lists[p]) : o = lists[p][i]
    BY SupplyPlaces DEF Supplied
  <2>2. lists[p] \in Lists
    OBVIOUS
  <2>3. o \in RestingOrder
    BY <2>1, <2>2, ListNodes
  <2> QED
    BY <2>3 DEF RestingOrder
<1> QED
  BY <1>6, <1>7, <1>8

\* The quantity of a set of orders, and what is left of it without one of them.
LEMMA VolumeLost ==
    ASSUME NEW S, IsFiniteSet(S), \A o \in S : o.remaining \in Int
    PROVE  /\ VolumeOf(S) \in Int
           /\ S = {} => VolumeOf(S) = 0
           /\ \A o \in S : VolumeOf(S \ {o}) = VolumeOf(S) - o.remaining
<1> DEFINE f == [x \in S |-> x.remaining]
<1>1. \A x \in S : f[x] \in Int /\ f[x] = x.remaining
  OBVIOUS
<1>2. VolumeOf(S) = SumFunctionOnSet(f, S)
  BY DEF VolumeOf
<1>3. SumFunctionOnSet(f, S) \in Int
  <2> HIDE DEF f
  <2> QED
    BY <1>1, SumPick
<1>4. S = {} => SumFunctionOnSet(f, S) = 0
  <2> HIDE DEF f
  <2> QED
    BY SumEmpty
<1>5. ASSUME NEW o \in S PROVE VolumeOf(S \ {o}) = VolumeOf(S) - o.remaining
  <2> DEFINE rest == S \ {o}
             e == [x \in rest |-> x.remaining]
  <2>1. VolumeOf(rest) = SumFunctionOnSet(e, rest)
    BY DEF VolumeOf
  <2>2. IsFiniteSet(rest)
    BY FS_RemoveElement
  <2>3. \A x \in rest : f[x] \in Int /\ e[x] = f[x]
    OBVIOUS
  <2>4. f[o] = o.remaining /\ f[o] \in Int
    OBVIOUS
  <2> HIDE DEF f, e
  <2>5. SumFunctionOnSet(f, S) = f[o] + SumFunctionOnSet(f, rest)
    BY <1>1, SumPick
  <2> HIDE DEF rest
  <2>6. SumFunctionOnSet(f, rest) = SumFunctionOnSet(e, rest)
        /\ SumFunctionOnSet(f, rest) \in Int
    BY <2>2, <2>3, SumSame, SumPick
  <2>7. VolumeOf(rest) \in Int /\ VolumeOf(S) = o.remaining + VolumeOf(rest) /\ o.remaining \in Int
    BY <1>2, <2>1, <2>4, <2>5, <2>6
  <2>8. VolumeOf(rest) = VolumeOf(S) - o.remaining
    BY <2>7
  <2> QED
    BY <2>8 DEF rest
<1> QED
  BY <1>2, <1>3, <1>4, <1>5

\* The orders of each list have its price, and the nodes of list p differ.
Filed(lists, p) ==
    /\ \A r \in Prices : \A i \in 1..Len(lists[r]) : lists[r][i].price = r
    /\ \A i, j \in 1..Len(lists[p]) : lists[p][i].node = lists[p][j].node => i = j

\* The front order of list p is popped.
PoppedAt(left, after, keys, lists, p) ==
    /\ \A r \in Prices : after[r] = IF r = p THEN Tail(lists[p]) ELSE lists[r]
    /\ left = IF Tail(lists[p]) = <<>> THEN keys \ {p} ELSE keys

\* The front order of a level within the limit leaves the supply when it is popped.
LEMMA SupplyPopped ==
    ASSUME NEW keys \in SUBSET Prices, NEW lists \in [Prices -> Lists], NEW d, NEW limit,
           NEW p \in keys, AtLeast(d, p, limit), lists[p] # <<>>,
           Filed(lists, p), NEW left, NEW after \in [Prices -> Lists],
           PoppedAt(left, after, keys, lists, p)
    PROVE  /\ lists[p][1] \in SupplyOf(keys, lists, d, limit)
           /\ SupplyOf(left, after, d, limit) = SupplyOf(keys, lists, d, limit) \ {lists[p][1]}
<1>1. left \in SUBSET Prices /\ left \subseteq keys
  BY DEF PoppedAt
<1>2. \A x : x \in SupplyOf(keys, lists, d, limit) <=> Supplied(x, keys, lists, d, limit)
  BY SupplyPlaces
<1>3. \A x : x \in SupplyOf(left, after, d, limit) <=> Supplied(x, left, after, d, limit)
  BY <1>1, SupplyPlaces
<1> DEFINE q == lists[p]
           o == q[1]
<1>4. p \in Prices /\ q \in Lists /\ q # <<>>
  OBVIOUS
<1>5. /\ Len(q) \in Nat \ {0} /\ Len(Tail(q)) = Len(q) - 1
      /\ \A j \in 1..Len(Tail(q)) : Tail(q)[j] = q[j + 1]
  <2> HIDE DEF q
  <2> QED
    BY <1>4, TailList DEF Lists
<1>6. after[p] = Tail(q) /\ \A r \in Prices : r # p => after[r] = lists[r]
  BY <1>4 DEF PoppedAt
<1>7. \A i \in 1..Len(q) : q[i] = o => i = 1
  <2>1. 1 \in 1..Len(q)
    BY <1>5
  <2> QED
    BY <2>1 DEF Filed
<1> DEFINE before == SupplyOf(keys, lists, d, limit)
           now == SupplyOf(left, after, d, limit)
<1>8. \A x : x \in before <=> \E r \in keys : /\ AtLeast(d, r, limit)
                                              /\ \E i \in 1..Len(lists[r]) : x = lists[r][i]
  BY <1>2, Zenon DEF Supplied
<1>9. \A x : x \in now <=> \E r \in left : /\ AtLeast(d, r, limit)
                                           /\ \E i \in 1..Len(after[r]) : x = after[r][i]
  BY <1>3, Zenon DEF Supplied
<1> HIDE DEF before, now
<1>10. o \in before
  <2>1. 1 \in 1..Len(q)
    BY <1>5
  <2> QED
    BY <1>8, <2>1
<1>11. ASSUME NEW x \in now PROVE x \in before /\ x # o
  <2>1. PICK r \in left : AtLeast(d, r, limit) /\ \E i \in 1..Len(after[r]) : x = after[r][i]
    BY <1>9
  <2>2. PICK i \in 1..Len(after[r]) : x = after[r][i]
    BY <2>1
  <2>3. r \in keys /\ r \in Prices
    BY <1>1
  <2>4. CASE r = p
    <3>1. after[r] = Tail(q)
      BY <1>6, <2>4
    <3> HIDE DEF q
    <3>2. i \in 1..Len(Tail(q)) /\ x = q[i + 1] /\ i + 1 \in 1..Len(q) /\ i + 1 # 1
      BY <1>5, <2>2, <3>1
    <3>3. x # o
      BY <1>7, <3>2
    <3>4. x \in before
      BY <1>8, <2>1, <2>3, <2>4, <3>2 DEF q
    <3> QED
      BY <3>3, <3>4
  <2>5. CASE r # p
    <3>1. i \in 1..Len(lists[r]) /\ x = lists[r][i]
      BY <1>6, <2>2, <2>3, <2>5
    <3>2. x.price = r
      BY <2>3, <3>1 DEF Filed
    <3>3. o.price = p
      BY <1>4, <1>5 DEF Filed
    <3> HIDE DEF o
    <3> QED
      BY <1>8, <2>1, <2>3, <2>5, <3>1, <3>2, <3>3
  <2> QED
    BY <2>4, <2>5
<1>12. ASSUME NEW x \in before, x # o PROVE x \in now
  <2>1. PICK r \in keys : AtLeast(d, r, limit) /\ \E i \in 1..Len(lists[r]) : x = lists[r][i]
    BY <1>8
  <2>2. PICK i \in 1..Len(lists[r]) : x = lists[r][i]
    BY <2>1
  <2>3. CASE r = p
    <3>1. i \in 1..Len(q) /\ x = q[i] /\ i # 1
      BY <1>12, <2>2, <2>3
    <3> DEFINE j == i - 1
    <3> HIDE DEF q
    <3>2. j \in 1..Len(Tail(q)) /\ j + 1 = i
      BY <1>5, <3>1
    <3>3. Tail(q)[j] = x
      BY <1>5, <3>1, <3>2
    <3>4. Tail(q) # <<>>
      <4>1. Len(Tail(q)) # 0
        BY <1>5, <3>2
      <4>2. Len(<<>>) = 0
        OBVIOUS
      <4> QED
        BY <4>1, <4>2, Zenon
    <3> HIDE DEF j
    <3>5. p \in left
      BY <3>4 DEF q, PoppedAt
    <3> QED
      BY <1>6, <1>9, <2>1, <2>3, <3>2, <3>3, <3>5
  <2>4. CASE r # p
    <3>1. r \in left /\ after[r] = lists[r]
      BY <1>6, <2>4 DEF PoppedAt
    <3> QED
      BY <1>9, <2>1, <2>2, <3>1
  <2> QED
    BY <2>3, <2>4
<1>13. now = before \ {o}
  <2> HIDE DEF o
  <2> QED
    BY <1>11, <1>12
<1> QED
  BY <1>10, <1>13 DEF before, now

\* One more trade executes its quantity.
LEMMA ExecutedAppend ==
    ASSUME NEW ts \in Seq(TradeReport), NEW t \in TradeReport
    PROVE  Executed(Append(ts, t)) = Executed(ts) + t.quantity /\ Executed(ts) \in Int
<1> DEFINE n == Len(ts)
           us == Append(ts, t)
           e == [i \in DOMAIN ts |-> ts[i].quantity]
           f == [i \in DOMAIN us |-> us[i].quantity]
<1>1. /\ n \in Nat /\ DOMAIN ts = 1..n /\ us \in Seq(TradeReport) /\ DOMAIN us = 1..(n + 1)
      /\ us[n + 1] = t /\ \A i \in 1..n : us[i] = ts[i]
  OBVIOUS
<1>2. Executed(ts) = SumFunctionOnSet(e, 1..n) /\ Executed(us) = SumFunctionOnSet(f, 1..(n + 1))
  BY <1>1 DEF Executed, SumFunction
<1>3. t.quantity \in Int /\ \A i \in 1..n : ts[i].quantity \in Int
  <2>1. \A i \in 1..n : ts[i] \in TradeReport
    OBVIOUS
  <2> QED
    BY <2>1 DEF TradeReport
<1> HIDE DEF n, us
<1>4. /\ \A i \in 1..(n + 1) : f[i] \in Int
      /\ \A i \in 1..n : f[i] \in Int /\ e[i] = f[i]
      /\ f[n + 1] = t.quantity
  <2>1. \A i \in 1..n : f[i] = ts[i].quantity /\ e[i] = ts[i].quantity
    BY <1>1
  <2>2. f[n + 1] = t.quantity
    BY <1>1
  <2>3. \A i \in 1..(n + 1) : i \in 1..n \/ i = n + 1
    BY <1>1
  <2> HIDE DEF e, f
  <2> QED
    BY <1>3, <2>1, <2>2, <2>3
<1> DEFINE A == 1..n
           B == 1..(n + 1)
<1>5. IsFiniteSet(A) /\ IsFiniteSet(B)
  BY <1>1, FS_Interval
<1>6. B \ {n + 1} = A /\ n + 1 \in B
  BY <1>1
<1> HIDE DEF e, f, A, B
<1>7. SumFunctionOnSet(f, B) = f[n + 1] + SumFunctionOnSet(f, B \ {n + 1})
  BY <1>4, <1>5, <1>6, SumPick DEF B
<1>8. SumFunctionOnSet(f, A) = SumFunctionOnSet(e, A) /\ SumFunctionOnSet(f, A) \in Int
  BY <1>4, <1>5, SumSame, SumPick DEF A
<1>9. Executed(ts) = SumFunctionOnSet(e, A) /\ Executed(us) = SumFunctionOnSet(f, B)
  BY <1>2 DEF A, B
<1>10. Executed(us) = t.quantity + Executed(ts) /\ Executed(ts) \in Int
  BY <1>4, <1>6, <1>7, <1>8, <1>9
<1>11. Executed(us) = Executed(ts) + t.quantity
  BY <1>3, <1>10
<1> QED
  BY <1>10, <1>11 DEF us

\* Every step adds at most one price to a side.
LEMMA FiniteStep ==
    ASSUME BookType, FiniteLevels, Next
    PROVE  FiniteLevels'
<1> SUFFICES ASSUME NEW s \in Symbols, NEW d \in Sides
             PROVE  IsFiniteSet(levels'[s][d])
  BY DEF FiniteLevels
<1>1. ASSUME NEW t, NEW e, NEW p, NEW q, SetLevel(t, e, p, q)
      PROVE  levels'[s][d] \subseteq levels[s][d]
  BY <1>1 DEF SetLevel, BookType
<1>2. ASSUME NEW c, NEW n, RestOrder(c, n)
      PROVE  levels'[s][d] \subseteq levels[s][d] \cup {c.price}
  BY <1>2 DEF RestOrder, BookType
<1>3. ASSUME Clear PROVE levels'[s][d] = {}
  BY <1>3 DEF Clear, EmptyLevels
<1>4. \E x : levels'[s][d] \subseteq levels[s][d] \cup {x}
  <2>1. CASE \E p \in Prices : MatchSelf(p) \/ MatchFill(p)
    <3>1. levels' = levels \/ \E t, e, p, q : SetLevel(t, e, p, q)
      BY <2>1 DEF MatchSelf, MatchFill
    <3> QED
      BY <1>1, <3>1
  <2>2. CASE \E id \in Ids : CancelResting(id)
    <3>1. \E t, e, p, q : SetLevel(t, e, p, q)
      BY <2>2 DEF CancelResting
    <3> QED
      BY <1>1, <3>1
  <2>3. CASE AddRest \/ \E t \in todo : RestoreOrder(t)
    <3>1. \E c, n : RestOrder(c, n)
      BY <2>3 DEF AddRest, RestoreOrder
    <3> QED
      BY <1>2, <3>1
  <2>4. CASE LoadSnapshot \/ LoadInvalid
    BY <1>3, <2>4 DEF LoadSnapshot, LoadInvalid
  <2>5. CASE levels' = levels
    BY <2>5
  <2> QED
    BY <2>1, <2>2, <2>3, <2>4, <2>5
    DEF Next, Step, Request, AddRejectFok, AddAccept, MatchExit, AddCancelRemainder, AddReturn,
        LoadReturn, Add, Cancel, RejectUnknown, Replace, Reject, Query, Snapshot, bookVars, vars
<1>5. PICK x : levels'[s][d] \subseteq levels[s][d] \cup {x}
  BY <1>4
<1>6. IsFiniteSet(levels[s][d] \cup {x})
  BY FS_AddElement DEF FiniteLevels
<1> QED
  BY <1>5, <1>6, FS_Subset

\* Popping the front order of the best level takes its quantity from the volume
\* a fill-or-kill order counts on.
LEMMA PopVolume ==
    ASSUME BookType, BookInv, BookType', FiniteLevels,
           NEW s \in Symbols, NEW d \in Sides, NEW p \in levels[s][d], NEW limit,
           AtLeast(d, p, limit),
           SetLevel(s, d, p, Tail(queue[s][d][p]))
    PROVE  /\ AvailableVolume(s, d, limit) \in Int
           /\ VolumeOf(SupplyOf(levels'[s][d], queue'[s][d], d, limit))
                 = AvailableVolume(s, d, limit) - queue[s][d][p][1].remaining
<1> DEFINE keys == levels[s][d]
           lists == queue[s][d]
           left == levels'[s][d]
           after == queue'[s][d]
           S == SupplyOf(keys, lists, d, limit)
<1>1. keys \in SUBSET Prices /\ lists \in [Prices -> Lists] /\ after \in [Prices -> Lists]
      /\ p \in Prices /\ p \in keys
  BY DEF BookType
<1>2. lists[p] # <<>>
  BY <1>1, ListAt
<1>3. Filed(lists, p)
  <2>1. \A r \in Prices : \A i \in 1..Len(lists[r]) : lists[r][i].price = r
    BY ListAt
  <2>2. \A i, j \in 1..Len(lists[p]) : lists[p][i].node = lists[p][j].node => i = j
    BY <1>1, ListAt
  <2> QED
    BY <2>1, <2>2 DEF Filed
<1>4. PoppedAt(left, after, keys, lists, p)
  BY <1>1 DEF SetLevel, BookType, PoppedAt
<1>5. AvailableVolume(s, d, limit) = VolumeOf(S)
  BY DEF AvailableVolume, Supply, SumFunction, VolumeOf, SupplyOf
<1>6. IsFiniteSet(keys)
  BY DEF FiniteLevels
<1> HIDE DEF keys, lists, left, after
<1>7. IsFiniteSet(S) /\ \A o \in S : o.remaining \in Int
  BY <1>1, <1>6, SupplyFinite
<1>8. lists[p][1] \in S /\ SupplyOf(left, after, d, limit) = S \ {lists[p][1]}
  BY <1>1, <1>2, <1>3, <1>4, SupplyPopped
<1> HIDE DEF S
<1>9. VolumeOf(S) \in Int /\ VolumeOf(S \ {lists[p][1]}) = VolumeOf(S) - lists[p][1].remaining
  BY <1>7, <1>8, VolumeLost
<1> QED
  BY <1>5, <1>8, <1>9 DEF left, after, lists

\* The available volume is a number, and zero when no level is within the limit.
LEMMA VolumeTyped ==
    ASSUME BookType, FiniteLevels, NEW s \in Symbols, NEW d \in Sides, NEW limit
    PROVE  /\ AvailableVolume(s, d, limit) \in Int
           /\ (\A p \in levels[s][d] : ~AtLeast(d, p, limit)) => AvailableVolume(s, d, limit) = 0
<1> DEFINE keys == levels[s][d]
           lists == queue[s][d]
           S == SupplyOf(keys, lists, d, limit)
<1>1. keys \in SUBSET Prices /\ lists \in [Prices -> Lists] /\ IsFiniteSet(keys)
  BY DEF BookType, FiniteLevels
<1>2. AvailableVolume(s, d, limit) = VolumeOf(S)
  BY DEF AvailableVolume, Supply, SumFunction, VolumeOf, SupplyOf
<1> HIDE DEF keys, lists
<1>3. IsFiniteSet(S) /\ \A o \in S : o.remaining \in Int
  BY <1>1, SupplyFinite
<1>4. (\A p \in keys : ~AtLeast(d, p, limit)) => S = {}
  BY DEF SupplyOf
<1> HIDE DEF S
<1>5. VolumeOf(S) \in Int /\ (S = {} => VolumeOf(S) = 0)
  BY <1>3, VolumeLost
<1> QED
  BY <1>2, <1>4, <1>5 DEF keys

\* What FokInv says about the add() in progress.
Progress ==
    /\ FreshTrades
    /\ StyleKnown
    /\ NotOverfilled
    /\ RestExecuted
    /\ FokCovered
    /\ FokDone

\* An execution takes the same from the order, from the volume and from the rest.
LEMMA FillProgress ==
    ASSUME Inv, Inv', FokInv, NEW p \in Prices, MatchFill(p)
    PROVE  Progress'
<1> DEFINE s == cmd.symbol
           d == Opposite(cmd.side)
           q == queue[s][d][p]
           passive == Head(Level(p))
           fill == IF remaining < passive.remaining THEN remaining ELSE passive.remaining
           left == passive.remaining - fill
<1>0. BooksGood /\ BookType /\ BookInv /\ BookType' /\ ControlType /\ FiniteLevels
  BY TypeParts DEF Inv, BooksGood, FokInv, TypeOK, BookType, Lists
<1>1. /\ Matching(p) /\ pc = "match" /\ p \in levels[s][d] /\ remaining > 0 /\ Accepts(cmd, p)
      /\ cmd' = cmd
      /\ remaining' = remaining - fill
      /\ SetLevel(s, d, p, AfterFill(Level(p), left))
      /\ trades' = Append(trades, BuildTrade(passive, fill))
  BY DEF MatchFill, Matching, IsBest
<1>2. pc' = "match"
  BY DEF MatchFill, Inv, NoEngineError
<1>3. /\ s \in Symbols /\ d \in Sides /\ cmd.price \in Prices /\ cmd.order_id \in Ids
      /\ cmd.quantity \in Int /\ remaining \in Int /\ trades \in Seq(TradeReport)
  BY <1>0, <1>1, CommandTyped, ConstantsAssumption DEF ControlType
<1>4. /\ Level(p) = q /\ q \in Lists /\ q # <<>> /\ passive \in RestingOrder
      /\ passive.remaining \in Int /\ passive.price = p
      /\ fill \in Int /\ fill > 0 /\ left \in Nat
  BY <1>0, <1>1, FillQuantities DEF Level
<1>5. passive = q[1]
  <2> HIDE DEF q
  <2> QED
    BY <1>4, TailList DEF Lists
<1> DEFINE have == passive.remaining
<1>6. /\ fill = IF remaining < have THEN remaining ELSE have
      /\ left = have - fill /\ remaining' = remaining - fill
      /\ have \in Int /\ remaining \in Int /\ fill \in Int
  BY <1>1, <1>3, <1>4
<1>7. remaining' >= 0 /\ (remaining' > 0 => left = 0 /\ fill = have)
  <2> HIDE DEF have, fill, left
  <2> QED
    BY <1>6
<1>8. RestExecuted'
  <2> DEFINE b == BuildTrade(passive, fill)
  <2>1. b \in TradeReport /\ b.quantity = fill
    <3>1. b.quantity = fill
      BY DEF BuildTrade
    <3>2. passive.order_id \in Ids /\ passive.price \in Prices
      BY <1>4 DEF RestingOrder
    <3> HIDE DEF passive, fill
    <3>3. b \in TradeReport
      BY <1>3, <1>4, <3>2 DEF BuildTrade, TradeReport
    <3> QED
      BY <3>1, <3>3
  <2> HIDE DEF b, fill
  <2>2. Executed(trades') = Executed(trades) + fill /\ Executed(trades) \in Int
    BY <1>1, <1>3, <2>1, ExecutedAppend DEF b
  <2>3. ASSUME cmd.stp = "None" PROVE Executed(trades') = cmd.quantity - remaining'
    <3>1. Executed(trades) = cmd.quantity - remaining
      BY <1>1, <2>3 DEF FokInv, RestExecuted
    <3>2. fill \in Int /\ remaining' = remaining - fill
      BY <1>1, <1>4
    <3>3. Executed(trades') = (cmd.quantity - remaining) + fill
      BY <2>2, <3>1
    <3> QED
      BY <1>3, <3>2, <3>3
  <2> QED
    BY <1>1, <1>2, <2>3 DEF RestExecuted
<1>9. FokCovered'
  <2> SUFFICES ASSUME SureFok, remaining' > 0
               PROVE  AvailableVolume(cmd.symbol, Opposite(cmd.side), cmd.price)' >= remaining'
    BY <1>1, <1>2 DEF FokCovered, SureFok
  <2>1. left = 0 /\ fill = passive.remaining
    BY <1>7
  <2>2. SetLevel(s, d, p, Tail(queue[s][d][p]))
    BY <1>1, <1>4, <2>1 DEF AfterFill
  <2>3. AtLeast(d, p, cmd.price)
    BY <1>1 DEF Accepts, SureFok
  <2>4. AvailableVolume(s, d, cmd.price) >= remaining
    BY <1>1 DEF FokInv, FokCovered
  <2>5. AvailableVolume(cmd.symbol, Opposite(cmd.side), cmd.price)'
           = VolumeOf(SupplyOf(levels'[s][d], queue'[s][d], d, cmd.price))
    BY <1>1 DEF AvailableVolume, Supply, SumFunction, VolumeOf, SupplyOf
  <2> HIDE DEF s, d, passive, fill
  <2>6. /\ AvailableVolume(s, d, cmd.price) \in Int
        /\ VolumeOf(SupplyOf(levels'[s][d], queue'[s][d], d, cmd.price))
              = AvailableVolume(s, d, cmd.price) - queue[s][d][p][1].remaining
    BY <1>0, <1>1, <1>3, <2>2, <2>3, PopVolume
  <2>7. queue[s][d][p][1].remaining = fill
    BY <1>5, <2>1
  <2> QED
    BY <1>1, <1>3, <1>4, <2>4, <2>5, <2>6, <2>7
<1>10. NotOverfilled'
  BY <1>7 DEF NotOverfilled
<1>11. StyleKnown'
  BY <1>1, <1>2 DEF FokInv, StyleKnown
<1> QED
  BY <1>2, <1>8, <1>9, <1>10, <1>11 DEF Progress, FreshTrades, FokDone

\* Self-trade prevention never robs a fill-or-kill order of its supply without
\* ending it.
LEMMA SelfProgress ==
    ASSUME Inv, FokInv, NEW p \in Prices, MatchSelf(p)
    PROVE  Progress'
<1>1. /\ pc = "match" /\ pc' = pc /\ cmd' = cmd /\ trades' = trades /\ cmd.stp # "None"
      /\ remaining > 0
      /\ remaining' = IF cmd.stp \in {"CancelAggressor", "CancelBoth"} THEN 0 ELSE remaining
  BY DEF MatchSelf, Matching, SelfTrade, KeptAfterSelfTrade, DropAggressor
<1>2. cmd.stp \in SelfTradePrevention /\ remaining \in Int
  <2>1. cmd \in AddOrder /\ remaining \in Int
    BY <1>1 DEF Inv, TypeOK
  <2> QED
    BY <2>1 DEF AddOrder
<1>3. SureFok => remaining' = 0
  BY <1>1, <1>2 DEF SureFok, SelfTradePrevention
<1>4. remaining' >= 0
  BY <1>1, <1>2
<1> QED
  BY <1>1, <1>3, <1>4
  DEF FokInv, Progress, FreshTrades, StyleKnown, NotOverfilled, RestExecuted, FokCovered,
      FokDone, SureFok

\* The matching loop ends with a fill-or-kill order filled: were anything left,
\* the volume it counts on would be out of reach.
LEMMA ExitProgress ==
    ASSUME Inv, Inv', FokInv, MatchExit
    PROVE  Progress'
<1> DEFINE s == cmd.symbol
           d == Opposite(cmd.side)
<1>0. BookType /\ ControlType /\ FiniteLevels
  BY TypeParts DEF Inv, FokInv
<1>1. /\ pc = "match" /\ pc' = "finish"
      /\ cmd' = cmd /\ remaining' = remaining /\ trades' = trades /\ levels' = levels
  BY DEF MatchExit, bookVars
<1>2. s \in Symbols /\ d \in Sides /\ remaining \in Int /\ remaining >= 0
  BY <1>0, <1>1, CommandTyped DEF ControlType, FokInv, NotOverfilled
<1>3. ASSUME SureFok, remaining > 0 PROVE FALSE
  <2>1. \A p \in levels[s][d] : ~Accepts(cmd, p)
    BY <1>1, <1>3 DEF Inv, ScanDone, SureFok
  <2>2. \A p \in levels[s][d] : ~AtLeast(d, p, cmd.price)
    BY <2>1 DEF Accepts
  <2>3. AvailableVolume(s, d, cmd.price) >= remaining
    BY <1>1, <1>3 DEF FokInv, FokCovered
  <2> HIDE DEF s, d
  <2>4. AvailableVolume(s, d, cmd.price) = 0
    BY <1>0, <1>2, <2>2, VolumeTyped
  <2> QED
    BY <1>2, <1>3, <2>3, <2>4
<1>4. SureFok => remaining = 0
  BY <1>2, <1>3
<1> QED
  BY <1>1, <1>4
  DEF FokInv, Progress, FreshTrades, StyleKnown, NotOverfilled, RestExecuted, FokCovered,
      FokDone, SureFok

\* add() accepts a fill-or-kill order only if the books cover it.
LEMMA AcceptProgress ==
    ASSUME Inv, FokInv, Quantities \subseteq Nat, AddAccept
    PROVE  Progress'
<1>0. BookType /\ ControlType /\ FiniteLevels
  BY TypeParts DEF Inv, FokInv
<1>1. /\ pc = "add" /\ pc' = "match" /\ ~FokUnfillable /\ remaining' = cmd.quantity
      /\ cmd' = cmd /\ trades' = trades /\ levels' = levels /\ queue' = queue
      /\ trades = <<>>
  BY DEF AddAccept, bookVars, FokInv, FreshTrades
<1>2. cmd.symbol \in Symbols /\ Opposite(cmd.side) \in Sides /\ cmd.quantity \in Nat
  BY <1>0, <1>1, CommandTyped
<1>3. AvailableVolume(cmd.symbol, Opposite(cmd.side), cmd.price) \in Int
  <2> DEFINE s == cmd.symbol
             d == Opposite(cmd.side)
  <2> HIDE DEF s, d
  <2>1. AvailableVolume(s, d, cmd.price) \in Int
    BY <1>0, <1>2, VolumeTyped DEF s, d
  <2> QED
    BY <2>1 DEF s, d
<1>4. FokCovered'
  <2>1. AvailableVolume(cmd.symbol, Opposite(cmd.side), cmd.price)'
           = AvailableVolume(cmd.symbol, Opposite(cmd.side), cmd.price)
    BY <1>1 DEF AvailableVolume, Supply
  <2>2. SureFok => AvailableVolume(cmd.symbol, Opposite(cmd.side), cmd.price) >= cmd.quantity
    BY <1>1, <1>2, <1>3 DEF FokUnfillable, SureFok
  <2> QED
    BY <1>1, <2>1, <2>2 DEF FokCovered, SureFok
<1>5. Executed(trades') = cmd'.quantity - remaining'
  <2>1. Executed(<<>>) = 0
    BY SumEmpty DEF Executed, SumFunction
  <2> QED
    BY <1>1, <1>2, <2>1
<1> QED
  BY <1>1, <1>2, <1>4, <1>5
  DEF FokInv, Progress, FreshTrades, StyleKnown, NotOverfilled, RestExecuted, FokDone

\* Every step of an engine whose callers send no negative quantities keeps FokInv.
LEMMA FokStep ==
    ASSUME Inv, Inv', FokInv, Quantities \subseteq Nat, Next
    PROVE  FokInv'
<1>0. BookType /\ FiniteLevels /\ FreshTrades
  BY TypeParts DEF Inv, FokInv
<1>1. FiniteLevels'
  BY <1>0, FiniteStep
<1>2. CASE \E c \in Commands : Add(c)
  <2>1. PICK c \in Commands : Add(c)
    BY <1>2
  <2>2. pc' = "add" /\ cmd' = c /\ trades' = <<>>
    BY <1>0, <2>1 DEF Add, Call, FreshTrades
  <2>3. <<c.tif, c.stp>> \in Styles
    BY DEF Commands
  <2> QED
    BY <1>1, <2>2, <2>3
    DEF FokInv, FreshTrades, StyleKnown, NotOverfilled, RestExecuted, FokCovered, FokDone
<1>3. CASE \E id, newId \in Ids, s \in Symbols, p \in Prices, quantity \in Quantities :
              \E style \in Styles : Replace(id, newId, s, p, quantity, style[1])
  <2>1. pc' = "add" /\ trades' = <<>>
    BY <1>0, <1>3 DEF Replace, Call, FreshTrades
  <2>2. cmd'.stp = "None"
    <3>1. PICK id \in Ids, newId \in Ids, s \in Symbols, p \in Prices, quantity \in Quantities,
               style \in Styles : Replace(id, newId, s, p, quantity, style[1])
      BY <1>3
    <3>2. PICK x : cmd' = [symbol |-> s, order_id |-> newId, participant |-> x,
                           side |-> index[id].side, price |-> p, quantity |-> quantity,
                           tif |-> style[1], stp |-> "None"]
      BY <3>1 DEF Replace
    <3> QED
      BY <3>2
  <2> QED
    BY <1>1, <2>1, <2>2
    DEF FokInv, FreshTrades, StyleKnown, NotOverfilled, RestExecuted, FokCovered, FokDone
<1>4. CASE AddRejectFok \/ AddRest \/ AddCancelRemainder \/ AddReturn
  <2>1. pc' = "idle" /\ trades' = <<>>
    BY <1>4 DEF AddRejectFok, AddRest, AddCancelRemainder, AddReturn, Return, Inv, NoEngineError
  <2> QED
    BY <1>1, <2>1
    DEF FokInv, FreshTrades, StyleKnown, NotOverfilled, RestExecuted, FokCovered, FokDone
<1>5. CASE \/ AddAccept \/ MatchExit
           \/ (\E p \in Prices : MatchSelf(p)) \/ (\E p \in Prices : MatchFill(p))
  <2>1. Progress'
    BY <1>5, AcceptProgress, ExitProgress, SelfProgress, FillProgress
  <2> QED
    BY <1>1, <2>1 DEF FokInv, Progress
<1>6. CASE \/ \E id \in Ids : Cancel(id)
           \/ \E id \in Ids : RejectUnknown(id)
           \/ Reject \/ Query \/ Snapshot \/ LoadSnapshot \/ LoadInvalid
           \/ \E t \in todo : RestoreOrder(t)
           \/ LoadReturn
  <2>1. pc' \in {"idle", "load"} /\ trades' = <<>>
    BY <1>0, <1>6
    DEF Cancel, RejectUnknown, Reject, Query, Snapshot, LoadSnapshot, LoadInvalid, RestoreOrder,
        LoadReturn, Call, FreshTrades, vars
  <2> QED
    BY <1>1, <2>1
    DEF FokInv, FreshTrades, StyleKnown, NotOverfilled, RestExecuted, FokCovered, FokDone
<1> QED
  BY <1>2, <1>3, <1>4, <1>5, <1>6 DEF Next, Step, Request

\* What add() has executed, and what the books hold for a fill-or-kill order, for
\* every history of every engine whose callers send no negative quantities.
THEOREM FokInvariance ==
    ASSUME Quantities \subseteq Nat
    PROVE  Spec => [](Inv /\ FokInv)
<1>1. Init => FokInv
  <2> SUFFICES ASSUME Init PROVE FokInv
    OBVIOUS
  <2>1. pc = "idle" /\ trades = <<>> /\ levels = EmptyLevels
    BY DEF Init
  <2>2. FiniteLevels
    BY <2>1, FS_EmptySet DEF FiniteLevels, EmptyLevels
  <2> QED
    BY <2>1, <2>2
    DEF FokInv, FreshTrades, StyleKnown, NotOverfilled, RestExecuted, FokCovered, FokDone
<1>2. Inv /\ Inv' /\ FokInv /\ [Next]_vars => FokInv'
  <2>1. ASSUME Inv, Inv', FokInv, Next PROVE FokInv'
    BY <2>1, FokStep
  <2>2. ASSUME FokInv, UNCHANGED vars PROVE FokInv'
    <3>1. UNCHANGED <<levels, queue, pc, cmd, remaining, trades>>
      BY <2>2 DEF vars
    <3> QED
      BY <2>2, <3>1
      DEF FokInv, FiniteLevels, FreshTrades, StyleKnown, NotOverfilled, RestExecuted, FokCovered,
          FokDone, SureFok, AvailableVolume, Supply
  <2> QED
    BY <2>1, <2>2
<1> QED
  BY <1>1, <1>2, Invariance, PTL DEF Spec

\* A fill-or-kill order that is accepted is executed whole by the time add() is
\* done with it, unless its caller also asks for self-trade prevention.
THEOREM FokWhole ==
    ASSUME Quantities \subseteq Nat,
           \A style \in Styles : style[1] = "FOK" => style[2] = "None"
    PROVE  Spec => []FokAllOrNothing
<1>1. ASSUME Inv, FokInv PROVE FokAllOrNothing
  <2> SUFFICES ASSUME pc = "finish", cmd.tif = "FOK"
               PROVE  Executed(trades) = cmd.quantity
    BY DEF FokAllOrNothing, Executed
  <2>1. cmd.stp = "None"
    <3>1. <<cmd.tif, cmd.stp>> \in Styles \/ cmd.stp = "None"
      BY <1>1 DEF FokInv, StyleKnown
    <3> QED
      BY <3>1
  <2>2. remaining = 0 /\ Executed(trades) = cmd.quantity - remaining
    BY <1>1, <2>1 DEF FokInv, FokDone, SureFok, RestExecuted
  <2>3. cmd.quantity \in Nat
    BY <1>1, TypeParts, CommandTyped DEF Inv
  <2> QED
    BY <2>2, <2>3
<1> QED
  BY <1>1, FokInvariance, PTL

=============================================================================
