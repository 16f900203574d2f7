-------------------------- MODULE OrderLifeProofs --------------------------
(***************************************************************************)
(* The life of an order, from add() over fills and reloads to its end, for *)
(* every choice of the constants: load_snapshot() brings back the books,   *)
(* every resting order is found through the index, trades respect          *)
(* price-time priority, and what the events say of an order is what the    *)
(* books hold of it.                                                       *)
(***************************************************************************)
EXTENDS MatchingEngineProofs

-----------------------------------------------------------------------------
(***************************************************************************)
(* The invariants of index, arrival and reloading.                         *)
(***************************************************************************)

\* The entry index_ should have for an order.
Entry(s, d, p, o) == [symbol |-> s, side |-> d, price |-> p, iter |-> o.node]

\* Every resting order is found through the index.
Indexed ==
    \A s \in Symbols, d \in Sides, p \in Prices :
        \A i \in 1..Len(queue[s][d][p]) :
            index[queue[s][d][p][i].order_id] = Entry(s, d, p, queue[s][d][p][i])

\* The order add() works on is not in the index.
Unknown == pc \in {"add", "match", "finish"} => index[cmd.order_id] = NULL

\* The orders of a list arrived one after the other.
InTime(q, led) ==
    \A i, j \in 1..Len(q) :
        i < j => led[q[i].order_id].arrived < led[q[j].order_id].arrived

\* Lists are in the order of arrival, and the next arrival is later than all.
Timed ==
    /\ \A s \in Symbols, d \in Sides, p \in Prices : InTime(queue[s][d][p], ledger)
    /\ \A id \in Ids : ledger[id].arrived <= sequence

\* Place t of the document.
DocumentAt(t) == saved.queue[t[1]][t[2]][t[3]][t[4]]

\* In a document an id stands once, and its lists are in the order of arrival.
SavedLife ==
    saved # NULL =>
        /\ \A t, u \in Document : DocumentAt(t).order_id = DocumentAt(u).order_id => t = u
        /\ \A s \in Symbols, d \in Sides, p \in Prices : InTime(saved.queue[s][d][p], saved.ledger)
        /\ \A id \in Ids : saved.ledger[id].arrived <= saved.sequence

\* Loading starts from the document's history, and an order still to be restored
\* is not in the index.
LoadLife ==
    pc = "load" =>
        /\ ledger = saved.ledger
        /\ \A t \in todo : index[DocumentAt(t).order_id] = NULL

\* A document has no key for an empty list.
SavedExact ==
    saved # NULL =>
        \A s \in Symbols, d \in Sides, p \in Prices :
            p \in saved.levels[s][d] => saved.queue[s][d][p] # <<>>

\* w is a document's list, q what has been restored of it.
RestoredPart(q, w) ==
    /\ Len(q) <= Len(w)
    /\ \A i \in 1..Len(q) :
          /\ q[i].order_id = w[i].order_id
          /\ q[i].participant = w[i].participant
          /\ q[i].remaining = w[i].remaining

\* Loading restores each list from its front: what is still to do is its rest.
LoadExact ==
    pc = "load" =>
        /\ sequence = saved.sequence
        /\ \A s \in Symbols, d \in Sides, p \in Prices :
              /\ RestoredPart(queue[s][d][p], saved.queue[s][d][p])
              /\ \A i \in 1..Len(saved.queue[s][d][p]) :
                    <<s, d, p, i>> \in todo <=> i > Len(queue[s][d][p])

\* What ReloadExact needs, ...
ReloadInv == SavedExact /\ LoadExact

\* ... and what IndexComplete and PriceTime need.
LifeInv == Indexed /\ Unknown /\ Timed /\ SavedLife /\ LoadLife

-----------------------------------------------------------------------------
(***************************************************************************)
(* Documents and the lists restored from them.                             *)
(***************************************************************************)
\* What serialize_side() writes of each order.
LEMMA SerializeAt ==
    ASSUME NEW q \in Lists
    PROVE  /\ Serialize(q) \in Seq(SavedOrder)
           /\ Len(q) \in Nat
           /\ Len(Serialize(q)) = Len(q)
           /\ \A i \in 1..Len(q) :
                 /\ Serialize(q)[i].order_id = q[i].order_id
                 /\ Serialize(q)[i].participant = q[i].participant
                 /\ Serialize(q)[i].remaining = q[i].remaining
<1>1. Serialize(q) \in Seq(SavedOrder) /\ Len(Serialize(q)) = Len(q)
  BY SerializeTyped
<1>2. Len(q) \in Nat
  BY DEF Lists
<1> QED
  BY <1>1, <1>2 DEF Serialize

\* The lists of a document.
LEMMA DocumentLists ==
    ASSUME ControlType, saved # NULL
    PROVE  /\ saved \in Documents
           /\ saved.ledger \in Records
           /\ saved.sequence \in Nat
           /\ saved.levels \in [Symbols -> [Sides -> SUBSET Prices]]
           /\ saved.queue \in [Symbols -> [Sides -> [Prices -> Seq(SavedOrder)]]]
           /\ \A s \in Symbols, d \in Sides, p \in Prices :
                 /\ saved.queue[s][d][p] \in Seq(SavedOrder)
                 /\ Len(saved.queue[s][d][p]) \in Nat
                 /\ \A i \in 1..Len(saved.queue[s][d][p]) : saved.queue[s][d][p][i] \in SavedOrder
<1>1. saved \in Documents
  BY DEF ControlType
<1>2. /\ saved.ledger \in Records
      /\ saved.sequence \in Nat
      /\ saved.levels \in [Symbols -> [Sides -> SUBSET Prices]]
      /\ saved.queue \in [Symbols -> [Sides -> [Prices -> Seq(SavedOrder)]]]
  BY <1>1 DEF Documents
<1>3. ASSUME NEW s \in Symbols, NEW d \in Sides, NEW p \in Prices
      PROVE  saved.queue[s][d][p] \in Seq(SavedOrder)
  BY <1>2
<1>4. ASSUME NEW w \in Seq(SavedOrder)
      PROVE  Len(w) \in Nat /\ \A i \in 1..Len(w) : w[i] \in SavedOrder
  BY ElementOfSeq
<1> QED
  BY <1>1, <1>2, <1>3, <1>4

\* The places of a document, one by one.
PlacesExact ==
    /\ \A s \in Symbols, d \in Sides, p \in Prices : \A i \in 1..Len(saved.queue[s][d][p]) :
          <<s, d, p, i>> \in Document
    /\ \A t \in Document :
          /\ t[1] \in Symbols /\ t[2] \in Sides /\ t[3] \in Prices
          /\ t[4] \in 1..Len(saved.queue[t[1]][t[2]][t[3]])
          /\ t = <<t[1], t[2], t[3], t[4]>>

\* A place of the document is a tuple of a symbol, a side, a price and a place in
\* the list there.
LEMMA DocumentPlaces == PlacesExact
<1>1. ASSUME NEW s \in Symbols, NEW d \in Sides, NEW p \in Prices,
             NEW i \in 1..Len(saved.queue[s][d][p])
      PROVE  <<s, d, p, i>> \in Document
  <2> DEFINE F(x, y, z) == {<<x, y, z, k>> : k \in 1..Len(saved.queue[x][y][z])}
  <2>1. Document = UNION {F(x, y, z) : x \in Symbols, y \in Sides, z \in Prices}
    BY DEF Document
  <2>2. <<s, d, p, i>> \in F(s, d, p)
    OBVIOUS
  <2> HIDE DEF F
  <2>3. F(s, d, p) \in {F(x, y, z) : x \in Symbols, y \in Sides, z \in Prices}
    OBVIOUS
  <2> QED
    BY <2>1, <2>2, <2>3
<1>2. ASSUME NEW t \in Document
      PROVE  /\ t[1] \in Symbols /\ t[2] \in Sides /\ t[3] \in Prices
             /\ t[4] \in 1..Len(saved.queue[t[1]][t[2]][t[3]])
             /\ t = <<t[1], t[2], t[3], t[4]>>
  <2>1. PICK s \in Symbols, d \in Sides, p \in Prices :
           \E i \in 1..Len(saved.queue[s][d][p]) : t = <<s, d, p, i>>
    BY DEF Document
  <2>2. PICK i \in 1..Len(saved.queue[s][d][p]) : t = <<s, d, p, i>>
    BY <2>1
  <2>3. t[1] = s /\ t[2] = d /\ t[3] = p /\ t[4] = i
    BY <2>2
  <2> QED
    BY <2>2, <2>3
<1> QED
  BY <1>1, <1>2 DEF PlacesExact

\* rest_order(), list by list.
LEMMA RestOrderLists ==
    ASSUME BookType,
           NEW c, NEW quantity \in Int,
           c.symbol \in Symbols, c.order_id \in Ids, c.participant \in Participants,
           c.side \in Sides, c.price \in Prices,
           RestOrder(c, quantity)
    PROVE  LET old == queue[c.symbol][c.side][c.price]
               new == queue'[c.symbol][c.side][c.price]
               o == new[Len(old) + 1]
           IN  /\ old \in Lists /\ Len(old) \in Nat
               /\ Len(new) = Len(old) + 1
               /\ \A i \in 1..Len(old) : new[i] = old[i]
               /\ o.node = nodes /\ o.order_id = c.order_id
               /\ o.participant = c.participant /\ o.remaining = quantity
               /\ \A t \in Symbols, e \in Sides, r \in Prices :
                     ~(t = c.symbol /\ e = c.side /\ r = c.price) =>
                         queue'[t][e][r] = queue[t][e][r]
               /\ \A id \in Ids :
                     index'[id] = IF id = c.order_id THEN Entry(c.symbol, c.side, c.price, o)
                                                     ELSE index[id]
<1> DEFINE o == [node |-> nodes, symbol |-> c.symbol, order_id |-> c.order_id,
                 participant |-> c.participant, side |-> c.side, price |-> c.price,
                 remaining |-> quantity]
           old == queue[c.symbol][c.side][c.price]
           q == Append(old, o)
<1>1. /\ queue' = [queue EXCEPT ![c.symbol][c.side][c.price] = q]
      /\ index' = [index EXCEPT ![c.order_id] =
             [symbol |-> c.symbol, side |-> c.side, price |-> c.price, iter |-> nodes]]
      /\ old \in Lists
      /\ nodes \in Nat
  BY DEF RestOrder, Enqueue, BookType
<1>2. o.node = nodes /\ o.order_id = c.order_id /\ o.participant = c.participant
      /\ o.remaining = quantity /\ o \in RestingOrder
  BY <1>1 DEF RestingOrder
<1> HIDE DEF o, old
<1>3. /\ Len(old) \in Nat
      /\ Len(q) = Len(old) + 1
      /\ \A i \in 1..Len(old) : q[i] = old[i]
      /\ q[Len(old) + 1] = o
  BY <1>1, <1>2 DEF Lists
<1> HIDE DEF q
<1>4. /\ queue'[c.symbol][c.side][c.price] = q
      /\ \A t \in Symbols, e \in Sides, r \in Prices :
            ~(t = c.symbol /\ e = c.side /\ r = c.price) => queue'[t][e][r] = queue[t][e][r]
  BY <1>1 DEF BookType
<1>5. \A id \in Ids :
         index'[id] = IF id = c.order_id THEN Entry(c.symbol, c.side, c.price, o) ELSE index[id]
  BY <1>1, <1>2 DEF BookType, Entry
<1> QED
  BY <1>1, <1>2, <1>3, <1>4, <1>5 DEF old

\* Only load_snapshot() leads to its loop, and only its steps stay there.
LEMMA LoadSteps ==
    ASSUME Next, pc' = "load"
    PROVE  LoadSnapshot \/ \E t \in todo : RestoreOrder(t)
<1>1. pc # "load" => LoadSnapshot
  BY DEF Next, Step, Request, AddRejectFok, AddAccept, MatchSelf, Matching, MatchFill, MatchExit,
      AddRest, AddCancelRemainder, AddReturn, RestoreOrder, LoadReturn, Add, Cancel, RejectUnknown,
      Replace, Reject, Query, Snapshot, LoadInvalid, vars, Return, Call
<1>2. pc = "load" => \E t \in todo : RestoreOrder(t)
  BY DEF Next, Step, Request, AddRejectFok, AddAccept, MatchSelf, Matching, MatchFill, MatchExit,
      AddRest, AddCancelRemainder, AddReturn, LoadReturn, Add, Cancel, RejectUnknown,
      Replace, Reject, Query, Snapshot, LoadSnapshot, LoadInvalid, vars, Return, Call
<1> QED
  BY <1>1, <1>2

\* The order load_snapshot() restores next, and where.
LEMMA RestoredOrder ==
    ASSUME Inv, NEW t \in todo, RestoreOrder(t)
    PROVE  LET o == DocumentAt(t)
               c == [symbol |-> t[1], side |-> t[2], price |-> t[3],
                     order_id |-> o.order_id, participant |-> o.participant]
           IN  /\ t \in Document
               /\ t[1] \in Symbols /\ t[2] \in Sides /\ t[3] \in Prices
               /\ o \in SavedOrder
               /\ o.order_id \in Ids /\ o.participant \in Participants /\ o.remaining \in Int
               /\ RestOrder(c, o.remaining)
               /\ pc = "load" /\ saved # NULL
<1> DEFINE o == DocumentAt(t)
<1>1. ControlType /\ LoadInv
  BY TypeParts DEF Inv
<1>2. pc = "load" /\ saved # NULL /\ t \in Document
  BY <1>1 DEF RestoreOrder, LoadInv
<1>3. /\ t[1] \in Symbols /\ t[2] \in Sides /\ t[3] \in Prices
      /\ t[4] \in 1..Len(saved.queue[t[1]][t[2]][t[3]])
  BY <1>2, DocumentPlaces DEF PlacesExact
<1>4. o \in SavedOrder
  BY <1>1, <1>2, <1>3, DocumentLists DEF DocumentAt
<1>5. o.order_id \in Ids /\ o.participant \in Participants /\ o.remaining \in Int
  BY <1>4 DEF SavedOrder
<1>6. RestOrder([symbol |-> t[1], side |-> t[2], price |-> t[3],
                 order_id |-> o.order_id, participant |-> o.participant], o.remaining)
  BY DEF RestoreOrder, DocumentAt
<1> QED
  BY <1>2, <1>3, <1>4, <1>5, <1>6

\* The same in terms of the lists: it is the next of its list, and joins that list.
LEMMA RestoredLists ==
    ASSUME Inv, ReloadInv, NEW t \in todo, RestoreOrder(t)
    PROVE  LET o == DocumentAt(t)
               old == queue[t[1]][t[2]][t[3]]
               new == queue'[t[1]][t[2]][t[3]]
               u == new[Len(old) + 1]
           IN  /\ old \in Lists /\ Len(old) \in Nat
               /\ t[4] = Len(old) + 1
               /\ Len(new) = Len(old) + 1
               /\ \A i \in 1..Len(old) : new[i] = old[i]
               /\ u.order_id = o.order_id
               /\ u.participant = o.participant /\ u.remaining = o.remaining
               /\ \A s \in Symbols, d \in Sides, p \in Prices :
                     ~(s = t[1] /\ d = t[2] /\ p = t[3]) => queue'[s][d][p] = queue[s][d][p]
               /\ \A id \in Ids :
                     index'[id] = IF id = o.order_id THEN Entry(t[1], t[2], t[3], u) ELSE index[id]
<1> DEFINE s == t[1]
           d == t[2]
           p == t[3]
           o == DocumentAt(t)
           c == [symbol |-> s, side |-> d, price |-> p,
                 order_id |-> o.order_id, participant |-> o.participant]
           old == queue[s][d][p]
           w == saved.queue[s][d][p]
<1>1. /\ t \in Document
      /\ s \in Symbols /\ d \in Sides /\ p \in Prices
      /\ o.order_id \in Ids /\ o.participant \in Participants /\ o.remaining \in Int
      /\ RestOrder(c, o.remaining)
      /\ pc = "load" /\ saved # NULL
  BY RestoredOrder
<1>2. BookType /\ ControlType
  BY TypeParts DEF Inv
<1>3. t[4] \in 1..Len(w) /\ t = <<s, d, p, t[4]>> /\ Len(w) \in Nat
  BY <1>1, <1>2, DocumentPlaces, DocumentLists DEF PlacesExact
<1>4. Len(old) \in Nat /\ \A i \in 1..Len(w) : <<s, d, p, i>> \in todo <=> i > Len(old)
  BY <1>1, <1>2 DEF ReloadInv, LoadExact, BookType, Lists
<1>5. t[4] > Len(old)
  BY <1>3, <1>4
<1>6. Len(old) + 1 \in 1..Len(w)
  <2> HIDE DEF old, w
  <2> QED
    BY <1>3, <1>4, <1>5
<1>7. <<s, d, p, Len(old) + 1>> \in todo
  <2>1. \A i \in 1..Len(w) : i > Len(old) => <<s, d, p, i>> \in todo
    BY <1>4
  <2>2. Len(old) + 1 > Len(old)
    <3> HIDE DEF old
    <3> QED
      BY <1>4
  <2> HIDE DEF old, w, s, d, p
  <2> QED
    BY <1>6, <2>1, <2>2
<1>8. DocumentOrder(t, <<s, d, p, Len(old) + 1>>)
  BY <1>7 DEF RestoreOrder
<1>9. t[4] <= Len(old) + 1
  BY <1>8 DEF DocumentOrder
<1>10. t[4] = Len(old) + 1
  BY <1>3, <1>4, <1>5, <1>9
<1> HIDE DEF o, s, d, p
<1>11. c.symbol = s /\ c.side = d /\ c.price = p /\ c.order_id = o.order_id
       /\ c.participant = o.participant
  OBVIOUS
<1> HIDE DEF c
<1>12. c.symbol \in Symbols /\ c.order_id \in Ids /\ c.participant \in Participants
       /\ c.side \in Sides /\ c.price \in Prices
  BY <1>1, <1>11
<1>13. LET new == queue'[s][d][p]
           u == new[Len(old) + 1]
       IN  /\ old \in Lists /\ Len(old) \in Nat
           /\ Len(new) = Len(old) + 1
           /\ \A i \in 1..Len(old) : new[i] = old[i]
           /\ u.order_id = o.order_id
           /\ u.participant = o.participant /\ u.remaining = o.remaining
           /\ \A x \in Symbols, y \in Sides, z \in Prices :
                 ~(x = s /\ y = d /\ z = p) => queue'[x][y][z] = queue[x][y][z]
           /\ \A id \in Ids :
                 index'[id] = IF id = o.order_id THEN Entry(s, d, p, u) ELSE index[id]
  <2>1. LET was == queue[c.symbol][c.side][c.price]
            new == queue'[c.symbol][c.side][c.price]
            u == new[Len(was) + 1]
        IN  /\ was \in Lists /\ Len(was) \in Nat
            /\ Len(new) = Len(was) + 1
            /\ \A i \in 1..Len(was) : new[i] = was[i]
            /\ u.node = nodes /\ u.order_id = c.order_id
            /\ u.participant = c.participant /\ u.remaining = o.remaining
            /\ \A x \in Symbols, y \in Sides, z \in Prices :
                  ~(x = c.symbol /\ y = c.side /\ z = c.price) =>
                      queue'[x][y][z] = queue[x][y][z]
            /\ \A id \in Ids :
                  index'[id] = IF id = c.order_id THEN Entry(c.symbol, c.side, c.price, u)
                                                  ELSE index[id]
    BY <1>1, <1>2, <1>12, RestOrderLists
  <2> QED
    BY <1>11, <2>1
<1> QED
  BY <1>10, <1>13 DEF o, s, d, p

-----------------------------------------------------------------------------
(***************************************************************************)
(* Reloading is exact.                                                     *)
(***************************************************************************)
\* snapshot() writes the keys of non-empty lists only.
LEMMA SavedExactStep ==
    ASSUME Inv, ReloadInv, Next
    PROVE  SavedExact'
<1>0. BookType /\ BookInv
  BY TypeParts DEF Inv
<1>1. CASE Snapshot
  <2> SUFFICES ASSUME NEW s \in Symbols, NEW d \in Sides, NEW p \in Prices,
                      p \in saved'.levels[s][d]
               PROVE  saved'.queue[s][d][p] # <<>>
    BY DEF SavedExact
  <2>1. saved'.levels = levels /\ saved'.queue[s][d][p] = Serialize(queue[s][d][p])
    BY <1>1 DEF Snapshot, SerializedQueues
  <2>2. queue[s][d][p] \in Lists /\ queue[s][d][p] # <<>>
    BY <1>0, <2>1, ListAt
  <2>3. Len(queue[s][d][p]) # 0
    BY <2>2 DEF Lists
  <2>4. Len(Serialize(queue[s][d][p])) # 0
    BY <2>2, <2>3, SerializeAt
  <2> QED
    BY <2>1, <2>4
<1>2. CASE saved' = saved
  BY <1>2 DEF ReloadInv, SavedExact
<1> QED
  BY <1>1, <1>2
  DEF Next, Step, Request, AddRejectFok, AddAccept, MatchSelf, MatchFill, MatchExit, AddRest,
      AddCancelRemainder, AddReturn, RestoreOrder, LoadReturn, Add, Cancel, RejectUnknown,
      Replace, Reject, Query, LoadSnapshot, LoadInvalid, vars

\* Restoring an order makes its list one longer and takes one place off the rest.
LEMMA RestoreExact ==
    ASSUME Inv, ReloadInv, NEW t \in todo, RestoreOrder(t)
    PROVE  LoadExact'
<1>1. pc = "load" /\ saved' = saved /\ sequence' = sequence /\ todo' = todo \ {t}
  BY DEF RestoreOrder
<1>2. ControlType /\ saved # NULL /\ t \in Document
  BY RestoredOrder, TypeParts DEF Inv
<1>3. /\ t[1] \in Symbols /\ t[2] \in Sides /\ t[3] \in Prices
      /\ t = <<t[1], t[2], t[3], t[4]>>
      /\ t[4] \in 1..Len(saved.queue[t[1]][t[2]][t[3]])
  BY <1>2, DocumentPlaces DEF PlacesExact
<1>4. sequence' = saved'.sequence
  BY <1>1 DEF ReloadInv, LoadExact
<1>5. ASSUME NEW s \in Symbols, NEW d \in Sides, NEW p \in Prices
      PROVE  /\ RestoredPart(queue'[s][d][p], saved.queue[s][d][p])
             /\ \A i \in 1..Len(saved.queue[s][d][p]) :
                   <<s, d, p, i>> \in todo' <=> i > Len(queue'[s][d][p])
  <2> DEFINE q == queue[s][d][p]
             r == queue'[s][d][p]
             w == saved.queue[s][d][p]
  <2>1. /\ RestoredPart(q, w)
        /\ \A i \in 1..Len(w) : <<s, d, p, i>> \in todo <=> i > Len(q)
        /\ Len(w) \in Nat
    BY <1>1, <1>2, DocumentLists DEF ReloadInv, LoadExact
  <2>2. CASE s = t[1] /\ d = t[2] /\ p = t[3]
    <3>1. /\ Len(q) \in Nat
          /\ t[4] = Len(q) + 1
          /\ Len(r) = Len(q) + 1
          /\ \A i \in 1..Len(q) : r[i] = q[i]
          /\ r[Len(q) + 1].order_id = w[t[4]].order_id
          /\ r[Len(q) + 1].participant = w[t[4]].participant
          /\ r[Len(q) + 1].remaining = w[t[4]].remaining
      BY <2>2, RestoredLists DEF DocumentAt
    <3>2. t[4] \in 1..Len(w) /\ t = <<s, d, p, t[4]>>
      BY <1>3, <2>2
    <3>3. \A i \in 1..Len(w) : <<s, d, p, i>> \in todo' <=> <<s, d, p, i>> \in todo /\ i # t[4]
      BY <1>1, <3>2
    <3> HIDE DEF q, r, w
    <3>4. RestoredPart(r, w)
      <4>1. Len(r) <= Len(w)
        BY <2>1, <3>1, <3>2
      <4>2. ASSUME NEW i \in 1..Len(r)
            PROVE  /\ r[i].order_id = w[i].order_id
                   /\ r[i].participant = w[i].participant
                   /\ r[i].remaining = w[i].remaining
        <5>1. CASE i = Len(q) + 1
          BY <3>1, <5>1
        <5>2. CASE i # Len(q) + 1
          <6>1. i \in 1..Len(q)
            BY <3>1, <5>2
          <6> QED
            BY <2>1, <3>1, <6>1 DEF RestoredPart
        <5> QED
          BY <5>1, <5>2
      <4> QED
        BY <4>1, <4>2 DEF RestoredPart
    <3>5. \A i \in 1..Len(w) : <<s, d, p, i>> \in todo' <=> i > Len(r)
      BY <2>1, <3>1, <3>2, <3>3
    <3> QED
      BY <3>4, <3>5 DEF r, w
  <2>3. CASE ~(s = t[1] /\ d = t[2] /\ p = t[3])
    <3>1. r = q
      BY <2>3, RestoredLists
    <3>2. \A i \in 1..Len(w) : <<s, d, p, i>> # t
      BY <1>3, <2>3
    <3>3. \A i \in 1..Len(w) : <<s, d, p, i>> \in todo' <=> <<s, d, p, i>> \in todo
      BY <1>1, <3>2
    <3> QED
      BY <2>1, <3>1, <3>3
  <2> QED
    BY <2>2, <2>3
<1> QED
  BY <1>1, <1>4, <1>5 DEF LoadExact

\* Every step keeps the restored lists the first part of the document's.
LEMMA LoadExactStep ==
    ASSUME Inv, ReloadInv, Next
    PROVE  LoadExact'
<1> SUFFICES ASSUME pc' = "load" PROVE LoadExact'
  BY DEF LoadExact
<1>1. CASE LoadSnapshot
  <2>1. /\ saved' = saved /\ saved # NULL /\ sequence' = saved.sequence /\ todo' = Document
        /\ queue' = EmptyQueues
    BY <1>1 DEF LoadSnapshot, Clear
  <2>2. ControlType
    BY TypeParts DEF Inv
  <2>3. ASSUME NEW s \in Symbols, NEW d \in Sides, NEW p \in Prices
        PROVE  /\ RestoredPart(queue'[s][d][p], saved.queue[s][d][p])
               /\ \A i \in 1..Len(saved.queue[s][d][p]) :
                     <<s, d, p, i>> \in todo' <=> i > Len(queue'[s][d][p])
    <3>1. queue'[s][d][p] = <<>> /\ Len(saved.queue[s][d][p]) \in Nat
      BY <2>1, <2>2, DocumentLists DEF EmptyQueues
    <3>2. \A i \in 1..Len(saved.queue[s][d][p]) : <<s, d, p, i>> \in todo'
      BY <2>1, DocumentPlaces DEF PlacesExact
    <3> QED
      BY <3>1, <3>2 DEF RestoredPart
  <2> QED
    BY <2>1, <2>3 DEF LoadExact
<1>2. CASE \E t \in todo : RestoreOrder(t)
  BY <1>2, RestoreExact
<1> QED
  BY <1>1, <1>2, LoadSteps

\* ReloadInv is an invariant of the engine, given Inv.
LEMMA ReloadInvariance == Spec => [](Inv /\ ReloadInv)
<1>1. Init => ReloadInv
  BY DEF Init, ReloadInv, SavedExact, LoadExact
<1>2. Inv /\ ReloadInv /\ [Next]_vars => ReloadInv'
  <2>1. ASSUME Inv, ReloadInv, Next PROVE ReloadInv'
    BY <2>1, SavedExactStep, LoadExactStep DEF ReloadInv
  <2>2. ASSUME ReloadInv, UNCHANGED vars PROVE ReloadInv'
    BY <2>2 DEF vars, ReloadInv, SavedExact, LoadExact
  <2> QED
    BY <2>1, <2>2
<1> QED
  BY <1>1, <1>2, InitInv, StepInv, PTL DEF Spec

\* load_snapshot() of a document of snapshot() ends with the books the document
\* was taken from: the same keys, the same orders in the same places of the same
\* lists, and the sequence number.  Ids may be reused.
THEOREM ReloadsExactly == Spec => []ReloadExact
<1>1. ASSUME Inv, ReloadInv PROVE ReloadExact
  <2> SUFFICES ASSUME pc = "load", todo = {}
               PROVE  levels = saved.levels /\ SerializedQueues = saved.queue
                      /\ sequence = saved.sequence
    BY DEF ReloadExact
  <2>0. BookType /\ ControlType /\ BookInv /\ LoadInv /\ SavedInv /\ saved # NULL
    BY <1>1, TypeParts DEF Inv, LoadInv
  <2>1. /\ sequence = saved.sequence
        /\ \A s \in Symbols, d \in Sides, p \in Prices :
              /\ RestoredPart(queue[s][d][p], saved.queue[s][d][p])
              /\ \A i \in 1..Len(saved.queue[s][d][p]) : ~(i > Len(queue[s][d][p]))
    BY <1>1 DEF ReloadInv, LoadExact
  <2>2. ASSUME NEW s \in Symbols, NEW d \in Sides, NEW p \in Prices
        PROVE  Serialize(queue[s][d][p]) = saved.queue[s][d][p]
    <3> DEFINE q == queue[s][d][p]
               w == saved.queue[s][d][p]
               z == Serialize(q)
    <3>1. q \in Lists /\ w \in Seq(SavedOrder) /\ Len(w) \in Nat
          /\ \A i \in 1..Len(w) : w[i] \in SavedOrder
      BY <2>0, DocumentLists DEF BookType
    <3>2. RestoredPart(q, w) /\ \A i \in 1..Len(w) : ~(i > Len(q))
      BY <2>1
    <3> HIDE DEF q, w
    <3>3. /\ z \in Seq(SavedOrder) /\ Len(z) = Len(q) /\ Len(q) \in Nat
          /\ \A i \in 1..Len(q) :
                /\ z[i].order_id = q[i].order_id
                /\ z[i].participant = q[i].participant
                /\ z[i].remaining = q[i].remaining
      BY <3>1, SerializeAt
    <3> HIDE DEF z
    <3>4. Len(z) = Len(w)
      BY <3>1, <3>2, <3>3 DEF RestoredPart
    <3>5. ASSUME NEW i \in 1..Len(z) PROVE z[i] = w[i]
      <4>1. z[i] \in SavedOrder /\ w[i] \in SavedOrder
        BY <3>1, <3>3, <3>4
      <4>2. z[i].order_id = w[i].order_id /\ z[i].participant = w[i].participant
            /\ z[i].remaining = w[i].remaining
        BY <3>2, <3>3 DEF RestoredPart
      <4> QED
        BY <4>1, <4>2 DEF SavedOrder
    <3>6. z = w
      BY <3>1, <3>3, <3>4, <3>5, SeqEqual
    <3> QED
      BY <3>6 DEF z, q, w
  <2>3. SerializedQueues = saved.queue
    <3>1. saved.queue = [s \in Symbols |-> [d \in Sides |-> [p \in Prices |-> saved.queue[s][d][p]]]]
      BY <2>0, DocumentLists
    <3> QED
      BY <2>2, <3>1 DEF SerializedQueues
  <2>4. ASSUME NEW s \in Symbols, NEW d \in Sides
        PROVE  levels[s][d] = saved.levels[s][d]
    <3>1. levels[s][d] \subseteq Prices /\ saved.levels[s][d] \subseteq Prices
      BY <2>0, DocumentLists DEF BookType
    <3>2. levels[s][d] \subseteq saved.levels[s][d]
      BY <2>0 DEF LoadInv
    <3>3. ASSUME NEW p \in saved.levels[s][d] PROVE p \in levels[s][d]
      <4>1. saved.queue[s][d][p] # <<>> /\ saved.queue[s][d][p] \in Seq(SavedOrder)
        BY <1>1, <2>0, <3>1, DocumentLists DEF ReloadInv, SavedExact
      <4>2. Serialize(queue[s][d][p]) # <<>> /\ queue[s][d][p] \in Lists
        BY <2>0, <2>2, <3>1, <4>1 DEF BookType
      <4>3. queue[s][d][p] # <<>>
        BY <4>2 DEF Serialize
      <4> QED
        BY <2>0, <3>1, <4>3, ListAt
    <3> QED
      BY <3>2, <3>3
  <2>5. levels = saved.levels
    <3>1. /\ levels = [s \in Symbols |-> [d \in Sides |-> levels[s][d]]]
          /\ saved.levels = [s \in Symbols |-> [d \in Sides |-> saved.levels[s][d]]]
      BY <2>0, DocumentLists DEF BookType
    <3> QED
      BY <2>4, <3>1
  <2> QED
    BY <2>1, <2>3, <2>5
<1> QED
  BY <1>1, ReloadInvariance, PTL

-----------------------------------------------------------------------------
(***************************************************************************)
(* Resting orders, by list and by id.                                      *)
(***************************************************************************)
\* A resting order is in the list of its side.
LEMMA RestingPlaces ==
    ASSUME BookType, NEW s \in Symbols, NEW d \in Sides
    PROVE  /\ \A p \in Prices : \A i \in 1..Len(queue[s][d][p]) :
                 queue[s][d][p][i] \in RestingOn(s, d)
           /\ \A o \in RestingOn(s, d) :
                 \E p \in Prices : \E i \in 1..Len(queue[s][d][p]) : o = queue[s][d][p][i]
<1> DEFINE F(p) == ToSet(queue[s][d][p])
<1>1. RestingOn(s, d) = UNION {F(p) : p \in Prices}
  BY DEF RestingOn
<1>2. ASSUME NEW p \in Prices
      PROVE  \A o : o \in F(p) <=> \E i \in 1..Len(queue[s][d][p]) : o = queue[s][d][p][i]
  <2>1. queue[s][d][p] \in Lists
    BY DEF BookType
  <2>2. ASSUME NEW q \in Lists
        PROVE  \A o : o \in ToSet(q) <=> \E i \in 1..Len(q) : o = q[i]
    BY DEF ToSet, Lists
  <2> QED
    BY <2>1, <2>2
<1> HIDE DEF F
<1>3. ASSUME NEW p \in Prices, NEW i \in 1..Len(queue[s][d][p])
      PROVE  queue[s][d][p][i] \in RestingOn(s, d)
  <2>1. queue[s][d][p][i] \in F(p)
    BY <1>2
  <2> QED
    BY <1>1, <2>1
<1>4. ASSUME NEW o \in RestingOn(s, d)
      PROVE  \E p \in Prices : \E i \in 1..Len(queue[s][d][p]) : o = queue[s][d][p][i]
  <2>1. PICK p \in Prices : o \in F(p)
    BY <1>1
  <2> QED
    BY <1>2, <2>1
<1> QED
  BY <1>3, <1>4

\* Entries of the index are not NULL.
LEMMA EntryTyped ==
    ASSUME NEW s \in Symbols, NEW d \in Sides, NEW p \in Prices, NEW o \in RestingOrder
    PROVE  Entry(s, d, p, o) # NULL
<1>1. o.node \in Nat
  BY DEF RestingOrder
<1>2. Entry(s, d, p, o) \in Location
  BY <1>1 DEF Entry, Location
<1> QED
  BY <1>2, ConstantsAssumption

\* The order at a place.
LEMMA OrderAt ==
    ASSUME BookType, NEW s \in Symbols, NEW d \in Sides, NEW p \in Prices,
           NEW i \in 1..Len(queue[s][d][p])
    PROVE  LET o == queue[s][d][p][i] IN
           o \in RestingOrder /\ o.order_id \in Ids /\ o.node \in Nat /\ o.remaining \in Int
<1>1. queue[s][d][p] \in Lists
  BY DEF BookType
<1>2. queue[s][d][p][i] \in RestingOrder
  BY <1>1, ListNodes
<1> QED
  BY <1>2 DEF RestingOrder

\* An id the index knows is resting; with Indexed, every resting id is known.
LEMMA KnownIds ==
    ASSUME BookType, BookInv
    PROVE  /\ \A id \in Ids : index[id] # NULL => RestingId(id)
           /\ Indexed => \A s \in Symbols, d \in Sides, p \in Prices :
                             \A i \in 1..Len(queue[s][d][p]) : index[queue[s][d][p][i].order_id] # NULL
<1>1. ASSUME NEW id \in Ids, index[id] # NULL PROVE RestingId(id)
  <2> DEFINE l == index[id]
             q == queue[l.symbol][l.side][l.price]
  <2>1. /\ l.symbol \in Symbols /\ l.side \in Sides /\ l.price \in Prices
        /\ \E i \in 1..Len(q) : q[i].node = l.iter /\ q[i].order_id = id
    BY <1>1, EntryAt
  <2> HIDE DEF l
  <2>2. PICK i \in 1..Len(q) : q[i].order_id = id
    BY <2>1
  <2>3. q[i] \in RestingOn(l.symbol, l.side)
    BY <2>1, RestingPlaces
  <2> HIDE DEF q
  <2> QED
    BY <2>1, <2>2, <2>3 DEF RestingId
<1>2. ASSUME Indexed, NEW s \in Symbols, NEW d \in Sides, NEW p \in Prices,
             NEW i \in 1..Len(queue[s][d][p])
      PROVE  index[queue[s][d][p][i].order_id] # NULL
  <2>1. index[queue[s][d][p][i].order_id] = Entry(s, d, p, queue[s][d][p][i])
    BY <1>2 DEF Indexed
  <2>2. queue[s][d][p][i] \in RestingOrder
    BY OrderAt
  <2> QED
    BY <2>1, <2>2, EntryTyped
<1> QED
  BY <1>1, <1>2

\* No two resting orders have the same id.
LEMMA DistinctOrders ==
    ASSUME BookType, BookInv, Indexed,
           NEW s \in Symbols, NEW d \in Sides, NEW p \in Prices,
           NEW i \in 1..Len(queue[s][d][p]),
           NEW t \in Symbols, NEW e \in Sides, NEW r \in Prices,
           NEW j \in 1..Len(queue[t][e][r]),
           queue[s][d][p][i].order_id = queue[t][e][r][j].order_id
    PROVE  s = t /\ d = e /\ p = r /\ i = j
<1>1. Entry(s, d, p, queue[s][d][p][i]) = Entry(t, e, r, queue[t][e][r][j])
  <2>1. index[queue[s][d][p][i].order_id] = Entry(s, d, p, queue[s][d][p][i])
    BY DEF Indexed
  <2>2. index[queue[t][e][r][j].order_id] = Entry(t, e, r, queue[t][e][r][j])
    BY DEF Indexed
  <2> QED
    BY <2>1, <2>2
<1>2. s = t /\ d = e /\ p = r /\ queue[s][d][p][i].node = queue[t][e][r][j].node
  <2> DEFINE x == Entry(s, d, p, queue[s][d][p][i])
             y == Entry(t, e, r, queue[t][e][r][j])
  <2>1. x.symbol = s /\ x.side = d /\ x.price = p /\ x.iter = queue[s][d][p][i].node
    BY DEF Entry
  <2>2. y.symbol = t /\ y.side = e /\ y.price = r /\ y.iter = queue[t][e][r][j].node
    BY DEF Entry
  <2> HIDE DEF x, y
  <2>3. x = y
    BY <1>1 DEF x, y
  <2> QED
    BY <2>1, <2>2, <2>3
<1>3. i = j
  BY <1>2, ListAt
<1> QED
  BY <1>2, <1>3

-----------------------------------------------------------------------------
(***************************************************************************)
(* Fills, prevention and cancels have one form: a step takes a quantity    *)
(* from one order, which leaves the books when nothing remains of it, and  *)
(* every other order stays where it is.                                    *)
(***************************************************************************)
\* Order o is order u after the step has taken n from order id.
Continues(o, u, id, n) ==
    /\ o.node = u.node
    /\ o.order_id = u.order_id
    /\ o.remaining = u.remaining - (IF u.order_id = id THEN n ELSE 0)

\* The list r holds orders of the list q in the order they had.
Follows(r, q, id, n) ==
    /\ \A j \in 1..Len(r) : \E k \in 1..Len(q) : Continues(r[j], q[k], id, n)
    /\ \A i, j \in 1..Len(r) : i < j =>
          \E k, l \in 1..Len(q) :
              k < l /\ r[i].order_id = q[k].order_id /\ r[j].order_id = q[l].order_id

\* The order id rests with n.
RestsWith(id, n) ==
    \E s \in Symbols, d \in Sides, p \in Prices : \E i \in 1..Len(queue[s][d][p]) :
        queue[s][d][p][i].order_id = id /\ queue[s][d][p][i].remaining = n

\* The step takes n from the order id, and makes it leave if that is all of it.
\* The other orders stay in their lists, in the index and in their order.
Shrinks(id, n) ==
    /\ \A s \in Symbols, d \in Sides, p \in Prices :
          /\ Follows(queue'[s][d][p], queue[s][d][p], id, n)
          /\ \A j \in 1..Len(queue'[s][d][p]) :
                index'[queue'[s][d][p][j].order_id] = index[queue'[s][d][p][j].order_id]
    /\ \A k \in Ids : \/ index'[k] = index[k]
                      \/ k = id /\ index'[k] = NULL /\ RestsWith(id, n)

\* A step that leaves the books alone takes nothing from any order.
LEMMA QuietShrinks ==
    ASSUME BookType, queue' = queue, index' = index
    PROVE  \A id : Shrinks(id, 0)
<1> SUFFICES ASSUME NEW id PROVE Shrinks(id, 0)
  OBVIOUS
<1>1. ASSUME NEW s \in Symbols, NEW d \in Sides, NEW p \in Prices
      PROVE  Follows(queue[s][d][p], queue[s][d][p], id, 0)
  <2> DEFINE q == queue[s][d][p]
  <2>1. \A j \in 1..Len(q) : q[j].remaining \in Int
    BY OrderAt
  <2> HIDE DEF q
  <2>2. \A j \in 1..Len(q) : Continues(q[j], q[j], id, 0)
    BY <2>1 DEF Continues
  <2>3. Follows(q, q, id, 0)
    BY <2>2 DEF Follows
  <2> QED
    BY <2>3 DEF q
<1> QED
  BY <1>1 DEF Shrinks

\* Replacing one list by what follows it is a step that shrinks.
LEMMA SetLevelShrinks ==
    ASSUME BookType, BookInv, Indexed,
           NEW s \in Symbols, NEW d \in Sides, NEW p \in Prices, NEW r \in Lists,
           NEW i \in 1..Len(queue[s][d][p]), NEW n \in Int,
           SetLevel(s, d, p, r),
           Follows(r, queue[s][d][p], queue[s][d][p][i].order_id, n),
           \/ index' = index
           \/ /\ index' = Unindex(queue[s][d][p][i].order_id)
              /\ n = queue[s][d][p][i].remaining
              /\ \A j \in 1..Len(r) : r[j].order_id # queue[s][d][p][i].order_id
    PROVE  Shrinks(queue[s][d][p][i].order_id, n)
<1> DEFINE o == queue[s][d][p][i]
           id == o.order_id
<1>1. id \in Ids /\ o.remaining \in Int
  BY OrderAt
<1>2. \A t \in Symbols, e \in Sides, x \in Prices :
         queue'[t][e][x] = IF t = s /\ e = d /\ x = p THEN r ELSE queue[t][e][x]
  BY DEF SetLevel, BookType
<1>3. \A k \in Ids : \/ index'[k] = index[k]
                     \/ /\ k = id /\ index'[k] = NULL /\ n = o.remaining
                        /\ \A j \in 1..Len(r) : r[j].order_id # id
  BY <1>1 DEF Unindex, BookType
<1>4. RestsWith(id, o.remaining)
  BY DEF RestsWith
<1>5. ASSUME NEW t \in Symbols, NEW e \in Sides, NEW x \in Prices
      PROVE  /\ Follows(queue'[t][e][x], queue[t][e][x], id, n)
             /\ \A j \in 1..Len(queue'[t][e][x]) :
                   index'[queue'[t][e][x][j].order_id] = index[queue'[t][e][x][j].order_id]
  <2>1. CASE t = s /\ e = d /\ x = p
    <3>1. queue'[t][e][x] = r /\ queue[t][e][x] = queue[s][d][p]
      BY <1>2, <2>1
    <3>2. \A j \in 1..Len(r) : r[j].order_id \in Ids
      BY ListNodes DEF RestingOrder
    <3> QED
      BY <1>3, <3>1, <3>2
  <2>2. CASE ~(t = s /\ e = d /\ x = p)
    <3> DEFINE q == queue[t][e][x]
    <3>1. queue'[t][e][x] = q
      BY <1>2, <2>2
    <3>2. \A j \in 1..Len(q) : q[j].order_id \in Ids /\ q[j].remaining \in Int
      BY OrderAt
    <3>3. \A j \in 1..Len(q) : q[j].order_id # id
      BY <2>2, DistinctOrders
    <3> HIDE DEF q
    <3>4. \A j \in 1..Len(q) : Continues(q[j], q[j], id, n)
      BY <3>2, <3>3 DEF Continues
    <3>5. Follows(q, q, id, n)
      BY <3>4 DEF Follows
    <3>6. \A j \in 1..Len(q) : index'[q[j].order_id] = index[q[j].order_id]
      BY <1>3, <3>2, <3>3
    <3> QED
      BY <3>1, <3>5, <3>6 DEF q
  <2> QED
    BY <2>1, <2>2
<1> QED
  BY <1>3, <1>4, <1>5 DEF Shrinks

\* The list r is the list q without place i.
Without(r, q, i) ==
    /\ Len(r) = Len(q) - 1
    /\ \A j \in 1..Len(r) : r[j] = IF j < i THEN q[j] ELSE q[j + 1]

\* An order that is popped or erased leaves, and nothing else changes.
LEMMA EraseShrinks ==
    ASSUME BookType, BookInv, Indexed,
           NEW s \in Symbols, NEW d \in Sides, NEW p \in Prices, NEW r \in Lists,
           NEW i \in 1..Len(queue[s][d][p]),
           Without(r, queue[s][d][p], i),
           SetLevel(s, d, p, r),
           index' = Unindex(queue[s][d][p][i].order_id)
    PROVE  Shrinks(queue[s][d][p][i].order_id, queue[s][d][p][i].remaining)
<1> DEFINE q == queue[s][d][p]
           id == q[i].order_id
           n == q[i].remaining
           up(j) == IF j < i THEN j ELSE j + 1
<1>1. /\ q \in Lists
      /\ \A j \in 1..Len(q) : q[j].order_id \in Ids /\ q[j].remaining \in Int
  BY OrderAt DEF BookType
<1>2. \A j \in 1..Len(q) : q[j].order_id = id => j = i
  BY DistinctOrders
<1>3. Without(r, q, i) /\ i \in 1..Len(q)
  OBVIOUS
<1> HIDE DEF q
<1>4. Len(q) \in Nat /\ Len(r) = Len(q) - 1
  BY <1>1, <1>3 DEF Lists, Without
<1>5. \A j \in 1..Len(r) : up(j) \in 1..Len(q) /\ up(j) # i /\ r[j] = q[up(j)]
  BY <1>3, <1>4 DEF Without
<1>6. \A j, k \in 1..Len(r) : j < k => up(j) < up(k)
  BY <1>3, <1>4
<1> HIDE DEF up
<1>7. ASSUME NEW j \in 1..Len(r)
      PROVE  r[j].order_id # id /\ Continues(r[j], q[up(j)], id, n)
  <2>1. q[up(j)].order_id # id
    BY <1>2, <1>5
  <2>2. q[up(j)].remaining \in Int
    BY <1>1, <1>5
  <2> QED
    BY <1>5, <2>1, <2>2 DEF Continues
<1>8. Follows(r, q, id, n)
  <2>1. \A j \in 1..Len(r) : \E k \in 1..Len(q) : Continues(r[j], q[k], id, n)
    BY <1>5, <1>7
  <2>2. ASSUME NEW j \in 1..Len(r), NEW k \in 1..Len(r), j < k
        PROVE  \E x, y \in 1..Len(q) :
                   x < y /\ r[j].order_id = q[x].order_id /\ r[k].order_id = q[y].order_id
    BY <1>5, <1>6, <2>2
  <2> QED
    BY <2>1, <2>2 DEF Follows
<1>9. n \in Int
  BY <1>1, <1>3
<1> QED
  BY <1>7, <1>8, <1>9, SetLevelShrinks DEF q

\* A fill that leaves something of the front order.
LEMMA PartialShrinks ==
    ASSUME BookType, BookInv, Indexed,
           NEW s \in Symbols, NEW d \in Sides, NEW p \in Prices, queue[s][d][p] # <<>>,
           NEW n \in Int,
           SetLevel(s, d, p, [queue[s][d][p] EXCEPT
                                 ![1].remaining = queue[s][d][p][1].remaining - n]),
           index' = index
    PROVE  Shrinks(queue[s][d][p][1].order_id, n)
<1> DEFINE q == queue[s][d][p]
           id == q[1].order_id
           front == [q[1] EXCEPT !.remaining = q[1].remaining - n]
           r == [q EXCEPT ![1] = front]
<1>1. /\ q \in Lists /\ q # <<>>
      /\ \A j \in 1..Len(q) : q[j] \in RestingOrder /\ q[j].remaining \in Int
  BY OrderAt DEF BookType
<1>2. \A j \in 1..Len(q) : 1 \in 1..Len(q) /\ q[j].order_id = id => j = 1
  BY DistinctOrders
<1>3. SetLevel(s, d, p, [q EXCEPT ![1].remaining = q[1].remaining - n])
  OBVIOUS
<1> HIDE DEF q
<1>4. Len(q) \in Nat \ {0} /\ DOMAIN q = 1..Len(q) /\ 1 \in 1..Len(q)
  BY <1>1 DEF Lists
<1>5. [q EXCEPT ![1].remaining = q[1].remaining - n] = r
  BY <1>4
<1>6. /\ front \in RestingOrder
      /\ front.node = q[1].node /\ front.order_id = id /\ front.remaining = q[1].remaining - n
  BY <1>1, <1>4 DEF RestingOrder
<1> HIDE DEF front
<1>7. /\ r \in Lists
      /\ Len(r) = Len(q)
      /\ \A j \in 1..Len(q) : r[j] = IF j = 1 THEN front ELSE q[j]
  BY <1>1, <1>4, <1>6 DEF Lists
<1> HIDE DEF r
<1>8. ASSUME NEW j \in 1..Len(q) PROVE Continues(r[j], q[j], id, n)
  <2>1. CASE j = 1
    BY <1>6, <1>7, <2>1 DEF Continues
  <2>2. CASE j # 1
    <3>1. q[j].order_id # id /\ q[j].remaining \in Int
      BY <1>1, <1>2, <1>4, <2>2
    <3> QED
      BY <1>7, <2>2, <3>1 DEF Continues
  <2> QED
    BY <2>1, <2>2
<1>9. Follows(r, q, id, n)
  <2>1. \A j \in 1..Len(q) : r[j].order_id = q[j].order_id
    BY <1>8 DEF Continues
  <2> QED
    BY <1>7, <1>8, <2>1 DEF Follows
<1>10. SetLevel(s, d, p, r)
  BY <1>3, <1>5
<1> QED
  BY <1>4, <1>7, <1>9, <1>10, SetLevelShrinks DEF q

-----------------------------------------------------------------------------
(***************************************************************************)
(* The actions of that form.                                               *)
(***************************************************************************)
\* Self-trade prevention takes all of the passive order, or nothing.
LEMMA MatchSelfShrinks ==
    ASSUME BooksGood, ControlType, Indexed, NEW p \in Prices, MatchSelf(p)
    PROVE  LET passive == Head(Level(p)) IN
           Shrinks(passive.order_id, IF DropPassive THEN passive.remaining ELSE 0)
<1> DEFINE s == cmd.symbol
           d == Opposite(cmd.side)
           q == queue[s][d][p]
<1>1. Matching(p) /\ pc = "match"
  BY DEF MatchSelf, Matching
<1>2. s \in Symbols /\ d \in Sides /\ Level(p) = q /\ BookType /\ BookInv
  BY <1>1, CommandTyped DEF Level, BooksGood
<1>3. q \in Lists /\ q # <<>>
  BY <1>1, <1>2, FillQuantities
<1>4. /\ Tail(q) \in Lists
      /\ Len(q) \in Nat \ {0}
      /\ Len(Tail(q)) = Len(q) - 1
      /\ Head(q) = q[1]
      /\ \A j \in 1..Len(Tail(q)) : Tail(q)[j] = q[j + 1]
  <2> HIDE DEF q
  <2> QED
    BY <1>3, TailList DEF Lists
<1>5. CASE DropPassive
  <2>1. /\ SetLevel(s, d, p, Tail(q))
        /\ index' = Unindex(Head(q).order_id)
    BY <1>2, <1>5 DEF MatchSelf
  <2>2. Without(Tail(q), q, 1) /\ 1 \in 1..Len(q)
    <3> HIDE DEF q
    <3> QED
      BY <1>4 DEF Without
  <2> HIDE DEF s, d
  <2>3. Shrinks(q[1].order_id, q[1].remaining)
    BY <1>2, <1>4, <2>1, <2>2, EraseShrinks
  <2> QED
    BY <1>2, <1>4, <1>5, <2>3
<1>6. CASE ~DropPassive
  <2>1. queue' = queue /\ index' = index
    BY <1>6 DEF MatchSelf
  <2> QED
    BY <1>2, <1>6, <2>1, QuietShrinks
<1> QED
  BY <1>5, <1>6

\* An execution takes the fill from the passive order.
LEMMA MatchFillShrinks ==
    ASSUME BooksGood, ControlType, Indexed, NEW p \in Prices, MatchFill(p)
    PROVE  LET passive == Head(Level(p))
               fill == IF remaining < passive.remaining THEN remaining ELSE passive.remaining
           IN  Shrinks(passive.order_id, fill)
<1> DEFINE s == cmd.symbol
           d == Opposite(cmd.side)
           q == queue[s][d][p]
           passive == Head(Level(p))
           fill == IF remaining < passive.remaining THEN remaining ELSE passive.remaining
           left == passive.remaining - fill
<1>1. Matching(p) /\ pc = "match"
  BY DEF MatchFill, Matching
<1>2. s \in Symbols /\ d \in Sides /\ Level(p) = q /\ BookType /\ BookInv
  BY <1>1, CommandTyped DEF Level, BooksGood
<1>3. q \in Lists /\ q # <<>> /\ fill \in Int /\ left \in Nat /\ passive.remaining \in Int
  BY <1>1, <1>2, FillQuantities
<1>4. /\ SetLevel(s, d, p, AfterFill(q, left))
      /\ index' = IndexAfterFill(passive.order_id, left)
  BY <1>2 DEF MatchFill
<1>5. /\ Tail(q) \in Lists
      /\ Len(q) \in Nat \ {0}
      /\ Len(Tail(q)) = Len(q) - 1
      /\ Head(q) = q[1]
      /\ \A j \in 1..Len(Tail(q)) : Tail(q)[j] = q[j + 1]
  <2> HIDE DEF q
  <2> QED
    BY <1>3, TailList DEF Lists
<1>6. passive = q[1]
  BY <1>2, <1>5
<1> HIDE DEF passive, fill, s, d
<1>7. CASE left = 0
  <2>1. SetLevel(s, d, p, Tail(q)) /\ index' = Unindex(q[1].order_id)
    BY <1>4, <1>6, <1>7 DEF AfterFill, IndexAfterFill
  <2>2. Without(Tail(q), q, 1) /\ 1 \in 1..Len(q)
    <3> HIDE DEF q
    <3> QED
      BY <1>5 DEF Without
  <2>3. Shrinks(q[1].order_id, q[1].remaining)
    BY <1>2, <1>5, <2>1, <2>2, EraseShrinks
  <2>4. fill = q[1].remaining
    BY <1>3, <1>6, <1>7
  <2> QED
    BY <1>6, <2>3, <2>4 DEF passive, fill
<1>8. CASE left # 0
  <2>1. SetLevel(s, d, p, [q EXCEPT ![1].remaining = q[1].remaining - fill]) /\ index' = index
    BY <1>4, <1>6, <1>8 DEF AfterFill, IndexAfterFill
  <2>2. Shrinks(q[1].order_id, fill)
    BY <1>2, <1>3, <2>1, PartialShrinks
  <2> QED
    BY <1>6, <2>2 DEF passive, fill
<1> QED
  BY <1>7, <1>8

\* cancel() takes all of the order, and the ledger closes as much.
LEMMA CancelShrinks ==
    ASSUME BooksGood, Indexed, NEW id \in Ids, CancelResting(id)
    PROVE  \E n \in Int : Shrinks(id, n) /\ ledger' = Closed(ledger, id, n) /\ index'[id] = NULL
<1> DEFINE l == index[id]
           s == l.symbol
           d == l.side
           p == l.price
           q == queue[s][d][p]
<1>1. l # NULL /\ index' = Unindex(id)
  BY DEF CancelResting
<1>2. PICK i \in 1..Len(q) : /\ q[i].node = l.iter
                             /\ SetLevel(s, d, p, RemoveAt(q, i))
                             /\ ledger' = Closed(ledger, id, q[i].remaining)
  BY DEF CancelResting
<1>3. /\ s \in Symbols /\ d \in Sides /\ p \in Prices
      /\ \E j \in 1..Len(q) : q[j].node = l.iter /\ q[j].order_id = id
      /\ BookType /\ BookInv
  BY <1>1, EntryAt DEF BooksGood
<1> HIDE DEF s, d, p
<1>4. q \in Lists /\ \A j, k \in 1..Len(q) : q[j].node = q[k].node => j = k
  BY <1>3, ListAt
<1> HIDE DEF l
<1>5. q[i].order_id = id
  BY <1>2, <1>3, <1>4
<1>6. q[i].remaining \in Int
  BY <1>3, OrderAt
<1>7. RemoveAt(q, i) \in Lists /\ Without(RemoveAt(q, i), q, i)
  <2> HIDE DEF q
  <2> QED
    BY <1>4, RemoveAtList DEF Lists, Without
<1>8. Shrinks(q[i].order_id, q[i].remaining)
  BY <1>1, <1>2, <1>3, <1>5, <1>7, EraseShrinks
<1>9. index'[id] = NULL
  BY <1>1, <1>3 DEF Unindex, BookType
<1> QED
  BY <1>2, <1>5, <1>6, <1>8, <1>9

-----------------------------------------------------------------------------
(***************************************************************************)
(* LifeInv, action by action.                                              *)
(***************************************************************************)
\* A step that shrinks the books keeps what remains indexed and in time order.
LEMMA ShrinkLife ==
    ASSUME Inv, Inv', Indexed, Timed, NEW id, NEW n, Shrinks(id, n),
           \A k \in Ids : index[k] # NULL => ledger'[k].arrived = ledger[k].arrived,
           \A k \in Ids : ledger'[k].arrived <= sequence'
    PROVE  /\ Indexed' /\ Timed'
           /\ \A k \in Ids : index[k] = NULL => index'[k] = NULL
<1>0. BookType /\ BookInv /\ BookType'
  BY TypeParts DEF Inv, TypeOK, BookType, Lists
<1>1. ASSUME NEW s \in Symbols, NEW d \in Sides, NEW p \in Prices
      PROVE  /\ \A j \in 1..Len(queue'[s][d][p]) :
                   index'[queue'[s][d][p][j].order_id] = Entry(s, d, p, queue'[s][d][p][j])
             /\ InTime(queue'[s][d][p], ledger')
  <2> DEFINE q == queue[s][d][p]
             r == queue'[s][d][p]
  <2>1. Follows(r, q, id, n) /\ \A j \in 1..Len(r) : index'[r[j].order_id] = index[r[j].order_id]
    BY DEF Shrinks
  <2>2. /\ \A k \in 1..Len(q) : index[q[k].order_id] = Entry(s, d, p, q[k])
        /\ \A k \in 1..Len(q) : index[q[k].order_id] # NULL /\ q[k].order_id \in Ids
        /\ InTime(q, ledger)
    BY <1>0, KnownIds, OrderAt DEF Indexed, Timed
  <2> HIDE DEF q, r
  <2>3. ASSUME NEW j \in 1..Len(r) PROVE index'[r[j].order_id] = Entry(s, d, p, r[j])
    <3>1. PICK k \in 1..Len(q) : Continues(r[j], q[k], id, n)
      BY <2>1 DEF Follows
    <3> QED
      BY <2>1, <2>2, <3>1 DEF Continues, Entry
  <2>4. InTime(r, ledger')
    <3> SUFFICES ASSUME NEW i \in 1..Len(r), NEW j \in 1..Len(r), i < j
                 PROVE  ledger'[r[i].order_id].arrived < ledger'[r[j].order_id].arrived
      BY DEF InTime
    <3>1. PICK k \in 1..Len(q), l \in 1..Len(q) :
             k < l /\ r[i].order_id = q[k].order_id /\ r[j].order_id = q[l].order_id
      BY <2>1 DEF Follows
    <3> QED
      BY <2>2, <3>1 DEF InTime
  <2> QED
    BY <2>3, <2>4 DEF r
<1>2. \A k \in Ids : index[k] = NULL => index'[k] = NULL
  BY DEF Shrinks
<1> QED
  BY <1>1, <1>2 DEF Indexed, Timed

\* What closing a quantity does to the records.
LEMMA ClosedRecords ==
    ASSUME NEW led \in Records, NEW id \in Ids, NEW n \in Int
    PROVE  /\ Closed(led, id, n) \in Records
           /\ \A k \in Ids :
                 /\ Closed(led, id, n)[k].arrived = led[k].arrived
                 /\ Closed(led, id, n)[k].open = led[k].open - (IF k = id THEN n ELSE 0)
<1>1. Closed(led, id, n) \in Records
  BY ClosedTyped
<1>2. \A k \in Ids : led[k] \in [open: Int, arrived: Nat]
  BY DEF Records
<1>3. \A k \in Ids : Closed(led, id, n)[k] = IF k = id THEN [led[k] EXCEPT !.open = @ - n] ELSE led[k]
  BY DEF Closed, Records
<1>4. ASSUME NEW k \in Ids
      PROVE  /\ Closed(led, id, n)[k].arrived = led[k].arrived
             /\ Closed(led, id, n)[k].open = led[k].open - (IF k = id THEN n ELSE 0)
  <2>1. led[k].open \in Int
    BY <1>2
  <2>2. CASE k = id
    <3> DEFINE x == led[k]
               y == [x EXCEPT !.open = @ - n]
    <3>1. x \in [open: Int, arrived: Nat] /\ Closed(led, id, n)[k] = y
      BY <1>2, <1>3, <2>2
    <3> HIDE DEF x
    <3>2. y.arrived = x.arrived /\ y.open = x.open - n
      BY <3>1
    <3> HIDE DEF y
    <3>3. Closed(led, id, n)[k].arrived = x.arrived /\ Closed(led, id, n)[k].open = x.open - n
      BY <3>1, <3>2
    <3> QED
      BY <2>2, <3>3 DEF x
  <2>3. CASE k # id
    <3>1. Closed(led, id, n)[k] = led[k]
      BY <1>3, <2>3
    <3>2. led[k].open - 0 = led[k].open
      BY <2>1
    <3> QED
      BY <2>3, <3>1, <3>2
  <2> QED
    BY <2>2, <2>3
<1> QED
  BY <1>1, <1>4

\* Typed records.
LEMMA RecordsTyped ==
    ASSUME NEW led \in Records, NEW id \in Ids
    PROVE  led[id].open \in Int /\ led[id].arrived \in Nat
  BY DEF Records

\* A step that leaves the books alone and no order younger.
LEMMA QuietLife ==
    ASSUME Inv, Inv', Indexed, Timed, queue' = queue, index' = index,
           sequence' \in {sequence, sequence + 1},
           \A k \in Ids : ledger'[k].arrived = ledger[k].arrived
    PROVE  Indexed' /\ Timed'
<1>1. BookType /\ ControlType
  BY TypeParts DEF Inv
<1>2. Shrinks(NULL, 0)
  BY <1>1, QuietShrinks
<1>3. \A k \in Ids : ledger[k].arrived \in Nat /\ ledger[k].arrived <= sequence /\ sequence \in Nat
  BY <1>1, RecordsTyped DEF Timed, ControlType
<1>4. \A k \in Ids : ledger'[k].arrived <= sequence'
  BY <1>3
<1> QED
  BY <1>2, <1>4, ShrinkLife

\* A new order at the back of a list, younger than the others of the list.
LEMMA JoinLife ==
    ASSUME Inv, Inv', Indexed, Timed,
           NEW s \in Symbols, NEW d \in Sides, NEW p \in Prices, NEW id \in Ids,
           index[id] = NULL,
           Len(queue'[s][d][p]) = Len(queue[s][d][p]) + 1,
           \A i \in 1..Len(queue[s][d][p]) : queue'[s][d][p][i] = queue[s][d][p][i],
           queue'[s][d][p][Len(queue[s][d][p]) + 1].order_id = id,
           \A t \in Symbols, e \in Sides, r \in Prices :
               ~(t = s /\ e = d /\ r = p) => queue'[t][e][r] = queue[t][e][r],
           \A k \in Ids :
               index'[k] = IF k = id THEN Entry(s, d, p, queue'[s][d][p][Len(queue[s][d][p]) + 1])
                                     ELSE index[k],
           \A k \in Ids : k # id => ledger'[k].arrived = ledger[k].arrived,
           \A i \in 1..Len(queue[s][d][p]) :
               ledger[queue[s][d][p][i].order_id].arrived < ledger'[id].arrived,
           \A k \in Ids : ledger'[k].arrived <= sequence'
    PROVE  Indexed' /\ Timed'
<1>0. BookType /\ BookInv
  BY TypeParts DEF Inv
<1>1. ASSUME NEW t \in Symbols, NEW e \in Sides, NEW r \in Prices
      PROVE  /\ \A j \in 1..Len(queue'[t][e][r]) :
                   index'[queue'[t][e][r][j].order_id] = Entry(t, e, r, queue'[t][e][r][j])
             /\ InTime(queue'[t][e][r], ledger')
  <2> DEFINE q == queue[t][e][r]
             z == queue'[t][e][r]
  <2>1. /\ Len(q) \in Nat
        /\ \A k \in 1..Len(q) :
              /\ index[q[k].order_id] = Entry(t, e, r, q[k])
              /\ index[q[k].order_id] # NULL
              /\ q[k].order_id \in Ids
        /\ InTime(q, ledger)
    BY <1>0, KnownIds, OrderAt, SMTT(30) DEF Indexed, Timed, BookType, Lists
  <2>2. \A k \in 1..Len(q) : q[k].order_id # id
    BY <2>1
  <2>3. \A k \in 1..Len(q) : /\ index'[q[k].order_id] = Entry(t, e, r, q[k])
                             /\ ledger'[q[k].order_id].arrived = ledger[q[k].order_id].arrived
    BY <2>1, <2>2
  <2>4. CASE t = s /\ e = d /\ r = p
    <3>1. /\ Len(z) = Len(q) + 1
          /\ \A k \in 1..Len(q) : z[k] = q[k]
          /\ z[Len(q) + 1].order_id = id
          /\ index'[id] = Entry(t, e, r, z[Len(q) + 1])
          /\ \A k \in 1..Len(q) : ledger[q[k].order_id].arrived < ledger'[id].arrived
      BY <2>4
    <3> HIDE DEF q, z
    <3>2. \A j \in 1..Len(z) : index'[z[j].order_id] = Entry(t, e, r, z[j])
      <4> SUFFICES ASSUME NEW j \in 1..Len(z)
                   PROVE  index'[z[j].order_id] = Entry(t, e, r, z[j])
        OBVIOUS
      <4>1. CASE j = Len(q) + 1
        BY <3>1, <4>1
      <4>2. CASE j # Len(q) + 1
        <5>1. j \in 1..Len(q)
          BY <2>1, <3>1, <4>2
        <5> QED
          BY <2>3, <3>1, <5>1
      <4> QED
        BY <4>1, <4>2
    <3>3. InTime(z, ledger')
      <4> SUFFICES ASSUME NEW i \in 1..Len(z), NEW j \in 1..Len(z), i < j
                   PROVE  ledger'[z[i].order_id].arrived < ledger'[z[j].order_id].arrived
        BY DEF InTime
      <4>1. i \in 1..Len(q)
        BY <2>1, <3>1
      <4>2. CASE j = Len(q) + 1
        BY <2>3, <3>1, <4>1, <4>2
      <4>3. CASE j # Len(q) + 1
        <5>1. j \in 1..Len(q)
          BY <2>1, <3>1, <4>3
        <5>2. ledger[q[i].order_id].arrived < ledger[q[j].order_id].arrived
          BY <2>1, <4>1, <5>1 DEF InTime
        <5> QED
          BY <2>3, <3>1, <4>1, <5>1, <5>2, SMTT(30)
      <4> QED
        BY <4>2, <4>3
    <3> QED
      BY <3>2, <3>3 DEF z
  <2>5. CASE ~(t = s /\ e = d /\ r = p)
    <3>1. z = q
      BY <2>5
    <3>2. InTime(q, ledger')
      <4> HIDE DEF q
      <4> QED
        BY <2>1, <2>3 DEF InTime
    <3> QED
      BY <2>3, <3>1, <3>2
  <2> QED
    BY <2>4, <2>5
<1> QED
  BY <1>1 DEF Indexed, Timed

\* The steps of add() outside the matching loop.
LEMMA AddLife ==
    ASSUME UniqueIds, Inv, Inv', LifeInv,
           \/ \E c \in Commands : Add(c)
           \/ AddRejectFok
           \/ AddAccept
           \/ MatchExit
           \/ AddRest
           \/ AddCancelRemainder
           \/ AddReturn
    PROVE  Indexed' /\ Unknown' /\ Timed'
<1>0. BookType /\ BookInv /\ ControlType /\ Indexed /\ Unknown /\ Timed
  BY TypeParts DEF Inv, LifeInv
<1>1. sequence \in Nat /\ ledger \in Records /\ remaining \in Int
      /\ \A k \in Ids : ledger[k].arrived \in Nat /\ ledger[k].arrived <= sequence
  BY <1>0, RecordsTyped DEF ControlType, Timed
<1>2. CASE \E c \in Commands : Add(c)
  <2>1. PICK c \in Commands : Add(c)
    BY <1>2
  <2>2. ~RestingId(c.order_id) /\ cmd' = c /\ ledger' = ledger /\ sequence' = sequence
        /\ queue' = queue /\ index' = index
    BY <2>1 DEF Add, bookVars
  <2>3. c.order_id \in Ids
    BY DEF Commands, AddOrder
  <2>4. index[c.order_id] = NULL
    BY <1>0, <2>2, <2>3, KnownIds
  <2>5. Indexed' /\ Timed'
    BY <1>0, <2>2, QuietLife
  <2> QED
    BY <2>2, <2>4, <2>5 DEF Unknown
<1>3. CASE AddRejectFok \/ AddReturn
  <2>1. pc' = "idle" /\ ledger' = ledger /\ sequence' \in {sequence, sequence + 1}
        /\ queue' = queue /\ index' = index
    BY <1>3 DEF AddRejectFok, AddReturn, Return, bookVars
  <2> QED
    BY <1>0, <2>1, QuietLife DEF Unknown
<1>4. CASE AddAccept
  <2>1. /\ pc = "add" /\ cmd' = cmd /\ sequence' = sequence + 1 /\ queue' = queue /\ index' = index
        /\ ledger' = [ledger EXCEPT ![cmd.order_id] = [NoRecord EXCEPT !.open = cmd.quantity]]
    BY <1>4 DEF AddAccept, bookVars
  <2>2. cmd.order_id \in Ids /\ index[cmd.order_id] = NULL
    BY <1>0, <2>1, CommandTyped DEF Unknown
  <2>3. \A k \in Ids : ledger'[k].arrived = IF k = cmd.order_id THEN 0 ELSE ledger[k].arrived
    BY <1>1, <2>1, <2>2 DEF Records, NoRecord
  <2>4. /\ \A k \in Ids : index[k] # NULL => ledger'[k].arrived = ledger[k].arrived
        /\ \A k \in Ids : ledger'[k].arrived <= sequence'
    BY <1>1, <2>1, <2>2, <2>3
  <2>5. Shrinks(NULL, 0)
    BY <1>0, <2>1, QuietShrinks
  <2>6. Indexed' /\ Timed'
    BY <1>0, <2>4, <2>5, ShrinkLife
  <2> QED
    BY <2>1, <2>2, <2>6 DEF Unknown
<1>5. CASE MatchExit
  <2>1. pc = "match" /\ cmd' = cmd /\ ledger' = ledger /\ sequence' = sequence
        /\ queue' = queue /\ index' = index
    BY <1>5 DEF MatchExit, bookVars
  <2>2. Indexed' /\ Timed'
    BY <1>0, <2>1, QuietLife
  <2> QED
    BY <1>0, <2>1, <2>2 DEF Unknown
<1>6. CASE AddRest
  <2>1. /\ pc = "finish" /\ RestOrder(cmd, remaining) /\ sequence' = sequence + 1
        /\ ledger' = [ledger EXCEPT ![cmd.order_id].arrived = sequence']
        /\ pc' \in {"idle", "error"}
    BY <1>6 DEF AddRest, Return
  <2>2. /\ cmd.symbol \in Symbols /\ cmd.order_id \in Ids /\ cmd.participant \in Participants
        /\ cmd.side \in Sides /\ cmd.price \in Prices /\ index[cmd.order_id] = NULL
    BY <1>0, <2>1, CommandTyped DEF Unknown
  <2> DEFINE s == cmd.symbol
             d == cmd.side
             p == cmd.price
             id == cmd.order_id
             old == queue[s][d][p]
             new == queue'[s][d][p]
  <2>3. /\ Len(new) = Len(old) + 1
        /\ \A i \in 1..Len(old) : new[i] = old[i]
        /\ new[Len(old) + 1].order_id = id
        /\ \A t \in Symbols, e \in Sides, r \in Prices :
              ~(t = s /\ e = d /\ r = p) => queue'[t][e][r] = queue[t][e][r]
        /\ \A k \in Ids :
              index'[k] = IF k = id THEN Entry(s, d, p, new[Len(old) + 1]) ELSE index[k]
    BY <1>0, <1>1, <2>1, <2>2, RestOrderLists
  <2>4. /\ \A k \in Ids : k # id => ledger'[k].arrived = ledger[k].arrived
        /\ ledger'[id].arrived = sequence + 1
    BY <1>1, <2>1, <2>2 DEF Records
  <2>5. \A i \in 1..Len(old) : ledger[old[i].order_id].arrived < ledger'[id].arrived
    <3> SUFFICES ASSUME NEW i \in 1..Len(old)
                 PROVE  ledger[old[i].order_id].arrived < ledger'[id].arrived
      OBVIOUS
    <3>1. old[i].order_id \in Ids
      BY <1>0, <2>2, OrderAt
    <3> QED
      BY <1>1, <2>4, <3>1, SMTT(30)
  <2>6. \A k \in Ids : ledger'[k].arrived <= sequence'
    BY <1>1, <2>1, <2>4
  <2> HIDE DEF s, d, p, id
  <2>7. Indexed' /\ Timed'
    <3>1. s \in Symbols /\ d \in Sides /\ p \in Prices /\ id \in Ids /\ index[id] = NULL
      BY <2>2 DEF s, d, p, id
    <3> QED
      BY <1>0, <2>3, <2>4, <2>5, <2>6, <3>1, JoinLife
  <2> QED
    BY <2>1, <2>7 DEF Unknown
<1>7. CASE AddCancelRemainder
  <2>1. /\ pc = "finish" /\ pc' = "idle" /\ sequence' = sequence + 1
        /\ ledger' = Closed(ledger, cmd.order_id, remaining)
        /\ queue' = queue /\ index' = index
    BY <1>7 DEF AddCancelRemainder, Return, bookVars
  <2>2. cmd.order_id \in Ids
    BY <1>0, <2>1, CommandTyped
  <2>3. \A k \in Ids : ledger'[k].arrived = ledger[k].arrived
    BY <1>1, <2>1, <2>2, ClosedRecords
  <2> QED
    BY <1>0, <2>1, <2>3, QuietLife DEF Unknown
<1> QED
  BY <1>2, <1>3, <1>4, <1>5, <1>6, <1>7

\* What one iteration of the matching loop closes in the ledger.
LEMMA MatchRecords ==
    ASSUME BooksGood, ControlType, NEW p \in Prices, MatchSelf(p) \/ MatchFill(p)
    PROVE  /\ pc = "match" /\ cmd' = cmd /\ saved' = saved
           /\ Head(Level(p)).order_id \in Ids
           /\ \A k \in Ids : ledger'[k].arrived = ledger[k].arrived
           /\ sequence' \in Nat /\ sequence' > sequence
<1> DEFINE passive == Head(Level(p))
           fill == IF remaining < passive.remaining THEN remaining ELSE passive.remaining
           taken == IF DropPassive THEN Closed(ledger, passive.order_id, passive.remaining)
                                   ELSE ledger
<1>1. Matching(p) /\ pc = "match"
  BY DEF MatchSelf, MatchFill, Matching
<1>2. passive.order_id \in Ids /\ passive.remaining \in Int /\ fill \in Int
  BY <1>1, FillQuantities DEF RestingOrder
<1>3. cmd.order_id \in Ids /\ remaining \in Int /\ ledger \in Records /\ sequence \in Nat
  BY <1>1, CommandTyped DEF ControlType
<1>4. CASE MatchSelf(p)
  <2>1. /\ ledger' = IF DropAggressor THEN Closed(taken, cmd.order_id, remaining) ELSE taken
        /\ sequence' = sequence + (IF cmd.stp = "CancelBoth" THEN 2 ELSE 1)
        /\ cmd' = cmd /\ saved' = saved
    BY <1>4 DEF MatchSelf
  <2> HIDE DEF passive
  <2>2. taken \in Records /\ \A k \in Ids : taken[k].arrived = ledger[k].arrived
    BY <1>2, <1>3, ClosedRecords
  <2> HIDE DEF taken
  <2>3. \A k \in Ids : ledger'[k].arrived = ledger[k].arrived
    BY <1>3, <2>1, <2>2, ClosedRecords
  <2> QED
    BY <1>1, <1>2, <1>3, <2>1, <2>3 DEF passive
<1>5. CASE MatchFill(p)
  <2> DEFINE first == Closed(ledger, passive.order_id, fill)
  <2>1. /\ ledger' = Closed(first, cmd.order_id, fill)
        /\ sequence' = sequence + 1
        /\ cmd' = cmd /\ saved' = saved
    BY <1>5 DEF MatchFill
  <2> HIDE DEF passive, fill
  <2>2. first \in Records /\ \A k \in Ids : first[k].arrived = ledger[k].arrived
    BY <1>2, <1>3, ClosedRecords
  <2> HIDE DEF first
  <2>3. \A k \in Ids : ledger'[k].arrived = ledger[k].arrived
    BY <1>2, <1>3, <2>1, <2>2, ClosedRecords
  <2> QED
    BY <1>1, <1>2, <1>3, <2>1, <2>3 DEF passive
<1> QED
  BY <1>4, <1>5

\* The matching loop.
LEMMA MatchLife ==
    ASSUME Inv, Inv', LifeInv, NEW p \in Prices, MatchSelf(p) \/ MatchFill(p)
    PROVE  Indexed' /\ Unknown' /\ Timed'
<1>0. BooksGood /\ ControlType /\ Indexed /\ Unknown /\ Timed
  BY TypeParts DEF Inv, BooksGood, LifeInv
<1>1. /\ pc = "match" /\ cmd' = cmd
      /\ \A k \in Ids : ledger'[k].arrived = ledger[k].arrived
      /\ sequence' \in Nat /\ sequence' > sequence
  BY <1>0, MatchRecords
<1>2. \E id, n : Shrinks(id, n)
  <2>1. CASE MatchSelf(p)
    BY <1>0, <2>1, MatchSelfShrinks
  <2>2. CASE MatchFill(p)
    BY <1>0, <2>2, MatchFillShrinks
  <2> QED
    BY <2>1, <2>2
<1>3. \A k \in Ids : ledger'[k].arrived <= sequence'
  <2>1. \A k \in Ids : ledger[k].arrived \in Nat /\ ledger[k].arrived <= sequence
    BY <1>0, RecordsTyped DEF Timed, ControlType
  <2>2. sequence \in Nat
    BY <1>0 DEF ControlType
  <2> QED
    BY <1>1, <2>1, <2>2
<1>4. /\ Indexed' /\ Timed'
      /\ \A k \in Ids : index[k] = NULL => index'[k] = NULL
  BY <1>0, <1>1, <1>2, <1>3, ShrinkLife
<1>5. cmd.order_id \in Ids /\ index[cmd.order_id] = NULL
  BY <1>0, <1>1, CommandTyped DEF Unknown
<1> QED
  BY <1>1, <1>4, <1>5 DEF Unknown

\* cancel() and replace().
LEMMA CancelLife ==
    ASSUME UniqueIds, Inv, Inv', LifeInv, NEW id \in Ids,
           \/ Cancel(id)
           \/ \E newId \in Ids, s \in Symbols, p \in Prices, quantity \in Quantities :
                 \E style \in Styles : Replace(id, newId, s, p, quantity, style[1])
    PROVE  Indexed' /\ Unknown' /\ Timed'
<1>0. BooksGood /\ BookType /\ BookInv /\ ControlType /\ Indexed /\ Timed
  BY TypeParts DEF Inv, BooksGood, LifeInv
<1>1. CancelResting(id) /\ sequence' = sequence + 1
  BY DEF Cancel, Replace, CancelResting
<1>2. PICK n \in Int : Shrinks(id, n) /\ ledger' = Closed(ledger, id, n) /\ index'[id] = NULL
  BY <1>0, <1>1, CancelShrinks
<1>3. ledger \in Records /\ sequence \in Nat
      /\ \A k \in Ids : ledger[k].arrived \in Nat /\ ledger[k].arrived <= sequence
  BY <1>0, RecordsTyped DEF Timed, ControlType
<1>4. \A k \in Ids : ledger'[k].arrived = ledger[k].arrived /\ ledger'[k].arrived <= sequence'
  <2>1. \A k \in Ids : Closed(ledger, id, n)[k].arrived = ledger[k].arrived
    BY <1>3, ClosedRecords
  <2> QED
    BY <1>1, <1>2, <1>3, <2>1
<1>5. /\ Indexed' /\ Timed'
      /\ \A k \in Ids : index[k] = NULL => index'[k] = NULL
  BY <1>0, <1>2, <1>4, ShrinkLife
<1>6. Unknown'
  <2>1. CASE Cancel(id)
    <3>1. pc' = "idle"
      BY <2>1 DEF Cancel, Call
    <3> QED
      BY <3>1 DEF Unknown
  <2>2. CASE \E newId \in Ids, s \in Symbols, p \in Prices, quantity \in Quantities :
                 \E style \in Styles : Replace(id, newId, s, p, quantity, style[1])
    <3>0. PICK newId \in Ids, s \in Symbols, p \in Prices, quantity \in Quantities :
             \E style \in Styles : Replace(id, newId, s, p, quantity, style[1])
      BY <2>2
    <3>1. (newId = id \/ ~RestingId(newId)) /\ cmd'.order_id = newId
      <4>1. PICK style \in Styles : Replace(id, newId, s, p, quantity, style[1])
        BY <3>0
      <4>2. newId = id \/ ~RestingId(newId)
        BY <4>1 DEF Replace
      <4>3. PICK x : cmd' = [symbol |-> s, order_id |-> newId, participant |-> x,
                             side |-> index[id].side, price |-> p, quantity |-> quantity,
                             tif |-> style[1], stp |-> "None"]
        BY <4>1 DEF Replace
      <4> QED
        BY <4>2, <4>3
    <3>2. newId = id \/ index[newId] = NULL
      BY <1>0, <3>1, KnownIds
    <3> QED
      BY <1>2, <1>5, <3>1, <3>2 DEF Unknown
  <2> QED
    BY <2>1, <2>2
<1> QED
  BY <1>5, <1>6

\* Clearing the books leaves nothing to index, and a ledger that is not ahead.
LEMMA ClearLife ==
    ASSUME Inv, LifeInv, LoadSnapshot \/ LoadInvalid
    PROVE  Indexed' /\ Unknown' /\ Timed'
<1>1. queue' = EmptyQueues /\ pc' \in {"idle", "load"}
  BY DEF LoadSnapshot, LoadInvalid, Clear, Call
<1>2. \A s \in Symbols, d \in Sides, p \in Prices : queue'[s][d][p] = <<>>
  BY <1>1 DEF EmptyQueues
<1>3. \A k \in Ids : ledger'[k].arrived <= sequence'
  <2>1. CASE LoadSnapshot
    BY <2>1 DEF LoadSnapshot, LifeInv, SavedLife
  <2>2. CASE LoadInvalid
    BY <2>2 DEF LoadInvalid, NoRecord
  <2> QED
    BY <2>1, <2>2
<1> QED
  BY <1>1, <1>2, <1>3 DEF Indexed, Unknown, Timed, InTime

\* Restoring an order that is younger than those of its list restored before.
LEMMA RestoreLife ==
    ASSUME Inv, Inv', ReloadInv, LifeInv, NEW t \in todo, RestoreOrder(t)
    PROVE  Indexed' /\ Unknown' /\ Timed'
<1> DEFINE s == t[1]
           d == t[2]
           p == t[3]
           id == DocumentAt(t).order_id
           old == queue[s][d][p]
           new == queue'[s][d][p]
           w == saved.queue[s][d][p]
<1>0. BookType /\ BookInv /\ ControlType /\ Indexed /\ Timed
  BY TypeParts DEF Inv, LifeInv
<1>1. /\ pc' = "load" /\ ledger' = ledger /\ sequence' = sequence /\ saved' = saved
      /\ todo' = todo \ {t}
  BY DEF RestoreOrder
<1>2. /\ t \in Document /\ s \in Symbols /\ d \in Sides /\ p \in Prices /\ id \in Ids
      /\ pc = "load" /\ saved # NULL
  BY RestoredOrder
<1>3. /\ Len(old) \in Nat
      /\ t[4] = Len(old) + 1
      /\ Len(new) = Len(old) + 1
      /\ \A i \in 1..Len(old) : new[i] = old[i]
      /\ new[Len(old) + 1].order_id = id
      /\ \A x \in Symbols, y \in Sides, z \in Prices :
            ~(x = s /\ y = d /\ z = p) => queue'[x][y][z] = queue[x][y][z]
      /\ \A k \in Ids :
            index'[k] = IF k = id THEN Entry(s, d, p, new[Len(old) + 1]) ELSE index[k]
  BY RestoredLists
<1>4. index[id] = NULL /\ ledger = saved.ledger
  BY <1>2 DEF LifeInv, LoadLife
<1>5. \A i \in 1..Len(old) : ledger[old[i].order_id].arrived < ledger'[id].arrived
  <2>1. t[4] \in 1..Len(w) /\ id = w[t[4]].order_id /\ Len(w) \in Nat
    BY <1>0, <1>2, DocumentPlaces, DocumentLists DEF PlacesExact, DocumentAt
  <2>2. InTime(w, saved.ledger) /\ RestoredPart(old, w)
    BY <1>2 DEF LifeInv, SavedLife, ReloadInv, LoadExact
  <2> HIDE DEF old, w, id
  <2>3. \A i \in 1..Len(old) : i \in 1..Len(w) /\ i < t[4] /\ old[i].order_id = w[i].order_id
    BY <1>3, <2>1, <2>2 DEF RestoredPart
  <2> QED
    BY <1>1, <1>4, <2>1, <2>2, <2>3 DEF InTime
<1>6. \A k \in Ids : ledger'[k].arrived = ledger[k].arrived /\ ledger'[k].arrived <= sequence'
  BY <1>0, <1>1 DEF Timed
<1> HIDE DEF s, d, p, id
<1>7. Indexed' /\ Timed'
  BY <1>0, <1>2, <1>3, <1>4, <1>5, <1>6, JoinLife
<1> QED
  BY <1>1, <1>7 DEF Unknown

\* The document and the rest of loading.
LEMMA SavedLifeStep ==
    ASSUME Inv, LifeInv, Next
    PROVE  SavedLife'
<1>0. BookType /\ BookInv /\ ControlType /\ Indexed /\ Timed /\ SavedLife
  BY TypeParts DEF Inv, LifeInv
<1>1. CASE Snapshot
  <2>1. /\ saved'.sequence = sequence /\ saved'.ledger = ledger
        /\ \A s \in Symbols, d \in Sides, p \in Prices :
              saved'.queue[s][d][p] = Serialize(queue[s][d][p])
    BY <1>1 DEF Snapshot, SerializedQueues
  <2>2. ASSUME NEW s \in Symbols, NEW d \in Sides, NEW p \in Prices
        PROVE  /\ Len(saved'.queue[s][d][p]) = Len(queue[s][d][p])
               /\ \A i \in 1..Len(queue[s][d][p]) :
                     saved'.queue[s][d][p][i].order_id = queue[s][d][p][i].order_id
    <3>1. queue[s][d][p] \in Lists
      BY <1>0 DEF BookType
    <3> QED
      BY <2>1, <3>1, SerializeAt
  <2>3. ASSUME NEW s \in Symbols, NEW d \in Sides, NEW p \in Prices
        PROVE  InTime(saved'.queue[s][d][p], saved'.ledger)
    <3> DEFINE q == queue[s][d][p]
               w == saved'.queue[s][d][p]
    <3>1. InTime(q, ledger) /\ Len(w) = Len(q) /\ \A i \in 1..Len(q) : w[i].order_id = q[i].order_id
      BY <1>0, <2>2 DEF Timed
    <3> HIDE DEF q, w
    <3>2. InTime(w, ledger)
      BY <3>1 DEF InTime
    <3> QED
      BY <2>1, <3>2 DEF w
  <2>4. ASSUME NEW t \in Document', NEW u \in Document',
               DocumentAt(t)'.order_id = DocumentAt(u)'.order_id
        PROVE  t = u
    <3>0. PlacesExact'
      BY DocumentPlaces, PTL
    <3>1. /\ t[1] \in Symbols /\ t[2] \in Sides /\ t[3] \in Prices
          /\ t[4] \in 1..Len(saved'.queue[t[1]][t[2]][t[3]])
          /\ t = <<t[1], t[2], t[3], t[4]>>
      BY <3>0 DEF PlacesExact
    <3>2. /\ u[1] \in Symbols /\ u[2] \in Sides /\ u[3] \in Prices
          /\ u[4] \in 1..Len(saved'.queue[u[1]][u[2]][u[3]])
          /\ u = <<u[1], u[2], u[3], u[4]>>
      BY <3>0 DEF PlacesExact
    <3>3. t[4] \in 1..Len(queue[t[1]][t[2]][t[3]]) /\ u[4] \in 1..Len(queue[u[1]][u[2]][u[3]])
      BY <2>2, <3>1, <3>2
    <3>4. /\ DocumentAt(t)'.order_id = queue[t[1]][t[2]][t[3]][t[4]].order_id
          /\ DocumentAt(u)'.order_id = queue[u[1]][u[2]][u[3]][u[4]].order_id
      BY <2>2, <3>1, <3>2, <3>3 DEF DocumentAt
    <3>5. queue[t[1]][t[2]][t[3]][t[4]].order_id = queue[u[1]][u[2]][u[3]][u[4]].order_id
      BY <2>4, <3>4
    <3>6. t[1] = u[1] /\ t[2] = u[2] /\ t[3] = u[3] /\ t[4] = u[4]
      <4> DEFINE t1 == t[1]
                 t2 == t[2]
                 t3 == t[3]
                 t4 == t[4]
                 u1 == u[1]
                 u2 == u[2]
                 u3 == u[3]
                 u4 == u[4]
      <4>1. /\ t1 \in Symbols /\ t2 \in Sides /\ t3 \in Prices
            /\ t4 \in 1..Len(queue[t1][t2][t3])
            /\ u1 \in Symbols /\ u2 \in Sides /\ u3 \in Prices
            /\ u4 \in 1..Len(queue[u1][u2][u3])
            /\ queue[t1][t2][t3][t4].order_id = queue[u1][u2][u3][u4].order_id
        BY <3>1, <3>2, <3>3, <3>5
      <4> HIDE DEF t1, t2, t3, t4, u1, u2, u3, u4
      <4>2. t1 = u1 /\ t2 = u2 /\ t3 = u3 /\ t4 = u4
        BY <1>0, <4>1, DistinctOrders
      <4> QED
        BY <4>2 DEF t1, t2, t3, t4, u1, u2, u3, u4
    <3> QED
      BY <3>1, <3>2, <3>6
  <2>5. \A id \in Ids : saved'.ledger[id].arrived <= saved'.sequence
    BY <1>0, <2>1 DEF Timed
  <2> QED
    BY <2>3, <2>4, <2>5 DEF SavedLife
<1>2. CASE saved' = saved
  <2>1. Document' = Document /\ \A t : DocumentAt(t)' = DocumentAt(t)
    BY <1>2 DEF Document, DocumentAt
  <2> QED
    BY <1>0, <1>2, <2>1 DEF SavedLife, DocumentAt
<1> QED
  BY <1>1, <1>2
  DEF Next, Step, Request, AddRejectFok, AddAccept, MatchSelf, MatchFill, MatchExit, AddRest,
      AddCancelRemainder, AddReturn, RestoreOrder, LoadReturn, Add, Cancel, RejectUnknown,
      Replace, Reject, Query, LoadSnapshot, LoadInvalid, vars

\* While loading, the orders still to come are unknown to the index.
LEMMA LoadLifeStep ==
    ASSUME Inv, ReloadInv, LifeInv, Next
    PROVE  LoadLife'
<1> SUFFICES ASSUME pc' = "load" PROVE LoadLife'
  BY DEF LoadLife
<1>1. CASE LoadSnapshot
  <2>0. PlacesExact /\ ControlType /\ saved # NULL
    BY <1>1, DocumentPlaces, TypeParts DEF Inv, LoadSnapshot
  <2>1. saved' = saved /\ ledger' = saved.ledger /\ index' = [id \in Ids |-> NULL] /\ todo' = Document
    BY <1>1 DEF LoadSnapshot, Clear
  <2>2. ASSUME NEW t \in Document PROVE DocumentAt(t).order_id \in Ids
    <3>1. DocumentAt(t) \in SavedOrder
      BY <2>0, DocumentLists DEF PlacesExact, DocumentAt
    <3> QED
      BY <3>1 DEF SavedOrder
  <2>3. \A t \in todo' : index'[DocumentAt(t).order_id] = NULL
    BY <2>1, <2>2
  <2> QED
    BY <2>1, <2>3 DEF LoadLife, DocumentAt
<1>2. CASE \E t \in todo : RestoreOrder(t)
  <2>1. PICK t \in todo : RestoreOrder(t)
    BY <1>2
  <2>2. /\ ledger' = ledger /\ saved' = saved /\ todo' = todo \ {t}
        /\ pc = "load" /\ saved # NULL /\ t \in Document /\ todo \subseteq Document
    BY <2>1, RestoredOrder DEF RestoreOrder, Inv, LoadInv
  <2>3. \A id \in Ids : id # DocumentAt(t).order_id => index'[id] = index[id]
    BY <2>1, RestoredLists
  <2>4. ASSUME NEW u \in todo' PROVE index'[DocumentAt(u).order_id] = NULL
    <3>1. u \in todo /\ u \in Document /\ u # t
      BY <2>2
    <3>2. DocumentAt(u).order_id # DocumentAt(t).order_id
      BY <2>2, <3>1 DEF LifeInv, SavedLife
    <3>3. index[DocumentAt(u).order_id] = NULL
      BY <2>2, <3>1 DEF LifeInv, LoadLife
    <3>4. DocumentAt(u).order_id \in Ids
      <4>1. PlacesExact /\ ControlType
        BY DocumentPlaces, TypeParts DEF Inv
      <4>2. DocumentAt(u) \in SavedOrder
        BY <2>2, <3>1, <4>1, DocumentLists DEF PlacesExact, DocumentAt
      <4> QED
        BY <4>2 DEF SavedOrder
    <3> QED
      BY <2>3, <3>2, <3>3, <3>4
  <2>5. ledger' = saved'.ledger
    BY <2>2 DEF LifeInv, LoadLife
  <2> QED
    BY <2>2, <2>4, <2>5 DEF LoadLife, DocumentAt
<1> QED
  BY <1>1, <1>2, LoadSteps

\* Every step of an engine whose callers use unique ids keeps LifeInv.
LEMMA LifeStep ==
    ASSUME UniqueIds, Inv, Inv', ReloadInv, LifeInv, Next
    PROVE  LifeInv'
<1>0. Indexed /\ Unknown /\ Timed /\ ControlType
  BY TypeParts DEF LifeInv, Inv
<1>1. Indexed' /\ Unknown' /\ Timed'
  <2>1. CASE \/ \E c \in Commands : Add(c)
             \/ AddRejectFok
             \/ AddAccept
             \/ MatchExit
             \/ AddRest
             \/ AddCancelRemainder
             \/ AddReturn
    BY <2>1, AddLife
  <2>2. CASE (\E p \in Prices : MatchSelf(p)) \/ (\E p \in Prices : MatchFill(p))
    BY <2>2, MatchLife
  <2>3. CASE \/ \E id \in Ids : Cancel(id)
             \/ \E id, newId \in Ids, s \in Symbols, p \in Prices, quantity \in Quantities :
                   \E style \in Styles : Replace(id, newId, s, p, quantity, style[1])
    BY <2>3, CancelLife
  <2>4. CASE LoadSnapshot \/ LoadInvalid
    BY <2>4, ClearLife
  <2>5. CASE \E t \in todo : RestoreOrder(t)
    BY <2>5, RestoreLife
  <2>6. CASE LoadReturn \/ (\E id \in Ids : RejectUnknown(id)) \/ Reject \/ Query \/ Snapshot
    <3>1. /\ queue' = queue /\ index' = index /\ ledger' = ledger /\ pc' = "idle"
          /\ sequence' \in {sequence, sequence + 1}
      BY <2>6 DEF LoadReturn, RejectUnknown, Reject, Query, Snapshot, Call, bookVars, vars
    <3>2. Indexed' /\ Timed'
      BY <1>0, <3>1, QuietLife
    <3> QED
      BY <3>1, <3>2 DEF Unknown
  <2> QED
    BY <2>1, <2>2, <2>3, <2>4, <2>5, <2>6 DEF Next, Step, Request
<1> QED
  BY <1>1, SavedLifeStep, LoadLifeStep DEF LifeInv

\* LifeInv holds in every state, if callers use unique ids.
THEOREM LifeInvariance ==
    ASSUME UniqueIds
    PROVE  Spec => [](Inv /\ ReloadInv /\ LifeInv)
<1>1. Init => LifeInv
  <2> SUFFICES ASSUME Init PROVE LifeInv
    OBVIOUS
  <2>1. /\ queue = EmptyQueues /\ pc = "idle" /\ saved = NULL /\ sequence = 0
        /\ ledger = [id \in Ids |-> NoRecord]
    BY DEF Init
  <2>2. \A s \in Symbols, d \in Sides, p \in Prices : queue[s][d][p] = <<>>
    BY <2>1 DEF EmptyQueues
  <2>3. \A id \in Ids : ledger[id].arrived = 0
    BY <2>1 DEF NoRecord
  <2> QED
    BY <2>1, <2>2, <2>3 DEF LifeInv, Indexed, Unknown, Timed, InTime, SavedLife, LoadLife
<1>2. Inv /\ Inv' /\ ReloadInv /\ LifeInv /\ [Next]_vars => LifeInv'
  <2>1. ASSUME Inv, Inv', ReloadInv, LifeInv, Next PROVE LifeInv'
    BY <2>1, LifeStep
  <2>2. ASSUME LifeInv, UNCHANGED vars PROVE LifeInv'
    <3>0. UNCHANGED <<queue, index, sequence, pc, cmd, ledger, saved, todo>>
      BY <2>2 DEF vars
    <3>1. Document' = Document
      BY <3>0 DEF Document
    <3> QED
      BY <2>2, <3>0, <3>1, ZenonT(30)
      DEF LifeInv, Indexed, Unknown, Timed, InTime, SavedLife, LoadLife, DocumentAt
  <2> QED
    BY <2>1, <2>2
<1> QED
  BY <1>1, <1>2, ReloadInvariance, PTL DEF Spec

\* Every resting order can be found for cancel() and replace(), if callers do not
\* add an id that is resting.
THEOREM EveryOrderReachable ==
    ASSUME UniqueIds
    PROVE  Spec => []IndexComplete
<1>1. ASSUME Inv, LifeInv PROVE IndexComplete
  <2>0. BookType /\ BookInv /\ Indexed
    BY <1>1, TypeParts DEF Inv, LifeInv
  <2> SUFFICES ASSUME NEW s \in Symbols, NEW d \in Sides, NEW o \in RestingOn(s, d)
               PROVE  index[o.order_id] # NULL /\ index[o.order_id].iter = o.node
    BY DEF IndexComplete
  <2>1. PICK p \in Prices : \E i \in 1..Len(queue[s][d][p]) : o = queue[s][d][p][i]
    BY <2>0, RestingPlaces
  <2>2. index[o.order_id] = Entry(s, d, p, o) /\ index[o.order_id] # NULL
    BY <2>0, <2>1, KnownIds DEF Indexed
  <2> QED
    BY <2>2 DEF Entry
<1> QED
  BY <1>1, LifeInvariance, PTL

\* Price-time priority with passive-price execution, for every book and every
\* history of it, reloading included: a trade is made with the order that goes
\* before all others of its side, at that order's price and within the limit.
THEOREM PriceTimePriority ==
    ASSUME UniqueIds
    PROVE  Spec => PriceTime
<1>1. ASSUME Inv, LifeInv, [Next]_vars PROVE [PriceTimeStep]_vars
  <2>0. BooksGood /\ BookType /\ BookInv /\ ControlType /\ Timed
    BY <1>1, TypeParts DEF Inv, BooksGood, LifeInv
  <2> SUFFICES ASSUME Next, Len(trades') > Len(trades) PROVE PriceTimeStep
    BY <1>1 DEF PriceTimeStep
  <2>1. Len(trades) \in Nat
    BY <2>0 DEF ControlType
  <2>2. trades' # trades /\ trades' # <<>>
    BY <2>1
  <2>3. \E p \in Prices : MatchFill(p)
    BY <2>2
    DEF Next, Step, Request, AddRejectFok, AddAccept, MatchSelf, MatchExit, AddRest,
        AddCancelRemainder, AddReturn, RestoreOrder, LoadReturn, Add, Cancel, RejectUnknown,
        Replace, Reject, Query, Snapshot, LoadSnapshot, LoadInvalid, Return, vars
  <2>4. PICK p \in Prices : MatchFill(p)
    BY <2>3
  <2> DEFINE s == cmd.symbol
             d == Opposite(cmd.side)
             q == queue[s][d][p]
             o == q[1]
             fill == IF remaining < Head(Level(p)).remaining THEN remaining
                                                             ELSE Head(Level(p)).remaining
  <2>5. /\ Matching(p) /\ pc = "match"
        /\ trades' = Append(trades, BuildTrade(Head(Level(p)), fill))
    BY <2>4 DEF MatchFill, Matching
  <2>6. s \in Symbols /\ d \in Sides /\ Level(p) = q
    BY <2>0, <2>5, CommandTyped DEF Level
  <2>7. q \in Lists /\ q # <<>>
    BY <2>0, <2>5, <2>6, FillQuantities
  <2>8. Head(q) = o /\ 1 \in 1..Len(q)
    <3> HIDE DEF q
    <3> QED
      BY <2>7, TailList DEF Lists
  <2>9. o.symbol = s /\ o.side = d /\ o.price = p
    BY <2>0, <2>6, <2>8, ListAt
  <2>10. Last(trades').passive = o.order_id /\ Last(trades').price = o.price
    <3> DEFINE b == BuildTrade(Head(Level(p)), fill)
    <3>1. b.passive = o.order_id /\ b.price = o.price
      BY <2>6, <2>8 DEF BuildTrade
    <3> HIDE DEF b
    <3>2. trades \in Seq(TradeReport) /\ trades' = Append(trades, b)
      BY <2>0, <2>5 DEF ControlType, b
    <3>3. Last(trades') = b
      BY <3>2 DEF Last
    <3> QED
      BY <3>1, <3>3
  <2>11. o \in RestingOn(s, d)
    BY <2>0, <2>6, <2>8, RestingPlaces
  <2>12. ASSUME NEW u \in RestingOn(s, d) \ {o} PROVE Before(o, u)
    <3>1. PICK r \in Prices : \E i \in 1..Len(queue[s][d][r]) : u = queue[s][d][r][i]
      BY <2>0, <2>6, RestingPlaces
    <3>2. PICK i \in 1..Len(queue[s][d][r]) : u = queue[s][d][r][i]
      BY <3>1
    <3>3. u.price = r /\ r \in levels[s][d]
      <4>1. queue[s][d][r] # <<>>
        BY <2>0, <2>6, <3>2 DEF BookType, Lists
      <4> QED
        BY <2>0, <2>6, <3>2, <4>1, ListAt
    <3>4. CASE r = p
      <4>1. i \in 1..Len(q) /\ u = q[i] /\ i # 1
        BY <3>2, <3>4
      <4>2. 1 < i
        BY <4>1
      <4>3. ledger[o.order_id].arrived < ledger[u.order_id].arrived
        BY <2>0, <2>6, <2>8, <4>1, <4>2 DEF Timed, InTime
      <4> QED
        BY <2>9, <3>3, <3>4, <4>3 DEF Before
    <3>5. CASE r # p
      <4>1. AtLeast(d, p, r)
        BY <2>5, <3>3 DEF Matching, IsBest
      <4> QED
        BY <2>9, <3>3, <3>5, <4>1 DEF Before
    <3> QED
      BY <3>4, <3>5
  <2>13. Accepts(cmd, Last(trades').price)
    BY <2>5, <2>9, <2>10 DEF Matching
  <2> HIDE DEF o
  <2> QED
    BY <2>10, <2>11, <2>12, <2>13 DEF PriceTimeStep
<1> QED
  BY <1>1, LifeInvariance, PTL DEF PriceTime, Spec

-----------------------------------------------------------------------------
(***************************************************************************)
(* Volume.  What the events leave open of an order is what the books, the  *)
(* add() in progress or the document hold of it.                           *)
(***************************************************************************)

\* What the events leave open of a resting order is what rests.
OpenRests ==
    \A s \in Symbols, d \in Sides, p \in Prices : \A i \in 1..Len(queue[s][d][p]) :
        ledger[queue[s][d][p][i].order_id].open = queue[s][d][p][i].remaining

\* What they leave open of the order add() works on is what it has left.
OpenWorking == pc \in {"match", "finish"} => ledger[cmd.order_id].open = remaining

\* They leave nothing open of any other order.
NothingElse ==
    pc # "load" =>
        \A id \in Ids :
            index[id] = NULL /\ ~(pc \in {"match", "finish"} /\ cmd.order_id = id) =>
                ledger[id].open = 0

\* The same for the orders of the document.
SavedOpen ==
    saved # NULL =>
        /\ \A t \in Document : saved.ledger[DocumentAt(t).order_id].open = DocumentAt(t).remaining
        /\ \A id \in Ids : saved.ledger[id].open = 0 \/ \E t \in Document : DocumentAt(t).order_id = id

\* An order of the document is still to be restored or found in the index.
LoadOpen ==
    pc = "load" => \A t \in Document : t \in todo \/ index[DocumentAt(t).order_id] # NULL

\* What VolumeConserved needs.
VolumeInv ==
    /\ OpenRests
    /\ OpenWorking
    /\ NothingElse
    /\ SavedOpen
    /\ LoadOpen

-----------------------------------------------------------------------------
(***************************************************************************)
(* VolumeInv, action by action.                                            *)
(***************************************************************************)
\* A step that takes n from one order and closes as much in the ledger.
LEMMA ShrinkOpen ==
    ASSUME BookType, BookInv, Indexed, ControlType, OpenRests,
           NEW id, NEW n, n \in Int, Shrinks(id, n),
           \A k \in Ids : index[k] # NULL =>
               ledger'[k].open = ledger[k].open - (IF k = id THEN n ELSE 0)
    PROVE  /\ OpenRests'
           /\ \A k \in Ids : index[k] # NULL /\ index'[k] = NULL => ledger'[k].open = 0
<1>1. ASSUME NEW s \in Symbols, NEW d \in Sides, NEW p \in Prices, NEW k \in 1..Len(queue[s][d][p])
      PROVE  LET u == queue[s][d][p][k] IN
             /\ u.order_id \in Ids /\ u.remaining \in Int /\ index[u.order_id] # NULL
             /\ ledger[u.order_id].open = u.remaining
             /\ ledger'[u.order_id].open = u.remaining - (IF u.order_id = id THEN n ELSE 0)
  <2>1. queue[s][d][p][k].order_id \in Ids /\ queue[s][d][p][k].remaining \in Int
        /\ index[queue[s][d][p][k].order_id] # NULL
    BY OrderAt, KnownIds
  <2> QED
    BY <2>1 DEF OpenRests
<1>2. ASSUME NEW s \in Symbols, NEW d \in Sides, NEW p \in Prices, NEW j \in 1..Len(queue'[s][d][p])
      PROVE  ledger'[queue'[s][d][p][j].order_id].open = queue'[s][d][p][j].remaining
  <2>1. PICK k \in 1..Len(queue[s][d][p]) : Continues(queue'[s][d][p][j], queue[s][d][p][k], id, n)
    BY DEF Shrinks, Follows
  <2> QED
    BY <1>1, <2>1 DEF Continues
<1>3. ASSUME NEW k \in Ids, index[k] # NULL, index'[k] = NULL PROVE ledger'[k].open = 0
  <2>1. k = id /\ RestsWith(id, n)
    BY <1>3 DEF Shrinks
  <2>2. PICK s \in Symbols, d \in Sides, p \in Prices : \E i \in 1..Len(queue[s][d][p]) :
           queue[s][d][p][i].order_id = id /\ queue[s][d][p][i].remaining = n
    BY <2>1 DEF RestsWith
  <2>3. ledger'[id].open = n - n
    BY <1>1, <2>2
  <2> QED
    BY <2>1, <2>3
<1> QED
  BY <1>2, <1>3 DEF OpenRests

\* A step that leaves the books and the records of the resting orders alone.
LEMMA QuietOpen ==
    ASSUME BookType, BookInv, Indexed, OpenRests, queue' = queue,
           \A k \in Ids : index[k] # NULL => ledger'[k].open = ledger[k].open
    PROVE  OpenRests'
<1> SUFFICES ASSUME NEW s \in Symbols, NEW d \in Sides, NEW p \in Prices,
                    NEW i \in 1..Len(queue[s][d][p])
             PROVE  ledger'[queue[s][d][p][i].order_id].open = queue[s][d][p][i].remaining
  BY DEF OpenRests
<1>1. queue[s][d][p][i].order_id \in Ids /\ index[queue[s][d][p][i].order_id] # NULL
  BY OrderAt, KnownIds
<1> QED
  BY <1>1 DEF OpenRests

\* A new order that rests with what is open of it.
LEMMA JoinOpen ==
    ASSUME BookType, BookInv, Indexed, OpenRests,
           NEW s \in Symbols, NEW d \in Sides, NEW p \in Prices, NEW id \in Ids,
           Len(queue'[s][d][p]) = Len(queue[s][d][p]) + 1,
           \A i \in 1..Len(queue[s][d][p]) : queue'[s][d][p][i] = queue[s][d][p][i],
           queue'[s][d][p][Len(queue[s][d][p]) + 1].order_id = id,
           queue'[s][d][p][Len(queue[s][d][p]) + 1].remaining = ledger'[id].open,
           \A t \in Symbols, e \in Sides, r \in Prices :
               ~(t = s /\ e = d /\ r = p) => queue'[t][e][r] = queue[t][e][r],
           \A k \in Ids : ledger'[k].open = ledger[k].open
    PROVE  OpenRests'
<1>1. ASSUME NEW t \in Symbols, NEW e \in Sides, NEW r \in Prices, NEW i \in 1..Len(queue[t][e][r])
      PROVE  ledger'[queue[t][e][r][i].order_id].open = queue[t][e][r][i].remaining
  <2>1. queue[t][e][r][i].order_id \in Ids
    BY OrderAt
  <2> QED
    BY <2>1 DEF OpenRests
<1>2. ASSUME NEW t \in Symbols, NEW e \in Sides, NEW r \in Prices, NEW i \in 1..Len(queue'[t][e][r])
      PROVE  ledger'[queue'[t][e][r][i].order_id].open = queue'[t][e][r][i].remaining
  <2>1. CASE ~(t = s /\ e = d /\ r = p)
    <3>1. queue'[t][e][r] = queue[t][e][r]
      BY <2>1
    <3>2. i \in 1..Len(queue[t][e][r])
      BY <1>2, <3>1
    <3>3. ledger'[queue[t][e][r][i].order_id].open = queue[t][e][r][i].remaining
      BY <1>1, <3>2
    <3> QED
      BY <3>1, <3>3
  <2>2. CASE t = s /\ e = d /\ r = p /\ i = Len(queue[s][d][p]) + 1
    BY <2>2
  <2>3. CASE t = s /\ e = d /\ r = p /\ i # Len(queue[s][d][p]) + 1
    <3>1. Len(queue[s][d][p]) \in Nat
      BY DEF BookType, Lists
    <3>2. i \in 1..Len(queue[s][d][p])
      BY <1>2, <2>3, <3>1
    <3>3. queue'[t][e][r][i] = queue[s][d][p][i]
      BY <2>3, <3>2
    <3>4. ledger'[queue[s][d][p][i].order_id].open = queue[s][d][p][i].remaining
      BY <1>1, <3>2
    <3> QED
      BY <3>3, <3>4
  <2> QED
    BY <2>1, <2>2, <2>3
<1> QED
  BY <1>2 DEF OpenRests

\* One iteration of the matching loop: m is taken from the aggressor, n from the
\* passive order id, in the books and in the ledger.
LEMMA MatchCloses ==
    ASSUME BooksGood, ControlType, Indexed, NEW p \in Prices, MatchSelf(p) \/ MatchFill(p)
    PROVE  \E id \in Ids, n \in Int, m \in Int :
              /\ Shrinks(id, n) /\ index[id] # NULL
              /\ remaining' = remaining - m
              /\ \A k \in Ids : ledger'[k].open = ledger[k].open - (IF k = id THEN n ELSE 0)
                                                  - (IF k = cmd.order_id THEN m ELSE 0)
<1> DEFINE s == cmd.symbol
           d == Opposite(cmd.side)
           q == queue[s][d][p]
           passive == Head(Level(p))
           fill == IF remaining < passive.remaining THEN remaining ELSE passive.remaining
           id == passive.order_id
<1>1. Matching(p) /\ pc = "match"
  BY DEF MatchSelf, MatchFill, Matching
<1>2. /\ s \in Symbols /\ d \in Sides /\ Level(p) = q /\ BookType /\ BookInv
      /\ cmd.order_id \in Ids /\ remaining \in Int /\ ledger \in Records
  BY <1>1, CommandTyped DEF Level, BooksGood, ControlType
<1>3. q \in Lists /\ q # <<>> /\ passive.order_id \in Ids /\ passive.remaining \in Int /\ fill \in Int
  BY <1>1, <1>2, FillQuantities DEF RestingOrder
<1>4. passive = q[1] /\ 1 \in 1..Len(q)
  <2> HIDE DEF q
  <2> QED
    BY <1>2, <1>3, TailList DEF Lists
<1>5. index[id] # NULL
  BY <1>2, <1>4, KnownIds
<1>6. \A k \in Ids : ledger[k].open \in Int
  BY <1>2, RecordsTyped
<1>7. CASE MatchSelf(p)
  <2> DEFINE n == IF DropPassive THEN passive.remaining ELSE 0
             m == IF DropAggressor THEN remaining ELSE 0
             taken == IF DropPassive THEN Closed(ledger, id, passive.remaining) ELSE ledger
  <2>1. /\ ledger' = IF DropAggressor THEN Closed(taken, cmd.order_id, remaining) ELSE taken
        /\ remaining' = IF DropAggressor THEN 0 ELSE remaining
    BY <1>7 DEF MatchSelf, KeptAfterSelfTrade
  <2>2. Shrinks(id, n)
    BY <1>7, MatchSelfShrinks
  <2>3. n \in Int /\ m \in Int /\ id \in Ids /\ remaining' = remaining - m
    BY <1>2, <1>3, <2>1
  <2> HIDE DEF id, passive
  <2>4. taken \in Records /\ \A k \in Ids : taken[k].open = ledger[k].open - (IF k = id THEN n ELSE 0)
    <3>1. CASE DropPassive
      BY <1>2, <1>3, <2>3, <3>1, ClosedRecords, SMTT(30)
    <3>2. CASE ~DropPassive
      BY <1>2, <1>6, <3>2
    <3> QED
      BY <3>1, <3>2
  <2>5. \A k \in Ids : taken[k].open \in Int
    BY <2>4, RecordsTyped
  <2>6. \A k \in Ids : ledger'[k].open = taken[k].open - (IF k = cmd.order_id THEN m ELSE 0)
    <3> HIDE DEF taken
    <3>1. CASE DropAggressor
      BY <1>2, <2>1, <2>4, <3>1, ClosedRecords
    <3>2. CASE ~DropAggressor
      BY <2>1, <2>5, <3>2
    <3> QED
      BY <3>1, <3>2
  <2> HIDE DEF n, m, taken
  <2>7. \A k \in Ids : ledger'[k].open = ledger[k].open - (IF k = id THEN n ELSE 0)
                                          - (IF k = cmd.order_id THEN m ELSE 0)
    BY <2>4, <2>6
  <2> QED
    BY <1>5, <2>2, <2>3, <2>7
<1>8. CASE MatchFill(p)
  <2> DEFINE first == Closed(ledger, id, fill)
  <2>1. ledger' = Closed(first, cmd.order_id, fill) /\ remaining' = remaining - fill
    BY <1>8 DEF MatchFill
  <2>2. Shrinks(id, fill)
    BY <1>8, MatchFillShrinks
  <2>3. id \in Ids
    BY <1>3
  <2> HIDE DEF id, passive, fill
  <2>4. first \in Records
        /\ \A k \in Ids : first[k].open = ledger[k].open - (IF k = id THEN fill ELSE 0)
    BY <1>2, <1>3, <2>3, ClosedRecords
  <2> HIDE DEF first
  <2>5. \A k \in Ids : ledger'[k].open = first[k].open - (IF k = cmd.order_id THEN fill ELSE 0)
    <3> DEFINE c == cmd.order_id
    <3>1. c \in Ids /\ fill \in Int
      BY <1>2, <1>3
    <3> HIDE DEF c
    <3>2. \A k \in Ids : Closed(first, c, fill)[k].open = first[k].open - (IF k = c THEN fill ELSE 0)
      BY <2>4, <3>1, ClosedRecords
    <3> QED
      BY <2>1, <3>2 DEF c
  <2>6. \A k \in Ids : ledger'[k].open = ledger[k].open - (IF k = id THEN fill ELSE 0)
                                          - (IF k = cmd.order_id THEN fill ELSE 0)
    BY <2>4, <2>5
  <2> QED
    BY <1>3, <1>5, <2>1, <2>2, <2>3, <2>6
<1> QED
  BY <1>7, <1>8

\* The matching loop conserves the volume of both orders.
LEMMA MatchOpen ==
    ASSUME Inv, Inv', LifeInv, VolumeInv, NEW p \in Prices, MatchSelf(p) \/ MatchFill(p)
    PROVE  OpenRests' /\ OpenWorking' /\ NothingElse'
<1>0. BooksGood /\ BookType /\ BookInv /\ ControlType /\ Indexed /\ Unknown
      /\ OpenRests /\ OpenWorking /\ NothingElse
  BY TypeParts DEF Inv, BooksGood, LifeInv, VolumeInv
<1>1. pc = "match" /\ cmd' = cmd /\ pc' = "match"
  BY DEF MatchSelf, MatchFill, Matching, Inv, NoEngineError
<1>2. cmd.order_id \in Ids /\ index[cmd.order_id] = NULL /\ remaining \in Int
  BY <1>0, <1>1, CommandTyped DEF Unknown, ControlType
<1>3. PICK id \in Ids, n \in Int, m \in Int :
         /\ Shrinks(id, n) /\ index[id] # NULL
         /\ remaining' = remaining - m
         /\ \A k \in Ids : ledger'[k].open = ledger[k].open - (IF k = id THEN n ELSE 0)
                                             - (IF k = cmd.order_id THEN m ELSE 0)
  BY <1>0, MatchCloses
<1>4. \A k \in Ids : ledger[k].open \in Int
  BY <1>0, RecordsTyped DEF ControlType
<1>5. \A k \in Ids : k # cmd.order_id =>
         ledger'[k].open = ledger[k].open - (IF k = id THEN n ELSE 0)
  BY <1>3, <1>4
<1>6. /\ OpenRests'
      /\ \A k \in Ids : index[k] # NULL /\ index'[k] = NULL => ledger'[k].open = 0
  <2>1. \A k \in Ids : index[k] # NULL =>
           ledger'[k].open = ledger[k].open - (IF k = id THEN n ELSE 0)
    BY <1>2, <1>5
  <2> QED
    BY <1>0, <1>3, <2>1, ShrinkOpen
<1>7. ledger'[cmd.order_id].open = remaining'
  <2>1. cmd.order_id # id /\ ledger[cmd.order_id].open = remaining
    BY <1>0, <1>1, <1>2, <1>3 DEF OpenWorking
  <2> QED
    BY <1>2, <1>3, <2>1
<1>8. \A k \in Ids : index'[k] = NULL /\ k # cmd.order_id => ledger'[k].open = 0
  <2> SUFFICES ASSUME NEW k \in Ids, index'[k] = NULL, k # cmd.order_id, index[k] = NULL
               PROVE  ledger'[k].open = 0
    BY <1>6
  <2>1. ledger[k].open = 0
    BY <1>0, <1>1 DEF NothingElse
  <2>2. k # id
    BY <1>3
  <2> QED
    BY <1>5, <2>1, <2>2
<1> QED
  BY <1>1, <1>6, <1>7, <1>8 DEF OpenWorking, NothingElse

\* cancel() and the first half of replace() close all of the order.
LEMMA CancelOpen ==
    ASSUME Inv, LifeInv, VolumeInv, NEW id \in Ids, CancelResting(id), pc = "idle",
           pc' \in {"idle", "add"}
    PROVE  OpenRests' /\ OpenWorking' /\ NothingElse'
<1>0. BooksGood /\ BookType /\ BookInv /\ ControlType /\ Indexed /\ OpenRests /\ NothingElse
  BY TypeParts DEF Inv, BooksGood, LifeInv, VolumeInv
<1>1. PICK n \in Int : Shrinks(id, n) /\ ledger' = Closed(ledger, id, n) /\ index'[id] = NULL
  BY <1>0, CancelShrinks
<1>2. \A k \in Ids : /\ ledger'[k].open = ledger[k].open - (IF k = id THEN n ELSE 0)
                     /\ ledger[k].open \in Int
  <2>1. ledger \in Records
    BY <1>0 DEF ControlType
  <2>2. \A k \in Ids : Closed(ledger, id, n)[k].open = ledger[k].open - (IF k = id THEN n ELSE 0)
    BY <2>1, ClosedRecords
  <2> QED
    BY <1>1, <2>1, <2>2, RecordsTyped
<1>3. /\ OpenRests'
      /\ \A k \in Ids : index[k] # NULL /\ index'[k] = NULL => ledger'[k].open = 0
  BY <1>0, <1>1, <1>2, ShrinkOpen
<1>4. \A k \in Ids : index'[k] = NULL => ledger'[k].open = 0
  <2> SUFFICES ASSUME NEW k \in Ids, index'[k] = NULL, index[k] = NULL
               PROVE  ledger'[k].open = 0
    BY <1>3
  <2>1. ledger[k].open = 0
    BY <1>0 DEF NothingElse
  <2>2. k # id
    BY DEF CancelResting
  <2> QED
    BY <1>2, <2>1, <2>2
<1> QED
  BY <1>3, <1>4 DEF OpenWorking, NothingElse

\* add() outside the matching loop: an order is opened, rests or is closed with
\* what is left of it.
LEMMA AddOpen ==
    ASSUME Inv, Inv', LifeInv, FokInv, VolumeInv, <<"FOK", "CancelPassive">> \notin Styles,
           \/ \E c \in Commands : Add(c)
           \/ AddRejectFok
           \/ AddAccept
           \/ MatchExit
           \/ AddRest
           \/ AddCancelRemainder
           \/ AddReturn
    PROVE  OpenRests' /\ OpenWorking' /\ NothingElse'
<1>0. BookType /\ BookInv /\ ControlType /\ Indexed /\ Unknown
      /\ OpenRests /\ OpenWorking /\ NothingElse
  BY TypeParts DEF Inv, LifeInv, VolumeInv
<1>1. ledger \in Records /\ remaining \in Int /\ \A k \in Ids : ledger[k].open \in Int
  BY <1>0, RecordsTyped DEF ControlType
<1>2. CASE (\E c \in Commands : Add(c)) \/ AddRejectFok \/ MatchExit
  <2>1. queue' = queue /\ index' = index /\ ledger' = ledger
    BY <1>2 DEF Add, AddRejectFok, MatchExit, bookVars
  <2>2. OpenRests'
    BY <1>0, <2>1, QuietOpen
  <2>3. \/ pc \in {"idle", "add"} /\ pc' \in {"idle", "add"}
        \/ pc = "match" /\ pc' = "finish" /\ cmd' = cmd /\ remaining' = remaining
    BY <1>2 DEF Add, AddRejectFok, MatchExit, Call, Return
  <2> QED
    BY <1>0, <2>1, <2>2, <2>3 DEF OpenWorking, NothingElse
<1>3. CASE AddAccept
  <2>1. /\ pc = "add" /\ pc' = "match" /\ cmd' = cmd /\ remaining' = cmd.quantity
        /\ queue' = queue /\ index' = index
        /\ ledger' = [ledger EXCEPT ![cmd.order_id] = [NoRecord EXCEPT !.open = cmd.quantity]]
    BY <1>3 DEF AddAccept, bookVars
  <2>2. cmd.order_id \in Ids /\ index[cmd.order_id] = NULL
    BY <1>0, <2>1, CommandTyped DEF Unknown
  <2>3. \A k \in Ids : ledger'[k].open = IF k = cmd.order_id THEN cmd.quantity ELSE ledger[k].open
    BY <1>1, <2>1, <2>2 DEF Records, NoRecord
  <2>4. \A k \in Ids : index[k] # NULL => ledger'[k].open = ledger[k].open
    BY <2>2, <2>3
  <2>5. OpenRests'
    BY <1>0, <2>1, <2>4, QuietOpen
  <2> QED
    BY <1>0, <2>1, <2>2, <2>3, <2>5 DEF OpenWorking, NothingElse
<1>4. CASE AddCancelRemainder \/ AddReturn
  <2>1. /\ pc = "finish" /\ pc' = "idle" /\ queue' = queue /\ index' = index
    BY <1>4 DEF AddCancelRemainder, AddReturn, Return, bookVars
  <2>2. cmd.order_id \in Ids /\ index[cmd.order_id] = NULL /\ ledger[cmd.order_id].open = remaining
    BY <1>0, <2>1, CommandTyped DEF Unknown, OpenWorking
  <2>3. ledger'[cmd.order_id].open = 0
        /\ \A k \in Ids : k # cmd.order_id => ledger'[k].open = ledger[k].open
    <3>1. CASE AddCancelRemainder
      <4> DEFINE c == cmd.order_id
                 n == remaining
      <4>1. /\ ledger' = Closed(ledger, c, n) /\ c \in Ids /\ ledger[c].open = n
            /\ ledger \in Records /\ n \in Int
        BY <1>1, <2>2, <3>1 DEF AddCancelRemainder
      <4> HIDE DEF c, n
      <4>2. \A k \in Ids : Closed(ledger, c, n)[k].open = ledger[k].open - (IF k = c THEN n ELSE 0)
        BY <4>1, ClosedRecords
      <4>3. ledger'[c].open = 0 /\ \A k \in Ids : k # c => ledger'[k].open = ledger[k].open
        BY <1>1, <4>1, <4>2
      <4> QED
        BY <4>3 DEF c
    <3>2. CASE AddReturn
      <4>1. ledger' = ledger /\ (remaining <= 0 \/ cmd.tif = "FOK") /\ remaining >= 0
        BY <2>1, <3>2 DEF AddReturn, FokInv, NotOverfilled
      <4>2. cmd.tif = "FOK" => cmd.stp # "CancelPassive"
        BY <2>1 DEF FokInv, StyleKnown
      <4>3. remaining = 0
        BY <1>1, <2>1, <4>1, <4>2 DEF FokInv, FokDone, SureFok
      <4> QED
        BY <2>2, <4>1, <4>3
    <3> QED
      BY <1>4, <3>1, <3>2
  <2>4. OpenRests'
    BY <1>0, <2>1, <2>2, <2>3, QuietOpen
  <2>5. \A k \in Ids : index'[k] = NULL => ledger'[k].open = 0
    BY <1>0, <2>1, <2>3 DEF NothingElse
  <2> QED
    BY <2>1, <2>4, <2>5 DEF OpenWorking, NothingElse
<1>5. CASE AddRest
  <2>1. /\ pc = "finish" /\ pc' = "idle" /\ RestOrder(cmd, remaining)
        /\ ledger' = [ledger EXCEPT ![cmd.order_id].arrived = sequence']
    BY <1>5 DEF AddRest, Return, Inv, NoEngineError
  <2>2. /\ cmd.symbol \in Symbols /\ cmd.order_id \in Ids /\ cmd.participant \in Participants
        /\ cmd.side \in Sides /\ cmd.price \in Prices /\ index[cmd.order_id] = NULL
        /\ ledger[cmd.order_id].open = remaining
    BY <1>0, <2>1, CommandTyped DEF Unknown, OpenWorking
  <2> DEFINE s == cmd.symbol
             d == cmd.side
             p == cmd.price
             id == cmd.order_id
             old == queue[s][d][p]
             new == queue'[s][d][p]
  <2>3. /\ Len(new) = Len(old) + 1
        /\ \A i \in 1..Len(old) : new[i] = old[i]
        /\ new[Len(old) + 1].order_id = id /\ new[Len(old) + 1].remaining = remaining
        /\ \A t \in Symbols, e \in Sides, r \in Prices :
              ~(t = s /\ e = d /\ r = p) => queue'[t][e][r] = queue[t][e][r]
        /\ \A k \in Ids : k # id => index'[k] = index[k]
    BY <1>0, <1>1, <2>1, <2>2, RestOrderLists
  <2>4. \A k \in Ids : ledger'[k].open = ledger[k].open
    BY <1>1, <2>1, <2>2 DEF Records
  <2>5. index'[id] # NULL
    BY <2>1, <2>2, <1>0, ConstantsAssumption DEF RestOrder, BookType, Location
  <2>6. s \in Symbols /\ d \in Sides /\ p \in Prices /\ id \in Ids /\ ledger'[id].open = remaining
    BY <2>2, <2>4
  <2>7. NothingElse' /\ OpenWorking'
    BY <1>0, <2>1, <2>3, <2>4, <2>5 DEF NothingElse, OpenWorking
  <2> HIDE DEF s, d, p, id
  <2>8. OpenRests'
    <3>1. new[Len(old) + 1].remaining = ledger'[id].open
      BY <2>3, <2>6
    <3> QED
      BY <1>0, <2>3, <2>4, <2>6, <3>1, JoinOpen
  <2> QED
    BY <2>7, <2>8
<1> QED
  BY <1>2, <1>3, <1>4, <1>5

\* Clearing the books, restoring an order and the end of load_snapshot().
LEMMA LoadingOpen ==
    ASSUME Inv, Inv', ReloadInv, LifeInv, VolumeInv,
           LoadSnapshot \/ LoadInvalid \/ LoadReturn \/ \E t \in todo : RestoreOrder(t)
    PROVE  OpenRests' /\ OpenWorking' /\ NothingElse'
<1>0. BookType /\ BookInv /\ ControlType /\ Indexed /\ OpenRests /\ SavedOpen /\ LoadOpen
  BY TypeParts DEF Inv, LifeInv, VolumeInv
<1>1. CASE LoadSnapshot \/ LoadInvalid
  <2>1. queue' = EmptyQueues
    BY <1>1 DEF LoadSnapshot, LoadInvalid, Clear
  <2>2. OpenRests'
    BY <2>1 DEF OpenRests, EmptyQueues
  <2>3. \/ pc' = "load"
        \/ pc' = "idle" /\ ledger' = [id \in Ids |-> NoRecord]
    BY <1>1 DEF LoadSnapshot, LoadInvalid, Call
  <2> QED
    BY <2>2, <2>3 DEF OpenWorking, NothingElse, NoRecord
<1>2. CASE LoadReturn
  <2>1. /\ pc = "load" /\ todo = {} /\ pc' = "idle"
        /\ queue' = queue /\ index' = index /\ ledger' = ledger
    BY <1>2 DEF LoadReturn, bookVars
  <2>2. saved # NULL /\ ledger = saved.ledger
    BY <2>1 DEF Inv, LoadInv, LifeInv, LoadLife
  <2>3. ASSUME NEW id \in Ids, index[id] = NULL PROVE ledger[id].open = 0
    <3>1. \A t \in Document : DocumentAt(t).order_id # id
      BY <1>0, <2>1, <2>3 DEF LoadOpen
    <3> QED
      BY <1>0, <2>2, <3>1 DEF SavedOpen
  <2>4. OpenRests'
    BY <1>0, <2>1, QuietOpen
  <2> QED
    BY <2>1, <2>3, <2>4 DEF OpenWorking, NothingElse
<1>3. ASSUME NEW t \in todo, RestoreOrder(t) PROVE OpenRests' /\ OpenWorking' /\ NothingElse'
  <2> DEFINE s == t[1]
             d == t[2]
             p == t[3]
             o == DocumentAt(t)
             id == o.order_id
             old == queue[s][d][p]
             new == queue'[s][d][p]
  <2>1. pc' = "load" /\ ledger' = ledger
    BY <1>3 DEF RestoreOrder
  <2>2. /\ t \in Document /\ s \in Symbols /\ d \in Sides /\ p \in Prices /\ id \in Ids
        /\ pc = "load" /\ saved # NULL
    BY <1>3, RestoredOrder
  <2>3. /\ Len(new) = Len(old) + 1
        /\ \A i \in 1..Len(old) : new[i] = old[i]
        /\ new[Len(old) + 1].order_id = id
        /\ new[Len(old) + 1].remaining = o.remaining
        /\ \A x \in Symbols, y \in Sides, z \in Prices :
              ~(x = s /\ y = d /\ z = p) => queue'[x][y][z] = queue[x][y][z]
    BY <1>3, RestoredLists
  <2>4. ledger = saved.ledger
    BY <2>2 DEF LifeInv, LoadLife
  <2>5. ledger'[id].open = o.remaining
    BY <1>0, <2>1, <2>2, <2>4 DEF SavedOpen
  <2>6. \A k \in Ids : ledger'[k].open = ledger[k].open
    BY <2>1
  <2> HIDE DEF s, d, p, o, id
  <2>7. OpenRests'
    <3>1. new[Len(old) + 1].remaining = ledger'[id].open
      BY <2>3, <2>5
    <3> QED
      BY <1>0, <2>2, <2>3, <2>6, <3>1, JoinOpen
  <2> QED
    BY <2>1, <2>7 DEF OpenWorking, NothingElse
<1> QED
  BY <1>1, <1>2, <1>3

\* snapshot() writes every order with what is open of it, and no other is open.
LEMMA SavedOpenStep ==
    ASSUME Inv, LifeInv, VolumeInv, Next
    PROVE  SavedOpen'
<1>0. BookType /\ BookInv /\ ControlType /\ Indexed /\ OpenRests /\ NothingElse /\ SavedOpen
  BY TypeParts DEF Inv, LifeInv, VolumeInv
<1>1. CASE Snapshot
  <2>0. PlacesExact'
    BY DocumentPlaces, PTL
  <2>1. /\ saved'.ledger = ledger /\ pc = "idle"
        /\ \A s \in Symbols, d \in Sides, p \in Prices :
              saved'.queue[s][d][p] = Serialize(queue[s][d][p])
    BY <1>1 DEF Snapshot, SerializedQueues
  <2>2. ASSUME NEW s \in Symbols, NEW d \in Sides, NEW p \in Prices
        PROVE  /\ Len(saved'.queue[s][d][p]) = Len(queue[s][d][p])
               /\ \A i \in 1..Len(queue[s][d][p]) :
                     /\ saved'.queue[s][d][p][i].order_id = queue[s][d][p][i].order_id
                     /\ saved'.queue[s][d][p][i].remaining = queue[s][d][p][i].remaining
    <3>1. queue[s][d][p] \in Lists
      BY <1>0 DEF BookType
    <3> QED
      BY <2>1, <3>1, SerializeAt
  <2>3. ASSUME NEW s \in Symbols, NEW d \in Sides, NEW p \in Prices,
               NEW i \in 1..Len(saved'.queue[s][d][p])
        PROVE  ledger[saved'.queue[s][d][p][i].order_id].open = saved'.queue[s][d][p][i].remaining
    <3>1. i \in 1..Len(queue[s][d][p])
      BY <2>2
    <3> QED
      BY <1>0, <2>2, <3>1 DEF OpenRests
  <2>4. ASSUME NEW t \in Document'
        PROVE  saved'.ledger[DocumentAt(t)'.order_id].open = DocumentAt(t)'.remaining
    <3>1. /\ t[1] \in Symbols /\ t[2] \in Sides /\ t[3] \in Prices
          /\ t[4] \in 1..Len(saved'.queue[t[1]][t[2]][t[3]])
      BY <2>0 DEF PlacesExact
    <3> QED
      BY <2>1, <2>3, <3>1 DEF DocumentAt
  <2>5. ASSUME NEW id \in Ids, saved'.ledger[id].open # 0
        PROVE  \E t \in Document' : DocumentAt(t)'.order_id = id
    <3>1. RestingId(id)
      BY <1>0, <2>1, <2>5, KnownIds DEF NothingElse
    <3>2. PICK s \in Symbols, d \in Sides : \E x \in RestingOn(s, d) : x.order_id = id
      BY <3>1 DEF RestingId
    <3>3. PICK p \in Prices : \E i \in 1..Len(queue[s][d][p]) : queue[s][d][p][i].order_id = id
      BY <1>0, <3>2, RestingPlaces
    <3>4. PICK i \in 1..Len(queue[s][d][p]) : queue[s][d][p][i].order_id = id
      BY <3>3
    <3>5. /\ i \in 1..Len(saved'.queue[s][d][p])
          /\ saved'.queue[s][d][p][i].order_id = id
      BY <2>2, <3>4
    <3> DEFINE t == <<s, d, p, i>>
    <3>6. t \in Document'
      BY <2>0, <3>5 DEF PlacesExact
    <3>7. saved'.queue[t[1]][t[2]][t[3]][t[4]].order_id = id
      BY <3>5
    <3> HIDE DEF t
    <3> QED
      BY <3>6, <3>7 DEF DocumentAt
  <2> QED
    BY <2>4, <2>5 DEF SavedOpen
<1>2. CASE saved' = saved
  <2>1. Document' = Document /\ \A t : DocumentAt(t)' = DocumentAt(t)
    BY <1>2 DEF Document, DocumentAt
  <2> QED
    BY <1>0, <1>2, <2>1 DEF SavedOpen, DocumentAt
<1> QED
  BY <1>1, <1>2
  DEF Next, Step, Request, AddRejectFok, AddAccept, MatchSelf, MatchFill, MatchExit, AddRest,
      AddCancelRemainder, AddReturn, RestoreOrder, LoadReturn, Add, Cancel, RejectUnknown,
      Replace, Reject, Query, LoadSnapshot, LoadInvalid, vars

\* load_snapshot() misses no order of the document.
LEMMA LoadOpenStep ==
    ASSUME Inv, Inv', ReloadInv, LifeInv, VolumeInv, Next
    PROVE  LoadOpen'
<1> SUFFICES ASSUME pc' = "load" PROVE LoadOpen'
  BY DEF LoadOpen
<1>1. CASE LoadSnapshot
  <2>1. saved' = saved /\ todo' = Document
    BY <1>1 DEF LoadSnapshot
  <2>2. Document' = Document
    BY <2>1 DEF Document
  <2> QED
    BY <2>1, <2>2 DEF LoadOpen
<1>2. ASSUME NEW t \in todo, RestoreOrder(t) PROVE LoadOpen'
  <2>0. PlacesExact /\ ControlType /\ BookType
    BY DocumentPlaces, TypeParts DEF Inv
  <2>1. /\ saved' = saved /\ todo' = todo \ {t} /\ pc = "load" /\ saved # NULL
        /\ t[1] \in Symbols /\ t[2] \in Sides /\ t[3] \in Prices
        /\ DocumentAt(t).order_id \in Ids
    BY <1>2, RestoredOrder DEF RestoreOrder
  <2>2. Document' = Document /\ \A u : DocumentAt(u)' = DocumentAt(u)
    BY <2>1 DEF Document, DocumentAt
  <2>3. /\ \A id \in Ids : id # DocumentAt(t).order_id => index'[id] = index[id]
        /\ index'[DocumentAt(t).order_id] # NULL
    <3>1. \A id \in Ids : id # DocumentAt(t).order_id => index'[id] = index[id]
      BY <1>2, RestoredLists
    <3>2. index'[DocumentAt(t).order_id] # NULL
      <4> DEFINE o == DocumentAt(t)
                 l == [symbol |-> t[1], side |-> t[2], price |-> t[3], iter |-> nodes]
      <4>1. index' = [index EXCEPT ![o.order_id] = l]
        BY <1>2 DEF RestoreOrder, RestOrder, DocumentAt
      <4>2. l \in Location
        BY <2>0, <2>1 DEF BookType, Location
      <4> HIDE DEF l
      <4>3. l # NULL
        BY <4>2, ConstantsAssumption
      <4> QED
        BY <2>0, <2>1, <4>1, <4>3 DEF BookType
    <3> QED
      BY <3>1, <3>2
  <2>4. ASSUME NEW u \in Document, u \notin todo' PROVE index'[DocumentAt(u).order_id] # NULL
    <3>1. DocumentAt(u).order_id \in Ids
      <4>1. DocumentAt(u) \in SavedOrder
        BY <2>0, <2>1, DocumentLists DEF PlacesExact, DocumentAt
      <4> QED
        BY <4>1 DEF SavedOrder
    <3>2. CASE u = t
      BY <2>3, <3>2
    <3>3. CASE u # t
      <4>1. index[DocumentAt(u).order_id] # NULL
        BY <2>1, <2>4, <3>3 DEF VolumeInv, LoadOpen
      <4> QED
        BY <2>3, <3>1, <4>1
    <3> QED
      BY <3>2, <3>3
  <2> QED
    BY <2>1, <2>2, <2>4 DEF LoadOpen, DocumentAt
<1> QED
  BY <1>1, <1>2, LoadSteps

\* Every step conserves volume.
LEMMA VolumeStep ==
    ASSUME Inv, Inv', ReloadInv, LifeInv, FokInv, VolumeInv,
           <<"FOK", "CancelPassive">> \notin Styles, Next
    PROVE  VolumeInv'
<1>0. BookType /\ BookInv /\ Indexed /\ OpenRests /\ OpenWorking /\ NothingElse
  BY TypeParts DEF LifeInv, Inv, VolumeInv
<1>1. OpenRests' /\ OpenWorking' /\ NothingElse'
  <2>1. CASE \/ \E c \in Commands : Add(c)
             \/ AddRejectFok
             \/ AddAccept
             \/ MatchExit
             \/ AddRest
             \/ AddCancelRemainder
             \/ AddReturn
    BY <2>1, AddOpen
  <2>2. CASE (\E p \in Prices : MatchSelf(p)) \/ (\E p \in Prices : MatchFill(p))
    BY <2>2, MatchOpen
  <2>3. CASE \/ \E id \in Ids : Cancel(id)
             \/ \E id, newId \in Ids, s \in Symbols, p \in Prices, quantity \in Quantities :
                   \E style \in Styles : Replace(id, newId, s, p, quantity, style[1])
    <3>1. PICK id \in Ids : CancelResting(id) /\ pc = "idle" /\ pc' \in {"idle", "add"}
      BY <2>3 DEF Cancel, Replace, Call
    <3> QED
      BY <3>1, CancelOpen
  <2>4. CASE LoadSnapshot \/ LoadInvalid \/ LoadReturn \/ \E t \in todo : RestoreOrder(t)
    BY <2>4, LoadingOpen
  <2>5. CASE (\E id \in Ids : RejectUnknown(id)) \/ Reject \/ Query \/ Snapshot
    <3>1. /\ queue' = queue /\ index' = index /\ ledger' = ledger /\ pc = "idle" /\ pc' = "idle"
      BY <2>5 DEF RejectUnknown, Reject, Query, Snapshot, Call, bookVars, vars
    <3>2. OpenRests'
      BY <1>0, <3>1, QuietOpen
    <3> QED
      BY <1>0, <3>1, <3>2 DEF OpenWorking, NothingElse
  <2> QED
    BY <2>1, <2>2, <2>3, <2>4, <2>5 DEF Next, Step, Request
<1> QED
  BY <1>1, SavedOpenStep, LoadOpenStep DEF VolumeInv

\* VolumeInv holds in every state of an engine whose callers use unique ids, send no
\* negative quantities and never combine fill-or-kill with CancelPassive.
THEOREM VolumeInvariance ==
    ASSUME UniqueIds, Quantities \subseteq Nat, <<"FOK", "CancelPassive">> \notin Styles
    PROVE  Spec => [](Inv /\ LifeInv /\ VolumeInv)
<1>1. Init => VolumeInv
  <2> SUFFICES ASSUME Init PROVE VolumeInv
    OBVIOUS
  <2>1. /\ queue = EmptyQueues /\ pc = "idle" /\ saved = NULL
        /\ ledger = [id \in Ids |-> NoRecord]
    BY DEF Init
  <2>2. \A s \in Symbols, d \in Sides, p \in Prices : queue[s][d][p] = <<>>
    BY <2>1 DEF EmptyQueues
  <2>3. \A id \in Ids : ledger[id].open = 0
    BY <2>1 DEF NoRecord
  <2> QED
    BY <2>1, <2>2, <2>3
    DEF VolumeInv, OpenRests, OpenWorking, NothingElse, SavedOpen, LoadOpen
<1>2. Inv /\ Inv' /\ ReloadInv /\ LifeInv /\ FokInv /\ VolumeInv /\ [Next]_vars => VolumeInv'
  <2>1. ASSUME Inv, Inv', ReloadInv, LifeInv, FokInv, VolumeInv, Next PROVE VolumeInv'
    BY <2>1, VolumeStep
  <2>2. ASSUME VolumeInv, UNCHANGED vars PROVE VolumeInv'
    <3>0. UNCHANGED <<queue, index, pc, cmd, remaining, ledger, saved, todo>>
      BY <2>2 DEF vars
    <3>1. Document' = Document
      BY <3>0 DEF Document
    <3> QED
      BY <2>2, <3>0, <3>1
      DEF VolumeInv, OpenRests, OpenWorking, NothingElse, SavedOpen, LoadOpen, DocumentAt
  <2> QED
    BY <2>1, <2>2
<1> QED
  BY <1>1, <1>2, LifeInvariance, FokInvariance, PTL DEF Spec

\* Volume balances order by order: what the events leave open is what rests, or
\* what the add() in progress still holds, and nothing once the order is gone.
THEOREM VolumeBalances ==
    ASSUME UniqueIds, Quantities \subseteq Nat, <<"FOK", "CancelPassive">> \notin Styles
    PROVE  Spec => []VolumeConserved
<1>1. ASSUME Inv, LifeInv, VolumeInv PROVE VolumeConserved
  <2>0. BookType /\ BookInv /\ ControlType /\ Indexed /\ Unknown
        /\ OpenRests /\ OpenWorking /\ NothingElse
    BY <1>1, TypeParts DEF Inv, LifeInv, VolumeInv
  <2> DEFINE All == UNION {RestingOn(s, d) : s \in Symbols, d \in Sides}
             Held(id) == {o \in All : o.order_id = id}
  <2>1. \A o : o \in All <=> \E s \in Symbols, d \in Sides, p \in Prices :
                                \E i \in 1..Len(queue[s][d][p]) : o = queue[s][d][p][i]
    <3>1. \A o : o \in All <=> \E s \in Symbols, d \in Sides : o \in RestingOn(s, d)
      OBVIOUS
    <3> HIDE DEF All
    <3> QED
      BY <2>0, <3>1, RestingPlaces
  <2> HIDE DEF All
  <2>2. ASSUME NEW id \in Ids, index[id] = NULL PROVE Held(id) = {}
    BY <2>0, <2>1, <2>2, KnownIds
  <2>3. ASSUME NEW id \in Ids, index[id] # NULL
        PROVE  \E o \in Held(id) : Held(id) = {o} /\ ledger[id].open = o.remaining
    <3>1. RestingId(id)
      BY <2>0, <2>3, KnownIds
    <3>2. PICK s \in Symbols, d \in Sides : \E x \in RestingOn(s, d) : x.order_id = id
      BY <3>1 DEF RestingId
    <3>3. PICK p \in Prices : \E i \in 1..Len(queue[s][d][p]) : queue[s][d][p][i].order_id = id
      BY <2>0, <3>2, RestingPlaces
    <3>4. PICK i \in 1..Len(queue[s][d][p]) : queue[s][d][p][i].order_id = id
      BY <3>3
    <3> DEFINE o == queue[s][d][p][i]
    <3>5. o \in Held(id) /\ ledger[id].open = o.remaining
      BY <2>0, <2>1, <3>4 DEF OpenRests
    <3>6. ASSUME NEW u \in Held(id) PROVE u = o
      <4>1. PICK t \in Symbols, e \in Sides, r \in Prices :
               \E j \in 1..Len(queue[t][e][r]) : u = queue[t][e][r][j]
        BY <2>1
      <4>2. PICK j \in 1..Len(queue[t][e][r]) : u = queue[t][e][r][j]
        BY <4>1
      <4>3. queue[s][d][p][i].order_id = queue[t][e][r][j].order_id
        BY <3>4, <4>2
      <4>4. s = t /\ d = e /\ p = r /\ i = j
        BY <2>0, <4>3, DistinctOrders
      <4> QED
        BY <4>2, <4>4
    <3>7. Held(id) = {o}
      <4> HIDE DEF o, Held
      <4> QED
        BY <3>5, <3>6
    <3> QED
      BY <3>5, <3>7
  <2>4. ASSUME NEW id \in Ids, pc \notin {"load", "error"}
        PROVE  IF pc \in {"match", "finish"} /\ cmd.order_id = id
                 THEN Held(id) = {} /\ ledger[id].open = remaining
                 ELSE \/ Held(id) = {} /\ ledger[id].open = 0
                      \/ \E o \in Held(id) : Held(id) = {o} /\ ledger[id].open = o.remaining
    <3> HIDE DEF Held
    <3>1. CASE pc \in {"match", "finish"} /\ cmd.order_id = id
      <4>1. index[id] = NULL /\ ledger[id].open = remaining
        BY <2>0, <3>1 DEF Unknown, OpenWorking
      <4> QED
        BY <2>2, <3>1, <4>1
    <3>2. CASE ~(pc \in {"match", "finish"} /\ cmd.order_id = id)
      <4>1. CASE index[id] = NULL
        <5>1. ledger[id].open = 0
          BY <2>0, <2>4, <3>2, <4>1 DEF NothingElse
        <5> QED
          BY <2>2, <3>2, <4>1, <5>1
      <4>2. CASE index[id] # NULL
        BY <2>3, <3>2, <4>2
      <4> QED
        BY <4>1, <4>2
    <3> QED
      BY <3>1, <3>2
  <2> QED
    BY <2>4 DEF VolumeConserved, All
<1> QED
  BY <1>1, VolumeInvariance, PTL

=============================================================================
