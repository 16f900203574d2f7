--------------------------- MODULE SpscQueueProofs ---------------------------
(***************************************************************************)
(* Proofs about SpscQueue, for every requested capacity and index width:   *)
(* the two threads never touch the same slot, and the ring implements      *)
(* BoundedFifo although its indices wrap.                                  *)
(***************************************************************************)
EXTENDS SpscQueue, Lemmas, SequenceTheorems

(***************************************************************************)
(* Powers of two.                                                          *)
(***************************************************************************)

\* The recursive definition of Pow2 has a solution, so Pow2 is one: an initial
\* segment of it exists for every length, and two segments agree where both are
\* defined.
LEMMA Pow2Unfolds == Pow2 = [k \in Nat |-> IF k = 0 THEN 1 ELSE 2 * Pow2[k - 1]]
<1> DEFINE G(n, g) == g[0] = 1 /\ \A k \in 1..n : g[k] = 2 * g[k - 1]
           S == {n \in Nat : \E g \in [0..n -> Nat] : G(n, g)}
<1>1. ASSUME NEW n \in Nat PROVE \E g \in [0..n -> Nat] : G(n, g)
  <2>1. 0 \in S
    <3>1. [i \in 0..0 |-> 1] \in [0..0 -> Nat]  OBVIOUS
    <3>2. G(0, [i \in 0..0 |-> 1])  OBVIOUS
    <3>3. QED  BY <3>1, <3>2
  <2>2. ASSUME NEW x \in 0..(n - 1), x \in S PROVE x + 1 \in S
    <3>1. PICK g \in [0..x -> Nat] : G(x, g)  BY <2>2
    <3> DEFINE h == [i \in 0..(x + 1) |-> IF i = x + 1 THEN 2 * g[x] ELSE g[i]]
    <3>2. h \in [0..(x + 1) -> Nat]  OBVIOUS
    <3>3. h[0] = 1  BY <3>1
    <3>4. ASSUME NEW k \in 1..(x + 1) PROVE h[k] = 2 * h[k - 1]
      <4>1. CASE k = x + 1  BY <4>1
      <4>2. CASE k # x + 1
        <5>1. k \in 1..x  BY <4>2
        <5>2. g[k] = 2 * g[k - 1]  BY <5>1, <3>1
        <5>3. h[k] = g[k] /\ h[k - 1] = g[k - 1]  BY <5>1, <4>2
        <5>4. QED  BY <5>2, <5>3
      <4>3. QED  BY <4>1, <4>2
    <3>5. G(x + 1, h)  BY <3>3, <3>4
    <3> HIDE DEF h, G
    <3>6. \E f \in [0..(x + 1) -> Nat] : G(x + 1, f)  BY <3>2, <3>5
    <3>7. QED  BY <3>6
  <2>3. n \in S
    <3> HIDE DEF S
    <3>1. \A i \in 0..n : i \in S  BY <2>1, <2>2, BoundedInduction
    <3>2. QED  BY <3>1
  <2>4. QED  BY <2>3
<1>2. ASSUME NEW n \in Nat, NEW g, NEW h, G(n, g), G(n + 1, h)
      PROVE  g[n] = h[n]
  <2> DEFINE E == {k \in Nat : k <= n /\ g[k] = h[k]}
  <2>1. 0 \in E  BY <1>2
  <2>2. ASSUME NEW x \in 0..(n - 1), x \in E PROVE x + 1 \in E
    <3>1. x + 1 \in 1..n /\ x + 1 \in 1..(n + 1) /\ (x + 1) - 1 = x  OBVIOUS
    <3>2. g[x + 1] = 2 * g[x] /\ h[x + 1] = 2 * h[x]  BY <3>1, <1>2
    <3>3. g[x] = h[x]  BY <2>2
    <3>4. QED  BY <3>1, <3>2, <3>3
  <2>3. n \in E
    <3> HIDE DEF E
    <3>1. \A i \in 0..n : i \in E  BY <2>1, <2>2, BoundedInduction
    <3>2. QED  BY <3>1
  <2>4. QED  BY <2>3
<1> DEFINE Segment(n) == CHOOSE g \in [0..n -> Nat] : G(n, g)
           F == [n \in Nat |-> Segment(n)[n]]
           P(f) == f = [k \in Nat |-> IF k = 0 THEN 1 ELSE 2 * f[k - 1]]
<1> HIDE DEF G
<1>3. ASSUME NEW n \in Nat PROVE G(n, Segment(n)) /\ F[n] = Segment(n)[n]
  BY <1>1
<1> HIDE DEF Segment
<1>4. P(F)
  <2>1. ASSUME NEW k \in Nat PROVE F[k] = IF k = 0 THEN 1 ELSE 2 * F[k - 1]
    <3> HIDE DEF F
    <3>1. CASE k = 0  BY <3>1, <1>3 DEF G
    <3>2. CASE k # 0
      <4>1. k - 1 \in Nat /\ (k - 1) + 1 = k  BY <3>2
      <4>2. G(k - 1, Segment(k - 1)) /\ G(k, Segment(k))  BY <1>3, <4>1
      <4>3. Segment(k - 1)[k - 1] = Segment(k)[k - 1]  BY <1>2, <4>1, <4>2
      <4>4. Segment(k)[k] = 2 * Segment(k)[k - 1]  BY <4>2, <3>2 DEF G
      <4>5. QED  BY <1>3, <4>1, <4>3, <4>4, <3>2
    <3>3. QED  BY <3>1, <3>2
  <2>2. F = [k \in Nat |-> F[k]]  OBVIOUS
  <2> HIDE DEF F
  <2>3. QED  BY <2>1, <2>2
<1>5. Pow2 = CHOOSE f : P(f)  BY DEF Pow2
<1> HIDE DEF P, F
<1>6. P(CHOOSE f : P(f))  BY <1>4
<1>7. QED  BY <1>5, <1>6 DEF P

\* The law of exponents for the powers the ring uses.
LEMMA Pow2Step ==
    /\ Pow2[0] = 1
    /\ \A k \in Nat : Pow2[k + 1] = 2 * Pow2[k]
<1>1. Pow2[0] = 1  BY Pow2Unfolds
<1>2. ASSUME NEW k \in Nat PROVE Pow2[k + 1] = 2 * Pow2[k]
  <2>1. k + 1 \in Nat /\ k + 1 # 0 /\ (k + 1) - 1 = k  OBVIOUS
  <2>2. QED  BY <2>1, Pow2Unfolds
<1>3. QED  BY <1>1, <1>2

\* A power of two is positive.
LEMMA Pow2Positive == ASSUME NEW n \in Nat PROVE Pow2[n] \in Nat \ {0}
<1> DEFINE S == {k \in Nat : Pow2[k] \in Nat \ {0}}
<1>1. 0 \in S  BY Pow2Step
<1>2. ASSUME NEW x \in 0..(n - 1), x \in S PROVE x + 1 \in S  BY <1>2, Pow2Step
<1>3. \A i \in 0..n : i \in S
  <2> HIDE DEF S
  <2>1. QED  BY <1>1, <1>2, BoundedInduction
<1>4. QED  BY <1>3

\* Every power of two divides the larger ones.
LEMMA Pow2Divides ==
    ASSUME NEW c \in Nat, NEW d \in Nat
    PROVE  \E q \in Nat \ {0} : Pow2[c + d] = Pow2[c] * q
<1> DEFINE S == {k \in Nat : \E q \in Nat \ {0} : Pow2[c + k] = Pow2[c] * q}
<1>1. Pow2[c] \in Nat \ {0}  BY Pow2Positive
<1>2. 0 \in S
  <2>1. Pow2[c + 0] = Pow2[c] * 1  BY <1>1
  <2>2. QED  BY <2>1
<1>3. ASSUME NEW x \in 0..(d - 1), x \in S PROVE x + 1 \in S
  <2>1. PICK q \in Nat \ {0} : Pow2[c + x] = Pow2[c] * q  BY <1>3
  <2>2. Pow2[(c + x) + 1] = 2 * Pow2[c + x]  BY Pow2Step
  <2>3. c + (x + 1) = (c + x) + 1  OBVIOUS
  <2>4. 2 * (Pow2[c] * q) = Pow2[c] * (2 * q)  BY <1>1
  <2>5. Pow2[c + (x + 1)] = Pow2[c] * (2 * q) /\ 2 * q \in Nat \ {0}
    BY <2>1, <2>2, <2>3, <2>4
  <2>6. QED  BY <2>5
<1>4. \A i \in 0..d : i \in S
  <2> HIDE DEF S
  <2>1. QED  BY <1>2, <1>3, BoundedInduction
<1>5. QED  BY <1>4

\* What round_up_pow2() returns: at least what was asked for, a divisor of the
\* range of the indices, and at most half of it.
LEMMA CapacityFacts ==
    /\ Capacity \in Nat \ {0} /\ Capacity >= Requested
    /\ \E q \in Nat \ {0} : Modulus = Capacity * q
    /\ Modulus \in Nat /\ Modulus >= 4 /\ 2 * Capacity <= Modulus
<1> DEFINE P == {Pow2[k] : k \in 0..Width}
           S == {p \in P : p >= Requested}
<1> USE QueueAssumption
<1>1. P \in SUBSET (Nat \ {0})  BY Pow2Positive
<1>2. Pow2[Width - 1] \in S
  <2>1. Width - 1 \in 0..Width  OBVIOUS
  <2>2. QED  BY <2>1
<1>3. S \in SUBSET Nat /\ S # {}  BY <1>1, <1>2
<1>4. PICK x \in S : \A y \in S : x <= y
  <2> HIDE DEF S
  <2>1. QED  BY <1>3, NatMinimum
<1>5. Capacity \in S /\ \A y \in S : Capacity <= y
  <2>1. Capacity = CHOOSE z \in S : \A y \in S : z <= y
    BY DEF Capacity, RoundUpPow2, Min
  <2> HIDE DEF S
  <2>2. QED  BY <1>4, <2>1
<1>6. PICK c \in 0..Width : Capacity = Pow2[c]  BY <1>5
<1>7. PICK q \in Nat \ {0} : Pow2[c + (Width - c)] = Pow2[c] * q
  <2>1. c \in Nat /\ Width - c \in Nat  BY <1>6
  <2>2. QED  BY <2>1, Pow2Divides
<1>8. Modulus = Capacity * q
  <2>1. c + (Width - c) = Width  BY <1>6
  <2>2. QED  BY <2>1, <1>6, <1>7 DEF Modulus
<1>9. /\ Pow2[Width] = 2 * Pow2[Width - 1]
      /\ Pow2[Width - 1] = 2 * Pow2[Width - 2]
      /\ Pow2[Width - 2] \in Nat \ {0}
  <2>1. /\ Width - 1 \in Nat /\ (Width - 1) + 1 = Width
        /\ Width - 2 \in Nat /\ (Width - 2) + 1 = Width - 1
    OBVIOUS
  <2>2. Pow2[(Width - 1) + 1] = 2 * Pow2[Width - 1]  BY <2>1, Pow2Step
  <2>3. Pow2[(Width - 2) + 1] = 2 * Pow2[Width - 2]  BY <2>1, Pow2Step
  <2>4. QED  BY <2>1, <2>2, <2>3, Pow2Positive
<1>10. Modulus \in Nat /\ Modulus >= 4  BY <1>9 DEF Modulus
<1>11. Capacity <= Pow2[Width - 1]  BY <1>2, <1>5
<1>12. Capacity \in Nat \ {0} /\ Capacity >= Requested  BY <1>1, <1>5
<1>13. 2 * Capacity <= Modulus  BY <1>9, <1>11, <1>12 DEF Modulus
<1>14. QED  BY <1>8, <1>10, <1>12, <1>13

-----------------------------------------------------------------------------
(***************************************************************************)
(* Index arithmetic.                                                       *)
(***************************************************************************)

\* Wrapping an index does not change its slot.
LEMMA SlotOfWrapped ==
    ASSUME NEW t \in 0..(Modulus - 1), NEW i \in 0..Modulus
    PROVE  Slot(Plus(t, i)) = (t + i) % Capacity
<1> DEFINE s == (t + i) % Modulus
<1>1. Modulus \in Nat \ {0} /\ Capacity \in Nat \ {0}  BY CapacityFacts
<1>2. s = IF t + i < Modulus THEN t + i ELSE t + i - Modulus  BY <1>1, ModPlus
<1>3. PICK q \in Int : Modulus = Capacity * q  BY CapacityFacts
<1>4. CASE t + i < Modulus  BY <1>2, <1>4 DEF Slot, Plus
<1>5. CASE ~(t + i < Modulus)
  <2>1. s \in Int /\ t + i = s + Modulus  BY <1>1, <1>2, <1>5
  <2> HIDE DEF s
  <2>2. (s + Capacity * q) % Capacity = s % Capacity
    BY <1>1, <2>1, ModShift, Zenon
  <2>3. QED  BY <1>3, <2>1, <2>2 DEF Slot, Plus, s
<1>6. QED  BY <1>4, <1>5

\* Slots less than a capacity apart are different ones.
LEMMA SlotsDiffer ==
    ASSUME NEW t \in 0..(Modulus - 1),
           NEW i \in 0..(Capacity - 1), NEW j \in 0..(Capacity - 1), i # j
    PROVE  Slot(Plus(t, i)) # Slot(Plus(t, j))
<1> USE CapacityFacts
<1>1. i \in 0..Modulus /\ j \in 0..Modulus  OBVIOUS
<1>2. Slot(Plus(t, i)) = (t + i) % Capacity  BY <1>1, SlotOfWrapped
<1>3. Slot(Plus(t, j)) = (t + j) % Capacity  BY <1>1, SlotOfWrapped
<1>4. t + i # t + j  OBVIOUS
<1>5. t + i \in Int /\ t + j \in Int  OBVIOUS
<1>6. (t + i) - (t + j) < Capacity /\ (t + j) - (t + i) < Capacity  OBVIOUS
<1>7. (t + i) % Capacity # (t + j) % Capacity  BY <1>4, <1>5, <1>6, ModInjective
<1>8. QED  BY <1>2, <1>3, <1>7

\* Every index has a slot.
LEMMA SlotInRange ==
    ASSUME NEW i \in Nat PROVE Slot(i) \in 0..(Capacity - 1)
BY CapacityFacts, DivMod DEF Slot

\* The size is the distance from tail to head, and moving an index by one
\* moves the size by one until the range of the indices is used up.
LEMMA Distance ==
    ASSUME NEW h \in 0..(Modulus - 1), NEW t \in 0..(Modulus - 1)
    PROVE  /\ Minus(h, t) \in 0..(Modulus - 1)
           /\ Plus(t, Minus(h, t)) = h
           /\ Minus(h, t) = 0 <=> h = t
           /\ Plus(h, 1) \in 0..(Modulus - 1)
           /\ Minus(h, t) < Modulus - 1 => Minus(Plus(h, 1), t) = Minus(h, t) + 1
           /\ Minus(h, t) > 0 => Minus(h, Plus(t, 1)) = Minus(h, t) - 1
<1> DEFINE d == (h - t) % Modulus
<1>1. Modulus \in Nat \ {0} /\ Modulus >= 4  BY CapacityFacts
<1>2. d = IF t <= h THEN h - t ELSE h - t + Modulus  BY <1>1, ModMinus
<1>3. d \in 0..(Modulus - 1)  BY <1>1, <1>2
<1>4. (h + 1) % Modulus = IF h + 1 < Modulus THEN h + 1 ELSE h + 1 - Modulus
  <2>1. 1 \in 0..Modulus  BY <1>1
  <2>2. QED  BY <1>1, <2>1, ModPlus
<1>5. (t + 1) % Modulus = IF t + 1 < Modulus THEN t + 1 ELSE t + 1 - Modulus
  <2>1. 1 \in 0..Modulus  BY <1>1
  <2>2. QED  BY <1>1, <2>1, ModPlus
<1> DEFINE p == (h + 1) % Modulus
           r == (t + 1) % Modulus
<1>6. p \in 0..(Modulus - 1) /\ r \in 0..(Modulus - 1)  BY <1>1, <1>4, <1>5
<1> HIDE DEF d, p, r
<1>7. (t + d) % Modulus = IF t + d < Modulus THEN t + d ELSE t + d - Modulus
  <2>1. d \in 0..Modulus  BY <1>1, <1>3
  <2>2. QED  BY <1>1, <2>1, ModPlus
<1>8. (t + d) % Modulus = h  BY <1>1, <1>2, <1>3, <1>7
<1>9. (p - t) % Modulus = IF t <= p THEN p - t ELSE p - t + Modulus
  BY <1>1, <1>6, ModMinus
<1>10. (h - r) % Modulus = IF r <= h THEN h - r ELSE h - r + Modulus
  BY <1>1, <1>6, ModMinus
<1>11. d < Modulus - 1 => (p - t) % Modulus = d + 1
  BY <1>1, <1>2, <1>4, <1>9 DEF p
<1>12. d > 0 => (h - r) % Modulus = d - 1
  BY <1>1, <1>2, <1>5, <1>10 DEF r
<1>13. d = 0 <=> h = t  BY <1>1, <1>2
<1>14. QED  BY <1>3, <1>6, <1>8, <1>11, <1>12, <1>13 DEF Minus, Plus, d, p, r

-----------------------------------------------------------------------------
(***************************************************************************)
(* The inductive invariant.  What each thread learnt from the other's      *)
(* index stays true until it acts on it: the producer's room can only      *)
(* grow, the consumer's supply can only grow, and a written slot that is   *)
(* not published yet is out of the consumer's reach.                       *)
(***************************************************************************)
RoomStays == ppc \in {"write", "store"} => Size < Capacity

SupplyStays == cpc \in {"read", "store"} => Size > 0

WrittenStays == ppc = "store" => slots[Slot(head)] = value

RingInv ==
    /\ TypeOK
    /\ Size <= Capacity
    /\ RoomStays
    /\ SupplyStays
    /\ WrittenStays

\* The slot the producer writes and the one the consumer reads differ while the
\* ring is neither empty nor full.
LEMMA EndsDiffer ==
    ASSUME TypeOK, Size > 0, Size < Capacity
    PROVE  Slot(head) # Slot(tail)
<1>1. head \in 0..(Modulus - 1) /\ tail \in 0..(Modulus - 1)  BY DEF TypeOK
<1>2. Size \in 0..(Capacity - 1) /\ 0 \in 0..(Capacity - 1) /\ Size # 0
  BY <1>1, Distance, CapacityFacts DEF Size
<1>3. Slot(Plus(tail, Size)) # Slot(Plus(tail, 0))  BY <1>1, <1>2, SlotsDiffer
<1>4. Plus(tail, Size) = head  BY <1>1, Distance DEF Size
<1>5. Plus(tail, 0) = tail
  <2>1. Modulus \in Nat \ {0}  BY CapacityFacts
  <2>2. tail % Modulus = tail  BY <1>1, <2>1, ModSmall
  <2>3. QED  BY <1>1, <2>2 DEF Plus
<1>6. QED  BY <1>3, <1>4, <1>5

\* An empty ring has nothing to write or to read.
LEMMA RingInvInit == Init => RingInv
<1> SUFFICES ASSUME Init PROVE RingInv  OBVIOUS
<1>1. 0 \in 0..(Modulus - 1) /\ Capacity \in Nat \ {0}  BY CapacityFacts
<1>2. Size = 0  BY <1>1, Distance DEF Init, Size
<1>3. TypeOK  BY <1>1 DEF Init, TypeOK
<1>4. QED
  BY <1>1, <1>2, <1>3 DEF Init, RingInv, RoomStays, SupplyStays, WrittenStays

\* Every access to the ring keeps its invariant.
LEMMA RingInvNext == RingInv /\ [Next]_vars => RingInv'
<1> SUFFICES ASSUME RingInv, [Next]_vars PROVE RingInv'  OBVIOUS
<1>1. /\ TypeOK
      /\ Size <= Capacity /\ RoomStays /\ SupplyStays /\ WrittenStays
  BY DEF RingInv
<1>2. /\ head \in 0..(Modulus - 1) /\ tail \in 0..(Modulus - 1)
      /\ slots \in [0..(Capacity - 1) -> Values \cup {NULL}]
      /\ value \in Values \cup {NULL} /\ out \in Values \cup {NULL}
  BY <1>1 DEF TypeOK
<1>3. Capacity \in Nat \ {0} /\ Modulus \in Nat /\ Capacity < Modulus - 1
  BY CapacityFacts
<1>4. Size \in 0..(Modulus - 1)  BY <1>2, Distance DEF Size
<1>5. Slot(head) \in 0..(Capacity - 1) /\ Slot(tail) \in 0..(Capacity - 1)
  BY <1>2, <1>3, SlotInRange
<1> USE DEF RingInv
<1>6. ASSUME NEW v \in Values, PushCall(v) PROVE RingInv'
  BY <1>1, <1>6 DEF PushCall, consumer, TypeOK, Size, RoomStays, SupplyStays, WrittenStays
<1>7. CASE PushLoadTail
  <2>1. TypeOK'  BY <1>1, <1>7 DEF PushLoadTail, consumer, TypeOK
  <2>2. Size' = Size  BY <1>7 DEF PushLoadTail, consumer, Size
  <2>3. ppc' = "write" => Size < Capacity
    <3>1. Minus(Plus(head, 1), tail) = Size + 1
      BY <1>1, <1>2, <1>3, <1>4, Distance DEF Size
    <3>2. QED  BY <1>3, <1>4, <1>7, <3>1 DEF PushLoadTail, Full
  <2>4. QED
    BY <1>1, <1>7, <2>1, <2>2, <2>3
    DEF PushLoadTail, consumer, RoomStays, SupplyStays, WrittenStays
<1>8. CASE PushWrite
  <2>1. TypeOK'  BY <1>1, <1>2, <1>5, <1>8 DEF PushWrite, consumer, TypeOK
  <2>2. Size' = Size /\ Slot(head)' = Slot(head)
    BY <1>8 DEF PushWrite, consumer, Size, Slot
  <2>3. slots'[Slot(head)] = value  BY <1>2, <1>5, <1>8 DEF PushWrite
  <2>4. QED
    BY <1>1, <1>8, <2>1, <2>2, <2>3
    DEF PushWrite, consumer, RoomStays, SupplyStays, WrittenStays
<1>9. CASE PushStoreHead
  <2>1. TypeOK'
    BY <1>1, <1>2, <1>9, Distance DEF PushStoreHead, consumer, TypeOK
  <2>2. Size' = Size + 1
    <3>1. Size < Capacity  BY <1>1, <1>9 DEF PushStoreHead, RoomStays
    <3>2. Size' = Minus(Plus(head, 1), tail)
      BY <1>9 DEF PushStoreHead, consumer, Size
    <3>3. Minus(Plus(head, 1), tail) = Size + 1
      BY <1>2, <1>3, <1>4, <3>1, Distance DEF Size
    <3>4. QED  BY <3>2, <3>3
  <2>3. QED
    BY <1>1, <1>3, <1>4, <1>9, <2>1, <2>2
    DEF PushStoreHead, consumer, RoomStays, SupplyStays, WrittenStays
<1>10. CASE PushReturn
  BY <1>1, <1>10
  DEF PushReturn, consumer, TypeOK, Size, RoomStays, SupplyStays, WrittenStays
<1>11. CASE PopCall
  BY <1>1, <1>11
  DEF PopCall, producer, TypeOK, Size, RoomStays, SupplyStays, WrittenStays
<1>12. CASE PopLoadHead
  <2>1. TypeOK'  BY <1>1, <1>12 DEF PopLoadHead, producer, TypeOK
  <2>2. Size' = Size  BY <1>12 DEF PopLoadHead, producer, Size
  <2>3. cpc' = "read" => Size > 0
    BY <1>2, <1>4, <1>12, Distance DEF PopLoadHead, Empty, Size
  <2>4. QED
    BY <1>1, <1>12, <2>1, <2>2, <2>3
    DEF PopLoadHead, producer, RoomStays, SupplyStays, WrittenStays
<1>13. CASE PopRead
  <2>1. TypeOK'  BY <1>1, <1>2, <1>5, <1>13 DEF PopRead, producer, TypeOK
  <2>2. Size' = Size /\ Slot(head)' = Slot(head)
    BY <1>13 DEF PopRead, producer, Size, Slot
  <2>3. ppc = "store" => slots'[Slot(head)] = slots[Slot(head)]
    <3>1. SUFFICES ASSUME ppc = "store" PROVE Slot(head) # Slot(tail)
      BY <1>2, <1>5, <1>13 DEF PopRead
    <3>2. Size > 0 /\ Size < Capacity
      BY <1>1, <1>13, <3>1 DEF PopRead, RoomStays, SupplyStays
    <3>3. QED  BY <1>1, <3>2, EndsDiffer
  <2>4. QED
    BY <1>1, <1>13, <2>1, <2>2, <2>3
    DEF PopRead, producer, RoomStays, SupplyStays, WrittenStays
<1>14. CASE PopStoreTail
  <2>1. TypeOK'
    BY <1>1, <1>2, <1>14, Distance DEF PopStoreTail, producer, TypeOK
  <2>2. Size' = Size - 1
    <3>1. Size > 0  BY <1>1, <1>14 DEF PopStoreTail, SupplyStays
    <3>2. Size' = Minus(head, Plus(tail, 1))
      BY <1>14 DEF PopStoreTail, producer, Size
    <3>3. Minus(head, Plus(tail, 1)) = Size - 1
      BY <1>2, <1>4, <3>1, Distance DEF Size
    <3>4. QED  BY <3>2, <3>3
  <2>3. Slot(head)' = Slot(head)  BY <1>14 DEF PopStoreTail, producer, Slot
  <2>4. QED
    BY <1>1, <1>3, <1>4, <1>14, <2>1, <2>2, <2>3
    DEF PopStoreTail, producer, RoomStays, SupplyStays, WrittenStays
<1>15. CASE PopReturn
  BY <1>1, <1>15
  DEF PopReturn, producer, TypeOK, Size, RoomStays, SupplyStays, WrittenStays
<1>16. CASE UNCHANGED vars
  BY <1>1, <1>16
  DEF vars, TypeOK, Size, RoomStays, SupplyStays, WrittenStays
<1>17. QED
  BY <1>6, <1>7, <1>8, <1>9, <1>10, <1>11, <1>12, <1>13, <1>14, <1>15, <1>16
  DEF Next

\* The invariant holds in every reachable state.
LEMMA Invariance == Spec => []RingInv
<1>1. QED  BY RingInvInit, RingInvNext, PTL DEF Spec

\* TypeOK for every capacity: no access is outside slots_, and no index leaves
\* its range.
THEOREM TypeCorrect == Spec => []TypeOK
<1>1. RingInv => TypeOK  BY DEF RingInv
<1>2. QED  BY Invariance, <1>1, PTL

\* SlotsDisjoint for every capacity: push() and pop() never race on a slot.
THEOREM NoDataRace == Spec => []SlotsDisjoint
<1>1. RingInv => SlotsDisjoint
  BY EndsDiffer DEF RingInv, RoomStays, SupplyStays, SlotsDisjoint
<1>2. QED  BY Invariance, <1>1, PTL

-----------------------------------------------------------------------------
(***************************************************************************)
(* The refinement.                                                         *)
(***************************************************************************)
FifoQueue == [i \in 1..Size |-> Queued(i)]

FifoPush ==
    [stage |-> IF ppc \in {"load", "write", "store"} THEN "called" ELSE ppc,
     value |-> IF ppc \in {"load", "write", "store"} THEN value ELSE NULL]

FifoPop ==
    [stage |-> IF cpc \in {"load", "read", "store"} THEN "called" ELSE cpc,
     value |-> IF cpc = "true" THEN out ELSE NULL]

QueueShape ==
    /\ Size \in Nat
    /\ FifoQueue \in Seq(Values \cup {NULL})
    /\ Len(FifoQueue) = Size
    /\ \A i \in 1..Size : FifoQueue[i] = Queued(i)

\* The queue that the ring stands for is a sequence of as many values as the
\* indices are apart.
LEMMA QueueIsSequence == TypeOK => QueueShape
<1> SUFFICES ASSUME TypeOK PROVE QueueShape  OBVIOUS
<1>1. head \in 0..(Modulus - 1) /\ tail \in 0..(Modulus - 1) /\ Modulus \in Nat
  BY CapacityFacts DEF TypeOK
<1>2. Size \in Nat  BY <1>1, Distance DEF Size
<1>3. ASSUME NEW i \in 1..Size PROVE Queued(i) \in Values \cup {NULL}
  <2>1. Plus(tail, i - 1) \in Nat
    BY <1>1, <1>2, CapacityFacts, DivMod DEF Plus
  <2>2. Slot(Plus(tail, i - 1)) \in 0..(Capacity - 1)  BY <2>1, SlotInRange
  <2>3. QED  BY <2>2 DEF TypeOK, Queued
<1>4. FifoQueue \in Seq(Values \cup {NULL})  BY <1>2, <1>3 DEF FifoQueue
<1>5. QED  BY <1>2, <1>4 DEF FifoQueue, QueueShape

\* A step that moves neither index and keeps the queued values is invisible.
LEMMA SameQueue ==
    ASSUME Size' = Size, \A i \in 1..Size : Queued(i)' = Queued(i)
    PROVE  FifoQueue' = FifoQueue
BY DEF FifoQueue

\* Writing a slot outside the queued ones changes no queued value.
LEMMA PushWriteInvisible ==
    ASSUME RingInv, PushWrite
    PROVE  FifoQueue' = FifoQueue
<1>1. /\ head \in 0..(Modulus - 1) /\ tail \in 0..(Modulus - 1)
      /\ slots \in [0..(Capacity - 1) -> Values \cup {NULL}]
  BY DEF RingInv, TypeOK
<1>2. Size \in Nat /\ Size < Capacity
  BY QueueIsSequence DEF QueueShape, RingInv, RoomStays, PushWrite
<1>3. Size' = Size  BY DEF PushWrite, consumer, Size
<1>4. Slot(head) = Slot(Plus(tail, Size))  BY <1>1, Distance DEF Size
<1>5. ASSUME NEW i \in 1..Size PROVE Queued(i)' = Queued(i)
  <2>1. Size \in 0..(Capacity - 1) /\ i - 1 \in 0..(Capacity - 1) /\ i - 1 # Size
    BY <1>2, CapacityFacts
  <2>2. Slot(Plus(tail, i - 1)) # Slot(head)  BY <1>1, <1>4, <2>1, SlotsDiffer
  <2>3. slots'[Slot(Plus(tail, i - 1))] = slots[Slot(Plus(tail, i - 1))]
    BY <1>1, <2>2 DEF PushWrite
  <2>4. Slot(Plus(tail, i - 1))' = Slot(Plus(tail, i - 1))
    BY DEF PushWrite, consumer, Slot, Plus
  <2>5. QED  BY <2>3, <2>4 DEF Queued, PushWrite, consumer
<1>6. QED  BY <1>3, <1>5, SameQueue

\* Moving the oldest value out of its slot into the caller's variable changes
\* no queued value: until tail_ is stored the value counts as queued.
LEMMA PopReadInvisible ==
    ASSUME RingInv, PopRead
    PROVE  FifoQueue' = FifoQueue
<1>1. /\ head \in 0..(Modulus - 1) /\ tail \in 0..(Modulus - 1)
      /\ slots \in [0..(Capacity - 1) -> Values \cup {NULL}]
  BY DEF RingInv, TypeOK
<1>2. Size \in Nat /\ Size <= Capacity  BY QueueIsSequence DEF QueueShape, RingInv
<1>3. Size' = Size  BY DEF PopRead, producer, Size
<1>4. Plus(tail, 0) = tail
  <2>1. Modulus \in Nat \ {0}  BY CapacityFacts
  <2>2. tail % Modulus = tail  BY <1>1, <2>1, ModSmall
  <2>3. QED  BY <1>1, <2>2 DEF Plus
<1>5. ASSUME NEW i \in 1..Size PROVE Queued(i)' = Queued(i)
  <2>1. CASE i = 1
    BY <1>4, <2>1 DEF Queued, PopRead
  <2>2. CASE i # 1
    <3>1. 0 \in 0..(Capacity - 1) /\ i - 1 \in 0..(Capacity - 1) /\ i - 1 # 0
      BY <1>2, <2>2, CapacityFacts
    <3>2. Slot(Plus(tail, i - 1)) # Slot(tail)
      BY <1>1, <1>4, <3>1, SlotsDiffer
    <3>3. slots'[Slot(Plus(tail, i - 1))] = slots[Slot(Plus(tail, i - 1))]
      BY <1>1, <3>2 DEF PopRead
    <3>4. Slot(Plus(tail, i - 1))' = Slot(Plus(tail, i - 1))
      BY DEF PopRead, Slot, Plus
    <3>5. QED  BY <2>2, <3>3, <3>4 DEF Queued
  <2>3. QED  BY <2>1, <2>2
<1>6. QED  BY <1>3, <1>5, SameQueue

\* Storing head_ appends the value that push() wrote.
LEMMA PushStoreAppends ==
    ASSUME RingInv, RingInv', PushStoreHead
    PROVE  FifoQueue' = Append(FifoQueue, value)
<1>1. /\ head \in 0..(Modulus - 1) /\ tail \in 0..(Modulus - 1)
      /\ value \in Values \cup {NULL}
  BY DEF RingInv, TypeOK
<1>2. /\ Size \in Nat /\ Size < Capacity
      /\ FifoQueue \in Seq(Values \cup {NULL}) /\ Len(FifoQueue) = Size
      /\ \A i \in 1..Size : FifoQueue[i] = Queued(i)
  BY QueueIsSequence DEF QueueShape, RingInv, RoomStays, PushStoreHead
<1>3. /\ FifoQueue' \in Seq(Values \cup {NULL}) /\ Len(FifoQueue') = Size'
      /\ \A i \in 1..Size' : FifoQueue'[i] = Queued(i)'
  <2>1. TypeOK'  BY DEF RingInv
  <2>2. QueueShape'  BY <2>1, QueueIsSequence, PTL
  <2>3. QED  BY <2>2 DEF QueueShape
<1>4. Size' = Size + 1
  <2>1. Size' = Minus(Plus(head, 1), tail)  BY DEF PushStoreHead, consumer, Size
  <2>2. Size < Modulus - 1  BY <1>2, CapacityFacts
  <2>3. Minus(Plus(head, 1), tail) = Size + 1  BY <1>1, <2>2, Distance DEF Size
  <2>4. QED  BY <2>1, <2>3
<1>5. ASSUME NEW i \in 1..Size PROVE Queued(i)' = Queued(i)
  BY DEF PushStoreHead, consumer, Queued, Slot, Plus
<1>6. ASSUME NEW n, n = Size + 1 PROVE Queued(n)' = value
  <2>1. Plus(tail, n - 1) = head
    <3>1. n - 1 = Size  BY <1>2, <1>6
    <3>2. QED  BY <1>1, <3>1, Distance DEF Size
  <2>2. ~(n = 1 /\ cpc = "store")  BY <1>2, <1>6 DEF RingInv, SupplyStays
  <2>3. slots[Slot(Plus(tail, n - 1))] = value
    BY <2>1 DEF RingInv, WrittenStays, PushStoreHead
  <2>4. slots' = slots /\ tail' = tail /\ cpc' = cpc
    BY DEF PushStoreHead, consumer
  <2>5. QED  BY <2>2, <2>3, <2>4 DEF Queued, Slot, Plus
<1> DEFINE a == Append(FifoQueue, value)
<1>7. /\ a \in Seq(Values \cup {NULL}) /\ Len(a) = Size + 1
      /\ \A i \in 1..Size : a[i] = FifoQueue[i]
      /\ a[Size + 1] = value
  BY <1>1, <1>2
<1> HIDE DEF a
<1>8. ASSUME NEW i \in 1..(Size + 1) PROVE FifoQueue'[i] = a[i]
  <2>1. FifoQueue'[i] = Queued(i)'  BY <1>3, <1>4
  <2>2. CASE i = Size + 1  BY <1>6, <1>7, <2>1, <2>2
  <2>3. CASE i # Size + 1
    <3>1. i \in 1..Size  BY <1>2, <2>3
    <3>2. QED  BY <1>2, <1>5, <1>7, <2>1, <3>1
  <2>4. QED  BY <2>2, <2>3
<1>9. FifoQueue' = a
  <2>1. Len(FifoQueue') = Len(a) /\ \A i \in 1..Len(FifoQueue') : FifoQueue'[i] = a[i]
    BY <1>3, <1>4, <1>7, <1>8
  <2>2. QED  BY <1>3, <1>7, <2>1, SeqEqual
<1>10. QED  BY <1>9 DEF a

\* Storing tail_ removes the oldest value, the one pop() has moved out.
LEMMA PopStoreRemoves ==
    ASSUME RingInv, RingInv', PopStoreTail
    PROVE  /\ FifoQueue # <<>>
           /\ FifoQueue' = Tail(FifoQueue)
           /\ out = Head(FifoQueue)
<1>1. head \in 0..(Modulus - 1) /\ tail \in 0..(Modulus - 1)
  BY DEF RingInv, TypeOK
<1>2. /\ Size \in Nat /\ Size > 0 /\ Size <= Capacity
      /\ FifoQueue \in Seq(Values \cup {NULL}) /\ Len(FifoQueue) = Size
      /\ \A i \in 1..Size : FifoQueue[i] = Queued(i)
  BY QueueIsSequence DEF QueueShape, RingInv, SupplyStays, PopStoreTail
<1>3. /\ FifoQueue' \in Seq(Values \cup {NULL}) /\ Len(FifoQueue') = Size'
      /\ \A i \in 1..Size' : FifoQueue'[i] = Queued(i)'
  <2>1. TypeOK'  BY DEF RingInv
  <2>2. QueueShape'  BY <2>1, QueueIsSequence, PTL
  <2>3. QED  BY <2>2 DEF QueueShape
<1>4. Size' = Size - 1
  <2>1. Size' = Minus(head, Plus(tail, 1))  BY DEF PopStoreTail, producer, Size
  <2>2. Minus(head, Plus(tail, 1)) = Size - 1  BY <1>1, <1>2, Distance DEF Size
  <2>3. QED  BY <2>1, <2>2
<1>5. ASSUME NEW i \in 1..(Size - 1) PROVE Queued(i)' = Queued(i + 1)
  <2>1. Queued(i + 1) = slots[Slot(Plus(tail, (i + 1) - 1))]
    BY <1>2 DEF Queued
  <2>2. Queued(i)' = slots[Slot(Plus(Plus(tail, 1), i - 1))]
    BY DEF PopStoreTail, Queued, Slot, Plus
  <2>3. i \in 0..Modulus /\ i - 1 \in 0..Modulus /\ 1 \in 0..Modulus
        /\ (i + 1) - 1 = i /\ Modulus \in Nat \ {0}
    BY <1>2, CapacityFacts
  <2>4. Plus(tail, 1) \in 0..(Modulus - 1)  BY <1>1, Distance
  <2>5. Slot(Plus(Plus(tail, 1), i - 1)) = (Plus(tail, 1) + (i - 1)) % Capacity
    BY <2>3, <2>4, SlotOfWrapped
  <2>6. Slot(Plus(tail, i)) = (tail + i) % Capacity  BY <1>1, <2>3, SlotOfWrapped
  <2>7. (Plus(tail, 1) + (i - 1)) % Capacity = (tail + i) % Capacity
    <3>1. Plus(tail, 1) = IF tail + 1 < Modulus THEN tail + 1 ELSE tail + 1 - Modulus
      BY <1>1, <2>3, ModPlus DEF Plus
    <3>2. CASE tail + 1 < Modulus
      <4>1. Plus(tail, 1) + (i - 1) = tail + i  BY <1>1, <3>1, <3>2
      <4>2. QED  BY <4>1
    <3>3. CASE ~(tail + 1 < Modulus)
      <4>1. PICK q \in Int : Modulus = Capacity * q  BY CapacityFacts
      <4>2. tail + i = (Plus(tail, 1) + (i - 1)) + Capacity * q
        <5>1. tail + i = (Plus(tail, 1) + (i - 1)) + Modulus
          BY <1>1, <2>3, <3>1, <3>3
        <5>2. QED  BY <4>1, <5>1
      <4>3. Plus(tail, 1) + (i - 1) \in Int /\ Capacity \in Nat \ {0}
        BY <2>3, <2>4, CapacityFacts
      <4>4. QED  BY <4>2, <4>3, ModShift, Zenon
    <3>4. QED  BY <3>2, <3>3
  <2>8. QED  BY <2>1, <2>2, <2>3, <2>5, <2>6, <2>7
<1>6. FifoQueue # <<>>  BY <1>2
<1>7. /\ Tail(FifoQueue) \in Seq(Values \cup {NULL})
      /\ Len(Tail(FifoQueue)) = Size - 1
      /\ \A i \in 1..(Size - 1) : Tail(FifoQueue)[i] = FifoQueue[i + 1]
  BY <1>2, <1>6, HeadTailProperties
<1>8. FifoQueue' = Tail(FifoQueue)
  <2>1. ASSUME NEW i \in 1..(Size - 1)
        PROVE  FifoQueue'[i] = Tail(FifoQueue)[i]
    <3>1. i \in 1..Size' /\ i + 1 \in 1..Size  BY <1>2, <1>4
    <3>2. QED  BY <1>2, <1>3, <1>5, <1>7, <3>1
  <2>2. /\ Len(FifoQueue') = Len(Tail(FifoQueue))
        /\ \A i \in 1..Len(FifoQueue') : FifoQueue'[i] = Tail(FifoQueue)[i]
    BY <1>3, <1>4, <1>7, <2>1
  <2>3. QED  BY <1>3, <1>7, <2>2, SeqEqual
<1>9. out = Head(FifoQueue)
  <2>1. FifoQueue[1] = Queued(1)  BY <1>2
  <2>2. Queued(1) = out  BY DEF Queued, PopStoreTail
  <2>3. QED  BY <1>2, <1>6, <2>1, <2>2
<1>10. QED  BY <1>6, <1>8, <1>9

\* Every step of the ring is a step of the abstract queue or invisible to it.
LEMMA StepRefines ==
    RingInv /\ RingInv' /\ [Next]_vars => [Fifo!Next]_Fifo!vars
<1> SUFFICES ASSUME RingInv, RingInv', [Next]_vars
             PROVE  Fifo!Next \/ UNCHANGED <<FifoQueue, FifoPush, FifoPop>>
  BY DEF Fifo!vars, FifoQueue, FifoPush, FifoPop
<1>1. /\ head \in 0..(Modulus - 1) /\ tail \in 0..(Modulus - 1)
      /\ Size \in Nat /\ Size <= Capacity
      /\ FifoQueue \in Seq(Values \cup {NULL}) /\ Len(FifoQueue) = Size
      /\ Capacity \in Nat \ {0}
  BY QueueIsSequence, CapacityFacts DEF QueueShape, RingInv, TypeOK
<1>2. ASSUME NEW v \in Values, PushCall(v) PROVE Fifo!Next
  <2>1. FifoQueue' = FifoQueue
    BY <1>2 DEF PushCall, consumer, FifoQueue, Size, Queued
  <2>2. /\ FifoPush = Fifo!Idle
        /\ FifoPush' = [stage |-> "called", value |-> v]
        /\ FifoPop' = FifoPop
    BY <1>2, <2>1 DEF PushCall, consumer, FifoPush, FifoPop, Fifo!Idle
  <2>3. Fifo!PushCall(v)
    BY <2>1, <2>2 DEF Fifo!PushCall, FifoQueue, FifoPush, FifoPop
  <2>4. QED  BY <2>3 DEF Fifo!Next
<1>3. CASE PushLoadTail
  <2>1. FifoQueue' = FifoQueue /\ FifoPop' = FifoPop
    BY <1>3 DEF PushLoadTail, consumer, FifoQueue, FifoPop, Size, Queued
  <2>2. CASE ~Full(tail)
    <3>1. FifoPush' = FifoPush
      BY <1>3, <2>2 DEF PushLoadTail, FifoPush
    <3>2. QED  BY <2>1, <3>1
  <2>3. CASE Full(tail)
    <3>1. Len(FifoQueue) = Capacity
      <4>1. Size < Modulus - 1  BY <1>1, CapacityFacts
      <4>2. Minus(Plus(head, 1), tail) = Size + 1
        BY <1>1, <4>1, Distance DEF Size
      <4>3. QED  BY <1>1, <2>3, <4>2 DEF Full
    <3>2. /\ FifoPush.stage = "called"
          /\ FifoPush' = [stage |-> "false", value |-> NULL]
      BY <1>3, <2>3 DEF PushLoadTail, FifoPush
    <3>3. Fifo!PushRefuse
      BY <2>1, <3>1, <3>2 DEF Fifo!PushRefuse, FifoQueue, FifoPush, FifoPop
    <3>4. QED  BY <3>3 DEF Fifo!Next
  <2>4. QED  BY <2>2, <2>3
<1>4. CASE PushWrite
  <2>1. FifoQueue' = FifoQueue  BY <1>4, PushWriteInvisible
  <2>2. FifoPush' = FifoPush /\ FifoPop' = FifoPop
    BY <1>4 DEF PushWrite, consumer, FifoPush, FifoPop
  <2>3. QED  BY <2>1, <2>2
<1>5. CASE PushStoreHead
  <2>1. FifoQueue' = Append(FifoQueue, value)  BY <1>5, PushStoreAppends
  <2>2. Len(FifoQueue) < Capacity
    BY <1>1, <1>5 DEF RingInv, RoomStays, PushStoreHead
  <2>3. /\ FifoPush.stage = "called" /\ FifoPush.value = value
        /\ FifoPush' = [stage |-> "true", value |-> NULL]
        /\ FifoPop' = FifoPop
    BY <1>5 DEF PushStoreHead, consumer, FifoPush, FifoPop
  <2>4. Fifo!PushTake
    BY <2>1, <2>2, <2>3 DEF Fifo!PushTake, FifoQueue, FifoPush, FifoPop
  <2>5. QED  BY <2>4 DEF Fifo!Next
<1>6. CASE PushReturn
  <2>1. FifoQueue' = FifoQueue /\ FifoPop' = FifoPop
    BY <1>6 DEF PushReturn, consumer, FifoQueue, FifoPop, Size, Queued
  <2>2. FifoPush.stage \in {"true", "false"} /\ FifoPush' = Fifo!Idle
    BY <1>6 DEF PushReturn, FifoPush, Fifo!Idle
  <2>3. Fifo!PushReturn
    BY <2>1, <2>2 DEF Fifo!PushReturn, FifoQueue, FifoPush, FifoPop
  <2>4. QED  BY <2>3 DEF Fifo!Next
<1>7. CASE PopCall
  <2>1. FifoQueue' = FifoQueue /\ FifoPush' = FifoPush
    BY <1>7 DEF PopCall, producer, FifoQueue, FifoPush, Size, Queued
  <2>2. /\ FifoPop = Fifo!Idle
        /\ FifoPop' = [stage |-> "called", value |-> NULL]
    BY <1>7 DEF PopCall, FifoPop, Fifo!Idle
  <2>3. Fifo!PopCall
    BY <2>1, <2>2 DEF Fifo!PopCall, FifoQueue, FifoPush, FifoPop
  <2>4. QED  BY <2>3 DEF Fifo!Next
<1>8. CASE PopLoadHead
  <2>1. FifoQueue' = FifoQueue /\ FifoPush' = FifoPush
    BY <1>8 DEF PopLoadHead, producer, FifoQueue, FifoPush, Size, Queued
  <2>2. CASE ~Empty(head)
    <3>1. FifoPop' = FifoPop  BY <1>8, <2>2 DEF PopLoadHead, FifoPop
    <3>2. QED  BY <2>1, <3>1
  <2>3. CASE Empty(head)
    <3>1. Size = 0  BY <1>1, <2>3, Distance DEF Empty, Size
    <3>2. FifoQueue = <<>>  BY <1>1, <3>1, EmptySeq
    <3>3. /\ FifoPop.stage = "called"
          /\ FifoPop' = [stage |-> "false", value |-> NULL]
      BY <1>8, <2>3 DEF PopLoadHead, FifoPop
    <3>4. Fifo!PopRefuse
      BY <2>1, <3>2, <3>3 DEF Fifo!PopRefuse, FifoQueue, FifoPush, FifoPop
    <3>5. QED  BY <3>4 DEF Fifo!Next
  <2>4. QED  BY <2>2, <2>3
<1>9. CASE PopRead
  <2>1. FifoQueue' = FifoQueue  BY <1>9, PopReadInvisible
  <2>2. FifoPush' = FifoPush /\ FifoPop' = FifoPop
    BY <1>9 DEF PopRead, producer, FifoPush, FifoPop
  <2>3. QED  BY <2>1, <2>2
<1>10. CASE PopStoreTail
  <2>1. /\ FifoQueue # <<>>
        /\ FifoQueue' = Tail(FifoQueue)
        /\ out = Head(FifoQueue)
    BY <1>10, PopStoreRemoves
  <2>2. /\ FifoPop.stage = "called"
        /\ FifoPop' = [stage |-> "true", value |-> out]
        /\ FifoPush' = FifoPush
    BY <1>10 DEF PopStoreTail, producer, FifoPush, FifoPop
  <2>3. FifoPop' = [stage |-> "true", value |-> Head(FifoQueue)]
    BY <2>1, <2>2
  <2>4. Fifo!PopTake
    BY <2>1, <2>2, <2>3 DEF Fifo!PopTake, FifoQueue, FifoPush, FifoPop
  <2>5. QED  BY <2>4 DEF Fifo!Next
<1>11. CASE PopReturn
  <2>1. FifoQueue' = FifoQueue /\ FifoPush' = FifoPush
    BY <1>11 DEF PopReturn, producer, FifoQueue, FifoPush, Size, Queued
  <2>2. FifoPop.stage \in {"true", "false"} /\ FifoPop' = Fifo!Idle
    BY <1>11 DEF PopReturn, FifoPop, Fifo!Idle
  <2>3. Fifo!PopReturn
    BY <2>1, <2>2 DEF Fifo!PopReturn, FifoQueue, FifoPush, FifoPop
  <2>4. QED  BY <2>3 DEF Fifo!Next
<1>12. CASE UNCHANGED vars
  BY <1>12 DEF vars, FifoQueue, FifoPush, FifoPop, Size, Queued
<1>13. QED
  BY <1>2, <1>3, <1>4, <1>5, <1>6, <1>7, <1>8, <1>9, <1>10, <1>11, <1>12
  DEF Next

\* The lock-free ring implements the bounded first-in first-out queue, for every
\* capacity and width of the indices: wrap-around loses, duplicates and reorders
\* nothing, and push() and pop() refuse only when the queue is full or empty.
THEOREM Refinement == Spec => ImplementsFifo
<1>1. Init => Fifo!Init
  <2> SUFFICES ASSUME Init PROVE Fifo!Init  OBVIOUS
  <2>1. TypeOK /\ Size \in Nat  BY RingInvInit, QueueIsSequence DEF RingInv, QueueShape
  <2>2. Size = 0
    <3>1. 0 \in 0..(Modulus - 1)  BY CapacityFacts
    <3>2. QED  BY <3>1, Distance DEF Init, Size
  <2>3. FifoQueue = <<>>
    BY <2>1, <2>2, QueueIsSequence, EmptySeq DEF QueueShape
  <2>4. FifoPush = Fifo!Idle /\ FifoPop = Fifo!Idle
    BY DEF Init, FifoPush, FifoPop, Fifo!Idle
  <2>5. QED  BY <2>3, <2>4 DEF Fifo!Init, FifoQueue, FifoPush, FifoPop
<1>2. QED
  BY Invariance, StepRefines, <1>1, PTL DEF Spec, ImplementsFifo, Fifo!Spec
=============================================================================
