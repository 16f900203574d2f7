------------------------ MODULE OrderEntryServerProofs ------------------------
(***************************************************************************)
(* The order-entry server and the ingress behind it, for every number of   *)
(* clients, all scripts, however their bytes are cut and whatever the size *)
(* of a read or of the ring: which commands reach the handler, why a       *)
(* session ends, and what the ingress hands on.  Then the frames the       *)
(* server reads, byte by byte: whatever the commands, the widths and the   *)
(* checksum, what was sent is what is read.                                *)
(***************************************************************************)
EXTENDS OrderEntryServer, Wire, Lemmas, TLAPS

-----------------------------------------------------------------------------
(***************************************************************************)
(* The ingress.                                                            *)
(***************************************************************************)
\* The tables are typed by the symbols they know.
TablesInv ==
    /\ ids \in [DOMAIN ids -> Nat]
    /\ names \in Seq(DOMAIN ids)
    /\ \A s \in DOMAIN ids : ids[s] < Len(names) /\ names[ids[s] + 1] = s
    /\ \A i \in 1..Len(names) : ids[names[i]] = i - 1

\* What was delivered is older than all that the ring holds or will hold.
RingInv ==
    /\ next \in Int
    /\ ring \in Seq([ingress: Int, symbol: Nat])
    /\ delivered \in Seq(Int)
    /\ \A i \in 1..Len(ring) : ring[i].ingress = next - 1 - (Len(ring) - i)
    /\ \A i \in 1..Len(delivered) : delivered[i] < next - Len(ring)
    /\ \A i, j \in 1..Len(delivered) : i < j => delivered[i] < delivered[j]
    /\ Capacity > 0 => Len(ring) <= Capacity

\* Nothing is known at first.
LEMMA IngressInit == GatewayInit => TablesInv /\ RingInv
<1> SUFFICES ASSUME GatewayInit PROVE TablesInv /\ RingInv  OBVIOUS
<1>1. ids = <<>> /\ names = <<>> /\ ring = <<>> /\ delivered = <<>> /\ next = 1  BY DEF GatewayInit
<1>2. DOMAIN ids = {} /\ Len(<<>>) = 0  BY <1>1
<1>3. TablesInv  BY <1>1, <1>2 DEF TablesInv
<1>4. RingInv  BY <1>1, <1>2, GatewayAssumption DEF RingInv
<1>5. QED  BY <1>3, <1>4

\* intern() gives a symbol the next id, or finds the one it has.
LEMMA InternKeeps ==
    ASSUME TablesInv, NEW symbol, Intern(symbol)
    PROVE  TablesInv' /\ ids'[symbol] \in Nat
<1> USE DEF TablesInv
<1>1. CASE symbol \in DOMAIN ids
  <2>1. names' = names /\ ids' = ids  BY <1>1 DEF Intern
  <2>2. QED  BY <1>1, <2>1
<1>2. CASE symbol \notin DOMAIN ids
  <2> DEFINE D == DOMAIN ids
             E == D \cup {symbol}
             n == Len(names)
  <2>1. names' = Append(names, symbol)
        /\ ids' = [s \in E |-> IF s = symbol THEN n ELSE ids[s]]
    BY <1>2 DEF Intern
  <2>2. n \in Nat  BY LenProperties
  <2>3. DOMAIN ids' = E  BY <2>1
  <2>4. ids' \in [E -> Nat]  BY <2>1, <2>2
  <2>5. names \in Seq(E)
    <3>1. names \in Seq(D) /\ D \subseteq E  OBVIOUS
    <3> HIDE DEF D, E
    <3>2. \A i \in 1..Len(names) : names[i] \in E  BY <3>1, ElementOfSeq
    <3>3. names = [i \in 1..Len(names) |-> names[i]]  BY <3>1
    <3>4. QED  BY <2>2, <3>2, <3>3, IsASeq DEF n
  <2>6. /\ names' \in Seq(E) /\ Len(names') = n + 1 /\ names'[n + 1] = symbol
        /\ \A i \in 1..n : names'[i] = names[i]
    <3> HIDE DEF E
    <3>1. symbol \in E  BY DEF E
    <3>2. QED  BY <2>1, <2>5, <3>1, AppendProperties
  <2>7. \A i \in 1..n : names[i] \in D  BY ElementOfSeq
  <2>8. ASSUME NEW s \in E PROVE ids'[s] < Len(names') /\ names'[ids'[s] + 1] = s
    <3>1. CASE s = symbol  BY <2>1, <2>2, <2>6, <3>1
    <3>2. CASE s # symbol
      <4>1. s \in D /\ ids'[s] = ids[s]  BY <2>1, <3>2
      <4>2. ids[s] \in Nat /\ ids[s] < n /\ names[ids[s] + 1] = s  BY <4>1
      <4>3. ids[s] + 1 \in 1..n  BY <2>2, <4>2
      <4>4. QED  BY <2>2, <2>6, <4>1, <4>2, <4>3
    <3>3. QED  BY <3>1, <3>2
  <2>9. ASSUME NEW i \in 1..(n + 1) PROVE ids'[names'[i]] = i - 1
    <3>1. CASE i = n + 1  BY <2>1, <2>2, <2>6, <3>1
    <3>2. CASE i # n + 1
      <4>1. i \in 1..n  BY <2>2, <3>2
      <4>2. names'[i] = names[i] /\ names[i] \in D /\ names[i] # symbol  BY <1>2, <2>6, <2>7, <4>1
      <4>3. QED  BY <2>1, <4>1, <4>2
    <3>3. QED  BY <3>1, <3>2
  <2>10. ids'[symbol] \in Nat  BY <2>1, <2>2
  <2> HIDE DEF E, D, n
  <2>11. QED  BY <2>3, <2>4, <2>6, <2>8, <2>9, <2>10
<1>3. QED  BY <1>1, <1>2

\* assign() and push(): a full ring forgets its oldest entry.
LEMMA IngestKeeps ==
    ASSUME TablesInv, RingInv, NEW symbol, Ingest(symbol)
    PROVE  TablesInv' /\ RingInv'
<1>1. TablesInv' /\ ids'[symbol] \in Nat  BY InternKeeps DEF Ingest
<1> DEFINE T == [ingress: Int, symbol: Nat]
           x == [ingress |-> next, symbol |-> ids'[symbol]]
           n == Len(ring)
           full == n = Capacity /\ ring # <<>>
           q == IF full THEN Tail(ring) ELSE ring
           k == Len(q)
<1>2. /\ next' = next + 1 /\ ring' = Append(q, x) /\ delivered' = delivered
  BY DEF Ingest, Pushed
<1>3. /\ next \in Int /\ ring \in Seq(T) /\ n \in Nat /\ delivered \in Seq(Int)
      /\ \A i \in 1..n : ring[i].ingress = next - 1 - (n - i)
      /\ \A i \in 1..Len(delivered) : delivered[i] < next - n
      /\ \A i, j \in 1..Len(delivered) : i < j => delivered[i] < delivered[j]
      /\ Capacity > 0 => n <= Capacity
  BY LenProperties DEF RingInv
<1>4. x \in T /\ x.ingress = next  BY <1>1, <1>3
<1>5. full => n >= 1 /\ Tail(ring) \in Seq(T) /\ Len(Tail(ring)) = n - 1
               /\ \A i \in 1..(n - 1) : Tail(ring)[i] = ring[i + 1]
  <2>1. SUFFICES ASSUME ring # <<>>
                 PROVE  n >= 1 /\ Tail(ring) \in Seq(T) /\ Len(Tail(ring)) = n - 1
                        /\ \A i \in 1..(n - 1) : Tail(ring)[i] = ring[i + 1]
    OBVIOUS
  <2> HIDE DEF T
  <2>2. n # 0  BY <1>3, <2>1, EmptySeq
  <2>3. QED  BY <1>3, <2>1, <2>2, HeadTailProperties
<1>6. /\ q \in Seq(T) /\ k = IF full THEN n - 1 ELSE n
      /\ k \in Nat /\ (full => q = Tail(ring)) /\ (~full => q = ring)
  BY <1>3, <1>5
<1>7. (Capacity > 0 => k + 1 <= Capacity) /\ k <= n
  <2>1. Capacity \in Nat  BY GatewayAssumption
  <2>2. n = 0 => ring = <<>>  BY <1>3, EmptySeq
  <2>3. CASE full  BY <1>3, <1>6, <2>1, <2>3
  <2>4. CASE ~full
    <3>1. Capacity > 0 => n # Capacity  BY <1>3, <2>1, <2>4
    <3>2. QED  BY <1>3, <1>6, <2>1, <2>4, <3>1
  <2>5. QED  BY <2>3, <2>4
<1> HIDE DEF x, q, k, n, full, T
<1>8. ASSUME NEW i \in 1..k PROVE q[i].ingress = next - (k + 1 - i)
  <2>1. i \in Int  BY <1>6
  <2>2. CASE full
    <3>1. k = n - 1 /\ q = Tail(ring)  BY <1>6, <2>2
    <3>2. i \in 1..(n - 1) /\ i + 1 \in 1..n  BY <1>3, <3>1
    <3>3. q[i] = ring[i + 1]  BY <1>5, <2>2, <3>1, <3>2
    <3>4. q[i].ingress = next - 1 - (n - (i + 1))  BY <1>3, <3>2, <3>3
    <3>5. next - 1 - (n - (i + 1)) = next - ((n - 1) + 1 - i)  BY <1>3, <2>1
    <3>6. QED  BY <3>1, <3>4, <3>5
  <2>3. CASE ~full
    <3>1. q = ring /\ k = n /\ i \in 1..n  BY <1>6, <2>3
    <3>2. q[i].ingress = next - 1 - (n - i)  BY <1>3, <3>1
    <3>3. QED  BY <1>3, <2>1, <3>1, <3>2
  <2>4. QED  BY <2>2, <2>3
<1>9. /\ ring' \in Seq(T) /\ Len(ring') = k + 1 /\ ring'[k + 1] = x
      /\ \A i \in 1..k : ring'[i] = q[i]
  BY <1>2, <1>4, <1>6, AppendProperties DEF k
<1>10. ASSUME NEW i \in 1..(k + 1) PROVE ring'[i].ingress = next' - 1 - ((k + 1) - i)
  <2>1. CASE i = k + 1  BY <1>2, <1>3, <1>4, <1>6, <1>9, <2>1
  <2>2. CASE i # k + 1
    <3>1. i \in 1..k  BY <1>6, <2>2
    <3>2. ring'[i] = q[i]  BY <1>9, <3>1
    <3>3. q[i].ingress = next - (k + 1 - i)  BY <1>8, <3>1
    <3>4. i \in Int  BY <1>6, <3>1
    <3>5. QED  BY <1>2, <1>3, <1>6, <3>2, <3>3, <3>4
  <2>3. QED  BY <2>1, <2>2
<1>11. ASSUME NEW i \in 1..Len(delivered) PROVE delivered[i] < next' - (k + 1)
  <2>1. delivered[i] \in Int  BY <1>3, ElementOfSeq
  <2>2. delivered[i] < next - n  BY <1>3
  <2>3. next \in Int /\ n \in Nat /\ k \in Nat /\ k <= n  BY <1>3, <1>6, <1>7
  <2>4. next - n <= (next + 1) - (k + 1)  BY <2>3
  <2>5. delivered[i] < (next + 1) - (k + 1)  BY <2>1, <2>2, <2>3, <2>4
  <2>6. QED  BY <1>2, <2>5
<1>12. next' \in Int  BY <1>2, <1>3
<1>13. RingInv'  BY <1>2, <1>3, <1>7, <1>9, <1>10, <1>11, <1>12 DEF RingInv, T
<1>14. QED  BY <1>1, <1>13

\* pop() takes the oldest entry.
LEMMA DeliverKeeps ==
    ASSUME TablesInv, RingInv, Deliver
    PROVE  TablesInv' /\ RingInv'
<1> DEFINE T == [ingress: Int, symbol: Nat]
           n == Len(ring)
           m == Len(delivered)
           x == Head(ring).ingress
<1>1. /\ ring # <<>> /\ delivered' = Append(delivered, x) /\ ring' = Tail(ring)
      /\ next' = next /\ names' = names /\ ids' = ids
  BY DEF Deliver
<1>2. TablesInv'  BY <1>1 DEF TablesInv
<1>3. /\ next \in Int /\ ring \in Seq(T) /\ n \in Nat /\ delivered \in Seq(Int) /\ m \in Nat
      /\ \A i \in 1..n : ring[i].ingress = next - 1 - (n - i)
      /\ \A i \in 1..m : delivered[i] < next - n
      /\ \A i, j \in 1..m : i < j => delivered[i] < delivered[j]
      /\ Capacity > 0 => n <= Capacity
  BY LenProperties DEF RingInv
<1>4. n >= 1 /\ Tail(ring) \in Seq(T) /\ Len(Tail(ring)) = n - 1 /\ Head(ring) = ring[1]
      /\ \A i \in 1..(n - 1) : Tail(ring)[i] = ring[i + 1]
  <2> HIDE DEF T
  <2>1. n # 0  BY <1>1, <1>3, EmptySeq
  <2>2. QED  BY <1>1, <1>3, <2>1, HeadTailProperties
<1>5. x = next - n /\ x \in Int
  <2>1. 1 \in 1..n  BY <1>3, <1>4
  <2>2. x = next - 1 - (n - 1)  BY <1>3, <1>4, <2>1
  <2>3. QED  BY <1>3, <2>2
<1> HIDE DEF x, n, m, T
<1>6. /\ delivered' \in Seq(Int) /\ Len(delivered') = m + 1 /\ delivered'[m + 1] = x
      /\ \A i \in 1..m : delivered'[i] = delivered[i]
  BY <1>1, <1>3, <1>5, AppendProperties DEF m
<1>7. \A i \in 1..m : delivered[i] \in Int  BY <1>3, ElementOfSeq DEF m
<1>8. ASSUME NEW i \in 1..(n - 1) PROVE ring'[i].ingress = next' - 1 - ((n - 1) - i)
  <2>1. i + 1 \in 1..n /\ i \in Int  BY <1>3
  <2>2. ring'[i] = ring[i + 1]  BY <1>1, <1>4
  <2>3. ring'[i].ingress = next - 1 - (n - (i + 1))  BY <1>3, <2>1, <2>2
  <2>4. next - 1 - (n - (i + 1)) = next - 1 - ((n - 1) - i)  BY <1>3, <2>1
  <2>5. QED  BY <1>1, <2>3, <2>4
<1>9. ASSUME NEW i \in 1..(m + 1) PROVE delivered'[i] < next' - (n - 1)
  <2>1. CASE i = m + 1  BY <1>1, <1>3, <1>5, <1>6, <2>1
  <2>2. CASE i # m + 1
    <3>1. i \in 1..m  BY <1>3, <2>2
    <3>2. QED  BY <1>1, <1>3, <1>6, <1>7, <3>1
  <2>3. QED  BY <2>1, <2>2
<1>10. ASSUME NEW i \in 1..(m + 1), NEW j \in 1..(m + 1), i < j PROVE delivered'[i] < delivered'[j]
  <2>1. i \in 1..m  BY <1>3, <1>10
  <2>2. CASE j = m + 1  BY <1>3, <1>5, <1>6, <1>7, <2>1, <2>2
  <2>3. CASE j # m + 1
    <3>1. j \in 1..m  BY <1>3, <2>3
    <3>2. QED  BY <1>3, <1>6, <1>10, <2>1, <3>1
  <2>4. QED  BY <2>2, <2>3
<1>11. Capacity > 0 => n - 1 <= Capacity  BY <1>3, GatewayAssumption
<1>12. next' \in Int /\ ring' \in Seq(T) /\ Len(ring') = n - 1  BY <1>1, <1>3, <1>4
<1>13. RingInv'  BY <1>6, <1>8, <1>9, <1>10, <1>11, <1>12 DEF RingInv, T
<1>14. QED  BY <1>2, <1>13

\* The two halves make up what is promised.
LEMMA IngressFollows == TablesInv /\ RingInv => IngressSound
<1> SUFFICES ASSUME TablesInv, RingInv PROVE IngressSound  OBVIOUS
<1>1. /\ next \in Int /\ ring \in Seq([ingress: Int, symbol: Nat]) /\ delivered \in Seq(Int)
      /\ names \in Seq(DOMAIN ids)
  BY DEF RingInv, TablesInv
<1>2. /\ Len(ring) \in Nat /\ DOMAIN ring = 1..Len(ring)
      /\ DOMAIN delivered = 1..Len(delivered) /\ DOMAIN names = 1..Len(names)
  BY <1>1, LenProperties
<1>3. ASSUME NEW i \in 1..Len(delivered), NEW j \in 1..Len(ring) PROVE delivered[i] < ring[j].ingress
  <2>1. delivered[i] \in Int /\ delivered[i] < next - Len(ring)  BY <1>1, ElementOfSeq DEF RingInv
  <2>2. ring[j].ingress = next - 1 - (Len(ring) - j)  BY DEF RingInv
  <2>3. QED  BY <1>1, <1>2, <2>1, <2>2
<1>4. QED  BY <1>2, <1>3 DEF IngressSound, RingInv, TablesInv

-----------------------------------------------------------------------------
(***************************************************************************)
(* The stream of bytes of a script.                                        *)
(***************************************************************************)
\* The ends of the messages, one after the other.
LEMMA EndsUnfold ==
    ASSUME NEW s \in Seq(Messages)
    PROVE  /\ Ends(s) \in [0..Len(s) -> Nat]
           /\ Ends(s)[0] = 0
           /\ \A i \in 1..Len(s) : Ends(s)[i] = Ends(s)[i - 1] + s[i].bytes
<1> DEFINE n == Len(s)
           G(m, g) == g[0] = 0 /\ \A i \in 1..m : g[i] = g[i - 1] + s[i].bytes
           S == {m \in Nat : \E g \in [0..m -> Nat] : G(m, g)}
<1>1. n \in Nat /\ \A i \in 1..n : s[i].bytes \in Nat
  <2>1. n \in Nat /\ \A i \in 1..n : s[i] \in Messages  BY ElementOfSeq, LenProperties
  <2>2. QED  BY <2>1, ServerAssumption
<1> HIDE DEF n
<1>2. 0 \in S
  <2>1. [i \in 0..0 |-> 0] \in [0..0 -> Nat]  OBVIOUS
  <2>2. G(0, [i \in 0..0 |-> 0])  OBVIOUS
  <2>3. QED  BY <2>1, <2>2
<1>3. ASSUME NEW m \in 0..(n - 1), m \in S PROVE m + 1 \in S
  <2>1. PICK g \in [0..m -> Nat] : G(m, g)  BY <1>3
  <2> DEFINE h == [i \in 0..(m + 1) |-> IF i = m + 1 THEN g[m] + s[m + 1].bytes ELSE g[i]]
  <2>2. g[m] + s[m + 1].bytes \in Nat
    <3>1. g[m] \in Nat /\ s[m + 1].bytes \in Nat  BY <1>1
    <3>2. QED  BY <3>1
  <2>3. h \in [0..(m + 1) -> Nat]  BY <1>1, <2>2
  <2>4. h[0] = 0  BY <2>1
  <2>5. ASSUME NEW i \in 1..(m + 1) PROVE h[i] = h[i - 1] + s[i].bytes
    <3>1. CASE i = m + 1
      <4>1. h[i] = g[m] + s[m + 1].bytes /\ h[i - 1] = g[m]  BY <3>1
      <4>2. QED  BY <3>1, <4>1
    <3>2. CASE i # m + 1
      <4>1. i \in 1..m  BY <3>2
      <4>2. g[i] = g[i - 1] + s[i].bytes  BY <2>1, <4>1
      <4>3. h[i] = g[i] /\ h[i - 1] = g[i - 1]  BY <3>2, <4>1
      <4>4. QED  BY <4>2, <4>3
    <3>3. QED  BY <3>1, <3>2
  <2>6. G(m + 1, h)  BY <2>4, <2>5
  <2> HIDE DEF h, G
  <2>7. \E f \in [0..(m + 1) -> Nat] : G(m + 1, f)  BY <2>3, <2>6
  <2>8. m + 1 \in Nat  BY <1>1
  <2>9. QED  BY <2>7, <2>8
<1>4. n \in S
  <2> HIDE DEF S
  <2>1. \A i \in 0..n : i \in S  BY <1>1, <1>2, <1>3, BoundedInduction
  <2>2. QED  BY <1>1, <2>1
<1>5. PICK g \in [0..n -> Nat] : G(n, g)  BY <1>4
<1> DEFINE Solves(f) == f = [i \in 0..n |-> IF i = 0 THEN 0 ELSE f[i - 1] + s[i].bytes]
<1>6. Solves(g)
  <2>1. ASSUME NEW i \in 0..n PROVE g[i] = IF i = 0 THEN 0 ELSE g[i - 1] + s[i].bytes
    <3>1. CASE i = 0  BY <1>5, <3>1
    <3>2. CASE i # 0
      <4>1. i \in 1..n  BY <3>2
      <4>2. QED  BY <1>5, <4>1
    <3>3. QED  BY <3>1, <3>2
  <2>2. QED  BY <2>1
<1> DEFINE k == Ends(s)
<1>7. k = CHOOSE f : Solves(f)  BY DEF Ends, n
<1> HIDE DEF k
<1>8. Solves(k)
  <2> HIDE DEF Solves
  <2>1. QED  BY <1>6, <1>7
<1>9. k[0] = 0 /\ \A i \in 1..n : k[i] = k[i - 1] + s[i].bytes
  <2>1. \A i \in 0..n : k[i] = IF i = 0 THEN 0 ELSE k[i - 1] + s[i].bytes  BY <1>8
  <2>2. k[0] = 0  BY <1>1, <2>1
  <2>3. ASSUME NEW i \in 1..n PROVE k[i] = k[i - 1] + s[i].bytes
    <3>1. i \in 0..n /\ i # 0  BY <1>1
    <3>2. QED  BY <2>1, <3>1
  <2>4. QED  BY <2>2, <2>3
<1>10. ASSUME NEW i \in 0..n PROVE k[i] \in Nat
  <2> DEFINE E == {j \in Nat : j <= n /\ k[j] \in Nat}
  <2>1. 0 \in E  BY <1>1, <1>9
  <2>2. ASSUME NEW j \in 0..(n - 1), j \in E PROVE j + 1 \in E
    <3>1. j + 1 \in 1..n /\ (j + 1) - 1 = j  BY <1>1
    <3>2. k[j + 1] = k[j] + s[j + 1].bytes  BY <1>9, <3>1
    <3>3. k[j] \in Nat /\ s[j + 1].bytes \in Nat  BY <1>1, <2>2, <3>1
    <3>4. k[j + 1] \in Nat  BY <3>2, <3>3
    <3>5. j + 1 \in Nat /\ j + 1 <= n  BY <1>1, <3>1
    <3>6. QED  BY <3>4, <3>5
  <2>3. \A j \in 0..n : j \in E
    <3> HIDE DEF E
    <3>1. QED  BY <1>1, <2>1, <2>2, BoundedInduction
  <2>4. QED  BY <2>3
<1>11. k \in [0..n -> Nat]  BY <1>8, <1>10
<1>12. QED  BY <1>9, <1>11 DEF k, n

\* No message is empty, so the ends increase.
LEMMA EndsIncrease ==
    ASSUME NEW s \in Seq(Messages), NEW i \in 0..Len(s), NEW j \in 0..Len(s), i < j
    PROVE  Ends(s)[i] < Ends(s)[j]
<1> DEFINE n == Len(s)
           e == Ends(s)
           E == {d \in Nat : i + 1 + d <= n => e[i] < e[i + 1 + d]}
<1>1. n \in Nat /\ e \in [0..n -> Nat] /\ \A m \in 1..n : e[m] = e[m - 1] + s[m].bytes
  BY EndsUnfold, LenProperties
<1>2. \A m \in 1..n : s[m].bytes \in Nat /\ s[m].bytes > 0
  <2>1. \A m \in 1..n : s[m] \in Messages  BY ElementOfSeq
  <2>2. QED  BY <2>1, ServerAssumption
<1>3. i \in Nat /\ j \in Nat /\ j <= n /\ i + 1 <= n  BY <1>1
<1> HIDE DEF e, n
<1>4. ASSUME NEW m \in 0..(n - 1) PROVE e[m] \in Nat /\ e[m + 1] \in Nat /\ e[m] < e[m + 1]
  <2>1. m + 1 \in 1..n /\ (m + 1) - 1 = m /\ m \in 0..n /\ m + 1 \in 0..n  BY <1>1
  <2>2. e[m + 1] = e[m] + s[m + 1].bytes  BY <1>1, <2>1
  <2>3. s[m + 1].bytes \in Nat /\ s[m + 1].bytes > 0  BY <1>2, <2>1
  <2>4. e[m] \in Nat /\ e[m + 1] \in Nat  BY <1>1, <2>1
  <2>5. QED  BY <2>2, <2>3, <2>4
<1>5. 0 \in E
  <2>1. i \in 0..(n - 1) /\ i + 1 + 0 = i + 1  BY <1>1, <1>3
  <2>2. QED  BY <1>4, <2>1
<1>6. ASSUME NEW d \in 0..(n - 1), d \in E PROVE d + 1 \in E
  <2>1. SUFFICES ASSUME i + 1 + (d + 1) <= n PROVE e[i] < e[i + 1 + (d + 1)]  BY <1>1
  <2>2. i + 1 + d \in 0..(n - 1) /\ (i + 1 + d) + 1 = i + 1 + (d + 1) /\ i + 1 + d <= n
        /\ i \in 0..(n - 1)
    BY <1>1, <1>3, <2>1
  <2>3. e[i] < e[i + 1 + d]  BY <1>6, <2>2
  <2>4. e[i + 1 + d] < e[i + 1 + (d + 1)] /\ e[i + 1 + d] \in Nat /\ e[i + 1 + (d + 1)] \in Nat
    BY <1>4, <2>2
  <2>5. e[i] \in Nat  BY <1>4, <2>2
  <2>6. QED  BY <2>3, <2>4, <2>5
<1>7. j - (i + 1) \in 0..n /\ i + 1 + (j - (i + 1)) = j  BY <1>1, <1>3
<1>8. j - (i + 1) \in E
  <2> HIDE DEF E
  <2>1. \A d \in 0..n : d \in E  BY <1>1, <1>5, <1>6, BoundedInduction
  <2>2. QED  BY <1>7, <2>1
<1>9. QED  BY <1>3, <1>7, <1>8 DEF e

\* A script in bytes: behind a message, the first byte of the next one.
LEMMA BytesFacts ==
    ASSUME NEW s \in Seq(Messages)
    PROVE  /\ Bytes(s) \in Seq(Nat \X Nat)
           /\ Len(Bytes(s)) = Ends(s)[Len(s)] /\ Len(Bytes(s)) \in Nat
           /\ \A m \in 0..Len(s) : Ends(s)[m] < Len(Bytes(s)) =>
                 m < Len(s) /\ Bytes(s)[Ends(s)[m] + 1] = <<m + 1, 1>>
<1> DEFINE n == Len(s)
           e == Ends(s)
           In(b, j) == e[j - 1] < b /\ b <= e[j]
           At(b) == CHOOSE j \in 1..n : In(b, j)
           B == [b \in 1..e[n] |-> <<At(b), b - e[At(b) - 1]>>]
<1>1. n \in Nat /\ e \in [0..n -> Nat] /\ e[0] = 0 /\ \A m \in 1..n : e[m] = e[m - 1] + s[m].bytes
  BY EndsUnfold, LenProperties
<1>2. \A m \in 1..n : s[m].bytes \in Nat /\ s[m].bytes > 0
  <2>1. \A m \in 1..n : s[m] \in Messages  BY ElementOfSeq
  <2>2. QED  BY <2>1, ServerAssumption
<1>3. \A i, j \in 0..n : i < j => e[i] < e[j]  BY EndsIncrease
<1>4. Bytes(s) = B  BY DEF Bytes
<1>5. e[n] \in Nat  BY <1>1
<1> HIDE DEF e, n
<1>6. ASSUME NEW b \in 1..e[n] PROVE \E j \in 1..n : In(b, j)
  <2> DEFINE S == {j \in Nat : j <= n /\ b <= e[j]}
  <2>1. n \in S  BY <1>1, <1>5
  <2>2. S \in SUBSET Nat /\ S # {}  BY <2>1
  <2> HIDE DEF S
  <2>3. PICK j \in S : \A i \in S : j <= i  BY <2>2, NatMinimum
  <2>4. j \in Nat /\ j <= n /\ b <= e[j]  BY <2>3 DEF S
  <2>5. j # 0  BY <1>1, <1>5, <2>4
  <2>6. j \in 1..n /\ j - 1 \in Nat /\ j - 1 <= n /\ j - 1 \in 0..n /\ ~(j <= j - 1)  BY <1>1, <2>4, <2>5
  <2>7. j - 1 \notin S  BY <2>3, <2>6
  <2>8. ~(b <= e[j - 1])  BY <2>6, <2>7 DEF S
  <2>9. e[j - 1] \in Nat /\ b \in Int  BY <1>1, <1>5, <2>6
  <2>10. e[j - 1] < b  BY <2>8, <2>9
  <2>11. QED  BY <2>4, <2>6, <2>10
<1>7. ASSUME NEW b \in 1..e[n], NEW j \in 1..n, In(b, j) PROVE At(b) = j
  <2> DEFINE i == At(b)
  <2>1. i \in 1..n /\ In(b, i)  BY <1>7
  <2> HIDE DEF i
  <2>2. i \in 0..n /\ j \in 0..n /\ i - 1 \in 0..n /\ j - 1 \in 0..n /\ b \in Int  BY <1>1, <1>5, <2>1
  <2>3. e[i] \in Nat /\ e[j] \in Nat /\ e[i - 1] \in Nat /\ e[j - 1] \in Nat  BY <1>1, <2>2
  <2>4. CASE i < j
    <3>1. i = j - 1 \/ i < j - 1  BY <2>2, <2>4
    <3>2. e[i] <= e[j - 1]  BY <1>3, <2>2, <2>3, <3>1
    <3>3. QED  BY <1>7, <2>1, <2>2, <2>3, <3>2
  <2>5. CASE j < i
    <3>1. j = i - 1 \/ j < i - 1  BY <2>2, <2>5
    <3>2. e[j] <= e[i - 1]  BY <1>3, <2>2, <2>3, <3>1
    <3>3. QED  BY <1>7, <2>1, <2>2, <2>3, <3>2
  <2>6. QED  BY <2>2, <2>4, <2>5 DEF i
<1>8. ASSUME NEW b \in 1..e[n] PROVE <<At(b), b - e[At(b) - 1]>> \in Nat \X Nat
  <2> DEFINE i == At(b)
  <2>1. i \in 1..n /\ In(b, i)  BY <1>6
  <2> HIDE DEF i
  <2>2. i \in Nat /\ i - 1 \in 0..n /\ b \in Int  BY <1>1, <1>5, <2>1
  <2>3. e[i - 1] \in Nat  BY <1>1, <2>2
  <2>4. b - e[i - 1] \in Nat  BY <2>1, <2>2, <2>3
  <2>5. <<i, b - e[i - 1]>> \in Nat \X Nat  BY <2>2, <2>4
  <2> HIDE DEF At
  <2>6. QED  BY <2>5 DEF i
<1>9. B \in Seq(Nat \X Nat) /\ Len(B) = e[n]
  <2> HIDE DEF At
  <2>1. QED  BY <1>5, <1>8, IsASeq, SMTT(30)
<1>10. ASSUME NEW m \in 0..n, e[m] < e[n] PROVE m < n /\ B[e[m] + 1] = <<m + 1, 1>>
  <2>1. m \in Int /\ m <= n  BY <1>1
  <2>2. m < n
    <3>1. m # n  BY <1>5, <1>10
    <3>2. QED  BY <1>1, <2>1, <3>1
  <2>3. m + 1 \in 1..n /\ (m + 1) - 1 = m /\ m + 1 \in 0..n  BY <1>1, <2>1, <2>2
  <2>4. e[m + 1] = e[m] + s[m + 1].bytes  BY <1>1, <2>3
  <2>5. e[m] \in Nat /\ s[m + 1].bytes \in Nat /\ s[m + 1].bytes > 0  BY <1>1, <1>2, <2>3
  <2>6. e[m] + 1 \in 1..e[n]  BY <1>5, <1>10, <2>5
  <2>7. In(e[m] + 1, m + 1)  BY <2>3, <2>4, <2>5
  <2>8. At(e[m] + 1) = m + 1  BY <1>7, <2>3, <2>6, <2>7
  <2>9. B[e[m] + 1] = <<m + 1, (e[m] + 1) - e[(m + 1) - 1]>>
    <3> HIDE DEF At
    <3>1. QED  BY <2>6, <2>8
  <2>10. (e[m] + 1) - e[(m + 1) - 1] = 1  BY <2>3, <2>5
  <2> HIDE DEF B
  <2>11. QED  BY <2>2, <2>9, <2>10
<1> HIDE DEF B
<1>11. QED  BY <1>4, <1>5, <1>9, <1>10 DEF e, n

-----------------------------------------------------------------------------
(***************************************************************************)
(* The invariant.                                                          *)
(***************************************************************************)
\* The commands among the first m messages of a client.
Numbers(c) == [i \in 1..Len(script[c]) |-> i]
Places(c) ==
    {i \in DOMAIN script[c] : /\ script[c][i].kind = "command"
                              /\ \A j \in 1..i : script[c][j].kind # "malformed"}
So(c, m) == KeptUpTo(Numbers(c), Places(c))[m]

\* How much of its buffer the I/O thread has parsed and not yet erased.
Parsed(c) == IF pc = "parse" /\ c = session THEN offset ELSE 0

\* Buffer and kernel hold the stream from some byte on, in order and without a
\* gap, and up to the last byte sent as long as the client stays.
StreamInv(c, start) ==
    /\ start \in Nat
    /\ Parsed(c) <= Len(buffer[c])
    /\ start + Len(buffer[c]) + Len(kernel[c]) <= sent[c]
    /\ line[c] \in {"none", "open"} => start + Len(buffer[c]) + Len(kernel[c]) = sent[c]
    /\ \A i \in 1..Len(buffer[c]) : buffer[c][i] = Bytes(script[c])[start + i]
    /\ \A i \in 1..Len(kernel[c]) : kernel[c][i] = Bytes(script[c])[start + Len(buffer[c]) + i]

\* The server is done with the first m messages, none of them malformed: it has
\* handled their commands, and reads on behind the last of them.
FramedInv(c, m) ==
    /\ handled[c] = So(c, m)
    /\ \A i \in 1..m : script[c][i].kind # "malformed"
    /\ fd[c] # "closed" => StreamInv(c, Ends(script[c])[m] - Parsed(c))

\* What holds of descriptors and of the lists they are in.
SessionInv ==
    /\ \A c \in Clients :
          /\ fd[c] = "closed" => buffer[c] = <<>> /\ kernel[c] = <<>>
          /\ fd[c] = "none" => buffer[c] = <<>>
          /\ line[c] = "none" => fd[c] = "none"
    /\ \A i \in 1..Len(backlog) : fd[backlog[i]] = "none" /\ line[backlog[i]] # "none"
    /\ \A i \in 1..Len(conns) : fd[conns[i]] # "none"
    /\ \A i \in 1..Len(ready) : fd[ready[i]] # "none"
    /\ running => stops < MaxStops
    /\ pc # "stopped" /\ ~running => stops > 0
    /\ pc = "ended" => ~running

ClientsInv == \A c \in Clients : \E m \in 0..Len(script[c]) : FramedInv(c, m)

ServerInv == TypeOK /\ SessionInv /\ ClientsInv /\ DroppedForReason

-----------------------------------------------------------------------------
(***************************************************************************)
(* Facts for the steps.                                                    *)
(***************************************************************************)
\* A script is a sequence of messages.
LEMMA ScriptFacts ==
    ASSUME TypeOK, NEW c \in Clients
    PROVE  /\ script[c] \in Seq(Messages)
           /\ Len(script[c]) \in Nat /\ DOMAIN script[c] = 1..Len(script[c])
           /\ \A i \in 1..Len(script[c]) : script[c][i] \in Messages
<1>1. script \in [Clients -> Seq(Messages)]  BY ServerAssumption DEF TypeOK
<1>2. script[c] \in Seq(Messages)  BY <1>1
<1>3. QED  BY <1>2, LenProperties, ElementOfSeq

\* Where a client is in its stream does not change by what others do; its own
\* end may close, and what was not yet read may be lost with that.
LEMMA SameSession ==
    ASSUME TypeOK, NEW c \in Clients, NEW m \in 0..Len(script[c]), FramedInv(c, m),
           script' = script, handled'[c] = handled[c], sent'[c] = sent[c],
           line'[c] \in {"none", "open"} => line[c] \in {"none", "open"},
           \/ fd'[c] = "closed"
           \/ /\ fd[c] # "closed"
              /\ buffer'[c] = buffer[c] /\ Parsed(c)' = Parsed(c)
              /\ \/ kernel'[c] = kernel[c]
                 \/ kernel'[c] = <<>> /\ line'[c] \notin {"none", "open"}
    PROVE  FramedInv(c, m)'
<1>1. So(c, m)' = So(c, m)  BY DEF So, Numbers, Places
<1>2. handled'[c] = So(c, m)' /\ \A i \in 1..m : script'[c][i].kind # "malformed"
  BY <1>1 DEF FramedInv
<1>3. CASE fd'[c] = "closed"  BY <1>2, <1>3 DEF FramedInv
<1>4. CASE fd'[c] # "closed"
  <2> DEFINE start == Ends(script[c])[m] - Parsed(c)
  <2>1. /\ fd[c] # "closed" /\ buffer'[c] = buffer[c] /\ Parsed(c)' = Parsed(c)
        /\ \/ kernel'[c] = kernel[c]
           \/ kernel'[c] = <<>> /\ line'[c] \notin {"none", "open"}
    BY <1>4
  <2>2. StreamInv(c, start)  BY <2>1 DEF FramedInv
  <2>3. start' = start  BY <2>1 DEF Ends
  <2>4. Len(buffer[c]) \in Nat /\ Len(kernel[c]) \in Nat /\ sent[c] \in Nat
    <3>1. buffer[c] \in Seq(Nat \X Nat) /\ kernel[c] \in Seq(Nat \X Nat)  BY DEF TypeOK
    <3>2. QED  BY <3>1, LenProperties DEF TypeOK
  <2>5. Bytes(script[c])' = Bytes(script[c])  BY DEF Bytes, Ends
  <2> HIDE DEF start
  <2>6. StreamInv(c, start)'
    <3>1. CASE kernel'[c] = kernel[c]
      BY <2>1, <2>2, <2>3, <2>5, <3>1 DEF StreamInv
    <3>2. CASE kernel'[c] = <<>> /\ line'[c] \notin {"none", "open"}
      <4>1. Len(kernel'[c]) = 0  BY <3>2
      <4>2. start \in Nat /\ start + Len(buffer[c]) + Len(kernel[c]) <= sent[c]  BY <2>2 DEF StreamInv
      <4>3. start + Len(buffer[c]) + 0 <= sent[c]  BY <2>4, <4>2
      <4>4. QED  BY <2>1, <2>2, <2>3, <2>5, <3>2, <4>1, <4>3 DEF StreamInv
    <3>3. QED  BY <2>1, <3>1, <3>2
  <2>7. QED  BY <1>2, <2>6 DEF FramedInv, start
<1>5. QED  BY <1>3, <1>4

\* A session that was over stays so for its reason.
LEMMA SameReasons ==
    ASSUME TypeOK, SessionInv, DroppedForReason, script' = script, stops' \in Nat, stops' >= stops,
           \A c \in Clients : line'[c] = "open" => line[c] \in {"none", "open"},
           \A c \in Clients : fd'[c] = "closed" =>
               \/ fd[c] = "closed"
               \/ line'[c] # "open" \/ stops' > 0 \/ ~WellFormed(c)
    PROVE  DroppedForReason'
<1>1. SUFFICES ASSUME NEW c \in Clients, fd'[c] = "closed"
               PROVE  line'[c] # "open" \/ stops' > 0 \/ ~WellFormed(c)'
  BY DEF DroppedForReason
<1>2. WellFormed(c)' = WellFormed(c)  BY DEF WellFormed
<1>3. stops \in Nat  BY ServerAssumption DEF TypeOK
<1>4. CASE fd[c] = "closed"
  <2>1. line[c] # "none"  BY <1>4 DEF SessionInv
  <2>2. line[c] # "open" \/ stops > 0 \/ ~WellFormed(c)  BY <1>4 DEF DroppedForReason
  <2>3. QED  BY <1>2, <1>3, <2>1, <2>2
<1>5. CASE fd[c] # "closed"  BY <1>1, <1>2, <1>5
<1>6. QED  BY <1>4, <1>5

\* A step that leaves the streams alone.
LEMMA SameStreams ==
    ASSUME ServerInv, UNCHANGED <<script, sent, line, kernel, buffer, offset, handled>>,
           \/ pc' = pc /\ ready' = ready
           \/ pc # "parse" /\ pc' # "parse",
           \A c \in Clients : fd'[c] = "closed" <=> fd[c] = "closed",
           stops' \in Nat, stops' >= stops
    PROVE  ClientsInv' /\ DroppedForReason'
<1>1. TypeOK /\ SessionInv /\ ClientsInv /\ DroppedForReason  BY DEF ServerInv
<1>2. \A c \in Clients : Parsed(c)' = Parsed(c)  BY DEF Parsed, session
<1>3. ASSUME NEW c \in Clients PROVE \E m \in 0..Len(script'[c]) : FramedInv(c, m)'
  <2>1. PICK m \in 0..Len(script[c]) : FramedInv(c, m)  BY <1>1 DEF ClientsInv
  <2>2. FramedInv(c, m)'  BY <1>1, <1>2, <2>1, SameSession
  <2>3. QED  BY <2>2
<1>4. ClientsInv'  BY <1>3 DEF ClientsInv
<1>5. DroppedForReason'  BY <1>1, SameReasons
<1>6. QED  BY <1>4, <1>5

\* What is kept of a list of clients is clients of it.
LEMMA KeptClients ==
    ASSUME NEW s \in Seq(Clients), NEW I
    PROVE  /\ Kept(s, I) \in Seq(Clients)
           /\ \A i \in 1..Len(Kept(s, I)) : \E j \in 1..Len(s) : j \in I /\ Kept(s, I)[i] = s[j]
<1>1. Kept(s, I) \in Seq(Clients)  BY KeptType
<1>2. PICK p \in [1..Len(Kept(s, I)) -> 1..Len(s)] :
          \A j \in 1..Len(Kept(s, I)) : p[j] \in I /\ Kept(s, I)[j] = s[p[j]]
  BY KeptPlaces
<1>3. QED  BY <1>1, <1>2

\* The types of one session.
LEMMA SessionTypes ==
    ASSUME TypeOK, NEW c \in Clients
    PROVE  /\ buffer[c] \in Seq(Nat \X Nat) /\ kernel[c] \in Seq(Nat \X Nat)
           /\ Len(buffer[c]) \in Nat /\ Len(kernel[c]) \in Nat
           /\ Bytes(script[c]) \in Seq(Nat \X Nat) /\ Len(Bytes(script[c])) \in Nat
           /\ sent[c] \in Nat /\ sent[c] <= Len(Bytes(script[c])) /\ offset \in Nat
           /\ Parsed(c) \in Nat
<1>1. buffer[c] \in Seq(Nat \X Nat) /\ kernel[c] \in Seq(Nat \X Nat)  BY DEF TypeOK
<1>2. Len(buffer[c]) \in Nat /\ Len(kernel[c]) \in Nat  BY <1>1, LenProperties
<1>3. Bytes(script[c]) \in Seq(Nat \X Nat) /\ Len(Bytes(script[c])) \in Nat
  BY ScriptFacts, BytesFacts
<1>4. sent[c] \in Nat /\ sent[c] <= Len(Bytes(script[c])) /\ offset \in Nat  BY DEF TypeOK
<1>5. Parsed(c) \in Nat  BY <1>4 DEF Parsed
<1>6. QED  BY <1>1, <1>2, <1>3, <1>4, <1>5

\* A piece of a sequence.
LEMMA Piece ==
    ASSUME NEW T, NEW s \in Seq(T), NEW a \in Nat, NEW b \in Nat, a <= b, b <= Len(s)
    PROVE  /\ SubSeq(s, a + 1, b) \in Seq(T)
           /\ Len(SubSeq(s, a + 1, b)) = b - a
           /\ \A i \in 1..(b - a) : SubSeq(s, a + 1, b)[i] = s[a + i]
<1>1. Len(s) \in Nat /\ \A i \in 1..Len(s) : s[i] \in T  BY LenProperties, ElementOfSeq
<1>2. a + 1 \in Int /\ b \in Int /\ \A i \in (a + 1)..b : s[i] \in T  BY <1>1
<1> DEFINE q == SubSeq(s, a + 1, b)
<1>3. /\ q \in Seq(T)
      /\ Len(q) = IF a + 1 <= b THEN b - (a + 1) + 1 ELSE 0
      /\ \A i \in 1..(b - (a + 1) + 1) : q[i] = s[(a + 1) + i - 1]
  BY <1>2, SubSeqProperties
<1> HIDE DEF q
<1>4. Len(q) = b - a  BY <1>3
<1>5. ASSUME NEW i \in 1..(b - a) PROVE q[i] = s[a + i]
  <2>1. i \in 1..(b - (a + 1) + 1) /\ (a + 1) + i - 1 = a + i  OBVIOUS
  <2>2. QED  BY <1>3, <2>1
<1>6. QED  BY <1>3, <1>4, <1>5 DEF q

\* Two pieces of a stream, one behind the other, are a piece of it.
LEMMA Joined ==
    ASSUME NEW T, NEW s \in Seq(T), NEW t \in Seq(T), NEW B, NEW at \in Nat,
           \A i \in 1..Len(s) : s[i] = B[at + i],
           \A i \in 1..Len(t) : t[i] = B[at + Len(s) + i]
    PROVE  /\ s \o t \in Seq(T) /\ Len(s \o t) = Len(s) + Len(t)
           /\ \A i \in 1..Len(s \o t) : (s \o t)[i] = B[at + i]
<1>1. Len(s) \in Nat /\ Len(t) \in Nat  BY LenProperties
<1>2. /\ s \o t \in Seq(T) /\ Len(s \o t) = Len(s) + Len(t)
      /\ \A i \in 1..(Len(s) + Len(t)) : (s \o t)[i] = IF i <= Len(s) THEN s[i] ELSE t[i - Len(s)]
  BY ConcatProperties
<1>3. ASSUME NEW i \in 1..(Len(s) + Len(t)) PROVE (s \o t)[i] = B[at + i]
  <2>1. CASE i <= Len(s)
    <3>1. (s \o t)[i] = s[i] /\ i \in 1..Len(s)  BY <1>1, <1>2, <2>1
    <3>2. QED  BY <3>1
  <2>2. CASE ~(i <= Len(s))
    <3>1. (s \o t)[i] = t[i - Len(s)] /\ i - Len(s) \in 1..Len(t)  BY <1>1, <1>2, <2>2
    <3>2. at + Len(s) + (i - Len(s)) = at + i  BY <1>1
    <3>3. QED  BY <3>1, <3>2
  <2>3. QED  BY <2>1, <2>2
<1>4. QED  BY <1>2, <1>3

\* The session that is drained is a client's.
LEMMA SessionIsClient ==
    ASSUME TypeOK, SessionInv, ready # <<>>
    PROVE  /\ session \in Clients /\ fd[session] # "none"
           /\ Tail(ready) \in Seq(Clients)
           /\ \A i \in 1..Len(Tail(ready)) : Tail(ready)[i] \in Clients /\ fd[Tail(ready)[i]] # "none"
<1>1. ready \in Seq(Clients)  BY DEF TypeOK
<1>2. Len(ready) \in Nat /\ Len(ready) # 0  BY <1>1, EmptySeq
<1>3. /\ Head(ready) \in Clients /\ Tail(ready) \in Seq(Clients) /\ Len(Tail(ready)) = Len(ready) - 1
      /\ \A i \in 1..Len(Tail(ready)) : Tail(ready)[i] = ready[i + 1]
  BY <1>1, HeadTailProperties
<1>4. Head(ready) = ready[1] /\ 1 \in 1..Len(ready)  BY <1>1, <1>2
<1>5. \A i \in 1..Len(ready) : ready[i] \in Clients /\ fd[ready[i]] # "none"
  BY <1>1, ElementOfSeq DEF SessionInv
<1>6. ASSUME NEW i \in 1..Len(Tail(ready)) PROVE Tail(ready)[i] \in Clients /\ fd[Tail(ready)[i]] # "none"
  <2>1. i + 1 \in 1..Len(ready)  BY <1>2, <1>3
  <2>2. QED  BY <1>3, <1>5, <2>1
<1>7. QED  BY <1>3, <1>4, <1>5, <1>6 DEF session

\* Where a frame is parsed, the next message of the script begins.
LEMMA AtFrame ==
    ASSUME TypeOK, SessionInv, pc = "parse", NEW m \in 0..Len(script[session]),
           FramedInv(session, m), ~(Rest < HeaderBytes)
    PROVE  /\ fd[session] # "closed"
           /\ m + 1 \in 1..Len(script[session])
           /\ First[1] = m + 1 /\ First[2] = 1
           /\ Message = script[session][m + 1] /\ Message \in Messages
<1> DEFINE c == session
           b == Len(buffer[c])
           B == Bytes(script[c])
           E == Ends(script[c])[m]
           at == E - Parsed(c)
<1>1. c \in Clients  BY SessionIsClient DEF TypeOK
<1>2. /\ b \in Nat /\ Len(kernel[c]) \in Nat /\ offset \in Nat /\ sent[c] \in Nat /\ Len(B) \in Nat
      /\ sent[c] <= Len(B)
  BY <1>1, SessionTypes
<1>3. HeaderBytes \in Nat /\ HeaderBytes >= 1  BY ServerAssumption
<1>4. b >= offset + 1  BY <1>2, <1>3 DEF Rest
<1>5. fd[c] # "closed"
  <2>1. SUFFICES ASSUME fd[c] = "closed" PROVE FALSE  OBVIOUS
  <2>2. buffer[c] = <<>>  BY <1>1, <2>1 DEF SessionInv
  <2>3. b = 0  BY <2>2
  <2> HIDE DEF b
  <2>4. QED  BY <1>2, <1>4, <2>3
<1>6. StreamInv(c, at)  BY <1>5 DEF FramedInv
<1>7. Parsed(c) = offset  BY DEF Parsed
<1>8. script[c] \in Seq(Messages) /\ Len(script[c]) \in Nat
      /\ \A i \in 1..Len(script[c]) : script[c][i] \in Messages
  BY <1>1, ScriptFacts
<1>9. E \in Nat
  <2>1. Ends(script[c]) \in [0..Len(script[c]) -> Nat]  BY <1>8, EndsUnfold
  <2>2. QED  BY <2>1
<1> HIDE DEF E, at, b, B
<1>10. at = E - offset  BY <1>7 DEF at
<1>11. at \in Nat /\ at + b + Len(kernel[c]) <= sent[c] /\ \A i \in 1..b : buffer[c][i] = B[at + i]
  BY <1>6 DEF StreamInv, b, B
<1>12. offset + 1 \in 1..b /\ at + (offset + 1) = E + 1 /\ E < Len(B)
  <2> DEFINE k == Len(kernel[c])
             s == sent[c]
             n == Len(B)
  <2>1. /\ k \in Nat /\ s \in Nat /\ n \in Nat /\ b \in Nat /\ at \in Nat /\ offset \in Nat
        /\ at + b + k <= s /\ s <= n
    BY <1>2, <1>11
  <2> HIDE DEF k, s, n
  <2>2. offset + 1 \in 1..b /\ at + (offset + 1) = E + 1  BY <1>4, <1>9, <1>10, <2>1
  <2>3. E < n  BY <1>4, <1>9, <1>10, <2>1
  <2>4. QED  BY <2>2, <2>3 DEF n
<1>13. buffer[c][offset + 1] = B[E + 1]  BY <1>11, <1>12
<1>14. m < Len(script[c]) /\ B[E + 1] = <<m + 1, 1>>  BY <1>8, <1>12, BytesFacts DEF E, B
<1>15. First = <<m + 1, 1>>  BY <1>13, <1>14 DEF First
<1>16. m + 1 \in 1..Len(script[c])  BY <1>8, <1>14
<1>17. First[1] = m + 1 /\ First[2] = 1  BY <1>15
<1>18. Message = script[c][m + 1]  BY <1>17 DEF Message
<1>19. QED  BY <1>5, <1>8, <1>16, <1>17, <1>18

-----------------------------------------------------------------------------
(***************************************************************************)
(* Every step keeps the invariant.                                         *)
(***************************************************************************)
\* No client has said anything yet.
LEMMA ServerInit == Init => ServerInv
<1> SUFFICES ASSUME Init PROVE ServerInv  OBVIOUS
<1> USE DEF Init
<1>1. <<>> \in Seq(Nat \X Nat) /\ <<>> \in Seq(Clients) /\ <<>> \in Seq(Nat) /\ Len(<<>>) = 0  OBVIOUS
<1>2. script \in [Clients -> Seq(Messages)]  BY ServerAssumption
<1>3. \A c \in Clients : script[c] \in Seq(Messages)  BY <1>2
<1>4. \A c \in Clients : Len(Bytes(script[c])) \in Nat  BY <1>3, BytesFacts
<1>5. MaxStops \in Nat  BY ServerAssumption
<1>6. TypeOK
  <2>1. sent \in [Clients -> Nat] /\ \A c \in Clients : sent[c] <= Len(Bytes(script[c]))
    <3>1. \A c \in Clients : sent[c] = 0  OBVIOUS
    <3>2. QED  BY <1>4, <3>1
  <2>2. stops \in 0..MaxStops  BY <1>5
  <2>3. QED  BY <1>1, <2>1, <2>2 DEF TypeOK
<1>7. SessionInv  BY <1>1 DEF SessionInv
<1>8. ASSUME NEW c \in Clients PROVE FramedInv(c, 0) /\ 0 \in 0..Len(script[c])
  <2>1. script[c] \in Seq(Messages) /\ Len(script[c]) \in Nat  BY <1>3, LenProperties
  <2>2. Ends(script[c])[0] = 0  BY <2>1, EndsUnfold
  <2>3. Numbers(c) \in Seq(Nat)  BY <2>1, IsASeq DEF Numbers
  <2>4. So(c, 0) = <<>>  BY <2>3, KeptUnfolds DEF So
  <2>5. Parsed(c) = 0  BY DEF Parsed
  <2>6. buffer[c] = <<>> /\ kernel[c] = <<>> /\ sent[c] = 0 /\ handled[c] = <<>>  OBVIOUS
  <2>7. StreamInv(c, 0)  BY <1>1, <2>5, <2>6 DEF StreamInv
  <2>8. Ends(script[c])[0] - Parsed(c) = 0  BY <2>2, <2>5
  <2>9. FramedInv(c, 0)  BY <2>4, <2>6, <2>7, <2>8 DEF FramedInv
  <2>10. QED  BY <2>1, <2>9
<1>9. ClientsInv  BY <1>8 DEF ClientsInv
<1>10. DroppedForReason  BY DEF DroppedForReason
<1>11. QED  BY <1>6, <1>7, <1>9, <1>10 DEF ServerInv

\* start(), stop() and the end of the loop.
LEMMA KeptByControl ==
    ASSUME ServerInv, Start \/ Stop \/ RunEnds
    PROVE  ServerInv'
<1>1. TypeOK /\ SessionInv  BY DEF ServerInv
<1>2. /\ UNCHANGED <<script, sent, line, kernel, backlog>>
      /\ UNCHANGED <<conns, fd, buffer, ready, offset, handled>>
  BY DEF Start, Stop, RunEnds, clientVars, sessionVars, controlVars
<1>3. stops \in 0..MaxStops /\ MaxStops \in Nat  BY <1>1, ServerAssumption DEF TypeOK
<1>4. /\ (pc' = pc /\ ready' = ready) \/ (pc # "parse" /\ pc' # "parse")
      /\ pc' \in {"stopped", "poll", "accept", "drain", "parse", "ended"}
      /\ running' \in BOOLEAN
      /\ stops' \in 0..MaxStops /\ stops' \in Nat /\ stops' >= stops
      /\ running' => stops' < MaxStops
      /\ pc' # "stopped" /\ ~running' => stops' > 0
      /\ pc' = "ended" => ~running'
  <2>1. CASE Start
    <3>1. pc = "stopped" /\ pc' = "poll" /\ running' = TRUE /\ stops' = stops /\ stops < MaxStops
      BY <2>1 DEF Start
    <3>2. running'  BY <3>1
    <3>3. QED  BY <1>3, <3>1, <3>2
  <2>2. CASE Stop
    <3>1. running /\ running' = FALSE /\ stops' = stops + 1 /\ pc' = pc /\ ready' = ready
      BY <1>2, <2>2 DEF Stop
    <3>2. stops < MaxStops  BY <1>1, <3>1 DEF SessionInv
    <3>3. pc \in {"stopped", "poll", "accept", "drain", "parse", "ended"}  BY <1>1 DEF TypeOK
    <3>4. ~running' /\ stops' \in 0..MaxStops /\ stops' > 0 /\ stops' >= stops /\ stops' \in Nat
      BY <1>3, <3>1, <3>2
    <3>5. QED  BY <3>1, <3>3, <3>4
  <2>3. CASE RunEnds
    <3>1. pc = "poll" /\ ~running /\ pc' = "ended" /\ running' = running /\ stops' = stops
      BY <2>3 DEF RunEnds, controlVars
    <3>2. stops > 0  BY <1>1, <3>1 DEF SessionInv
    <3>3. QED  BY <1>1, <1>3, <3>1, <3>2 DEF TypeOK
  <2>4. QED  BY <2>1, <2>2, <2>3
<1>5. TypeOK'
  <2>1. IF pc' = "parse" THEN ready' # <<>> ELSE offset' = 0  BY <1>1, <1>2, <1>4 DEF TypeOK
  <2>2. \A c \in Clients : Bytes(script'[c]) = Bytes(script[c])  BY <1>2
  <2>3. QED  BY <1>1, <1>2, <1>4, <2>1, <2>2 DEF TypeOK
<1>6. SessionInv'  BY <1>1, <1>2, <1>4 DEF SessionInv
<1>7. ClientsInv' /\ DroppedForReason'  BY <1>2, <1>4, SameStreams
<1>8. QED  BY <1>5, <1>6, <1>7 DEF ServerInv

\* A round of the poll loop: which sessions are ready, new ones, closed ones.
LEMMA KeptByRound ==
    ASSUME ServerInv, Poll \/ Accept \/ EraseClosed
    PROVE  ServerInv'
<1>1. TypeOK /\ SessionInv  BY DEF ServerInv
<1>2. /\ UNCHANGED <<script, sent, line, kernel, buffer, offset, handled, running, stops>>
      /\ pc \in {"poll", "accept", "drain"} /\ pc' \in {"poll", "accept", "drain"}
  BY DEF Poll, Accept, EraseClosed, clientVars, controlVars
<1>3. /\ backlog \in Seq(Clients) /\ conns \in Seq(Clients) /\ ready \in Seq(Clients)
      /\ fd \in [Clients -> {"none", "open", "closed"}]
  BY <1>1 DEF TypeOK
<1>4. \A i \in 1..Len(backlog) : backlog[i] \in Clients /\ fd[backlog[i]] = "none"
                                 /\ line[backlog[i]] # "none"
  BY <1>1, <1>3, ElementOfSeq DEF SessionInv
<1>5. \A i \in 1..Len(conns) : conns[i] \in Clients /\ fd[conns[i]] # "none"
  BY <1>1, <1>3, ElementOfSeq DEF SessionInv
<1>6. \A i \in 1..Len(ready) : ready[i] \in Clients /\ fd[ready[i]] # "none"
  BY <1>1, <1>3, ElementOfSeq DEF SessionInv
<1>7. /\ fd' \in [Clients -> {"none", "open", "closed"}]
      /\ \A c \in Clients : /\ fd'[c] = "closed" <=> fd[c] = "closed"
                            /\ fd'[c] = "none" => fd[c] = "none"
                            /\ line[c] = "none" => fd'[c] = "none"
      /\ conns' \in Seq(Clients) /\ backlog' \in Seq(Clients) /\ ready' \in Seq(Clients)
      /\ \A i \in 1..Len(backlog') : fd'[backlog'[i]] = "none" /\ line[backlog'[i]] # "none"
      /\ \A i \in 1..Len(conns') : fd'[conns'[i]] # "none"
      /\ \A i \in 1..Len(ready') : fd'[ready'[i]] # "none"
  <2>1. CASE Poll
    <3> DEFINE I == {i \in DOMAIN conns : Readable(conns[i])}
    <3>1. ready' = Kept(conns, I) /\ UNCHANGED <<backlog, conns, fd>>  BY <2>1 DEF Poll, sessionVars
    <3> HIDE DEF I
    <3>2. ready' \in Seq(Clients) /\ \A i \in 1..Len(ready') : \E j \in 1..Len(conns) : ready'[i] = conns[j]
      BY <1>3, <3>1, KeptClients
    <3>3. \A i \in 1..Len(ready') : fd[ready'[i]] # "none"  BY <1>5, <3>2
    <3>4. QED  BY <1>1, <1>3, <1>4, <1>5, <3>1, <3>2, <3>3 DEF SessionInv
  <2>2. CASE EraseClosed
    <3> DEFINE I == {i \in DOMAIN conns : fd[conns[i]] = "open"}
    <3>1. conns' = Kept(conns, I) /\ UNCHANGED <<backlog, fd, ready>>  BY <2>2 DEF EraseClosed
    <3> HIDE DEF I
    <3>2. conns' \in Seq(Clients) /\ \A i \in 1..Len(conns') : \E j \in 1..Len(conns) : conns'[i] = conns[j]
      <4> DEFINE k == Kept(conns, I)
      <4>1. k \in Seq(Clients) /\ \A i \in 1..Len(k) : \E j \in 1..Len(conns) : k[i] = conns[j]
        BY <1>3, KeptClients
      <4> HIDE DEF k
      <4>2. conns' = k  BY <3>1 DEF k
      <4>3. QED  BY <4>1, <4>2
    <3>3. \A i \in 1..Len(conns') : fd[conns'[i]] # "none"  BY <1>5, <3>2
    <3>4. QED  BY <1>1, <1>3, <1>4, <1>6, <3>1, <3>2, <3>3 DEF SessionInv
  <2>3. CASE Accept
    <3>1. /\ conns' = conns \o backlog /\ backlog' = <<>> /\ ready' = ready
          /\ fd' = [c \in Clients |-> IF c \in ToSet(backlog) THEN "open" ELSE fd[c]]
      BY <2>3 DEF Accept
    <3>2. DOMAIN backlog = 1..Len(backlog) /\ Len(backlog) \in Nat /\ Len(conns) \in Nat
      BY <1>3, LenProperties
    <3>3. \A c \in Clients : c \in ToSet(backlog) <=> \E i \in 1..Len(backlog) : backlog[i] = c
      BY <3>2 DEF ToSet
    <3>4. fd' \in [Clients -> {"none", "open", "closed"}]  BY <1>3, <3>1
    <3>5. ASSUME NEW c \in Clients
          PROVE  /\ fd'[c] = "closed" <=> fd[c] = "closed"
                 /\ fd'[c] = "none" => fd[c] = "none"
                 /\ line[c] = "none" => fd'[c] = "none"
                 /\ c \in ToSet(backlog) => fd'[c] = "open"
                 /\ fd[c] # "none" => fd'[c] = fd[c]
      <4>1. CASE c \in ToSet(backlog)
        <5>1. fd[c] = "none" /\ line[c] # "none"  BY <1>4, <3>3, <4>1
        <5>2. fd'[c] = "open"  BY <3>1, <4>1
        <5>3. QED  BY <4>1, <5>1, <5>2
      <4>2. CASE c \notin ToSet(backlog)
        <5>1. fd'[c] = fd[c]  BY <3>1, <4>2
        <5>2. QED  BY <1>1, <4>2, <5>1 DEF SessionInv
      <4>3. QED  BY <4>1, <4>2
    <3>6. /\ conns' \in Seq(Clients) /\ Len(conns') = Len(conns) + Len(backlog)
          /\ \A i \in 1..Len(conns') : conns'[i] = IF i <= Len(conns) THEN conns[i] ELSE backlog[i - Len(conns)]
      BY <1>3, <3>1, ConcatProperties
    <3>7. ASSUME NEW i \in 1..Len(conns') PROVE fd'[conns'[i]] # "none"
      <4>1. CASE i <= Len(conns)
        <5>1. i \in 1..Len(conns) /\ conns'[i] = conns[i]  BY <3>2, <3>6, <4>1
        <5>2. QED  BY <1>5, <3>5, <5>1
      <4>2. CASE ~(i <= Len(conns))
        <5>1. i - Len(conns) \in 1..Len(backlog) /\ conns'[i] = backlog[i - Len(conns)]
          BY <3>2, <3>6, <4>2
        <5>2. backlog[i - Len(conns)] \in Clients /\ backlog[i - Len(conns)] \in ToSet(backlog)
          BY <1>4, <3>3, <5>1
        <5>3. QED  BY <3>5, <5>1, <5>2
      <4>3. QED  BY <4>1, <4>2
    <3>8. \A i \in 1..Len(ready) : fd'[ready[i]] # "none"  BY <1>6, <3>5
    <3>9. backlog' \in Seq(Clients) /\ Len(backlog') = 0  BY <3>1
    <3>10. QED  BY <1>3, <3>1, <3>4, <3>5, <3>6, <3>7, <3>8, <3>9
  <2>4. QED  BY <2>1, <2>2, <2>3
<1>8. TypeOK'  BY <1>1, <1>2, <1>7 DEF TypeOK
<1>9. SessionInv'
  <2>1. ASSUME NEW c \in Clients
        PROVE  /\ fd'[c] = "closed" => buffer'[c] = <<>> /\ kernel'[c] = <<>>
               /\ fd'[c] = "none" => buffer'[c] = <<>>
               /\ line'[c] = "none" => fd'[c] = "none"
    BY <1>1, <1>2, <1>7 DEF SessionInv
  <2>2. /\ running' => stops' < MaxStops
        /\ pc' # "stopped" /\ ~running' => stops' > 0
        /\ pc' = "ended" => ~running'
    BY <1>1, <1>2 DEF SessionInv
  <2>3. QED  BY <1>2, <1>7, <2>1, <2>2 DEF SessionInv
<1>10. ClientsInv' /\ DroppedForReason'
  <2>1. stops' \in Nat /\ stops' >= stops  BY <1>1, <1>2, ServerAssumption DEF TypeOK
  <2>2. QED  BY <1>2, <1>7, <2>1, SameStreams
<1>11. QED  BY <1>8, <1>9, <1>10 DEF ServerInv

\* A client connects, closes or is reset.
LEMMA KeptByClient ==
    ASSUME ServerInv, NEW d \in Clients, Connect(d) \/ CloseClient(d) \/ ResetClient(d)
    PROVE  ServerInv'
<1>1. TypeOK /\ SessionInv /\ ClientsInv /\ DroppedForReason  BY DEF ServerInv
<1>2. /\ UNCHANGED <<script, sent, conns, fd, buffer, running>>
      /\ UNCHANGED <<stops, pc, ready, offset, handled>>
  BY DEF Connect, CloseClient, ResetClient, sessionVars, controlVars
<1> DEFINE L == {"none", "open", "closed", "reset", "over"}
<1>3. line \in [Clients -> L] /\ kernel \in [Clients -> Seq(Nat \X Nat)] /\ backlog \in Seq(Clients)
  BY <1>1 DEF TypeOK
<1>4. /\ line' \in [Clients -> L]
      /\ \A c \in Clients : /\ line'[c] = "none" => line[c] = "none"
                            /\ line[c] # "none" => line'[c] # "none"
                            /\ line'[c] = "open" => line[c] \in {"none", "open"}
  BY <1>3 DEF Connect, CloseClient, ResetClient
<1>5. /\ kernel' \in [Clients -> Seq(Nat \X Nat)]
      /\ \A c \in Clients : \/ kernel'[c] = kernel[c]
                            \/ kernel'[c] = <<>> /\ line'[c] \notin {"none", "open"}
  <2>1. CASE Connect(d) \/ CloseClient(d)  BY <1>3, <2>1 DEF Connect, CloseClient
  <2>2. CASE ResetClient(d)
    <3>1. kernel' = [kernel EXCEPT ![d] = <<>>] /\ line' = [line EXCEPT ![d] = "reset"]
      BY <2>2 DEF ResetClient
    <3>2. QED  BY <1>3, <3>1
  <2>3. QED  BY <2>1, <2>2
<1>6. /\ backlog' \in Seq(Clients)
      /\ \A i \in 1..Len(backlog') : fd[backlog'[i]] = "none" /\ line'[backlog'[i]] # "none"
  <2>1. \A i \in 1..Len(backlog) : /\ backlog[i] \in Clients
                                   /\ fd[backlog[i]] = "none" /\ line[backlog[i]] # "none"
    BY <1>1, <1>3, ElementOfSeq DEF SessionInv
  <2>2. CASE CloseClient(d) \/ ResetClient(d)
    <3>1. backlog' = backlog  BY <2>2 DEF CloseClient, ResetClient, sessionVars
    <3>2. QED  BY <1>3, <1>4, <2>1, <3>1
  <2>3. CASE Connect(d)
    <3>1. backlog' = Append(backlog, d) /\ line[d] = "none" /\ line' = [line EXCEPT ![d] = "open"]
      BY <2>3 DEF Connect
    <3>2. fd[d] = "none" /\ line'[d] # "none"  BY <1>1, <1>3, <3>1 DEF SessionInv
    <3>3. /\ backlog' \in Seq(Clients) /\ Len(backlog') = Len(backlog) + 1
          /\ \A i \in 1..Len(backlog) : backlog'[i] = backlog[i]
          /\ backlog'[Len(backlog) + 1] = d
      BY <1>3, <3>1, AppendProperties
    <3>4. Len(backlog) \in Nat  BY <1>3, LenProperties
    <3>5. ASSUME NEW i \in 1..Len(backlog') PROVE fd[backlog'[i]] = "none" /\ line'[backlog'[i]] # "none"
      <4>1. i \in 1..Len(backlog) \/ i = Len(backlog) + 1  BY <3>3, <3>4
      <4>2. QED  BY <1>4, <2>1, <3>2, <3>3, <4>1
    <3>6. QED  BY <3>3, <3>5
  <2>4. QED  BY <2>2, <2>3
<1>7. TypeOK'  BY <1>1, <1>2, <1>4, <1>5, <1>6 DEF TypeOK
<1>8. SessionInv'
  <2>1. ASSUME NEW c \in Clients
        PROVE  /\ fd'[c] = "closed" => buffer'[c] = <<>> /\ kernel'[c] = <<>>
               /\ fd'[c] = "none" => buffer'[c] = <<>>
               /\ line'[c] = "none" => fd'[c] = "none"
    BY <1>1, <1>2, <1>4, <1>5 DEF SessionInv
  <2>2. /\ \A i \in 1..Len(conns') : fd'[conns'[i]] # "none"
        /\ \A i \in 1..Len(ready') : fd'[ready'[i]] # "none"
        /\ running' => stops' < MaxStops
        /\ pc' # "stopped" /\ ~running' => stops' > 0
        /\ pc' = "ended" => ~running'
    BY <1>1, <1>2 DEF SessionInv
  <2>3. QED  BY <1>2, <1>6, <2>1, <2>2 DEF SessionInv
<1>9. ASSUME NEW c \in Clients PROVE \E m \in 0..Len(script'[c]) : FramedInv(c, m)'
  <2>1. PICK m \in 0..Len(script[c]) : FramedInv(c, m)  BY <1>1 DEF ClientsInv
  <2>2. Parsed(c)' = Parsed(c)  BY <1>2 DEF Parsed, session
  <2>3. line'[c] \in {"none", "open"} => line[c] \in {"none", "open"}  BY <1>4
  <2>4. FramedInv(c, m)'  BY <1>1, <1>2, <1>5, <2>1, <2>2, <2>3, SameSession
  <2>5. QED  BY <1>2, <2>4
<1>10. ClientsInv'  BY <1>9 DEF ClientsInv
<1>11. DroppedForReason'
  <2>1. stops' \in Nat /\ stops' >= stops  BY <1>1, <1>2, ServerAssumption DEF TypeOK
  <2>2. QED  BY <1>1, <1>2, <1>4, <2>1, SameReasons
<1>12. QED  BY <1>7, <1>8, <1>10, <1>11 DEF ServerInv

\* A client sends: the kernel has the next bytes of its stream.
LEMMA KeptBySend ==
    ASSUME ServerInv, NEW d \in Clients, NEW n \in 1..Len(Bytes(script[d])), Send(d, n)
    PROVE  ServerInv'
<1>1. TypeOK /\ SessionInv /\ ClientsInv /\ DroppedForReason  BY DEF ServerInv
<1>2. /\ UNCHANGED <<script, line, backlog, conns, fd, buffer, running>>
      /\ UNCHANGED <<stops, pc, ready, offset, handled>>
      /\ line[d] = "open" /\ fd[d] # "closed" /\ sent[d] < n
      /\ sent' = [sent EXCEPT ![d] = n]
  BY DEF Send, sessionVars, controlVars
<1> DEFINE T == Nat \X Nat
           B == Bytes(script[d])
           add == SubSeq(B, sent[d] + 1, n)
           k == kernel[d] \o add
<1>3. kernel' = [kernel EXCEPT ![d] = k]  BY DEF Send
<1>4. /\ buffer[d] \in Seq(T) /\ kernel[d] \in Seq(T) /\ Len(buffer[d]) \in Nat /\ Len(kernel[d]) \in Nat
      /\ B \in Seq(T) /\ Len(B) \in Nat /\ sent[d] \in Nat /\ Parsed(d) \in Nat
  BY <1>1, SessionTypes
<1>5. n \in Nat /\ n <= Len(B) /\ sent[d] <= n  BY <1>2, <1>4
<1> HIDE DEF T, B
<1>6. add \in Seq(T) /\ Len(add) = n - sent[d] /\ \A i \in 1..(n - sent[d]) : add[i] = B[sent[d] + i]
  <2> DEFINE b == sent[d]
  <2>1. b \in Nat /\ b <= n  BY <1>4, <1>5
  <2> HIDE DEF b
  <2>2. /\ SubSeq(B, b + 1, n) \in Seq(T) /\ Len(SubSeq(B, b + 1, n)) = n - b
        /\ \A i \in 1..(n - b) : SubSeq(B, b + 1, n)[i] = B[b + i]
    BY <1>4, <1>5, <2>1, Piece
  <2>3. QED  BY <2>2 DEF b
<1> HIDE DEF add
<1>7. k \in Seq(T) /\ Len(k) = Len(kernel[d]) + (n - sent[d])
  <2>1. k \in Seq(T) /\ Len(k) = Len(kernel[d]) + Len(add)  BY <1>4, <1>6, ConcatProperties
  <2> HIDE DEF k
  <2>2. QED  BY <1>6, <2>1
<1>8. PICK m \in 0..Len(script[d]) : FramedInv(d, m)  BY <1>1 DEF ClientsInv
<1> DEFINE start == Ends(script[d])[m] - Parsed(d)
           at == start + Len(buffer[d])
<1>9. StreamInv(d, start)  BY <1>2, <1>8 DEF FramedInv
<1> HIDE DEF start
<1>10. /\ start \in Nat /\ at + Len(kernel[d]) = sent[d]
       /\ Parsed(d) <= Len(buffer[d])
       /\ \A i \in 1..Len(buffer[d]) : buffer[d][i] = B[start + i]
       /\ \A i \in 1..Len(kernel[d]) : kernel[d][i] = B[at + i]
  BY <1>2, <1>9 DEF StreamInv, B
<1>11. at \in Nat /\ at + Len(k) = n
  <2>1. at \in Nat  BY <1>4, <1>10
  <2> DEFINE a == Len(kernel[d])
             b == sent[d]
  <2>2. a \in Nat /\ b \in Nat /\ at + a = b /\ Len(k) = a + (n - b)  BY <1>4, <1>7, <1>10
  <2> HIDE DEF at, k, a, b
  <2>3. QED  BY <1>5, <2>1, <2>2
<1>12. \A i \in 1..Len(k) : k[i] = B[at + i]
  <2>1. \A i \in 1..Len(add) : add[i] = B[at + Len(kernel[d]) + i]  BY <1>6, <1>10
  <2>2. \A i \in 1..Len(kernel[d]) : kernel[d][i] = B[at + i]  BY <1>10
  <2> DEFINE q == kernel[d]
  <2>3. q \in Seq(T) /\ \A i \in 1..Len(q) : q[i] = B[at + i]  BY <1>4, <2>2
  <2>4. \A i \in 1..Len(add) : add[i] = B[at + Len(q) + i]  BY <2>1
  <2>5. at \in Nat  BY <1>11
  <2> HIDE DEF at, q
  <2>6. \A i \in 1..Len(q \o add) : (q \o add)[i] = B[at + i]
    BY <1>6, <2>3, <2>4, <2>5, Joined, SMTT(30)
  <2>7. QED  BY <2>6 DEF q
<1> HIDE DEF k
<1>13. TypeOK'
  <2>1. kernel \in [Clients -> Seq(T)] /\ sent \in [Clients -> Nat]
        /\ \A c \in Clients : sent[c] <= Len(Bytes(script[c]))
    BY <1>1 DEF TypeOK, T
  <2>2. kernel' \in [Clients -> Seq(T)]  BY <1>3, <1>7, <2>1
  <2>3. sent' \in [Clients -> Nat]  BY <1>2, <1>5, <2>1
  <2>4. \A c \in Clients : sent'[c] <= Len(Bytes(script'[c]))  BY <1>2, <1>5, <2>1 DEF B
  <2>5. QED  BY <1>1, <1>2, <2>2, <2>3, <2>4 DEF TypeOK, T
<1>14. SessionInv'
  <2>1. kernel \in [Clients -> Seq(T)]  BY <1>1 DEF TypeOK, T
  <2>2. \A c \in Clients : fd[c] = "closed" => kernel'[c] = kernel[c]  BY <1>2, <1>3, <2>1
  <2>3. QED  BY <1>1, <1>2, <2>2 DEF SessionInv
<1>15. ASSUME NEW c \in Clients PROVE \E i \in 0..Len(script'[c]) : FramedInv(c, i)'
  <2>1. Parsed(c)' = Parsed(c)  BY <1>2 DEF Parsed, session
  <2>2. kernel \in [Clients -> Seq(T)] /\ sent \in [Clients -> Nat]  BY <1>1 DEF TypeOK, T
  <2>3. CASE c = d
    <3>1. kernel'[d] = k /\ sent'[d] = n  BY <1>2, <1>3, <2>2
    <3>2. start' = start /\ Bytes(script[d])' = B  BY <1>2, <2>1, <2>3 DEF start, Ends, Bytes, B
    <3>3. /\ Parsed(d)' <= Len(buffer'[d])
          /\ \A i \in 1..Len(buffer'[d]) : buffer'[d][i] = B[start + i]
      BY <1>2, <1>10, <2>1, <2>3
    <3>4. start + Len(buffer'[d]) + Len(kernel'[d]) = n  BY <1>2, <1>11, <3>1
    <3>5. \A i \in 1..Len(kernel'[d]) : kernel'[d][i] = B[start + Len(buffer'[d]) + i]
      BY <1>2, <1>12, <3>1
    <3>6. StreamInv(d, start)'
      <4>1. n <= n  BY <1>5
      <4>2. QED  BY <1>10, <3>1, <3>2, <3>3, <3>4, <3>5, <4>1 DEF StreamInv
    <3>7. So(d, m)' = So(d, m)  BY <1>2 DEF So, Numbers, Places
    <3>8. handled'[d] = So(d, m)' /\ \A i \in 1..m : script'[d][i].kind # "malformed"
      BY <1>2, <1>8, <3>7 DEF FramedInv
    <3>9. FramedInv(d, m)'  BY <3>6, <3>8 DEF FramedInv, start
    <3>10. QED  BY <1>2, <2>3, <3>9
  <2>4. CASE c # d
    <3>1. PICK i \in 0..Len(script[c]) : FramedInv(c, i)  BY <1>1 DEF ClientsInv
    <3>2. kernel'[c] = kernel[c] /\ sent'[c] = sent[c]  BY <1>2, <1>3, <2>2, <2>4
    <3>3. FramedInv(c, i)'
      <4>1. CASE fd[c] = "closed"  BY <1>1, <1>2, <3>1, <3>2, <4>1, SameSession
      <4>2. CASE fd[c] # "closed"  BY <1>1, <1>2, <2>1, <3>1, <3>2, <4>2, SameSession
      <4>3. QED  BY <4>1, <4>2
    <3>4. QED  BY <1>2, <3>3
  <2>5. QED  BY <2>3, <2>4
<1>16. ClientsInv'  BY <1>15 DEF ClientsInv
<1>17. DroppedForReason'
  <2>1. stops' \in Nat /\ stops' >= stops  BY <1>1, <1>2, ServerAssumption DEF TypeOK
  <2>2. QED  BY <1>1, <1>2, <2>1, SameReasons
<1>18. QED  BY <1>13, <1>14, <1>16, <1>17 DEF ServerInv

\* stop() closes every session.
LEMMA KeptByJoin == ASSUME ServerInv, Join PROVE ServerInv'
<1>1. TypeOK /\ SessionInv /\ ClientsInv /\ DroppedForReason  BY DEF ServerInv
<1>2. /\ UNCHANGED <<script, sent, line, backlog, running, stops, ready, offset, handled>>
      /\ pc = "ended" /\ pc' = "stopped" /\ conns' = <<>>
      /\ fd' = [c \in Clients |-> IF fd[c] = "open" THEN "closed" ELSE fd[c]]
      /\ buffer' = [c \in Clients |-> <<>>]
      /\ kernel' = [c \in Clients |-> IF fd[c] = "open" THEN <<>> ELSE kernel[c]]
  BY DEF Join, clientVars, controlVars
<1>3. fd \in [Clients -> {"none", "open", "closed"}] /\ kernel \in [Clients -> Seq(Nat \X Nat)]
  BY <1>1 DEF TypeOK
<1>4. ~running /\ stops > 0  BY <1>1, <1>2 DEF SessionInv
<1>5. <<>> \in Seq(Clients) /\ <<>> \in Seq(Nat \X Nat) /\ Len(<<>>) = 0  OBVIOUS
<1>6. \A c \in Clients : (fd'[c] = "none" <=> fd[c] = "none") /\ (fd'[c] # "none" => fd'[c] = "closed")
  BY <1>2, <1>3
<1>7. TypeOK'
  <2>1. fd' \in [Clients -> {"none", "open", "closed"}]  BY <1>2, <1>3
  <2>2. kernel' \in [Clients -> Seq(Nat \X Nat)] /\ buffer' \in [Clients -> Seq(Nat \X Nat)]
    BY <1>2, <1>3, <1>5
  <2>3. conns' \in Seq(Clients)  BY <1>2, <1>5
  <2>4. QED  BY <1>1, <1>2, <2>1, <2>2, <2>3 DEF TypeOK
<1>8. SessionInv'
  <2>1. ASSUME NEW c \in Clients
        PROVE  /\ fd'[c] = "closed" => buffer'[c] = <<>> /\ kernel'[c] = <<>>
               /\ fd'[c] = "none" => buffer'[c] = <<>>
               /\ line'[c] = "none" => fd'[c] = "none"
    <3>1. buffer'[c] = <<>>  BY <1>2
    <3>2. line'[c] = "none" => fd'[c] = "none"  BY <1>1, <1>2, <1>6 DEF SessionInv
    <3>3. fd[c] # "none" => kernel'[c] = <<>>
      <4>1. CASE fd[c] = "open"  BY <1>2, <4>1
      <4>2. CASE fd[c] = "closed"
        <5>1. kernel[c] = <<>>  BY <1>1, <4>2 DEF SessionInv
        <5>2. QED  BY <1>2, <4>2, <5>1
      <4>3. QED  BY <1>3, <4>1, <4>2
    <3>4. QED  BY <1>6, <3>1, <3>2, <3>3
  <2>2. \A i \in 1..Len(backlog') : fd'[backlog'[i]] = "none" /\ line'[backlog'[i]] # "none"
    <3>1. \A i \in 1..Len(backlog) : backlog[i] \in Clients  BY <1>1, ElementOfSeq DEF TypeOK
    <3>2. QED  BY <1>1, <1>2, <1>6, <3>1 DEF SessionInv
  <2>3. \A i \in 1..Len(ready') : fd'[ready'[i]] # "none"
    <3>1. \A i \in 1..Len(ready) : ready[i] \in Clients  BY <1>1, ElementOfSeq DEF TypeOK
    <3>2. QED  BY <1>1, <1>2, <1>6, <3>1 DEF SessionInv
  <2>4. \A i \in 1..Len(conns') : fd'[conns'[i]] # "none"  BY <1>2, <1>5
  <2>5. QED  BY <1>2, <1>4, <2>1, <2>2, <2>3, <2>4 DEF SessionInv
<1>9. ASSUME NEW c \in Clients PROVE \E m \in 0..Len(script'[c]) : FramedInv(c, m)'
  <2>1. PICK m \in 0..Len(script[c]) : FramedInv(c, m)  BY <1>1 DEF ClientsInv
  <2>2. CASE fd[c] = "none"
    <3>1. buffer[c] = <<>>  BY <1>1, <2>2 DEF SessionInv
    <3>2. buffer'[c] = buffer[c] /\ kernel'[c] = kernel[c]  BY <1>2, <2>2, <3>1
    <3>3. Parsed(c)' = Parsed(c)  BY <1>2 DEF Parsed
    <3>4. FramedInv(c, m)'  BY <1>1, <1>2, <2>1, <2>2, <3>2, <3>3, SameSession
    <3>5. QED  BY <1>2, <3>4
  <2>3. CASE fd[c] # "none"
    <3>1. fd'[c] = "closed"  BY <1>6, <2>3
    <3>2. FramedInv(c, m)'  BY <1>1, <1>2, <2>1, <3>1, SameSession
    <3>3. QED  BY <1>2, <3>2
  <2>4. QED  BY <2>2, <2>3
<1>10. ClientsInv'  BY <1>9 DEF ClientsInv
<1>11. DroppedForReason'  BY <1>2, <1>4 DEF DroppedForReason
<1>12. QED  BY <1>7, <1>8, <1>10, <1>11 DEF ServerInv

\* A session is dropped that its client has closed, or that is not well formed.
LEMMA KeptByDrop ==
    ASSUME ServerInv, Drop, ready # <<>>, pc \in {"drain", "parse"},
           line[session] # "open" \/ ~WellFormed(session)
    PROVE  ServerInv'
<1> DEFINE d == session
<1>1. TypeOK /\ SessionInv /\ ClientsInv /\ DroppedForReason  BY DEF ServerInv
<1>2. /\ UNCHANGED <<script, sent, line, backlog, conns, running, stops, handled>>
      /\ pc' = "drain" /\ offset' = 0 /\ ready' = Tail(ready)
      /\ fd' = [fd EXCEPT ![d] = "closed"]
      /\ kernel' = [kernel EXCEPT ![d] = <<>>]
      /\ buffer' = [buffer EXCEPT ![d] = <<>>]
  BY DEF Drop, clientVars, controlVars
<1>3. /\ d \in Clients /\ fd[d] # "none" /\ ready' \in Seq(Clients)
      /\ \A i \in 1..Len(ready') : ready'[i] \in Clients /\ fd[ready'[i]] # "none"
  <2>1. /\ Tail(ready) \in Seq(Clients) /\ d \in Clients /\ fd[d] # "none"
        /\ \A i \in 1..Len(Tail(ready)) : Tail(ready)[i] \in Clients /\ fd[Tail(ready)[i]] # "none"
    BY <1>1, SessionIsClient
  <2> HIDE DEF d
  <2>2. QED  BY <1>2, <2>1
<1>4. /\ fd \in [Clients -> {"none", "open", "closed"}]
      /\ kernel \in [Clients -> Seq(Nat \X Nat)] /\ buffer \in [Clients -> Seq(Nat \X Nat)]
      /\ conns \in Seq(Clients) /\ backlog \in Seq(Clients)
  BY <1>1 DEF TypeOK
<1>5. \A c \in Clients : c # d => fd'[c] = fd[c] /\ kernel'[c] = kernel[c] /\ buffer'[c] = buffer[c]
  BY <1>2, <1>4
<1>6. fd'[d] = "closed" /\ kernel'[d] = <<>> /\ buffer'[d] = <<>>  BY <1>2, <1>3, <1>4
<1>7. \A c \in Clients : Parsed(c)' = 0 /\ (c # d => Parsed(c) = 0)  BY <1>2 DEF Parsed
<1>8. line[d] # "open" \/ ~WellFormed(d)  OBVIOUS
<1> HIDE DEF d
<1>9. TypeOK'
  <2>1. fd' \in [Clients -> {"none", "open", "closed"}]  BY <1>2, <1>3, <1>4
  <2>2. <<>> \in Seq(Nat \X Nat)  OBVIOUS
  <2>3. kernel' \in [Clients -> Seq(Nat \X Nat)] /\ buffer' \in [Clients -> Seq(Nat \X Nat)]
    BY <1>2, <1>3, <1>4, <2>2
  <2>4. QED  BY <1>1, <1>2, <1>3, <2>1, <2>3 DEF TypeOK
<1>10. SessionInv'
  <2>1. ASSUME NEW c \in Clients
        PROVE  /\ fd'[c] = "closed" => buffer'[c] = <<>> /\ kernel'[c] = <<>>
               /\ fd'[c] = "none" => buffer'[c] = <<>>
               /\ line'[c] = "none" => fd'[c] = "none"
    <3>1. CASE c = d
      <4>1. line[d] # "none"  BY <1>1, <1>3 DEF SessionInv
      <4>2. QED  BY <1>2, <1>6, <3>1, <4>1
    <3>2. CASE c # d  BY <1>1, <1>2, <1>5, <3>2 DEF SessionInv
    <3>3. QED  BY <3>1, <3>2
  <2>2. \A i \in 1..Len(backlog') : fd'[backlog'[i]] = "none" /\ line'[backlog'[i]] # "none"
    <3>1. \A i \in 1..Len(backlog) : backlog[i] \in Clients /\ fd[backlog[i]] = "none"
      BY <1>1, <1>4, ElementOfSeq DEF SessionInv
    <3>2. \A i \in 1..Len(backlog) : backlog[i] # d  BY <1>3, <3>1
    <3>3. QED  BY <1>1, <1>2, <1>5, <3>1, <3>2 DEF SessionInv
  <2>3. \A i \in 1..Len(ready') : fd'[ready'[i]] # "none"  BY <1>3, <1>5, <1>6
  <2>4. \A i \in 1..Len(conns') : fd'[conns'[i]] # "none"
    <3>1. \A i \in 1..Len(conns) : conns[i] \in Clients /\ fd[conns[i]] # "none"
      BY <1>1, <1>4, ElementOfSeq DEF SessionInv
    <3>2. QED  BY <1>2, <1>5, <1>6, <3>1
  <2>5. /\ running' => stops' < MaxStops
        /\ pc' # "stopped" /\ ~running' => stops' > 0
        /\ pc' = "ended" => ~running'
    BY <1>1, <1>2 DEF SessionInv
  <2>6. QED  BY <2>1, <2>2, <2>3, <2>4, <2>5 DEF SessionInv
<1>11. ASSUME NEW c \in Clients PROVE \E m \in 0..Len(script'[c]) : FramedInv(c, m)'
  <2>1. PICK m \in 0..Len(script[c]) : FramedInv(c, m)  BY <1>1 DEF ClientsInv
  <2>2. CASE c = d
    <3>1. fd'[c] = "closed"  BY <1>6, <2>2
    <3>2. FramedInv(c, m)'  BY <1>1, <1>2, <2>1, <3>1, SameSession
    <3>3. QED  BY <1>2, <3>2
  <2>3. CASE c # d
    <3>1. Parsed(c)' = Parsed(c)  BY <1>7, <2>3
    <3>2. FramedInv(c, m)'
      <4>1. CASE fd[c] = "closed"  BY <1>1, <1>2, <1>5, <2>1, <2>3, <4>1, SameSession
      <4>2. CASE fd[c] # "closed"  BY <1>1, <1>2, <1>5, <2>1, <2>3, <3>1, <4>2, SameSession
      <4>3. QED  BY <4>1, <4>2
    <3>3. QED  BY <1>2, <3>2
  <2>4. QED  BY <2>2, <2>3
<1>12. ClientsInv'  BY <1>11 DEF ClientsInv
<1>13. DroppedForReason'
  <2>1. stops' \in Nat /\ stops' >= stops  BY <1>1, <1>2, ServerAssumption DEF TypeOK
  <2>2. ASSUME NEW c \in Clients, fd'[c] = "closed"
        PROVE  fd[c] = "closed" \/ line'[c] # "open" \/ stops' > 0 \/ ~WellFormed(c)
    BY <1>2, <1>5, <1>8, <2>2
  <2>3. QED  BY <1>1, <1>2, <2>1, <2>2, SameReasons
<1>14. QED  BY <1>9, <1>10, <1>12, <1>13 DEF ServerInv

\* recv() has seen the end, or the frame is malformed.
LEMMA KeptByEnd == ASSUME ServerInv, RecvEof \/ ParseBad PROVE ServerInv'
<1>1. TypeOK /\ SessionInv /\ ClientsInv  BY DEF ServerInv
<1>2. CASE RecvEof
  <2>1. ready # <<>> /\ pc = "drain" /\ line[session] # "open" /\ Drop  BY <1>2 DEF RecvEof, Draining
  <2>2. QED  BY <2>1, KeptByDrop
<1>3. CASE ParseBad
  <2>1. pc = "parse" /\ ParseFrame = "malformed" /\ Drop  BY <1>3 DEF ParseBad
  <2>2. ready # <<>>  BY <1>1, <2>1 DEF TypeOK
  <2>3. session \in Clients  BY <1>1, <2>2, SessionIsClient
  <2>4. PICK m \in 0..Len(script[session]) : FramedInv(session, m)  BY <1>1, <2>3 DEF ClientsInv
  <2>5. ~(Rest < HeaderBytes)  BY <2>1 DEF ParseFrame
  <2>6. /\ m + 1 \in 1..Len(script[session]) /\ First[2] = 1
        /\ Message = script[session][m + 1]
    BY <1>1, <2>1, <2>4, <2>5, AtFrame
  <2>7. Message.kind = "malformed"  BY <2>1, <2>5, <2>6 DEF ParseFrame
  <2>8. DOMAIN script[session] = 1..Len(script[session])  BY <1>1, <2>3, ScriptFacts
  <2>9. ~WellFormed(session)  BY <2>6, <2>7, <2>8 DEF WellFormed
  <2>10. QED  BY <2>1, <2>2, <2>9, KeptByDrop
<1>4. QED  BY <1>2, <1>3

\* A step of drain_connection() that does not end its session concerns only it.
LEMMA OneSession ==
    ASSUME ServerInv, TypeOK', ready # <<>>, NEW d \in Clients, d = session,
           UNCHANGED <<script, sent, backlog, conns, fd, running, stops>>,
           pc \in {"drain", "parse"}, pc' \in {"drain", "parse"},
           ready' = ready \/ (ready' = Tail(ready) /\ pc' = "drain"),
           \A c \in Clients \ {d} :
               /\ line'[c] = line[c] /\ handled'[c] = handled[c]
               /\ kernel'[c] = kernel[c] /\ buffer'[c] = buffer[c],
           line'[d] # "none",
           line'[d] = "open" => line[d] = "open",
           fd[d] = "closed" => buffer'[d] = <<>> /\ kernel'[d] = <<>>,
           \E m \in 0..Len(script[d]) : FramedInv(d, m)'
    PROVE  ServerInv'
<1>1. TypeOK /\ SessionInv /\ ClientsInv /\ DroppedForReason  BY DEF ServerInv
<1>2. d \in Clients /\ fd[d] # "none"  BY <1>1, SessionIsClient
<1>3. \A i \in 1..Len(ready') : fd[ready'[i]] # "none"
  <2>1. CASE ready' = ready  BY <1>1, <2>1 DEF SessionInv
  <2>2. CASE ready' = Tail(ready)
    <3>1. \A i \in 1..Len(Tail(ready)) : fd[Tail(ready)[i]] # "none"  BY <1>1, SessionIsClient
    <3>2. QED  BY <2>2, <3>1
  <2>3. QED  BY <2>1, <2>2
<1>4. \A c \in Clients : c # d => Parsed(c) = 0 /\ Parsed(c)' = 0
  <2>1. (ready' = ready => session' = session) /\ (ready' # ready => pc' = "drain")  BY DEF session
  <2>2. QED  BY <2>1 DEF Parsed
<1>5. \A c \in Clients : c # d => /\ line'[c] = line[c] /\ handled'[c] = handled[c]
                                  /\ kernel'[c] = kernel[c] /\ buffer'[c] = buffer[c]
  OBVIOUS
<1>6. /\ line'[d] # "none" /\ (line'[d] = "open" => line[d] = "open")
      /\ (fd[d] = "closed" => buffer'[d] = <<>> /\ kernel'[d] = <<>>)
      /\ \E m \in 0..Len(script[d]) : FramedInv(d, m)'
  OBVIOUS
<1>7. SessionInv'
  <2>1. ASSUME NEW c \in Clients
        PROVE  /\ fd'[c] = "closed" => buffer'[c] = <<>> /\ kernel'[c] = <<>>
               /\ fd'[c] = "none" => buffer'[c] = <<>>
               /\ line'[c] = "none" => fd'[c] = "none"
    <3>1. CASE c = d  BY <1>2, <1>6, <3>1
    <3>2. CASE c # d  BY <1>1, <1>5, <3>2 DEF SessionInv
    <3>3. QED  BY <3>1, <3>2
  <2>2. \A i \in 1..Len(backlog') : fd'[backlog'[i]] = "none" /\ line'[backlog'[i]] # "none"
    <3>1. \A i \in 1..Len(backlog) : /\ backlog[i] \in Clients
                                     /\ fd[backlog[i]] = "none" /\ line[backlog[i]] # "none"
      BY <1>1, ElementOfSeq DEF SessionInv, TypeOK
    <3>2. QED  BY <1>2, <1>5, <3>1
  <2>3. /\ \A i \in 1..Len(conns') : fd'[conns'[i]] # "none"
        /\ running' => stops' < MaxStops
        /\ pc' # "stopped" /\ ~running' => stops' > 0
        /\ pc' = "ended" => ~running'
    BY <1>1 DEF SessionInv
  <2>4. QED  BY <1>3, <2>1, <2>2, <2>3 DEF SessionInv
<1>8. ASSUME NEW c \in Clients PROVE \E m \in 0..Len(script'[c]) : FramedInv(c, m)'
  <2>1. CASE c = d  BY <1>6, <2>1
  <2>2. CASE c # d
    <3>1. PICK m \in 0..Len(script[c]) : FramedInv(c, m)  BY <1>1 DEF ClientsInv
    <3>2. Parsed(c)' = Parsed(c)  BY <1>4, <2>2
    <3>3. sent'[c] = sent[c] /\ fd'[c] = fd[c]  OBVIOUS
    <3>4. FramedInv(c, m)'
      <4>1. CASE fd[c] = "closed"  BY <1>1, <1>5, <2>2, <3>1, <3>3, <4>1, SameSession
      <4>2. CASE fd[c] # "closed"  BY <1>1, <1>5, <2>2, <3>1, <3>2, <3>3, <4>2, SameSession
      <4>3. QED  BY <4>1, <4>2
    <3>5. QED  BY <3>4
  <2>3. QED  BY <2>1, <2>2
<1>9. ClientsInv'  BY <1>8 DEF ClientsInv
<1>10. DroppedForReason'
  <2>1. stops' \in Nat /\ stops' >= stops  BY <1>1, ServerAssumption DEF TypeOK
  <2>2. \A c \in Clients : line'[c] = "open" => line[c] \in {"none", "open"}  BY <1>5, <1>6
  <2>3. QED  BY <1>1, <2>1, <2>2, SameReasons
<1>11. QED  BY <1>7, <1>9, <1>10 DEF ServerInv

\* recv() has nothing more: the frames of the buffer are next.
LEMMA KeptByRecvNothing == ASSUME ServerInv, RecvNothing PROVE ServerInv'
<1>1. TypeOK /\ SessionInv /\ ClientsInv  BY DEF ServerInv
<1>2. /\ UNCHANGED <<script, sent, kernel, backlog, conns, fd>>
      /\ UNCHANGED <<buffer, running, stops, ready, offset, handled>>
      /\ pc = "drain" /\ pc' = "parse" /\ ready # <<>> /\ line[session] \in {"open", "reset"}
      /\ line' = [line EXCEPT ![session] = IF @ = "reset" THEN "over" ELSE @]
  BY DEF RecvNothing, Draining, sessionVars, controlVars
<1>3. PICK d \in Clients : d = session  BY <1>1, <1>2, SessionIsClient
<1>4. line \in [Clients -> {"none", "open", "closed", "reset", "over"}]  BY <1>1 DEF TypeOK
<1>5. /\ line' \in [Clients -> {"none", "open", "closed", "reset", "over"}]
      /\ line'[d] # "none" /\ (line'[d] \in {"none", "open"} => line[d] = "open")
      /\ \A c \in Clients \ {d} : line'[c] = line[c]
  <2>1. line' = [line EXCEPT ![d] = IF @ = "reset" THEN "over" ELSE @] /\ line[d] \in {"open", "reset"}
    BY <1>2, <1>3
  <2>2. QED  BY <1>4, <2>1
<1>6. offset = 0  BY <1>1, <1>2 DEF TypeOK
<1>7. TypeOK'  BY <1>1, <1>2, <1>5 DEF TypeOK
<1>8. Parsed(d)' = Parsed(d)
  <2>1. Parsed(d) = 0  BY <1>2 DEF Parsed
  <2>2. Parsed(d)' = 0  BY <1>2, <1>6 DEF Parsed
  <2>3. QED  BY <2>1, <2>2
<1>9. PICK m \in 0..Len(script[d]) : FramedInv(d, m)  BY <1>1, <1>3 DEF ClientsInv
<1>10. FramedInv(d, m)'
  <2>1. line'[d] \in {"none", "open"} => line[d] \in {"none", "open"}  BY <1>5
  <2>2. CASE fd[d] = "closed"  BY <1>1, <1>2, <1>9, <2>1, <2>2, SameSession
  <2>3. CASE fd[d] # "closed"  BY <1>1, <1>2, <1>8, <1>9, <2>1, <2>3, SameSession
  <2>4. QED  BY <2>2, <2>3
<1>11. fd[d] = "closed" => buffer'[d] = <<>> /\ kernel'[d] = <<>>  BY <1>1, <1>2 DEF SessionInv
<1>12. QED  BY <1>2, <1>3, <1>5, <1>7, <1>10, <1>11, OneSession

\* recv() moves bytes from the kernel to the end of the buffer.
LEMMA KeptByRecvData == ASSUME ServerInv, RecvData PROVE ServerInv'
<1>1. TypeOK /\ SessionInv /\ ClientsInv  BY DEF ServerInv
<1>2. pc = "drain" /\ ready # <<>>  BY DEF RecvData, Draining
<1>3. PICK d \in Clients : d = session  BY <1>1, <1>2, SessionIsClient
<1> DEFINE T == Nat \X Nat
           b == buffer[d]
           k == kernel[d]
           n == IF Len(k) < Chunk THEN Len(k) ELSE Chunk
           got == SubSeq(k, 0 + 1, n)
           left == SubSeq(k, n + 1, Len(k))
<1>4. /\ UNCHANGED <<script, sent, line, backlog, conns, fd>>
      /\ UNCHANGED <<running, stops, pc, ready, offset, handled>>
      /\ k # <<>> /\ buffer' = [buffer EXCEPT ![d] = b \o got] /\ kernel' = [kernel EXCEPT ![d] = left]
  <2>1. got = SubSeq(k, 1, n)  OBVIOUS
  <2> HIDE DEF got
  <2>2. QED  BY <1>3, <2>1 DEF RecvData, clientVars, sessionVars, controlVars
<1>5. b \in Seq(T) /\ k \in Seq(T) /\ Len(b) \in Nat /\ Len(k) \in Nat /\ Parsed(d) \in Nat /\ sent[d] \in Nat
  BY <1>1, SessionTypes
<1>6. n \in Nat /\ n <= Len(k)  BY <1>5, ServerAssumption
<1>7. buffer \in [Clients -> Seq(T)] /\ kernel \in [Clients -> Seq(T)]  BY <1>1 DEF TypeOK
<1> HIDE DEF n, T
<1>8. got \in Seq(T) /\ Len(got) = n /\ \A i \in 1..n : got[i] = k[i]
  <2>1. /\ got \in Seq(T) /\ Len(got) = n - 0 /\ \A i \in 1..(n - 0) : got[i] = k[0 + i]
    <3> HIDE DEF k
    <3>1. 0 \in Nat /\ 0 <= n  BY <1>6
    <3>2. QED  BY <1>5, <1>6, <3>1, Piece
  <2> HIDE DEF got, k
  <2>2. QED  BY <1>6, <2>1
<1>9. left \in Seq(T) /\ Len(left) = Len(k) - n /\ \A i \in 1..(Len(k) - n) : left[i] = k[n + i]
  <2> HIDE DEF k
  <2>1. Len(k) <= Len(k)  BY <1>5
  <2>2. QED  BY <1>5, <1>6, <2>1, Piece
<1>10. fd[d] # "closed"  BY <1>1, <1>4 DEF SessionInv
<1>11. PICK m \in 0..Len(script[d]) : FramedInv(d, m)  BY <1>1 DEF ClientsInv
<1> DEFINE B == Bytes(script[d])
           start == Ends(script[d])[m] - Parsed(d)
<1>12. StreamInv(d, start)  BY <1>10, <1>11 DEF FramedInv
<1> HIDE DEF start, got, left, B
<1>13. /\ start \in Nat /\ Parsed(d) <= Len(b)
       /\ start + Len(b) + Len(k) <= sent[d]
       /\ line[d] \in {"none", "open"} => start + Len(b) + Len(k) = sent[d]
       /\ \A i \in 1..Len(b) : b[i] = B[start + i]
       /\ \A i \in 1..Len(k) : k[i] = B[start + Len(b) + i]
  BY <1>12 DEF StreamInv, B
<1> DEFINE c2 == b \o got
<1>14. c2 \in Seq(T) /\ Len(c2) = Len(b) + n /\ \A i \in 1..Len(c2) : c2[i] = B[start + i]
  <2>1. \A i \in 1..Len(got) : got[i] = B[start + Len(b) + i]
    <3>1. ASSUME NEW i \in 1..Len(got) PROVE got[i] = B[start + Len(b) + i]
      <4>1. i \in 1..n /\ i \in 1..Len(k)  BY <1>5, <1>6, <1>8
      <4>2. QED  BY <1>8, <1>13, <4>1
    <3>2. QED  BY <3>1
  <2>2. b \in Seq(T) /\ \A i \in 1..Len(b) : b[i] = B[start + i]  BY <1>5, <1>13
  <2>3. got \in Seq(T) /\ start \in Nat  BY <1>8, <1>13
  <2> HIDE DEF b
  <2>4. c2 \in Seq(T) /\ Len(c2) = Len(b) + Len(got) /\ \A i \in 1..Len(c2) : c2[i] = B[start + i]
    BY <2>1, <2>2, <2>3, Joined
  <2> HIDE DEF c2
  <2>5. QED  BY <1>8, <2>4
<1>15. \A i \in 1..Len(left) : left[i] = B[start + Len(c2) + i]
  <2>1. ASSUME NEW i \in 1..Len(left) PROVE left[i] = B[start + Len(c2) + i]
    <3>1. i \in 1..(Len(k) - n) /\ n + i \in 1..Len(k)  BY <1>5, <1>6, <1>9
    <3>2. left[i] = k[n + i]  BY <1>9, <3>1
    <3>3. k[n + i] = B[start + Len(b) + (n + i)]  BY <1>13, <3>1
    <3>4. start + Len(b) + (n + i) = start + Len(c2) + i
      <4> DEFINE x == Len(b)
                 y == Len(c2)
      <4>1. x \in Nat /\ y = x + n /\ start \in Nat /\ i \in Int  BY <1>5, <1>9, <1>13, <1>14
      <4> HIDE DEF x, y
      <4>2. start + x + (n + i) = start + y + i  BY <1>6, <4>1
      <4>3. QED  BY <4>2 DEF x, y
    <3> HIDE DEF c2
    <3>5. QED  BY <3>2, <3>3, <3>4
  <2>2. QED  BY <2>1
<1>16. start + Len(c2) + Len(left) = start + Len(b) + Len(k) /\ Parsed(d) <= Len(c2)
  <2> DEFINE x == Len(b)
             y == Len(c2)
             z == Len(k)
             w == Len(left)
             q == Parsed(d)
  <2>1. x \in Nat /\ y = x + n /\ start \in Nat /\ z \in Nat /\ w = z - n /\ q \in Nat /\ q <= x
    BY <1>5, <1>9, <1>13, <1>14
  <2> HIDE DEF x, y, z, w, q
  <2>2. start + y + w = start + x + z /\ q <= y  BY <1>6, <2>1
  <2>3. QED  BY <2>2 DEF x, y, z, w, q
<1> HIDE DEF c2
<1>17. buffer' = [buffer EXCEPT ![d] = c2] /\ kernel' = [kernel EXCEPT ![d] = left]  BY <1>4 DEF c2
<1>18. TypeOK'
  <2>1. buffer' \in [Clients -> Seq(T)] /\ kernel' \in [Clients -> Seq(T)]  BY <1>7, <1>9, <1>14, <1>17
  <2>2. QED  BY <1>1, <1>4, <2>1 DEF TypeOK, T
<1>19. FramedInv(d, m)'
  <2>1. buffer'[d] = c2 /\ kernel'[d] = left  BY <1>7, <1>17
  <2>2. Parsed(d)' = Parsed(d)  BY <1>4 DEF Parsed, session
  <2>3. start' = start /\ Bytes(script[d])' = B  BY <1>4, <2>2 DEF start, Ends, Bytes, B
  <2>4. StreamInv(d, start)'
    <3>1. start + Len(c2) + Len(left) <= sent[d]  BY <1>13, <1>16
    <3>2. line[d] \in {"none", "open"} => start + Len(c2) + Len(left) = sent[d]  BY <1>13, <1>16
    <3>3. /\ start' \in Nat /\ Parsed(d)' <= Len(buffer'[d])
          /\ start' + Len(buffer'[d]) + Len(kernel'[d]) <= sent'[d]
      BY <1>4, <1>13, <1>16, <2>1, <2>2, <2>3, <3>1
    <3>4. line'[d] \in {"none", "open"} => start' + Len(buffer'[d]) + Len(kernel'[d]) = sent'[d]
      BY <1>4, <2>1, <2>3, <3>2
    <3>5. \A i \in 1..Len(buffer'[d]) : buffer'[d][i] = Bytes(script[d])'[start' + i]
      BY <1>14, <2>1, <2>3
    <3>6. \A i \in 1..Len(kernel'[d]) :
             kernel'[d][i] = Bytes(script[d])'[start' + Len(buffer'[d]) + i]
      BY <1>15, <2>1, <2>3
    <3>7. QED  BY <3>3, <3>4, <3>5, <3>6 DEF StreamInv
  <2>5. So(d, m)' = So(d, m)  BY <1>4 DEF So, Numbers, Places
  <2>6. handled'[d] = So(d, m)' /\ \A i \in 1..m : script'[d][i].kind # "malformed"
    BY <1>4, <1>11, <2>5 DEF FramedInv
  <2>7. QED  BY <2>4, <2>6 DEF FramedInv, start
<1>20. line[d] # "none"
  <2>1. fd[d] # "none"  BY <1>1, <1>2, <1>3, SessionIsClient
  <2>2. QED  BY <1>1, <2>1 DEF SessionInv
<1>21. \A c \in Clients \ {d} : kernel'[c] = kernel[c] /\ buffer'[c] = buffer[c]  BY <1>7, <1>17
<1>22. QED  BY <1>2, <1>3, <1>4, <1>10, <1>18, <1>19, <1>20, <1>21, OneSession

\* No further frame: what was parsed is erased.
LEMMA KeptByParseShort == ASSUME ServerInv, ParseShort PROVE ServerInv'
<1>1. TypeOK /\ SessionInv /\ ClientsInv  BY DEF ServerInv
<1>2. pc = "parse" /\ ready # <<>>  BY <1>1 DEF ParseShort, TypeOK
<1>3. PICK d \in Clients : d = session  BY <1>1, <1>2, SessionIsClient
<1> DEFINE T == Nat \X Nat
           b == buffer[d]
           left == SubSeq(b, offset + 1, Len(b))
<1>4. /\ UNCHANGED <<script, sent, line, kernel, backlog, conns, fd>>
      /\ UNCHANGED <<running, stops, handled>>
      /\ pc' = "drain" /\ ready' = Tail(ready) /\ offset' = 0
      /\ buffer' = [buffer EXCEPT ![d] = left]
  BY <1>3 DEF ParseShort, EraseHandled, clientVars, sessionVars, controlVars
<1>5. /\ b \in Seq(T) /\ Len(b) \in Nat /\ Len(kernel[d]) \in Nat /\ offset \in Nat /\ sent[d] \in Nat
  BY <1>1, SessionTypes
<1>6. buffer \in [Clients -> Seq(T)]  BY <1>1 DEF TypeOK
<1>7. Parsed(d)' = 0 /\ Parsed(d) = offset  BY <1>2, <1>3, <1>4 DEF Parsed
<1>8. PICK m \in 0..Len(script[d]) : FramedInv(d, m)  BY <1>1 DEF ClientsInv
<1> HIDE DEF T
<1>9. left \in Seq(T) /\ (fd[d] = "closed" => left = <<>>)
  <2>1. \A i \in (offset + 1)..Len(b) : b[i] \in T
    <3> HIDE DEF b
    <3>1. \A i \in 1..Len(b) : b[i] \in T  BY <1>5, ElementOfSeq
    <3>2. QED  BY <1>5, <3>1
  <2>2. offset + 1 \in Int /\ Len(b) \in Int  BY <1>5
  <2>3. left \in Seq(T)
    <3> HIDE DEF b
    <3>1. QED  BY <2>1, <2>2, SubSeqProperties
  <2>4. ASSUME fd[d] = "closed" PROVE left = <<>>
    <3>1. Len(b) = 0
      <4>1. b = <<>>  BY <1>1, <2>4 DEF SessionInv
      <4> HIDE DEF b
      <4>2. QED  BY <4>1
    <3> HIDE DEF b
    <3>2. Len(b) < offset + 1  BY <1>5, <3>1
    <3>3. QED  BY <2>2, <3>2, SubSeqEmpty
  <2>5. QED  BY <2>3, <2>4
<1> HIDE DEF left
<1>10. TypeOK'
  <2>1. buffer' \in [Clients -> Seq(T)]  BY <1>4, <1>6, <1>9
  <2>2. Tail(ready) \in Seq(Clients)  BY <1>1, <1>2, SessionIsClient
  <2>3. QED  BY <1>1, <1>4, <2>1, <2>2 DEF TypeOK, T
<1>11. handled'[d] = So(d, m)' /\ \A i \in 1..m : script'[d][i].kind # "malformed"
  <2>1. So(d, m)' = So(d, m)  BY <1>4 DEF So, Numbers, Places
  <2>2. QED  BY <1>4, <1>8, <2>1 DEF FramedInv
<1>12. FramedInv(d, m)'
  <2>1. CASE fd[d] = "closed"  BY <1>4, <1>11, <2>1 DEF FramedInv
  <2>2. CASE fd[d] # "closed"
    <3> DEFINE B == Bytes(script[d])
               E == Ends(script[d])[m]
               k == kernel[d]
               at == E - Parsed(d)
    <3>1. StreamInv(d, at)  BY <1>8, <2>2 DEF FramedInv
    <3>2. E \in Nat
      <4>1. Ends(script[d]) \in [0..Len(script[d]) -> Nat]  BY <1>1, ScriptFacts, EndsUnfold
      <4>2. QED  BY <4>1
    <3> HIDE DEF at, E, B
    <3>3. at = E - offset  BY <1>7 DEF at
    <3>4. /\ at \in Nat /\ offset <= Len(b)
          /\ at + Len(b) + Len(k) <= sent[d]
          /\ line[d] \in {"none", "open"} => at + Len(b) + Len(k) = sent[d]
          /\ \A i \in 1..Len(b) : b[i] = B[at + i]
          /\ \A i \in 1..Len(k) : k[i] = B[at + Len(b) + i]
      BY <1>7, <3>1 DEF StreamInv, B
    <3>5. Len(left) = Len(b) - offset /\ \A i \in 1..(Len(b) - offset) : left[i] = b[offset + i]
      <4>1. b \in Seq(T) /\ Len(b) \in Nat /\ offset \in Nat /\ offset <= Len(b) /\ Len(b) <= Len(b)
        BY <1>5, <3>4
      <4> HIDE DEF b
      <4>2. QED  BY <4>1, Piece DEF left
    <3>6. E + Len(left) = at + Len(b)
      <4> DEFINE x == Len(b)
                 y == Len(left)
      <4>1. x \in Nat /\ y = x - offset  BY <1>5, <3>5
      <4> HIDE DEF x, y
      <4>2. E + y = at + x  BY <1>5, <3>2, <3>3, <4>1
      <4>3. QED  BY <4>2 DEF x, y
    <3>7. ASSUME NEW i \in 1..Len(left) PROVE left[i] = B[E + i]
      <4> DEFINE x == Len(b)
      <4>1. i \in 1..(x - offset) /\ x \in Nat /\ i \in Int  BY <1>5, <3>5
      <4>2. left[i] = b[offset + i]  BY <3>5, <4>1
      <4> HIDE DEF x
      <4>3. offset + i \in 1..x /\ at + (offset + i) = E + i  BY <1>5, <3>2, <3>3, <4>1
      <4>4. b[offset + i] = B[at + (offset + i)]  BY <3>4, <4>3 DEF x
      <4>5. QED  BY <4>2, <4>3, <4>4
    <3>8. buffer'[d] = left /\ kernel'[d] = k  BY <1>4, <1>6
    <3>9. (Ends(script[d])[m] - Parsed(d))' = E
      <4>1. Ends(script[d])[m]' = E  BY <1>4 DEF Ends, E
      <4>2. E - 0 = E  BY <3>2
      <4>3. QED  BY <1>7, <4>1, <4>2
    <3>10. Bytes(script[d])' = B  BY <1>4 DEF Ends, Bytes, B
    <3>11. Len(left) \in Nat  BY <1>9, LenProperties
    <3>12. StreamInv(d, E)'
      <4>1. E' = E  BY <1>4 DEF E, Ends
      <4>2. E + Len(left) + Len(k) <= sent[d]  BY <3>4, <3>6
      <4>3. line[d] \in {"none", "open"} => E + Len(left) + Len(k) = sent[d]  BY <3>4, <3>6
      <4>4. \A i \in 1..Len(k) : k[i] = B[E + Len(left) + i]  BY <3>4, <3>6
      <4>5. Parsed(d)' <= Len(left)  BY <1>7, <3>11
      <4> HIDE DEF k
      <4>6. QED  BY <1>4, <3>2, <3>7, <3>8, <3>10, <4>1, <4>2, <4>3, <4>4, <4>5 DEF StreamInv
    <3>13. StreamInv(d, Ends(script[d])[m] - Parsed(d))'
      <4>1. E' = E  BY <1>4 DEF E, Ends
      <4>2. QED  BY <3>9, <3>12, <4>1 DEF StreamInv
    <3>14. QED  BY <1>11, <3>13 DEF FramedInv
  <2>3. QED  BY <2>1, <2>2
<1>13. line[d] # "none"
  <2>1. fd[d] # "none"  BY <1>1, <1>2, <1>3, SessionIsClient
  <2>2. QED  BY <1>1, <2>1 DEF SessionInv
<1>14. buffer'[d] = left /\ \A c \in Clients \ {d} : kernel'[c] = kernel[c] /\ buffer'[c] = buffer[c]
  BY <1>4, <1>6
<1>15. fd[d] = "closed" => buffer'[d] = <<>> /\ kernel'[d] = <<>>  BY <1>1, <1>4, <1>9, <1>14 DEF SessionInv
<1>16. QED  BY <1>2, <1>3, <1>4, <1>10, <1>12, <1>13, <1>14, <1>15, OneSession

\* What there is to handle among one message more.
LEMMA SoUnfolds ==
    ASSUME TypeOK, NEW c \in Clients, NEW m \in 0..Len(script[c]), m + 1 \in 1..Len(script[c]),
           \A i \in 1..m : script[c][i].kind # "malformed",
           script[c][m + 1].kind # "malformed"
    PROVE  /\ \A i \in 1..(m + 1) : script[c][i].kind # "malformed"
           /\ So(c, m + 1) = IF script[c][m + 1].kind = "command" THEN Append(So(c, m), m + 1) ELSE So(c, m)
<1>1. Len(script[c]) \in Nat /\ DOMAIN script[c] = 1..Len(script[c])  BY ScriptFacts
<1>2. \A i \in 1..(m + 1) : script[c][i].kind # "malformed"
  <2>1. \A i \in 1..(m + 1) : i \in 1..m \/ i = m + 1  BY <1>1
  <2>2. QED  BY <2>1
<1>3. m + 1 \in Places(c) <=> script[c][m + 1].kind = "command"  BY <1>1, <1>2 DEF Places
<1>4. Numbers(c) \in Seq(Nat) /\ Len(Numbers(c)) = Len(script[c]) /\ Numbers(c)[m + 1] = m + 1
  BY <1>1, IsASeq DEF Numbers
<1>5. So(c, m + 1) = KeptStep(Numbers(c), Places(c), So(c, (m + 1) - 1), m + 1)
  BY <1>4, KeptUnfolds DEF So
<1>6. (m + 1) - 1 = m  BY <1>1
<1>7. QED  BY <1>2, <1>3, <1>4, <1>5, <1>6 DEF KeptStep

\* A whole frame: the server is done with one message more.
LEMMA KeptByFrame == ASSUME ServerInv, SkipEvent \/ Handle PROVE ServerInv'
<1>1. TypeOK /\ SessionInv /\ ClientsInv  BY DEF ServerInv
<1>2. pc = "parse" /\ ready # <<>>  BY <1>1 DEF SkipEvent, Handle, TypeOK
<1>3. PICK d \in Clients : d = session  BY <1>1, <1>2, SessionIsClient
<1>4. PICK m \in 0..Len(script[d]) : FramedInv(d, m)  BY <1>1 DEF ClientsInv
<1>5. /\ UNCHANGED <<script, sent, line, kernel, backlog, conns>>
      /\ UNCHANGED <<fd, buffer, running, stops, pc, ready>>
      /\ offset' = offset + Message.claims
      /\ ParseFrame \in {"event", "command"}
  BY DEF SkipEvent, Handle, clientVars, sessionVars, controlVars
<1>6. ~(Rest < HeaderBytes)  BY <1>5 DEF ParseFrame
<1>7. /\ fd[d] # "closed" /\ m + 1 \in 1..Len(script[d]) /\ First[1] = m + 1 /\ First[2] = 1
      /\ Message = script[d][m + 1] /\ Message \in Messages
  BY <1>1, <1>2, <1>3, <1>4, <1>6, AtFrame
<1>8. ~(Rest < Message.claims) /\ ParseFrame = Message.kind  BY <1>5, <1>6, <1>7 DEF ParseFrame
<1> DEFINE x == script[d][m + 1]
           T == Nat \X Nat
<1>9. x.kind \in {"event", "command"} /\ x.claims = x.bytes /\ x.bytes \in Nat
  <2>1. x \in Messages /\ x.kind \in {"event", "command"}  BY <1>5, <1>7, <1>8
  <2> HIDE DEF x
  <2>2. QED  BY <2>1, ServerAssumption
<1>10. /\ Len(buffer[d]) \in Nat /\ offset \in Nat /\ Len(kernel[d]) \in Nat /\ sent[d] \in Nat
  BY <1>1, SessionTypes
<1>11. offset' = offset + x.bytes /\ offset' \in Nat /\ offset + x.bytes <= Len(buffer[d])
  <2>1. Rest = Len(buffer[d]) - offset  BY <1>3 DEF Rest
  <2>2. ~(Len(buffer[d]) - offset < x.bytes)  BY <1>7, <1>8, <1>9, <2>1
  <2>3. offset' = offset + x.bytes  BY <1>5, <1>7, <1>9
  <2> HIDE DEF x
  <2>4. QED  BY <1>9, <1>10, <2>2, <2>3
<1>12. \A i \in 1..m : script[d][i].kind # "malformed"  BY <1>4 DEF FramedInv
<1>13. handled[d] = So(d, m)  BY <1>4 DEF FramedInv
<1>14. handled \in [Clients -> Seq(Nat)] /\ m + 1 \in Nat
  <2>1. Len(script[d]) \in Nat  BY <1>1, ScriptFacts
  <2>2. QED  BY <1>1, <2>1 DEF TypeOK
<1>15. /\ handled' \in [Clients -> Seq(Nat)]
       /\ handled'[d] = IF x.kind = "command" THEN Append(handled[d], m + 1) ELSE handled[d]
       /\ \A c \in Clients \ {d} : handled'[c] = handled[c]
  <2>1. CASE SkipEvent
    <3>1. handled' = handled /\ x.kind = "event"  BY <1>7, <1>8, <2>1 DEF SkipEvent
    <3>2. QED  BY <1>14, <3>1
  <2>2. CASE Handle
    <3>1. handled' = [handled EXCEPT ![d] = Append(@, m + 1)] /\ x.kind = "command"
      BY <1>3, <1>7, <1>8, <2>2 DEF Handle
    <3>2. handled[d] \in Seq(Nat)  BY <1>14
    <3>3. Append(handled[d], m + 1) \in Seq(Nat)  BY <1>14, <3>2, AppendProperties
    <3>4. QED  BY <1>14, <3>1, <3>3
  <2>3. QED  BY <2>1, <2>2
<1>16. /\ \A i \in 1..(m + 1) : script[d][i].kind # "malformed"
       /\ handled'[d] = So(d, m + 1)
  <2>1. x.kind # "malformed"  BY <1>9
  <2>2. /\ \A i \in 1..(m + 1) : script[d][i].kind # "malformed"
        /\ So(d, m + 1) = IF x.kind = "command" THEN Append(So(d, m), m + 1) ELSE So(d, m)
    BY <1>1, <1>7, <1>12, <2>1, SoUnfolds
  <2> HIDE DEF x
  <2>3. QED  BY <1>13, <1>15, <2>2
<1>17. TypeOK'  BY <1>1, <1>2, <1>5, <1>11, <1>15 DEF TypeOK
<1> DEFINE e == Ends(script[d])
           at == e[m] - Parsed(d)
<1>18. StreamInv(d, at)  BY <1>4, <1>7 DEF FramedInv
<1>19. Parsed(d) = offset /\ Parsed(d)' = offset'  BY <1>2, <1>3, <1>5 DEF Parsed, session
<1>20. e[m + 1] = e[m] + x.bytes /\ e[m] \in Nat /\ e[m + 1] \in Nat
  <2>1. /\ script[d] \in Seq(Messages) /\ Len(script[d]) \in Nat  BY <1>1, ScriptFacts
  <2>2. e \in [0..Len(script[d]) -> Nat] /\ \A i \in 1..Len(script[d]) : e[i] = e[i - 1] + script[d][i].bytes
    BY <2>1, EndsUnfold
  <2>3. (m + 1) - 1 = m /\ m + 1 \in 0..Len(script[d])  BY <1>7, <2>1
  <2> HIDE DEF e
  <2>4. QED  BY <1>7, <2>2, <2>3
<1>21. (e[m + 1] - Parsed(d))' = at
  <2>1. e' = e  BY <1>5 DEF Ends
  <2> HIDE DEF e, x
  <2>2. (e[m] + x.bytes) - (offset + x.bytes) = e[m] - offset  BY <1>9, <1>10, <1>20
  <2>3. QED  BY <1>11, <1>19, <1>20, <2>1, <2>2
<1>22. FramedInv(d, m + 1)'
  <2> DEFINE B == Bytes(script[d])
  <2>1. B' = B  BY <1>5 DEF Bytes, Ends
  <2>2. So(d, m + 1)' = So(d, m + 1)  BY <1>5 DEF So, Numbers, Places
  <2>3. ASSUME NEW s, s = at PROVE StreamInv(d, s)'
    <3>1. /\ s \in Nat
          /\ s + Len(buffer[d]) + Len(kernel[d]) <= sent[d]
          /\ line[d] \in {"none", "open"} => s + Len(buffer[d]) + Len(kernel[d]) = sent[d]
          /\ \A i \in 1..Len(buffer[d]) : buffer[d][i] = B[s + i]
          /\ \A i \in 1..Len(kernel[d]) : kernel[d][i] = B[s + Len(buffer[d]) + i]
      <4>1. StreamInv(d, s)  BY <1>18, <2>3
      <4>2. QED  BY <4>1 DEF StreamInv
    <3>2. Parsed(d)' <= Len(buffer[d])  BY <1>11, <1>19
    <3> HIDE DEF B
    <3>3. Bytes(script[d])' = B  BY <2>1 DEF B
    <3>4. QED  BY <1>5, <3>1, <3>2, <3>3 DEF StreamInv
  <2>4. PICK s : s = at  OBVIOUS
  <2>5. StreamInv(d, s)'  BY <2>3, <2>4
  <2>6. StreamInv(d, Ends(script[d])[m + 1] - Parsed(d))'  BY <1>21, <2>4, <2>5 DEF StreamInv
  <2>7. \A i \in 1..(m + 1) : script'[d][i].kind # "malformed"  BY <1>5, <1>16
  <2>8. QED  BY <1>16, <2>2, <2>6, <2>7 DEF FramedInv
<1>23. line[d] # "none"
  <2>1. fd[d] # "none"  BY <1>1, <1>2, <1>3, SessionIsClient
  <2>2. QED  BY <1>1, <2>1 DEF SessionInv
<1>24. m + 1 \in 0..Len(script[d])
  <2>1. Len(script[d]) \in Nat  BY <1>1, ScriptFacts
  <2>2. QED  BY <1>7, <2>1
<1> HIDE DEF x, e, at
<1>25. /\ ready' = ready /\ line'[d] # "none" /\ (line'[d] = "open" => line[d] = "open")
       /\ \A c \in Clients \ {d} : /\ line'[c] = line[c] /\ handled'[c] = handled[c]
                                   /\ kernel'[c] = kernel[c] /\ buffer'[c] = buffer[c]
       /\ UNCHANGED <<script, sent, backlog, conns, fd, running, stops>>
       /\ pc \in {"drain", "parse"} /\ pc' \in {"drain", "parse"}
  BY <1>2, <1>5, <1>15, <1>23
<1>26. QED  BY <1>2, <1>3, <1>7, <1>17, <1>22, <1>24, <1>25, OneSession

\* Nothing of the server changes.
LEMMA KeptByOthers ==
    ASSUME ServerInv, UNCHANGED <<clientVars, kernel, sessionVars, buffer, controlVars, pc, ready, offset, handled>>
    PROVE  ServerInv'
<1>1. TypeOK /\ SessionInv  BY DEF ServerInv
<1>2. /\ UNCHANGED <<script, sent, line, kernel, buffer, offset, handled>>
      /\ UNCHANGED <<backlog, conns, fd, running, stops, pc, ready>>
  BY DEF clientVars, sessionVars, controlVars
<1>3. TypeOK' /\ SessionInv'  BY <1>1, <1>2 DEF TypeOK, SessionInv
<1>4. stops' \in Nat /\ stops' >= stops  BY <1>1, <1>2, ServerAssumption DEF TypeOK
<1>5. ClientsInv' /\ DroppedForReason'  BY <1>2, <1>4, SameStreams
<1>6. QED  BY <1>3, <1>5 DEF ServerInv

-----------------------------------------------------------------------------
(***************************************************************************)
(* The theorems.                                                           *)
(***************************************************************************)
\* Every step keeps the invariant of the server and that of the ingress.
LEMMA EveryStepKeeps ==
    ASSUME ServerInv, TablesInv, RingInv, [Next]_vars
    PROVE  ServerInv' /\ TablesInv' /\ RingInv'
<1>1. CASE Handle
  <2>1. Ingest(Message.symbol)  BY <1>1 DEF Handle
  <2>2. QED  BY <1>1, <2>1, KeptByFrame, IngestKeeps
<1>2. CASE Feed
  <2>1. Deliver  BY <1>2 DEF Feed
  <2>2. ServerInv'
    <3>1. UNCHANGED <<clientVars, kernel, sessionVars, buffer, controlVars, pc, ready, offset, handled>>
      BY <1>2 DEF Feed
    <3>2. QED  BY <3>1, KeptByOthers
  <2>3. QED  BY <2>1, <2>2, DeliverKeeps
<1>3. ASSUME gatewayVars' = gatewayVars PROVE TablesInv' /\ RingInv'
  <2>1. UNCHANGED <<next, ring, names, ids, delivered>>  BY <1>3 DEF gatewayVars
  <2>2. QED  BY <2>1 DEF TablesInv, RingInv
<1>4. CASE Start \/ Stop \/ RunEnds
  BY <1>3, <1>4, KeptByControl DEF Start, Stop, RunEnds
<1>5. CASE Poll \/ Accept \/ EraseClosed
  BY <1>3, <1>5, KeptByRound DEF Poll, Accept, EraseClosed
<1>6. CASE Join  BY <1>3, <1>6, KeptByJoin DEF Join
<1>7. CASE RecvEof \/ ParseBad  BY <1>3, <1>7, KeptByEnd DEF RecvEof, ParseBad, Drop
<1>8. CASE RecvData  BY <1>3, <1>8, KeptByRecvData DEF RecvData
<1>9. CASE RecvNothing  BY <1>3, <1>9, KeptByRecvNothing DEF RecvNothing
<1>10. CASE ParseShort  BY <1>3, <1>10, KeptByParseShort DEF ParseShort
<1>11. CASE SkipEvent  BY <1>3, <1>11, KeptByFrame DEF SkipEvent
<1>12. ASSUME NEW c \in Clients, Client(c) PROVE ServerInv' /\ TablesInv' /\ RingInv'
  <2>1. CASE Connect(c) \/ CloseClient(c) \/ ResetClient(c)
    BY <1>3, <2>1, KeptByClient DEF Connect, CloseClient, ResetClient
  <2>2. ASSUME NEW n \in 1..Len(Bytes(script[c])), Send(c, n) PROVE ServerInv' /\ TablesInv' /\ RingInv'
    BY <1>3, <2>2, KeptBySend DEF Send
  <2>3. QED  BY <1>12, <2>1, <2>2 DEF Client
<1>13. CASE UNCHANGED vars
  <2>1. gatewayVars' = gatewayVars
        /\ UNCHANGED <<clientVars, kernel, sessionVars, buffer, controlVars, pc, ready, offset, handled>>
    BY <1>13 DEF vars, clientVars, sessionVars, controlVars
  <2>2. QED  BY <1>3, <2>1, KeptByOthers
<1>14. QED
  BY <1>1, <1>2, <1>4, <1>5, <1>6, <1>7, <1>8, <1>9, <1>10, <1>11, <1>12, <1>13 DEF Next, IoThread

\* The invariant of every reachable state.
THEOREM Invariance == Spec => [](ServerInv /\ TablesInv /\ RingInv)
<1>1. Init => ServerInv /\ TablesInv /\ RingInv  BY ServerInit, IngressInit DEF Init
<1>2. ServerInv /\ TablesInv /\ RingInv /\ [Next]_vars => (ServerInv /\ TablesInv /\ RingInv)'
  BY EveryStepKeeps
<1>3. QED  BY <1>1, <1>2, PTL DEF Spec

\* Descriptors, buffers and lists have their types, and the offset of
\* drain_connection() is only used while it parses.
THEOREM TypeCorrect == Spec => []TypeOK
<1>1. ServerInv => TypeOK  BY DEF ServerInv
<1>2. QED  BY <1>1, Invariance, PTL

\* The handler gets the commands of each session in the order sent, none twice
\* and none behind a malformed frame, however the bytes of all sessions are cut,
\* interleaved, reset or dropped by stop().
THEOREM HandledInOrder == Spec => []HandledAsMeant
<1>1. ServerInv => HandledAsMeant
  <2>1. SUFFICES ASSUME ServerInv, NEW c \in Clients PROVE IsPrefix(handled[c], Meant(c))
    BY DEF HandledAsMeant
  <2>2. PICK m \in 0..Len(script[c]) : FramedInv(c, m)  BY <2>1 DEF ServerInv, ClientsInv
  <2>3. handled[c] = So(c, m)  BY <2>2 DEF FramedInv
  <2>4. Len(script[c]) \in Nat  BY <2>1, ScriptFacts DEF ServerInv
  <2>5. Numbers(c) \in Seq(Nat) /\ Len(Numbers(c)) = Len(script[c])  BY <2>4, IsASeq DEF Numbers
  <2>6. Meant(c) = Kept(Numbers(c), Places(c))  BY DEF Meant, Numbers, Places
  <2>7. IsPrefix(So(c, m), Kept(Numbers(c), Places(c)))  BY <2>5, KeptPrefix DEF So
  <2>8. QED  BY <2>3, <2>6, <2>7
<1>2. QED  BY <1>1, Invariance, PTL

\* The server closes a session only after its client did, after stop(), or
\* for a malformed message of its own: never for what another session does.
THEOREM ReasonForDrop == Spec => []DroppedForReason
<1>1. ServerInv => DroppedForReason  BY DEF ServerInv
<1>2. QED  BY <1>1, Invariance, PTL

\* Ingress numbers leave the ring in order, the ring holds the latest ones
\* without a gap within its capacity, and ids and names are inverse to each other.
THEOREM IngressStaysSound == Spec => []IngressSound
<1>1. QED  BY IngressFollows, Invariance, PTL

-----------------------------------------------------------------------------
(***************************************************************************)
(* Numbers as bytes.                                                       *)
(***************************************************************************)
\* The powers exist up to every bound.
LEMMA PowersUpTo ==
    ASSUME NEW n \in Nat
    PROVE  \E f \in [0..n -> Nat \ {0}] : f[0] = 1 /\ \A i \in 1..n : f[i] = 256 * f[i - 1]
<1> DEFINE V == Nat \ {0}
           F == [i \in 1..n |-> [x \in V |-> 256 * x]]
<1>1. F \in Steps(n, V) /\ 1 \in V  BY DEF Steps
<1>2. PICK f \in [0..n -> V] : Takes(f, n, 1, F)
  <2> HIDE DEF V, F
  <2>1. QED  BY <1>1, BoundedRecursion
<1>3. ASSUME NEW i \in 1..n PROVE f[i] = 256 * f[i - 1]
  <2>1. f[i - 1] \in V /\ f[i] = F[i][f[i - 1]]  BY <1>2 DEF Takes
  <2>2. QED  BY <2>1
<1>4. QED  BY <1>2, <1>3 DEF Takes

\* The recursive definition of Power has a solution, so Power is one.
LEMMA PowerUnfolds ==
    /\ Power[0] = 1
    /\ \A n \in Nat : Power[n] \in Nat \ {0} /\ Power[n + 1] = 256 * Power[n]
<1> DEFINE V == Nat \ {0}
           R(n, f) == f[0] = 1 /\ \A i \in 1..n : f[i] = 256 * f[i - 1]
           g == [n \in Nat |-> CHOOSE f \in [0..n -> V] : R(n, f)]
           p == [n \in Nat |-> g[n][n]]
<1>1. ASSUME NEW n \in Nat PROVE g[n] \in [0..n -> V] /\ R(n, g[n])
  <2>1. \E f \in [0..n -> V] : R(n, f)  BY PowersUpTo
  <2> HIDE DEF R, V
  <2>2. QED  BY <2>1
<1> HIDE DEF g
<1>2. ASSUME NEW n \in Nat PROVE g[n + 1][n] = g[n][n]
  <2> DEFINE a == g[n]
             c == g[n + 1]
             E == {i \in Nat : a[i] = c[i]}
  <2>1. R(n, a) /\ R(n + 1, c)
    <3>1. n + 1 \in Nat  OBVIOUS
    <3> HIDE DEF R
    <3>2. QED  BY <1>1, <3>1
  <2> HIDE DEF a, c
  <2>2. 0 \in E  BY <2>1
  <2>3. ASSUME NEW i \in 0..(n - 1), i \in E PROVE i + 1 \in E
    <3>1. i + 1 \in 1..n /\ i + 1 \in 1..(n + 1) /\ (i + 1) - 1 = i /\ a[i] = c[i]  BY <2>3
    <3>2. a[i + 1] = 256 * a[i] /\ c[i + 1] = 256 * c[i]  BY <2>1, <3>1
    <3>3. QED  BY <3>1, <3>2
  <2>4. n \in E
    <3> HIDE DEF E
    <3>1. \A i \in 0..n : i \in E  BY <2>2, <2>3, BoundedInduction
    <3>2. QED  BY <3>1
  <2>5. QED  BY <2>4 DEF a, c
<1>3. p[0] = 1 /\ \A n \in Nat : p[n] \in V /\ p[n + 1] = 256 * p[n]
  <2>1. p[0] = 1  BY <1>1
  <2>2. ASSUME NEW n \in Nat PROVE p[n] \in V /\ p[n + 1] = 256 * p[n]
    <3>1. n + 1 \in Nat /\ n + 1 \in 1..(n + 1) /\ (n + 1) - 1 = n /\ n \in 0..n  OBVIOUS
    <3>2. R(n + 1, g[n + 1])  BY <1>1, <3>1
    <3>3. g[n + 1][n + 1] = 256 * g[n + 1][n]  BY <3>1, <3>2
    <3>4. g[n] \in [0..n -> V]  BY <1>1
    <3>5. g[n][n] \in V  BY <3>1, <3>4
    <3>6. p[n] = g[n][n] /\ p[n + 1] = g[n + 1][n + 1]  BY <3>1
    <3>7. QED  BY <1>2, <3>3, <3>5, <3>6
  <2>3. QED  BY <2>1, <2>2
<1>4. p = [n \in Nat |-> IF n = 0 THEN 1 ELSE 256 * p[n - 1]]
  <2>1. ASSUME NEW n \in Nat PROVE p[n] = IF n = 0 THEN 1 ELSE 256 * p[n - 1]
    <3> HIDE DEF p
    <3>1. CASE n = 0  BY <1>3, <3>1
    <3>2. CASE n # 0
      <4>1. n - 1 \in Nat /\ (n - 1) + 1 = n  BY <3>2
      <4>2. QED  BY <1>3, <3>2, <4>1
    <3>3. QED  BY <3>1, <3>2
  <2>2. p = [n \in Nat |-> p[n]]  OBVIOUS
  <2> HIDE DEF p
  <2>3. QED  BY <2>1, <2>2
<1> HIDE DEF p
<1> DEFINE Solves(f) == f = [n \in Nat |-> IF n = 0 THEN 1 ELSE 256 * f[n - 1]]
           k == Power
<1>5. k = CHOOSE f : Solves(f)  BY DEF Power
<1> HIDE DEF k
<1>6. Solves(k)
  <2>1. Solves(p)  BY <1>4
  <2> HIDE DEF Solves
  <2>2. QED  BY <1>5, <2>1
<1>7. ASSUME NEW n \in Nat PROVE k[n] = p[n]
  <2> DEFINE E == {i \in Nat : k[i] = p[i]}
  <2>1. 0 \in E  BY <1>3, <1>6
  <2>2. ASSUME NEW i \in 0..(n - 1), i \in E PROVE i + 1 \in E
    <3>1. i + 1 \in Nat /\ i + 1 # 0 /\ (i + 1) - 1 = i /\ k[i] = p[i] /\ i \in Nat  BY <2>2
    <3>2. k[i + 1] = 256 * k[i]  BY <1>6, <3>1
    <3>3. p[i + 1] = 256 * p[i]  BY <1>3, <3>1
    <3>4. QED  BY <3>1, <3>2, <3>3
  <2>3. \A i \in 0..n : i \in E
    <3> HIDE DEF E
    <3>1. QED  BY <2>1, <2>2, BoundedInduction
  <2>4. QED  BY <2>3
<1>8. \A n \in Nat : k[n] = p[n] /\ k[n + 1] = p[n + 1]  BY <1>7
<1>9. QED  BY <1>3, <1>7, <1>8 DEF k

\* Shifting by one byte more is shifting once more by one byte.
LEMMA ShiftByte ==
    ASSUME NEW v \in Int, NEW k \in Nat
    PROVE  v \div Power[k + 1] = (v \div Power[k]) \div 256
<1> DEFINE m == Power[k]
           q == v \div m
           r == v % m
           d == q \div 256
           e == q % 256
<1>1. m \in Nat \ {0} /\ Power[k + 1] = 256 * m  BY PowerUnfolds
<1> HIDE DEF m
<1>2. q \in Int /\ r \in 0..(m - 1) /\ v = m * q + r  BY <1>1, DivMod
<1> HIDE DEF q, r
<1>3. d \in Int /\ e \in 0..255 /\ q = 256 * d + e  BY <1>2, DivMod
<1> HIDE DEF d, e
<1>4. v = (256 * m) * d + (m * e + r)
  <2>1. m * q = m * (256 * d) + m * e  BY <1>1, <1>2, <1>3
  <2>2. m * (256 * d) = (256 * m) * d  BY <1>1, <1>3
  <2>3. m * (256 * d) \in Int /\ m * e \in Int  BY <1>1, <1>3
  <2>4. QED  BY <1>2, <2>1, <2>2, <2>3
<1>5. m * e + r \in 0..(256 * m - 1)
  <2>1. m * e <= m * 255 /\ 0 <= m * e  BY <1>1, <1>3
  <2>2. m * e \in Int  BY <1>1, <1>3
  <2>3. QED  BY <1>1, <1>2, <2>1, <2>2
<1>6. 256 * m \in Nat \ {0}  BY <1>1
<1>7. ((256 * m) * d + (m * e + r)) \div (256 * m) = d  BY <1>3, <1>5, <1>6, DivUnique
<1>8. QED  BY <1>1, <1>4, <1>7 DEF d, q, m

\* put_u32() and its like write n bytes.
LEMMA PutType ==
    ASSUME NEW n \in Nat, NEW v \in Int
    PROVE  /\ Put(n, v) \in Seq(Byte) /\ Len(Put(n, v)) = n
           /\ \A i \in 1..n : Put(n, v)[i] = (v \div Power[n - i]) % 256
<1>1. ASSUME NEW i \in 1..n PROVE (v \div Power[n - i]) % 256 \in Byte
  <2>1. n - i \in Nat  OBVIOUS
  <2>2. Power[n - i] \in Nat \ {0}  BY <2>1, PowerUnfolds
  <2>3. v \div Power[n - i] \in Int  BY <2>2, DivMod
  <2> DEFINE x == v \div Power[n - i]
  <2> HIDE DEF x
  <2>4. x \in Int  BY <2>3 DEF x
  <2>5. x % 256 \in 0..255  BY <2>4
  <2>6. QED  BY <2>5 DEF Byte, x
<1> DEFINE s == [i \in 1..n |-> (v \div Power[n - i]) % 256]
<1>2. s \in [1..n -> Byte]  BY <1>1
<1>3. s \in Seq(Byte) /\ Len(s) = n
  <2> HIDE DEF s
  <2>1. s \in Seq(Byte)  BY <1>2
  <2>2. QED  BY <1>2, <2>1
<1>4. QED  BY <1>3 DEF Put

\* The number that get_u32() and its like have read after each byte.
ReadsAs(f, buf, at, n) ==
    /\ f[0] = 0
    /\ \A i \in 1..n : f[i] = 256 * f[i - 1] + buf[at + i]
    /\ Get(buf, at, n) = f[n]

\* They take one byte after the other.
LEMMA GetUnfolds ==
    ASSUME NEW n \in Nat, NEW at \in Nat, NEW buf, \A i \in 1..n : buf[at + i] \in Byte
    PROVE  \E f \in [0..n -> Nat] : ReadsAs(f, buf, at, n)
<1> DEFINE F == [i \in 1..n |-> [x \in Nat |-> 256 * x + buf[at + i]]]
<1>1. ASSUME NEW i \in 1..n PROVE buf[at + i] \in Nat  BY DEF Byte
<1>2. F \in Steps(n, Nat) /\ 0 \in Nat  BY <1>1 DEF Steps
<1>3. PICK f \in [0..n -> Nat] : Takes(f, n, 0, F)
  <2> HIDE DEF F
  <2>1. QED  BY <1>2, BoundedRecursion
<1>4. f[0] = 0 /\ \A i \in 1..n : f[i] = 256 * f[i - 1] + buf[at + i]
  <2>1. f[0] = 0 /\ \A i \in 1..n : f[i] = F[i][f[i - 1]]
    <3> HIDE DEF F
    <3>1. QED  BY <1>3 DEF Takes
  <2>2. ASSUME NEW i \in 1..n PROVE f[i] = 256 * f[i - 1] + buf[at + i]
    <3>1. f[i - 1] \in Nat /\ f[i] = F[i][f[i - 1]]
      <4> HIDE DEF F
      <4>1. i - 1 \in 0..n  OBVIOUS
      <4>2. QED  BY <1>3, <2>1, <4>1
    <3>2. QED  BY <3>1
  <2>3. QED  BY <2>1, <2>2
<1> HIDE DEF F
<1> DEFINE Solves(v) == v = [i \in 0..n |-> IF i = 0 THEN 0 ELSE 256 * v[i - 1] + buf[at + i]]
           k == CHOOSE v : Solves(v)
<1>5. Solves(f)
  <2>1. ASSUME NEW i \in 0..n PROVE f[i] = IF i = 0 THEN 0 ELSE 256 * f[i - 1] + buf[at + i]
    <3>1. CASE i = 0  BY <1>4, <3>1
    <3>2. CASE i # 0
      <4>1. i \in 1..n  BY <3>2
      <4>2. QED  BY <1>4, <4>1
    <3>3. QED  BY <3>1, <3>2
  <2>2. QED  BY <2>1
<1>6. Get(buf, at, n) = k[n]  BY DEF Get
<1>7. Solves(k)
  <2> HIDE DEF Solves
  <2>1. QED  BY <1>5
<1> HIDE DEF k
<1>8. k[n] = f[n]
  <2> DEFINE E == {i \in Nat : k[i] = f[i]}
  <2>1. 0 \in E  BY <1>4, <1>7
  <2>2. ASSUME NEW i \in 0..(n - 1), i \in E PROVE i + 1 \in E
    <3>1. /\ i + 1 \in 1..n /\ i + 1 \in 0..n /\ i + 1 # 0
          /\ (i + 1) - 1 = i /\ k[i] = f[i] /\ i \in Nat
      BY <2>2
    <3>2. k[i + 1] = 256 * k[i] + buf[at + (i + 1)]  BY <1>7, <3>1
    <3>3. f[i + 1] = 256 * f[i] + buf[at + (i + 1)]  BY <1>4, <3>1
    <3>4. QED  BY <3>1, <3>2, <3>3
  <2>3. n \in E
    <3> HIDE DEF E
    <3>1. \A i \in 0..n : i \in E  BY <2>1, <2>2, BoundedInduction
    <3>2. QED  BY <3>1
  <2>4. QED  BY <2>3
<1>9. QED  BY <1>4, <1>6, <1>8 DEF ReadsAs

\* What is read of the n bytes of a number is its remainder: nothing but what
\* does not fit is lost.
LEMMA GetPut ==
    ASSUME NEW n \in Nat, NEW at \in Nat, NEW v \in Int, NEW buf,
           \A i \in 1..n : buf[at + i] = Put(n, v)[i]
    PROVE  Get(buf, at, n) = v % Power[n]
<1> DEFINE H(i) == v \div Power[n - i]
<1>1. ASSUME NEW i \in 0..n PROVE H(i) \in Int /\ Power[i] \in Nat \ {0}
  <2>1. n - i \in Nat /\ i \in Nat  OBVIOUS
  <2>2. Power[n - i] \in Nat \ {0} /\ Power[i] \in Nat \ {0}  BY <2>1, PowerUnfolds
  <2>3. QED  BY <2>2, DivMod
<1>2. ASSUME NEW i \in 1..n PROVE buf[at + i] = H(i) % 256 /\ buf[at + i] \in Byte
  <2>1. Put(n, v) \in Seq(Byte) /\ Len(Put(n, v)) = n  BY PutType
  <2>2. buf[at + i] = Put(n, v)[i] /\ Put(n, v)[i] = H(i) % 256  BY PutType
  <2>3. Put(n, v)[i] \in Byte  BY <2>1, ElementOfSeq
  <2>4. QED  BY <2>2, <2>3
<1>f. PICK f \in [0..n -> Nat] : ReadsAs(f, buf, at, n)
  <2>1. \A i \in 1..n : buf[at + i] \in Byte  BY <1>2
  <2>2. QED  BY <2>1, GetUnfolds
<1>3. /\ f \in [0..n -> Nat] /\ f[0] = 0
      /\ \A i \in 1..n : f[i] = 256 * f[i - 1] + buf[at + i]
      /\ Get(buf, at, n) = f[n]
  BY <1>f DEF ReadsAs
<1> DEFINE E == {i \in Nat : f[i] = H(i) - Power[i] * H(0)}
<1>4. 0 \in E
  <2>1. Power[0] = 1 /\ n - 0 = n /\ H(0) \in Int  BY <1>1, PowerUnfolds
  <2> DEFINE h == H(0)
  <2>2. h - 1 * h = 0  BY <2>1
  <2>3. f[0] = H(0) - Power[0] * H(0)
    <3> HIDE DEF h
    <3>1. f[0] = h - Power[0] * h  BY <1>3, <2>1, <2>2
    <3>2. QED  BY <3>1 DEF h
  <2>4. QED  BY <2>3
<1>5. ASSUME NEW i \in 0..(n - 1), i \in E PROVE i + 1 \in E
  <2> DEFINE a == H(i + 1)
             c == H(i)
             h == H(0)
             p == Power[i]
             x == f[i]
  <2>1. i + 1 \in 1..n /\ i + 1 \in 0..n /\ i \in 0..n /\ (i + 1) - 1 = i /\ 0 \in 0..n
    OBVIOUS
  <2>2. a \in Int /\ c \in Int /\ h \in Int /\ p \in Nat /\ x \in Nat  BY <1>1, <2>1
  <2>3. c = a \div 256
    <3>1. n - (i + 1) \in Nat /\ (n - (i + 1)) + 1 = n - i  OBVIOUS
    <3>2. v \div Power[(n - (i + 1)) + 1] = (v \div Power[n - (i + 1)]) \div 256
      BY <3>1, ShiftByte
    <3>3. QED  BY <3>1, <3>2
  <2>4. f[i + 1] = 256 * x + (a % 256)
    <3>1. buf[at + (i + 1)] = a % 256  BY <1>2, <2>1
    <3>2. f[i + 1] = 256 * f[(i + 1) - 1] + buf[at + (i + 1)]  BY <1>3, <2>1
    <3>3. QED  BY <2>1, <3>1, <3>2
  <2>5. x = c - p * h  BY <1>5
  <2>6. Power[i + 1] = 256 * p  BY PowerUnfolds
  <2> HIDE DEF a, c, h, p, x
  <2>7. a = 256 * c + (a % 256) /\ a % 256 \in Int  BY <2>2, <2>3
  <2>8. 256 * x = 256 * c - (256 * p) * h
    <3>1. p * h \in Int  BY <2>2
    <3>2. 256 * (p * h) = (256 * p) * h  BY <2>2
    <3>3. QED  BY <2>2, <2>5, <3>1, <3>2
  <2>9. f[i + 1] = a - (256 * p) * h
    <3>1. (256 * p) * h \in Int /\ 256 * c \in Int /\ 256 * x \in Int  BY <2>2
    <3>2. QED  BY <2>2, <2>4, <2>7, <2>8, <3>1
  <2>10. f[i + 1] = H(i + 1) - Power[i + 1] * H(0)  BY <2>6, <2>9 DEF a, h
  <2>11. QED  BY <2>10
<1>6. n \in E
  <2> HIDE DEF E
  <2>1. \A i \in 0..n : i \in E  BY <1>4, <1>5, BoundedInduction
  <2>2. QED  BY <2>1
<1>7. Get(buf, at, n) = H(n) - Power[n] * H(0)  BY <1>3, <1>6
<1>8. H(n) = v
  <2>1. n - n = 0 /\ Power[0] = 1  BY PowerUnfolds
  <2>2. v \div 1 = v
    <3>1. 1 \in Nat \ {0} /\ 0 \in 0..(1 - 1)  OBVIOUS
    <3>2. (1 * v + 0) \div 1 = v  BY <3>1, DivUnique
    <3>3. QED  BY <3>2
  <2>3. QED  BY <2>1, <2>2
<1> DEFINE m == Power[n]
           q == v \div m
<1>9. m \in Nat \ {0} /\ H(0) = q /\ Get(buf, at, n) = v - m * q
  <2>1. n - 0 = n  OBVIOUS
  <2>2. QED  BY <1>7, <1>8, <2>1, PowerUnfolds
<1>10. q \in Int /\ v = m * q + (v % m) /\ v % m \in Int
  <2>1. m \in Nat \ {0}  BY <1>9
  <2> HIDE DEF m
  <2>2. QED  BY <2>1, DivMod
<1>11. QED
  <2>1. m \in Int  BY <1>9
  <2>2. Get(buf, at, n) = v - m * q  BY <1>9
  <2> HIDE DEF m, q
  <2>3. m * q \in Int  BY <1>10, <2>1
  <2>4. Get(buf, at, n) = v % m  BY <1>10, <2>2, <2>3
  <2>5. QED  BY <2>4 DEF m

\* A number that fits its field is read as it was written.
LEMMA GetField ==
    ASSUME NEW n \in Nat, NEW at \in Nat, NEW v \in 0..(Power[n] - 1), NEW buf,
           \A i \in 1..n : buf[at + i] = Put(n, v)[i]
    PROVE  Get(buf, at, n) = v
<1>1. Power[n] \in Nat \ {0}  BY PowerUnfolds
<1>2. v \in Int  BY <1>1
<1>3. Get(buf, at, n) = v % Power[n]  BY <1>2, GetPut
<1>4. v % Power[n] = v  BY <1>1, ModSmall
<1>5. QED  BY <1>3, <1>4

\* So is a signed number, negative or not.
LEMMA GetSigned ==
    ASSUME NEW buf, NEW at \in Nat, NEW i \in Nat, NEW v \in Int64,
           \A j \in 1..WordBytes : buf[(at + WordBytes * i) + j] = Put64(v)[j]
    PROVE  Get64(buf, at, i) = v
<1> DEFINE n == WordBytes
           m == Power[n]
           b == at + n * i
<1>1. n \in Nat /\ b \in Nat  BY ProtocolAssumption
<1>2. m \in Nat \ {0}  BY <1>1, PowerUnfolds
<1>3. v \in Int /\ -m <= 2 * v /\ 2 * v < m  BY DEF Int64
<1> DEFINE g == Get(buf, b, n)
<1>4. g = v % m
  <2>1. \A j \in 1..n : buf[b + j] = Put(n, v)[j]  BY DEF Put64
  <2> HIDE DEF b, n
  <2>2. QED  BY <1>1, <1>3, <2>1, GetPut
<1>5. Get64(buf, at, i) = IF 2 * g < m THEN g ELSE g - m  BY DEF Get64
<1> HIDE DEF m, g
<1>6. CASE v >= 0
  <2>1. v \in 0..(m - 1)  BY <1>2, <1>3, <1>6
  <2>2. g = v  BY <1>2, <1>4, <2>1, ModSmall
  <2>3. QED  BY <1>3, <1>5, <2>2
<1>7. CASE v < 0
  <2>1. v + m \in 0..(m - 1)  BY <1>2, <1>3, <1>7
  <2>2. (m * (-1) + (v + m)) % m = v + m  BY <1>2, <2>1, ModUnique
  <2>3. m * (-1) + (v + m) = v  BY <1>2, <1>3
  <2>4. g = v + m  BY <1>4, <2>2, <2>3
  <2>5. ~(2 * g < m) /\ g - m = v  BY <1>2, <1>3, <2>4
  <2>6. QED  BY <1>5, <2>5
<1>8. QED  BY <1>3, <1>6, <1>7

-----------------------------------------------------------------------------
(***************************************************************************)
(* Pieces of a buffer.                                                     *)
(***************************************************************************)
\* The piece stands in the buffer, from this offset on.
At(buf, at, piece) ==
    /\ at + Len(piece) <= Len(buf)
    /\ \A i \in 1..Len(piece) : buf[at + i] = piece[i]

\* Every string stands in itself.
LEMMA AtStart ==
    ASSUME NEW s \in Seq(Byte)
    PROVE  At(s, 0, s)
<1>1. Len(s) \in Nat  BY LenProperties
<1>2. \A i \in 1..Len(s) : 0 + i = i  BY <1>1
<1>3. QED  BY <1>1, <1>2 DEF At

\* Where two pieces stand end to end, each stands.
LEMMA AtBoth ==
    ASSUME NEW buf \in Seq(Byte), NEW at \in Nat, NEW s \in Seq(Byte), NEW t \in Seq(Byte),
           At(buf, at, s \o t)
    PROVE  At(buf, at, s) /\ At(buf, at + Len(s), t)
<1> DEFINE m == Len(s)
           n == Len(t)
           u == s \o t
<1>1. m \in Nat /\ n \in Nat /\ Len(buf) \in Nat  BY LenProperties
<1>2. /\ Len(u) = m + n
      /\ \A i \in 1..(m + n) : u[i] = IF i <= m THEN s[i] ELSE t[i - m]
  BY ConcatProperties
<1> HIDE DEF m, n, u
<1>3. at + (m + n) <= Len(buf) /\ \A i \in 1..(m + n) : buf[at + i] = u[i]  BY <1>2 DEF At, u
<1>4. ASSUME NEW i \in 1..m PROVE buf[at + i] = s[i]
  <2>1. i \in 1..(m + n) /\ i <= m  BY <1>1
  <2>2. QED  BY <1>2, <1>3, <2>1
<1>5. ASSUME NEW i \in 1..n PROVE buf[(at + m) + i] = t[i]
  <2>1. m + i \in 1..(m + n) /\ ~(m + i <= m) /\ (m + i) - m = i  BY <1>1
  <2>2. at + (m + i) = (at + m) + i  BY <1>1
  <2>3. buf[at + (m + i)] = u[m + i] /\ u[m + i] = t[(m + i) - m]  BY <1>2, <1>3, <2>1
  <2>4. QED  BY <2>1, <2>2, <2>3
<1>6. at + m <= Len(buf) /\ (at + m) + n <= Len(buf)  BY <1>1, <1>3
<1>7. QED  BY <1>4, <1>5, <1>6 DEF At, m, n

\* substr() finds a piece that stands there.
LEMMA AtSubstr ==
    ASSUME NEW buf \in Seq(Byte), NEW at \in Nat, NEW piece \in Seq(Byte), At(buf, at, piece)
    PROVE  Substr(buf, at, Len(piece)) = piece
<1> DEFINE n == Len(piece)
           u == SubSeq(buf, at + 1, at + n)
<1>1. n \in Nat /\ Len(buf) \in Nat  BY LenProperties
<1>2. at + n <= Len(buf) /\ \A i \in 1..n : buf[at + i] = piece[i]  BY DEF At
<1> HIDE DEF n
<1>3. \A i \in (at + 1)..(at + n) : buf[i] \in Byte
  <2>1. \A i \in (at + 1)..(at + n) : i \in 1..Len(buf)  BY <1>1, <1>2
  <2>2. QED  BY <2>1, ElementOfSeq
<1>4. /\ u \in Seq(Byte)
      /\ Len(u) = IF at + 1 <= at + n THEN (at + n) - (at + 1) + 1 ELSE 0
      /\ \A i \in 1..((at + n) - (at + 1) + 1) : u[i] = buf[(at + 1) + i - 1]
  <2>1. at + 1 \in Int /\ at + n \in Int  BY <1>1
  <2>2. QED  BY <1>3, <2>1, SubSeqProperties
<1> HIDE DEF u
<1>5. Len(u) = n  BY <1>1, <1>4
<1>6. ASSUME NEW i \in 1..n PROVE u[i] = piece[i]
  <2>1. i \in 1..((at + n) - (at + 1) + 1) /\ (at + 1) + i - 1 = at + i  BY <1>1
  <2>2. u[i] = buf[at + i]  BY <1>4, <2>1
  <2>3. QED  BY <1>2, <2>2
<1>7. u = piece  BY <1>4, <1>5, <1>6, SeqEqual DEF n
<1>8. QED  BY <1>7 DEF Substr, u, n

\* A piece that has arrived stands in what has arrived.
LEMMA AtCut ==
    ASSUME NEW buf \in Seq(Byte), NEW at \in Nat, NEW piece \in Seq(Byte), At(buf, at, piece),
           NEW c \in Nat, c <= Len(buf), at + Len(piece) <= c
    PROVE  /\ SubSeq(buf, 1, c) \in Seq(Byte) /\ Len(SubSeq(buf, 1, c)) = c
           /\ At(SubSeq(buf, 1, c), at, piece)
<1> DEFINE n == Len(piece)
           u == SubSeq(buf, 1, c)
<1>1. n \in Nat /\ Len(buf) \in Nat  BY LenProperties
<1>2. \A i \in 1..n : buf[at + i] = piece[i]  BY DEF At
<1>3. \A i \in 1..c : buf[i] \in Byte
  <2>1. \A i \in 1..c : i \in 1..Len(buf)  BY <1>1
  <2>2. QED  BY <2>1, ElementOfSeq
<1>4. /\ u \in Seq(Byte)
      /\ Len(u) = IF 1 <= c THEN c - 1 + 1 ELSE 0
      /\ \A i \in 1..(c - 1 + 1) : u[i] = buf[1 + i - 1]
  BY <1>3, SubSeqProperties
<1> HIDE DEF n, u
<1>5. Len(u) = c  BY <1>4
<1>6. ASSUME NEW i \in 1..n PROVE u[at + i] = piece[i]
  <2>1. at + i \in 1..(c - 1 + 1) /\ 1 + (at + i) - 1 = at + i  BY <1>1 DEF n
  <2>2. u[at + i] = buf[at + i]  BY <1>4, <2>1
  <2>3. QED  BY <1>2, <2>2
<1>7. at + n <= Len(u)  BY <1>5 DEF n
<1>8. QED  BY <1>4, <1>5, <1>6, <1>7 DEF At, u, n

\* A field that stands there is read.
LEMMA FieldAt ==
    ASSUME NEW n \in Nat, NEW at \in Nat, NEW v \in 0..(Power[n] - 1), NEW buf,
           At(buf, at, Put(n, v))
    PROVE  Get(buf, at, n) = v
<1>1. Power[n] \in Nat \ {0}  BY PowerUnfolds
<1>2. v \in Int  BY <1>1
<1>3. Len(Put(n, v)) = n  BY <1>2, PutType
<1>4. \A i \in 1..n : buf[at + i] = Put(n, v)[i]  BY <1>3 DEF At
<1>5. QED  BY <1>4, GetField

\* So is a signed number.
LEMMA WordAt ==
    ASSUME NEW buf, NEW at \in Nat, NEW i \in Nat, NEW v \in Int64,
           NEW b, b = at + WordBytes * i, At(buf, b, Put64(v))
    PROVE  Get64(buf, at, i) = v
<1>1. WordBytes \in Nat /\ v \in Int  BY ProtocolAssumption DEF Int64
<1>2. Len(Put64(v)) = WordBytes  BY <1>1, PutType DEF Put64
<1>3. \A j \in 1..WordBytes : buf[(at + WordBytes * i) + j] = Put64(v)[j]  BY <1>2 DEF At
<1>4. QED  BY <1>3, GetSigned

-----------------------------------------------------------------------------
(***************************************************************************)
(* Payloads.                                                               *)
(***************************************************************************)
\* Every time in force has a code of its own, which is known.
LEMMA TifCoded ==
    ASSUME NEW t \in DOMAIN TifCode
    PROVE  /\ TifCode[t] \in Byte
           /\ Known(TifCode, TifCode[t]) /\ NameOf(TifCode, TifCode[t]) = t
<1>1. DOMAIN TifCode = {"GTC", "IOC", "FOK", "MARKET"}  BY DEF TifCode
<1>2. \A u \in DOMAIN TifCode : TifCode[u] = TifCode[t] => u = t  BY <1>1 DEF TifCode
<1>3. Known(TifCode, TifCode[t])  BY DEF Known
<1>4. NameOf(TifCode, TifCode[t]) = t  BY <1>2 DEF NameOf
<1>5. TifCode[t] \in Byte  BY <1>1 DEF TifCode, Byte
<1>6. QED  BY <1>3, <1>4, <1>5

\* So has every kind of self-trade prevention.
LEMMA StpCoded ==
    ASSUME NEW t \in DOMAIN StpCode
    PROVE  /\ StpCode[t] \in Byte
           /\ Known(StpCode, StpCode[t]) /\ NameOf(StpCode, StpCode[t]) = t
<1>1. DOMAIN StpCode = {"None", "CancelAggressor", "CancelPassive", "CancelBoth"}  BY DEF StpCode
<1>2. \A u \in DOMAIN StpCode : StpCode[u] = StpCode[t] => u = t  BY <1>1 DEF StpCode
<1>3. Known(StpCode, StpCode[t])  BY DEF Known
<1>4. NameOf(StpCode, StpCode[t]) = t  BY <1>2 DEF NameOf
<1>5. StpCode[t] \in Byte  BY <1>1 DEF StpCode, Byte
<1>6. QED  BY <1>3, <1>4, <1>5

\* What a name and a number are on the wire.
LEMMA FieldTypes ==
    /\ WordBytes \in Nat
    /\ \A s \in Name : s \in Seq(Byte) /\ Len(s) \in Byte
    /\ \A v \in Int64 : Put64(v) \in Seq(Byte) /\ Len(Put64(v)) = WordBytes
<1>1. WordBytes \in Nat  BY ProtocolAssumption
<1>2. ASSUME NEW s \in Name PROVE s \in Seq(Byte) /\ Len(s) \in Byte
  <2>1. s \in Seq(Byte) /\ Len(s) <= 255  BY DEF Name
  <2>2. Len(s) \in Nat  BY <2>1, LenProperties
  <2> DEFINE n == Len(s)
  <2>3. n \in Nat /\ n <= 255  BY <2>1, <2>2
  <2> HIDE DEF n
  <2>4. n \in Byte  BY <2>3 DEF Byte
  <2>5. QED  BY <2>1, <2>4 DEF n
<1>3. ASSUME NEW v \in Int64 PROVE Put64(v) \in Seq(Byte) /\ Len(Put64(v)) = WordBytes
  <2>1. v \in Int  BY DEF Int64
  <2>2. QED  BY <1>1, <2>1, PutType DEF Put64
<1>4. QED  BY <1>1, <1>2, <1>3

\* What pack_add_order() writes, and that unpack_add_order() reads it.
LEMMA AddSurvives ==
    ASSUME NEW c \in AddOrder
    PROVE  /\ PackAdd(c) \in Seq(Byte)
           /\ Len(PackAdd(c)) = 5 + 3 * WordBytes + Len(c.symbol) + Len(c.participant)
           /\ Len(PackAdd(c)) <= MaxAddPayload => UnpackAdd(PackAdd(c)) = c
<1> DEFINE W == WordBytes
           side == IF c.side = "Buy" THEN 1 ELSE 2
           H == <<Len(c.symbol), Len(c.participant), side, TifCode[c.tif], StpCode[c.stp]>>
           w1 == Put64(c.order_id)
           w2 == Put64(c.price)
           w3 == Put64(c.quantity)
           sy == c.symbol
           pa == c.participant
           a1 == H \o w1
           a2 == a1 \o w2
           a3 == a2 \o w3
           a4 == a3 \o sy
           buf == a4 \o pa
<1>1. /\ c.type = "Add" /\ sy \in Name /\ pa \in Name /\ c.side \in {"Buy", "Sell"}
      /\ c.tif \in DOMAIN TifCode /\ c.stp \in DOMAIN StpCode
      /\ c.order_id \in Int64 /\ c.price \in Int64 /\ c.quantity \in Int64
  BY DEF AddOrder
<1>2. c = [type |-> "Add", symbol |-> sy, participant |-> pa, side |-> c.side, tif |-> c.tif,
           stp |-> c.stp, order_id |-> c.order_id, price |-> c.price, quantity |-> c.quantity]
  BY DEF AddOrder
<1>3. W \in Nat /\ sy \in Seq(Byte) /\ pa \in Seq(Byte) /\ Len(sy) \in Byte /\ Len(pa) \in Byte
  BY <1>1, FieldTypes
<1>4. /\ w1 \in Seq(Byte) /\ Len(w1) = W /\ w2 \in Seq(Byte) /\ Len(w2) = W
      /\ w3 \in Seq(Byte) /\ Len(w3) = W
  BY <1>1, FieldTypes
<1>5. H \in Seq(Byte) /\ Len(H) = 5
  <2>1. side \in Byte  BY DEF Byte
  <2>2. TifCode[c.tif] \in Byte /\ StpCode[c.stp] \in Byte  BY <1>1, TifCoded, StpCoded
  <2> HIDE DEF side
  <2>3. QED  BY <1>3, <2>1, <2>2
<1>6. PackAdd(c) = buf  BY DEF PackAdd
<1>7. H[1] = Len(sy) /\ H[2] = Len(pa) /\ H[3] = side /\ H[4] = TifCode[c.tif]
      /\ H[5] = StpCode[c.stp]
  OBVIOUS
<1> HIDE DEF H, w1, w2, w3, W
<1>8. /\ Len(sy) \in Nat /\ Len(pa) \in Nat /\ 3 * W \in Nat /\ 2 * W \in Nat
  <2> HIDE DEF sy, pa
  <2>1. QED  BY <1>3 DEF Byte
<1>9. a1 \in Seq(Byte) /\ Len(a1) = 5 + W
  <2>1. a1 \in Seq(Byte) /\ Len(a1) = Len(H) + Len(w1)  BY <1>4, <1>5, ConcatProperties
  <2> HIDE DEF a1
  <2>2. QED  BY <1>3, <1>4, <1>5, <1>8, <1>4, <1>5, <2>1
<1> HIDE DEF a1
<1>10. a2 \in Seq(Byte) /\ Len(a2) = 5 + 2 * W
  <2>1. a2 \in Seq(Byte) /\ Len(a2) = Len(a1) + Len(w2)  BY <1>4, <1>9, ConcatProperties
  <2> HIDE DEF a2
  <2>2. QED  BY <1>3, <1>4, <1>5, <1>8, <1>4, <1>9, <2>1
<1> HIDE DEF a2
<1>11. a3 \in Seq(Byte) /\ Len(a3) = 5 + 3 * W
  <2>1. a3 \in Seq(Byte) /\ Len(a3) = Len(a2) + Len(w3)  BY <1>4, <1>10, ConcatProperties
  <2> HIDE DEF a3
  <2>2. QED  BY <1>3, <1>4, <1>5, <1>8, <1>4, <1>10, <2>1
<1> HIDE DEF a3
<1>12. a4 \in Seq(Byte) /\ Len(a4) = 5 + 3 * W + Len(sy)
  <2>1. a4 \in Seq(Byte) /\ Len(a4) = Len(a3) + Len(sy)  BY <1>3, <1>11, ConcatProperties
  <2> HIDE DEF a4
  <2>2. QED  BY <1>3, <1>4, <1>5, <1>8, <1>3, <1>11, <2>1
<1> HIDE DEF a4
<1>13. buf \in Seq(Byte) /\ Len(buf) = 5 + 3 * W + Len(sy) + Len(pa)
  <2>1. buf \in Seq(Byte) /\ Len(buf) = Len(a4) + Len(pa)  BY <1>3, <1>12, ConcatProperties
  <2> HIDE DEF buf
  <2>2. QED  BY <1>8, <1>12, <2>1
<1>14. At(buf, 0, a4) /\ At(buf, 5 + 3 * W + Len(sy), pa)
  <2>1. At(buf, 0, buf)  BY <1>13, AtStart
  <2>2. At(buf, 0 + Len(a4), pa) /\ At(buf, 0, a4)  BY <1>3, <1>12, <1>13, <2>1, AtBoth
  <2>3. 0 + Len(a4) = 5 + 3 * W + Len(sy)  BY <1>8, <1>12
  <2>4. QED  BY <2>2, <2>3
<1> HIDE DEF buf
<1>15. At(buf, 0, a3) /\ At(buf, 5 + 3 * W, sy)
  <2>1. At(buf, 0, a3) /\ At(buf, 0 + Len(a3), sy)
    BY <1>3, <1>11, <1>13, <1>14, AtBoth DEF a4
  <2>2. 0 + Len(a3) = 5 + 3 * W  BY <1>8, <1>11
  <2>3. QED  BY <2>1, <2>2
<1>16. At(buf, 0, a2) /\ At(buf, 5 + 2 * W, w3)
  <2>1. At(buf, 0, a2) /\ At(buf, 0 + Len(a2), w3)
    BY <1>4, <1>10, <1>13, <1>15, AtBoth DEF a3
  <2>2. 0 + Len(a2) = 5 + 2 * W  BY <1>8, <1>10
  <2>3. QED  BY <2>1, <2>2
<1>17. At(buf, 0, a1) /\ At(buf, 5 + W, w2)
  <2>1. At(buf, 0, a1) /\ At(buf, 0 + Len(a1), w2)
    BY <1>4, <1>9, <1>13, <1>16, AtBoth DEF a2
  <2>2. 0 + Len(a1) = 5 + W  BY <1>3, <1>9
  <2>3. QED  BY <2>1, <2>2
<1>18. At(buf, 0, H) /\ At(buf, 5, w1)
  <2>1. At(buf, 0, H) /\ At(buf, 0 + Len(H), w1)
    BY <1>4, <1>5, <1>13, <1>17, AtBoth DEF a1
  <2>2. 0 + Len(H) = 5  BY <1>5
  <2>3. QED  BY <2>1, <2>2
<1>19. buf[1] = Len(sy) /\ buf[2] = Len(pa) /\ buf[3] = side /\ buf[4] = TifCode[c.tif]
       /\ buf[5] = StpCode[c.stp]
  <2>1. \A i \in 1..5 : buf[0 + i] = H[i]  BY <1>5, <1>18 DEF At
  <2>2. buf[1] = H[1] /\ buf[2] = H[2] /\ buf[3] = H[3] /\ buf[4] = H[4] /\ buf[5] = H[5]
    BY <2>1
  <2> HIDE DEF side
  <2>3. QED  BY <1>7, <2>2
<1>20. /\ Get64(buf, 5, 0) = c.order_id /\ Get64(buf, 5, 1) = c.price
       /\ Get64(buf, 5, 2) = c.quantity
  <2>1. 5 = 5 + W * 0 /\ 5 + W = 5 + W * 1 /\ 5 + 2 * W = 5 + W * 2  BY <1>3
  <2>2. At(buf, 5 + W, w2) /\ At(buf, 5 + 2 * W, w3) /\ At(buf, 5, w1)
    BY <1>16, <1>17, <1>18
  <2>3. Get64(buf, 5, 0) = c.order_id  BY <1>1, <2>1, <2>2, WordAt DEF w1, W
  <2>4. Get64(buf, 5, 1) = c.price  BY <1>1, <2>1, <2>2, WordAt DEF w2, W
  <2>5. Get64(buf, 5, 2) = c.quantity  BY <1>1, <2>1, <2>2, WordAt DEF w3, W
  <2>6. QED  BY <2>3, <2>4, <2>5
<1>21. /\ Substr(buf, 5 + 3 * W, Len(sy)) = sy
       /\ Substr(buf, 5 + 3 * W + Len(sy), Len(pa)) = pa
  <2>1. 5 + 3 * W \in Nat /\ 5 + 3 * W + Len(sy) \in Nat  BY <1>8
  <2>2. QED  BY <1>3, <1>13, <1>14, <1>15, <2>1, AtSubstr
<1>22. (IF buf[3] = 1 THEN "Buy" ELSE "Sell") = c.side
  BY <1>1, <1>19
<1>23. ASSUME Len(buf) <= MaxAddPayload PROVE UnpackAdd(buf) = c
  <2>1. /\ ~(Len(buf) < 5 + 3 * W) /\ ~(Len(buf) > MaxAddPayload)
        /\ ~(Len(buf) < 5 + 3 * W + buf[1] + buf[2])
    <3>1. buf[1] \in Nat /\ buf[2] \in Nat /\ Len(buf) = 5 + 3 * W + buf[1] + buf[2]
      BY <1>8, <1>13, <1>19
    <3>2. Len(buf) \in Nat /\ W \in Nat /\ MaxAddPayload \in Nat
      <4>1. W \in Nat /\ MaxAddPayload \in Nat  BY <1>3, ProtocolAssumption
      <4> HIDE DEF buf
      <4>2. Len(buf) \in Nat  BY <1>13, LenProperties
      <4>3. QED  BY <4>1, <4>2
    <3>3. ~(Len(buf) > MaxAddPayload)  BY <1>23, <3>2
    <3>4. QED  BY <3>1, <3>2, <3>3
  <2>2. /\ Known(TifCode, buf[4]) /\ NameOf(TifCode, buf[4]) = c.tif
        /\ Known(StpCode, buf[5]) /\ NameOf(StpCode, buf[5]) = c.stp
    BY <1>1, <1>19, TifCoded, StpCoded
  <2>3. UnpackAdd(buf) =
          [type |-> "Add",
           symbol |-> Substr(buf, 5 + 3 * W, buf[1]),
           participant |-> Substr(buf, 5 + 3 * W + buf[1], buf[2]),
           side |-> IF buf[3] = 1 THEN "Buy" ELSE "Sell",
           tif |-> NameOf(TifCode, buf[4]), stp |-> NameOf(StpCode, buf[5]),
           order_id |-> Get64(buf, 5, 0), price |-> Get64(buf, 5, 1),
           quantity |-> Get64(buf, 5, 2)]
    BY <2>1, <2>2 DEF UnpackAdd, W
  <2>4. UnpackAdd(buf) =
          [type |-> "Add", symbol |-> sy, participant |-> pa, side |-> c.side, tif |-> c.tif,
           stp |-> c.stp, order_id |-> c.order_id, price |-> c.price, quantity |-> c.quantity]
    BY <1>19, <1>20, <1>21, <1>22, <2>2, <2>3
  <2>5. QED  BY <1>2, <2>4
<1>24. QED  BY <1>6, <1>13, <1>23 DEF W

\* The same of pack_cancel_order() and unpack_cancel_order().
LEMMA CancelSurvives ==
    ASSUME NEW c \in CancelOrder
    PROVE  /\ PackCancel(c) \in Seq(Byte)
           /\ Len(PackCancel(c)) = 1 + WordBytes + Len(c.symbol)
           /\ UnpackCancel(PackCancel(c)) = c
<1> DEFINE W == WordBytes
           H == <<Len(c.symbol)>>
           w1 == Put64(c.order_id)
           sy == c.symbol
           a1 == H \o w1
           buf == a1 \o sy
<1>1. c.type = "Cancel" /\ sy \in Name /\ c.order_id \in Int64  BY DEF CancelOrder
<1>2. c = [type |-> "Cancel", symbol |-> sy, order_id |-> c.order_id]  BY DEF CancelOrder
<1>3. W \in Nat /\ sy \in Seq(Byte) /\ Len(sy) \in Byte /\ w1 \in Seq(Byte) /\ Len(w1) = W
  BY <1>1, FieldTypes
<1>4. H \in Seq(Byte) /\ Len(H) = 1 /\ H[1] = Len(sy)  BY <1>3
<1>5. PackCancel(c) = buf  BY DEF PackCancel
<1> HIDE DEF H, w1, W
<1>6. Len(sy) \in Nat
  <2> HIDE DEF sy
  <2>1. QED  BY <1>3 DEF Byte
<1>7. a1 \in Seq(Byte) /\ Len(a1) = 1 + W
  <2>1. a1 \in Seq(Byte) /\ Len(a1) = Len(H) + Len(w1)  BY <1>3, <1>4, ConcatProperties
  <2> HIDE DEF a1
  <2>2. QED  BY <1>3, <1>4, <2>1
<1> HIDE DEF a1
<1>8. buf \in Seq(Byte) /\ Len(buf) = 1 + W + Len(sy)
  <2>1. buf \in Seq(Byte) /\ Len(buf) = Len(a1) + Len(sy)  BY <1>3, <1>7, ConcatProperties
  <2> HIDE DEF buf
  <2>2. QED  BY <1>6, <1>7, <2>1
<1>9. At(buf, 0, a1) /\ At(buf, 1 + W, sy)
  <2>1. At(buf, 0, buf)  BY <1>8, AtStart
  <2>2. At(buf, 0, a1) /\ At(buf, 0 + Len(a1), sy)  BY <1>3, <1>7, <1>8, <2>1, AtBoth
  <2>3. 0 + Len(a1) = 1 + W  BY <1>3, <1>7
  <2>4. QED  BY <2>2, <2>3
<1> HIDE DEF buf
<1>10. At(buf, 0, H) /\ At(buf, 1, w1)
  <2>1. At(buf, 0, H) /\ At(buf, 0 + Len(H), w1)  BY <1>3, <1>4, <1>8, <1>9, AtBoth DEF a1
  <2>2. 0 + Len(H) = 1  BY <1>4
  <2>3. QED  BY <2>1, <2>2
<1>11. buf[1] = Len(sy)
  <2>1. \A i \in 1..1 : buf[0 + i] = H[i]  BY <1>4, <1>10 DEF At
  <2>2. buf[1] = H[1]  BY <2>1
  <2>3. QED  BY <1>4, <2>2
<1>12. Get64(buf, 1, 0) = c.order_id
  <2>1. 1 = 1 + W * 0  BY <1>3
  <2>2. QED  BY <1>1, <1>10, <2>1, WordAt DEF w1, W
<1>13. Substr(buf, 1 + W, Len(sy)) = sy
  <2>1. 1 + W \in Nat  BY <1>3
  <2>2. QED  BY <1>3, <1>8, <1>9, <2>1, AtSubstr
<1>14. UnpackCancel(buf) = c
  <2>1. ~(Len(buf) < 1 + W) /\ ~(Len(buf) < 1 + W + buf[1])
    <3> DEFINE n == Len(buf)
               m == Len(sy)
    <3>1. n = 1 + W + m /\ W \in Nat /\ m \in Nat /\ buf[1] = m  BY <1>3, <1>6, <1>8, <1>11
    <3> HIDE DEF n, m
    <3>2. ~(n < 1 + W) /\ ~(n < 1 + W + m)  BY <3>1
    <3>3. QED  BY <3>1, <3>2 DEF n
  <2>2. UnpackCancel(buf) = [type |-> "Cancel", order_id |-> Get64(buf, 1, 0),
                             symbol |-> Substr(buf, 1 + W, buf[1])]
    BY <2>1 DEF UnpackCancel, W
  <2>3. UnpackCancel(buf) = [type |-> "Cancel", symbol |-> sy, order_id |-> c.order_id]
    BY <1>11, <1>12, <1>13, <2>2
  <2>4. QED  BY <1>2, <2>3
<1>15. QED  BY <1>5, <1>8, <1>14 DEF W

\* The same of pack_replace_order() and unpack_replace_order().
LEMMA ReplaceSurvives ==
    ASSUME NEW c \in ReplaceOrder
    PROVE  /\ PackReplace(c) \in Seq(Byte)
           /\ Len(PackReplace(c)) = 2 + 4 * WordBytes + Len(c.symbol)
           /\ UnpackReplace(PackReplace(c)) = c
<1> DEFINE W == WordBytes
           H == <<Len(c.symbol), TifCode[c.tif]>>
           w1 == Put64(c.order_id)
           w2 == Put64(c.new_order_id)
           w3 == Put64(c.new_price)
           w4 == Put64(c.new_quantity)
           sy == c.symbol
           a1 == H \o w1
           a2 == a1 \o w2
           a3 == a2 \o w3
           a4 == a3 \o w4
           buf == a4 \o sy
<1>1. /\ c.type = "Replace" /\ sy \in Name /\ c.tif \in DOMAIN TifCode
      /\ c.order_id \in Int64 /\ c.new_order_id \in Int64
      /\ c.new_price \in Int64 /\ c.new_quantity \in Int64
  BY DEF ReplaceOrder
<1>2. c = [type |-> "Replace", symbol |-> sy, tif |-> c.tif, order_id |-> c.order_id,
           new_order_id |-> c.new_order_id, new_price |-> c.new_price,
           new_quantity |-> c.new_quantity]
  BY DEF ReplaceOrder
<1>3. W \in Nat /\ sy \in Seq(Byte) /\ Len(sy) \in Byte  BY <1>1, FieldTypes
<1>4. /\ w1 \in Seq(Byte) /\ Len(w1) = W /\ w2 \in Seq(Byte) /\ Len(w2) = W
      /\ w3 \in Seq(Byte) /\ Len(w3) = W /\ w4 \in Seq(Byte) /\ Len(w4) = W
  BY <1>1, FieldTypes
<1>5. H \in Seq(Byte) /\ Len(H) = 2 /\ H[1] = Len(sy) /\ H[2] = TifCode[c.tif]
  <2>1. TifCode[c.tif] \in Byte  BY <1>1, TifCoded
  <2>2. QED  BY <1>3, <2>1
<1>6. PackReplace(c) = buf  BY DEF PackReplace
<1> HIDE DEF H, w1, w2, w3, w4, W
<1>7. Len(sy) \in Nat /\ 2 * W \in Nat /\ 3 * W \in Nat /\ 4 * W \in Nat
  <2> HIDE DEF sy
  <2>1. QED  BY <1>3 DEF Byte
<1>8. a1 \in Seq(Byte) /\ Len(a1) = 2 + W
  <2>1. a1 \in Seq(Byte) /\ Len(a1) = Len(H) + Len(w1)  BY <1>4, <1>5, ConcatProperties
  <2> HIDE DEF a1
  <2>2. QED  BY <1>3, <1>4, <1>5, <2>1
<1> HIDE DEF a1
<1>9. a2 \in Seq(Byte) /\ Len(a2) = 2 + 2 * W
  <2>1. a2 \in Seq(Byte) /\ Len(a2) = Len(a1) + Len(w2)  BY <1>4, <1>8, ConcatProperties
  <2> HIDE DEF a2
  <2>2. QED  BY <1>3, <1>4, <1>8, <2>1
<1> HIDE DEF a2
<1>10. a3 \in Seq(Byte) /\ Len(a3) = 2 + 3 * W
  <2>1. a3 \in Seq(Byte) /\ Len(a3) = Len(a2) + Len(w3)  BY <1>4, <1>9, ConcatProperties
  <2> HIDE DEF a3
  <2>2. QED  BY <1>3, <1>4, <1>9, <2>1
<1> HIDE DEF a3
<1>11. a4 \in Seq(Byte) /\ Len(a4) = 2 + 4 * W
  <2>1. a4 \in Seq(Byte) /\ Len(a4) = Len(a3) + Len(w4)  BY <1>4, <1>10, ConcatProperties
  <2> HIDE DEF a4
  <2>2. QED  BY <1>3, <1>4, <1>10, <2>1
<1> HIDE DEF a4
<1>12. buf \in Seq(Byte) /\ Len(buf) = 2 + 4 * W + Len(sy)
  <2>1. buf \in Seq(Byte) /\ Len(buf) = Len(a4) + Len(sy)  BY <1>3, <1>11, ConcatProperties
  <2> HIDE DEF buf
  <2>2. QED  BY <1>7, <1>11, <2>1
<1>13. At(buf, 0, a4) /\ At(buf, 2 + 4 * W, sy)
  <2>1. At(buf, 0, buf)  BY <1>12, AtStart
  <2>2. At(buf, 0, a4) /\ At(buf, 0 + Len(a4), sy)  BY <1>3, <1>11, <1>12, <2>1, AtBoth
  <2>3. 0 + Len(a4) = 2 + 4 * W  BY <1>7, <1>11
  <2>4. QED  BY <2>2, <2>3
<1> HIDE DEF buf
<1>14. At(buf, 0, a3) /\ At(buf, 2 + 3 * W, w4)
  <2>1. At(buf, 0, a3) /\ At(buf, 0 + Len(a3), w4)
    BY <1>4, <1>10, <1>12, <1>13, AtBoth DEF a4
  <2>2. 0 + Len(a3) = 2 + 3 * W  BY <1>7, <1>10
  <2>3. QED  BY <2>1, <2>2
<1>15. At(buf, 0, a2) /\ At(buf, 2 + 2 * W, w3)
  <2>1. At(buf, 0, a2) /\ At(buf, 0 + Len(a2), w3)
    BY <1>4, <1>9, <1>12, <1>14, AtBoth DEF a3
  <2>2. 0 + Len(a2) = 2 + 2 * W  BY <1>7, <1>9
  <2>3. QED  BY <2>1, <2>2
<1>16. At(buf, 0, a1) /\ At(buf, 2 + W, w2)
  <2>1. At(buf, 0, a1) /\ At(buf, 0 + Len(a1), w2)
    BY <1>4, <1>8, <1>12, <1>15, AtBoth DEF a2
  <2>2. 0 + Len(a1) = 2 + W  BY <1>3, <1>8
  <2>3. QED  BY <2>1, <2>2
<1>17. At(buf, 0, H) /\ At(buf, 2, w1)
  <2>1. At(buf, 0, H) /\ At(buf, 0 + Len(H), w1)
    BY <1>4, <1>5, <1>12, <1>16, AtBoth DEF a1
  <2>2. 0 + Len(H) = 2  BY <1>5
  <2>3. QED  BY <2>1, <2>2
<1>18. buf[1] = Len(sy) /\ buf[2] = TifCode[c.tif]
  <2>1. \A i \in 1..2 : buf[0 + i] = H[i]  BY <1>5, <1>17 DEF At
  <2>2. buf[1] = H[1] /\ buf[2] = H[2]  BY <2>1
  <2>3. QED  BY <1>5, <2>2
<1>19. /\ Get64(buf, 2, 0) = c.order_id /\ Get64(buf, 2, 1) = c.new_order_id
       /\ Get64(buf, 2, 2) = c.new_price /\ Get64(buf, 2, 3) = c.new_quantity
  <2>1. /\ 2 = 2 + W * 0 /\ 2 + W = 2 + W * 1 /\ 2 + 2 * W = 2 + W * 2
        /\ 2 + 3 * W = 2 + W * 3
    BY <1>3
  <2>2. Get64(buf, 2, 0) = c.order_id  BY <1>1, <1>17, <2>1, WordAt DEF w1, W
  <2>3. Get64(buf, 2, 1) = c.new_order_id  BY <1>1, <1>16, <2>1, WordAt DEF w2, W
  <2>4. Get64(buf, 2, 2) = c.new_price  BY <1>1, <1>15, <2>1, WordAt DEF w3, W
  <2>5. Get64(buf, 2, 3) = c.new_quantity  BY <1>1, <1>14, <2>1, WordAt DEF w4, W
  <2>6. QED  BY <2>2, <2>3, <2>4, <2>5
<1>20. Substr(buf, 2 + 4 * W, Len(sy)) = sy
  <2>1. 2 + 4 * W \in Nat  BY <1>7
  <2>2. QED  BY <1>3, <1>12, <1>13, <2>1, AtSubstr
<1>21. UnpackReplace(buf) = c
  <2>1. ~(Len(buf) < 2 + 4 * W) /\ ~(Len(buf) < 2 + 4 * W + buf[1])  BY <1>7, <1>12, <1>18
  <2>2. Known(TifCode, buf[2]) /\ NameOf(TifCode, buf[2]) = c.tif  BY <1>1, <1>18, TifCoded
  <2>3. UnpackReplace(buf) =
          [type |-> "Replace", tif |-> NameOf(TifCode, buf[2]),
           order_id |-> Get64(buf, 2, 0), new_order_id |-> Get64(buf, 2, 1),
           new_price |-> Get64(buf, 2, 2), new_quantity |-> Get64(buf, 2, 3),
           symbol |-> Substr(buf, 2 + 4 * W, buf[1])]
    BY <2>1, <2>2 DEF UnpackReplace, W
  <2>4. UnpackReplace(buf) =
          [type |-> "Replace", symbol |-> sy, tif |-> c.tif, order_id |-> c.order_id,
           new_order_id |-> c.new_order_id, new_price |-> c.new_price,
           new_quantity |-> c.new_quantity]
    BY <1>18, <1>19, <1>20, <2>2, <2>3
  <2>5. QED  BY <1>2, <2>4
<1>22. QED  BY <1>6, <1>12, <1>21 DEF W

\* decode_command() gives back the command whose payload it is given.
LEMMA CommandSurvives ==
    ASSUME NEW c \in Sendable
    PROVE  /\ c.type \in {"Add", "Cancel", "Replace"}
           /\ Payload(c) \in Seq(Byte) /\ Len(Payload(c)) \in 0..(Power[LengthBytes] - 1)
           /\ DecodeCommand(MessageType[c.type], Payload(c)) = c
<1>1. c \in Command /\ Len(Payload(c)) < Power[LengthBytes]
      /\ (c.type = "Add" => Len(Payload(c)) <= MaxAddPayload)
  BY DEF Sendable
<1>2. /\ MessageType["Add"] = 1 /\ MessageType["Cancel"] = 2 /\ MessageType["Replace"] = 3
      /\ MessageType.Add = 1 /\ MessageType.Cancel = 2 /\ MessageType.Replace = 3
  BY DEF MessageType
<1>3. LengthBytes \in Nat /\ Power[LengthBytes] \in Nat  BY ProtocolAssumption, PowerUnfolds
<1>4. /\ c.type \in {"Add", "Cancel", "Replace"} /\ Payload(c) \in Seq(Byte)
      /\ DecodeCommand(MessageType[c.type], Payload(c)) = c
  <2>1. CASE c \in AddOrder
    <3>1. c.type = "Add"  BY <2>1 DEF AddOrder
    <3>2. Payload(c) = PackAdd(c)  BY <3>1 DEF Payload
    <3>3. PackAdd(c) \in Seq(Byte) /\ UnpackAdd(PackAdd(c)) = c
      BY <1>1, <2>1, <3>1, <3>2, AddSurvives
    <3>4. DecodeCommand(1, PackAdd(c)) = UnpackAdd(PackAdd(c))  BY <1>2 DEF DecodeCommand
    <3>5. QED  BY <1>2, <3>1, <3>2, <3>3, <3>4
  <2>2. CASE c \in CancelOrder
    <3>1. c.type = "Cancel"  BY <2>2 DEF CancelOrder
    <3>2. Payload(c) = PackCancel(c)  BY <3>1 DEF Payload
    <3>3. PackCancel(c) \in Seq(Byte) /\ UnpackCancel(PackCancel(c)) = c
      BY <2>2, CancelSurvives
    <3>4. DecodeCommand(2, PackCancel(c)) = UnpackCancel(PackCancel(c))
      BY <1>2 DEF DecodeCommand
    <3>5. QED  BY <1>2, <3>1, <3>2, <3>3, <3>4
  <2>3. CASE c \in ReplaceOrder
    <3>1. c.type = "Replace"  BY <2>3 DEF ReplaceOrder
    <3>2. Payload(c) = PackReplace(c)  BY <3>1 DEF Payload
    <3>3. PackReplace(c) \in Seq(Byte) /\ UnpackReplace(PackReplace(c)) = c
      BY <2>3, ReplaceSurvives
    <3>4. DecodeCommand(3, PackReplace(c)) = UnpackReplace(PackReplace(c))
      BY <1>2 DEF DecodeCommand
    <3>5. QED  BY <1>2, <3>1, <3>2, <3>3, <3>4
  <2>4. QED  BY <1>1, <2>1, <2>2, <2>3 DEF Command
<1>5. Len(Payload(c)) \in Nat  BY <1>4, LenProperties
<1>6. QED  BY <1>1, <1>3, <1>4, <1>5

-----------------------------------------------------------------------------
(***************************************************************************)
(* Frames.                                                                 *)
(***************************************************************************)
\* A frame with a payload and some checksum, its own or not.
FrameOf(t, body, x) ==
    ((<<t>> \o Put(LengthBytes, Len(body))) \o body) \o Put(LengthBytes, x)

\* Its parts, and where they stand.
LEMMA FrameParts ==
    ASSUME NEW t \in Byte, NEW body \in Seq(Byte), NEW x \in Int
    PROVE  /\ FrameOf(t, body, x) \in Seq(Byte)
           /\ Len(FrameOf(t, body, x)) = 1 + 2 * LengthBytes + Len(body)
           /\ \A data \in Seq(Byte), at \in Nat :
                At(data, at, FrameOf(t, body, x)) =>
                    /\ data[at + 1] = t
                    /\ At(data, at + 1, Put(LengthBytes, Len(body)))
                    /\ At(data, at + 1 + LengthBytes, body)
                    /\ At(data, at + 1 + LengthBytes + Len(body), Put(LengthBytes, x))
<1> DEFINE L == LengthBytes
           n == Len(body)
           h == <<t>>
           w == Put(L, n)
           z == Put(L, x)
           a1 == h \o w
           a2 == a1 \o body
           f == a2 \o z
<1>1. L \in Nat /\ n \in Nat  BY LenProperties, ProtocolAssumption
<1>2. w \in Seq(Byte) /\ Len(w) = L /\ z \in Seq(Byte) /\ Len(z) = L
  <2> HIDE DEF L, n
  <2>1. n \in Int  BY <1>1
  <2>2. QED  BY <1>1, <2>1, PutType
<1>3. h \in Seq(Byte) /\ Len(h) = 1 /\ h[1] = t  OBVIOUS
<1>4. f = FrameOf(t, body, x)  BY DEF FrameOf
<1> HIDE DEF L, h, w, z
<1>5. a1 \in Seq(Byte) /\ Len(a1) = 1 + L
  <2>1. a1 \in Seq(Byte) /\ Len(a1) = Len(h) + Len(w)  BY <1>2, <1>3, ConcatProperties
  <2> HIDE DEF a1
  <2>2. QED  BY <1>1, <1>2, <1>3, <2>1
<1> HIDE DEF a1
<1>6. a2 \in Seq(Byte) /\ Len(a2) = 1 + L + n
  <2>1. a2 \in Seq(Byte) /\ Len(a2) = Len(a1) + n  BY <1>5, ConcatProperties
  <2> HIDE DEF a2, n
  <2>2. QED  BY <1>1, <1>5, <2>1
<1> HIDE DEF a2
<1>7. f \in Seq(Byte) /\ Len(f) = 1 + 2 * L + n
  <2>1. f \in Seq(Byte) /\ Len(f) = Len(a2) + Len(z)  BY <1>2, <1>6, ConcatProperties
  <2> HIDE DEF f, n
  <2>2. QED  BY <1>1, <1>2, <1>6, <2>1
<1>8. ASSUME NEW data \in Seq(Byte), NEW at \in Nat, At(data, at, f)
      PROVE  /\ data[at + 1] = t /\ At(data, at + 1, w) /\ At(data, at + 1 + L, body)
             /\ At(data, at + 1 + L + n, z)
  <2>1. At(data, at, a2) /\ At(data, at + Len(a2), z)  BY <1>2, <1>6, <1>8, AtBoth
  <2>2. At(data, at, a1) /\ At(data, at + Len(a1), body)  BY <1>5, <2>1, AtBoth DEF a2
  <2>3. At(data, at, h) /\ At(data, at + Len(h), w)  BY <1>2, <1>3, <2>2, AtBoth DEF a1
  <2>4. at + Len(a2) = at + 1 + L + n /\ at + Len(a1) = at + 1 + L /\ at + Len(h) = at + 1
    <3> HIDE DEF n
    <3>1. QED  BY <1>1, <1>3, <1>5, <1>6
  <2>5. data[at + 1] = t  BY <1>3, <2>3 DEF At
  <2>6. QED  BY <2>1, <2>2, <2>3, <2>4, <2>5
<1> HIDE DEF f
<1>9. QED  BY <1>4, <1>7, <1>8 DEF L, w, z

\* parse_frame() takes a whole frame when the checksum is its payload's, and
\* throws when it is not.
LEMMA FrameParsed ==
    ASSUME NEW t \in Byte, NEW body \in Seq(Byte), NEW x \in 0..(Power[LengthBytes] - 1),
           Len(body) \in 0..(Power[LengthBytes] - 1),
           NEW data \in Seq(Byte), NEW at \in Nat, At(data, at, FrameOf(t, body, x))
    PROVE  ParsedFrame(data, at) =
               IF Crc32(body) = x
                 THEN Frame("ok", t, body, at + Len(FrameOf(t, body, x)))
                 ELSE Frame("bad", 0, <<>>, at)
<1> DEFINE L == LengthBytes
           n == Len(body)
           h == at + 1 + L
<1>1. L \in Nat /\ n \in Nat /\ Len(data) \in Nat  BY LenProperties, ProtocolAssumption
<1>2. Power[L] \in Nat \ {0}  BY <1>1, PowerUnfolds
<1>3. x \in Int /\ n \in Int  BY <1>1, <1>2
<1>4. /\ data[at + 1] = t /\ At(data, at + 1, Put(L, n)) /\ At(data, h, body)
      /\ At(data, h + n, Put(L, x)) /\ Len(FrameOf(t, body, x)) = 1 + 2 * L + n
  BY <1>3, FrameParts
<1>5. Len(Put(L, n)) = L /\ Len(Put(L, x)) = L  BY <1>1, <1>3, PutType
<1>6. at + 1 \in Nat /\ h \in Nat /\ h + n \in Nat  BY <1>1
<1>7. Get(data, at + 1, L) = n
  <2>1. n \in 0..(Power[L] - 1)  OBVIOUS
  <2> HIDE DEF n, L, h
  <2>2. QED  BY <1>1, <1>4, <1>6, <2>1, FieldAt
<1>8. Get(data, h + n, L) = x
  <2>1. x \in 0..(Power[L] - 1)  OBVIOUS
  <2> HIDE DEF n, L, h
  <2>2. QED  BY <1>1, <1>4, <1>6, <2>1, FieldAt
<1>9. Substr(data, h, n) = body  BY <1>4, <1>6, AtSubstr
<1>10. ~(Len(data) < h) /\ ~(Len(data) < h + n + L) /\ h + n + L = at + (1 + 2 * L + n)
  <2>1. (h + n) + L <= Len(data)  BY <1>4, <1>5 DEF At
  <2>2. h = at + 1 + L  OBVIOUS
  <2> HIDE DEF n, L, h
  <2>3. QED  BY <1>1, <1>6, <2>1, <2>2
<1>11. ParsedFrame(data, at) =
           IF Crc32(body) # x THEN Frame("bad", 0, <<>>, at) ELSE Frame("ok", t, body, h + n + L)
  BY <1>4, <1>7, <1>8, <1>9, <1>10 DEF ParsedFrame
<1>12. QED
  <2> HIDE DEF n, L, h
  <2>1. h + n + L = at + Len(FrameOf(t, body, x))  BY <1>4, <1>10
  <2>2. QED  BY <1>11, <2>1

\* What has arrived is the beginning of the whole.
Begins(data, whole) == \A i \in 1..Len(data) : data[i] = whole[i]

\* parse_frame() waits while any byte of a frame is missing.
LEMMA FrameAwaited ==
    ASSUME NEW t \in Byte, NEW body \in Seq(Byte), NEW x \in 0..(Power[LengthBytes] - 1),
           Len(body) \in 0..(Power[LengthBytes] - 1),
           NEW data \in Seq(Byte), NEW whole \in Seq(Byte), NEW at \in Nat,
           At(whole, at, FrameOf(t, body, x)),
           Len(data) < at + Len(FrameOf(t, body, x)),
           Begins(data, whole)
    PROVE  ParsedFrame(data, at) = Frame("short", 0, <<>>, at)
<1> DEFINE L == LengthBytes
           n == Len(body)
           h == at + 1 + L
<1>1. L \in Nat /\ n \in Nat /\ Len(data) \in Nat  BY LenProperties, ProtocolAssumption
<1>2. Power[L] \in Nat \ {0}  BY <1>1, PowerUnfolds
<1>3. x \in Int /\ n \in Int  BY <1>1, <1>2
<1>4. At(whole, at + 1, Put(L, n)) /\ Len(FrameOf(t, body, x)) = 1 + 2 * L + n
  BY <1>3, FrameParts
<1>5. Len(Put(L, n)) = L  BY <1>1, <1>3, PutType
<1>6. CASE Len(data) < h  BY <1>6 DEF ParsedFrame
<1>7. CASE ~(Len(data) < h)
  <2>1. Get(data, at + 1, L) = n
    <3>1. \A i \in 1..L : whole[(at + 1) + i] = Put(L, n)[i]  BY <1>4, <1>5 DEF At
    <3> DEFINE b == at + 1
    <3>2. h = b + L /\ b \in Nat  OBVIOUS
    <3>3. n \in 0..(Power[L] - 1)  OBVIOUS
    <3> HIDE DEF n, L, h
    <3>4. \A i \in 1..L : b + i \in 1..Len(data)  BY <1>1, <1>7, <3>2
    <3>5. \A i \in 1..L : data[b + i] = Put(L, n)[i]  BY <3>1, <3>4 DEF Begins
    <3>6. b + L <= Len(data)  BY <1>1, <1>7, <3>2
    <3>7. At(data, b, Put(L, n))  BY <1>5, <3>5, <3>6 DEF At
    <3>8. b \in Nat  BY <3>2
    <3> HIDE DEF b
    <3>9. Get(data, b, L) = n  BY <1>1, <3>3, <3>7, <3>8, FieldAt
    <3>10. QED  BY <3>9 DEF b
  <2>2. Len(data) < h + n + L
    <3>1. Len(data) < at + (1 + 2 * L + n) /\ h = at + 1 + L  BY <1>4
    <3> HIDE DEF n, L, h
    <3>2. QED  BY <1>1, <3>1
  <2>3. QED  BY <2>1, <2>2 DEF ParsedFrame
<1>8. QED  BY <1>6, <1>7

-----------------------------------------------------------------------------
(***************************************************************************)
(* The stream.                                                             *)
(***************************************************************************)
\* crc32() returns a uint32_t, which fills the field it is written to.
CrcFits == \A body \in Seq(Byte) : Crc32(body) \in 0..(Power[LengthBytes] - 1)

\* What encode_command() writes for a command that can be sent.
LEMMA CommandFramed ==
    ASSUME CrcFits, NEW c \in Sendable
    PROVE  LET t == MessageType[c.type]
               p == Payload(c)
           IN  /\ t \in Byte /\ t # MessageType.Event /\ Crc32(p) \in 0..(Power[LengthBytes] - 1)
               /\ EncodeCommand(c) = FrameOf(t, p, Crc32(p))
               /\ EncodeCommand(c) \in Seq(Byte)
               /\ Len(EncodeCommand(c)) \in Nat \ {0}
<1> DEFINE t == MessageType[c.type]
           p == Payload(c)
           x == Crc32(p)
<1>1. c.type \in {"Add", "Cancel", "Replace"} /\ p \in Seq(Byte)  BY CommandSurvives
<1>2. t \in Byte /\ t # MessageType.Event
  <2>1. /\ MessageType["Add"] = 1 /\ MessageType["Cancel"] = 2 /\ MessageType["Replace"] = 3
        /\ MessageType.Event = 10
    BY DEF MessageType
  <2>2. t \in {1, 2, 3}  BY <1>1, <2>1
  <2>3. QED  BY <2>1, <2>2 DEF Byte
<1>3. LengthBytes \in Nat /\ Power[LengthBytes] \in Nat  BY ProtocolAssumption, PowerUnfolds
<1>4. x \in 0..(Power[LengthBytes] - 1) /\ x \in Int
  <2>1. x \in 0..(Power[LengthBytes] - 1)  BY <1>1 DEF CrcFits
  <2>2. QED  BY <1>3, <2>1
<1>5. EncodeCommand(c) = FrameOf(t, p, x)  BY DEF EncodeCommand, FrameMessage, FrameOf
<1> HIDE DEF t, p, x
<1>6. FrameOf(t, p, x) \in Seq(Byte) /\ Len(FrameOf(t, p, x)) = 1 + 2 * LengthBytes + Len(p)
  BY <1>1, <1>2, <1>4, FrameParts
<1>7. Len(p) \in Nat  BY <1>1, LenProperties
<1>8. 1 + 2 * LengthBytes + Len(p) \in Nat \ {0}  BY <1>3, <1>7
<1>9. QED  BY <1>2, <1>4, <1>5, <1>6, <1>8 DEF t, p, x

\* The frames stand one behind the other.
LEMMA FramesUnfold ==
    ASSUME CrcFits, NEW cs \in Seq(Sendable)
    PROVE  /\ FramesOf(cs) \in [0..Len(cs) -> Seq(Byte)]
           /\ FramesOf(cs)[0] = <<>>
           /\ \A k \in 1..Len(cs) : FramesOf(cs)[k] = FramesOf(cs)[k - 1] \o EncodeCommand(cs[k])
<1> DEFINE n == Len(cs)
           V == Seq(Byte)
           e(k) == EncodeCommand(cs[k])
           F == [k \in 1..n |-> [s \in V |-> s \o e(k)]]
<1>1. n \in Nat  BY LenProperties
<1>2. ASSUME NEW k \in 1..n PROVE e(k) \in V
  <2>1. cs[k] \in Sendable  BY ElementOfSeq
  <2>2. QED  BY <2>1, CommandFramed
<1> HIDE DEF n, e
<1>3. F \in Steps(n, V) /\ <<>> \in V
  <2>1. ASSUME NEW k \in 1..n, NEW s \in V PROVE s \o e(k) \in V  BY <1>2, ConcatProperties
  <2>2. <<>> \in V  OBVIOUS
  <2> HIDE DEF V
  <2>3. QED  BY <2>1, <2>2 DEF Steps
<1> HIDE DEF V
<1>4. PICK f \in [0..n -> V] : Takes(f, n, <<>>, F)
  <2> HIDE DEF F
  <2>1. QED  BY <1>1, <1>3, BoundedRecursion
<1>5. f[0] = <<>> /\ \A k \in 1..n : f[k] = f[k - 1] \o e(k)
  <2>1. f[0] = <<>> /\ \A k \in 1..n : f[k] = F[k][f[k - 1]]
    <3> HIDE DEF F
    <3>1. QED  BY <1>4 DEF Takes
  <2>2. ASSUME NEW k \in 1..n PROVE f[k] = f[k - 1] \o e(k)
    <3>1. f[k - 1] \in V
      <4>1. k - 1 \in 0..n  BY <1>1
      <4>2. QED  BY <1>4, <4>1
    <3>2. QED  BY <2>1, <3>1
  <2>3. QED  BY <2>1, <2>2
<1> HIDE DEF F
<1> DEFINE Solves(g) == g = [k \in 0..n |-> IF k = 0 THEN <<>> ELSE g[k - 1] \o e(k)]
           g == FramesOf(cs)
<1>6. Solves(f)
  <2>1. ASSUME NEW k \in 0..n PROVE f[k] = IF k = 0 THEN <<>> ELSE f[k - 1] \o e(k)
    <3>1. CASE k = 0  BY <1>5, <3>1
    <3>2. CASE k # 0
      <4>1. k \in 1..n  BY <3>2
      <4>2. QED  BY <1>5, <3>2, <4>1
    <3>3. QED  BY <3>1, <3>2
  <2>2. QED  BY <1>4, <2>1
<1>7. g = CHOOSE h : Solves(h)  BY DEF FramesOf, n, e
<1> HIDE DEF g
<1>8. Solves(g)
  <2> HIDE DEF Solves
  <2>1. QED  BY <1>6, <1>7
<1>9. ASSUME NEW k \in 0..n PROVE g[k] = f[k]
  <2> DEFINE E == {i \in Nat : g[i] = f[i]}
  <2>1. 0 \in E
    <3>1. 0 \in 0..n  BY <1>1
    <3>2. g[0] = <<>>  BY <1>8, <3>1
    <3>3. QED  BY <1>5, <3>2
  <2>2. ASSUME NEW i \in 0..(n - 1), i \in E PROVE i + 1 \in E
    <3>1. /\ i + 1 \in 1..n /\ i + 1 \in 0..n /\ i + 1 # 0
          /\ (i + 1) - 1 = i /\ g[i] = f[i] /\ i + 1 \in Nat
      BY <1>1, <2>2
    <3>2. g[i + 1] = g[(i + 1) - 1] \o e(i + 1)  BY <1>8, <3>1
    <3>3. f[i + 1] = f[(i + 1) - 1] \o e(i + 1)  BY <1>5, <3>1
    <3>4. g[i + 1] = f[i + 1]  BY <3>1, <3>2, <3>3
    <3>5. QED  BY <3>1, <3>4
  <2>3. \A i \in 0..n : i \in E
    <3> HIDE DEF E
    <3>1. QED  BY <1>1, <2>1, <2>2, BoundedInduction
  <2>4. QED  BY <2>3
<1>10. g = f
  <2>1. g = [k \in 0..n |-> g[k]]  BY <1>8
  <2>2. f = [k \in 0..n |-> f[k]]  BY <1>4
  <2>3. QED  BY <1>9, <2>1, <2>2
<1>11. QED  BY <1>4, <1>5, <1>10 DEF g, n, e, V

\* Every frame is longer than nothing and stays where it was written.
LEMMA FramesStand ==
    ASSUME CrcFits, NEW cs \in Seq(Sendable)
    PROVE  LET f == FramesOf(cs)
               n == Len(cs)
           IN  /\ f[n] \in Seq(Byte) /\ n \in Nat
               /\ \A k \in 0..n : Len(f[k]) \in Nat /\ k <= Len(f[k])
               /\ \A k \in 0..n, j \in 0..n : j <= k => Len(f[j]) <= Len(f[k])
               /\ \A k \in 1..n : /\ Len(f[k]) = Len(f[k - 1]) + Len(EncodeCommand(cs[k]))
                                  /\ Len(f[k - 1]) < Len(f[k])
                                  /\ At(f[n], Len(f[k - 1]), EncodeCommand(cs[k]))
<1> DEFINE f == FramesOf(cs)
           n == Len(cs)
           e(k) == EncodeCommand(cs[k])
<1>1. n \in Nat  BY LenProperties
<1>2. /\ f \in [0..n -> Seq(Byte)] /\ f[0] = <<>>
      /\ \A k \in 1..n : f[k] = f[k - 1] \o e(k)
  BY FramesUnfold
<1>3. ASSUME NEW k \in 1..n PROVE e(k) \in Seq(Byte) /\ Len(e(k)) \in Nat \ {0}
  <2>1. cs[k] \in Sendable  BY ElementOfSeq
  <2>2. QED  BY <2>1, CommandFramed
<1> HIDE DEF f, n, e
<1>4. ASSUME NEW k \in 0..n PROVE f[k] \in Seq(Byte) /\ Len(f[k]) \in Nat
  <2>1. f[k] \in Seq(Byte)  BY <1>2
  <2>2. QED  BY <2>1, LenProperties
<1>5. ASSUME NEW k \in 1..n
      PROVE  Len(f[k]) = Len(f[k - 1]) + Len(e(k)) /\ Len(f[k - 1]) < Len(f[k])
  <2>1. k - 1 \in 0..n /\ k \in 0..n  BY <1>1
  <2>2. f[k - 1] \in Seq(Byte) /\ Len(f[k - 1]) \in Nat  BY <1>4, <2>1
  <2>3. Len(f[k]) = Len(f[k - 1]) + Len(e(k))  BY <1>2, <1>3, <2>2, ConcatProperties
  <2>4. Len(e(k)) \in Nat \ {0}  BY <1>3
  <2>5. Len(f[k - 1]) < Len(f[k])  BY <2>2, <2>3, <2>4
  <2>6. QED  BY <2>3, <2>5
<1>6. ASSUME NEW k \in 0..n PROVE k <= Len(f[k])
  <2> DEFINE E == {i \in Nat : i <= Len(f[i])}
  <2>1. 0 \in E
    <3>1. 0 \in 0..n  BY <1>1
    <3>2. QED  BY <1>4, <3>1
  <2>2. ASSUME NEW i \in 0..(n - 1), i \in E PROVE i + 1 \in E
    <3>1. i + 1 \in 1..n /\ (i + 1) - 1 = i /\ i \in 0..n /\ i + 1 \in 0..n  BY <1>1
    <3>2. Len(f[i]) < Len(f[i + 1])  BY <1>5, <3>1
    <3>3. Len(f[i]) \in Nat /\ Len(f[i + 1]) \in Nat  BY <1>4, <3>1
    <3>4. i <= Len(f[i])  BY <2>2
    <3>5. i + 1 <= Len(f[i + 1])  BY <3>2, <3>3, <3>4
    <3>6. QED  BY <3>5
  <2>3. \A i \in 0..n : i \in E
    <3> HIDE DEF E
    <3>1. QED  BY <1>1, <2>1, <2>2, BoundedInduction
  <2>4. QED  BY <2>3
<1>7. ASSUME NEW l \in 0..n, NEW k \in 0..n, k <= l PROVE At(f[l], 0, f[k])
  <2> DEFINE E == {i \in Nat : At(f[k + i], 0, f[k])}
             m == l - k
  <2>1. 0 \in E
    <3>1. f[k] \in Seq(Byte) /\ k + 0 = k  BY <1>4
    <3>2. QED  BY <3>1, AtStart
  <2>2. ASSUME NEW i \in 0..(m - 1), i \in E PROVE i + 1 \in E
    <3> DEFINE j == k + i
    <3>1. j + 1 \in 1..n /\ (j + 1) - 1 = j /\ j \in 0..n /\ k + (i + 1) = j + 1
      BY <1>1, <1>7
    <3>2. f[j + 1] = f[j] \o e(j + 1)  BY <1>2, <3>1
    <3>3. f[j] \in Seq(Byte) /\ Len(f[j]) \in Nat /\ e(j + 1) \in Seq(Byte)  BY <1>3, <1>4, <3>1
    <3>4. Len(e(j + 1)) \in Nat  BY <1>3, <3>1
    <3>5. At(f[j], 0, f[k])  BY <2>2
    <3> HIDE DEF j
    <3> DEFINE p == f[j]
               q == e(j + 1)
               u == p \o q
               s == f[k]
    <3>6. /\ Len(u) = Len(p) + Len(q)
          /\ \A o \in 1..(Len(p) + Len(q)) : u[o] = IF o <= Len(p) THEN p[o] ELSE q[o - Len(p)]
      BY <3>3, ConcatProperties
    <3>7. Len(s) \in Nat /\ Len(p) \in Nat /\ Len(q) \in Nat  BY <1>4, <3>3, <3>4
    <3>8. 0 + Len(s) <= Len(p) /\ \A o \in 1..Len(s) : p[0 + o] = s[o]  BY <3>5 DEF At
    <3> HIDE DEF p, q, u, s
    <3>9. 0 + Len(s) <= Len(u)  BY <3>6, <3>7, <3>8
    <3>10. ASSUME NEW o \in 1..Len(s) PROVE u[0 + o] = s[o]
      <4>1. o \in 1..(Len(p) + Len(q)) /\ o <= Len(p) /\ 0 + o = o  BY <3>7, <3>8
      <4>2. u[o] = p[o] /\ p[0 + o] = s[o]  BY <3>6, <3>8, <4>1
      <4>3. QED  BY <4>1, <4>2
    <3>11. At(u, 0, s)  BY <3>9, <3>10 DEF At
    <3>12. At(f[k + (i + 1)], 0, f[k])  BY <3>1, <3>2, <3>11 DEF u, p, q, s
    <3>13. QED  BY <3>12
  <2>3. m \in Nat /\ k + m = l  BY <1>1, <1>7
  <2>4. m \in E
    <3> HIDE DEF E, m
    <3>1. \A i \in 0..m : i \in E  BY <2>1, <2>2, <2>3, BoundedInduction
    <3>2. QED  BY <2>3, <3>1
  <2>5. QED
    <3>1. At(f[k + m], 0, f[k])  BY <2>4
    <3>2. QED  BY <2>3, <3>1
<1>8. ASSUME NEW l \in 0..n, NEW k \in 0..n, k <= l PROVE Len(f[k]) <= Len(f[l])
  <2>1. 0 + Len(f[k]) <= Len(f[l])  BY <1>7, <1>8 DEF At
  <2>2. QED  BY <1>4, <2>1
<1>9. n \in 0..n  BY <1>1
<1>10. ASSUME NEW k \in 1..n PROVE At(f[n], Len(f[k - 1]), e(k))
  <2>1. k - 1 \in 0..n /\ k \in 0..n /\ k <= n  BY <1>1
  <2>2. At(f[n], 0, f[k - 1] \o e(k))  BY <1>2, <1>7, <1>9, <2>1
  <2>3. f[n] \in Seq(Byte) /\ f[k - 1] \in Seq(Byte) /\ e(k) \in Seq(Byte)
    BY <1>3, <1>4, <1>9, <2>1
  <2>4. At(f[n], 0 + Len(f[k - 1]), e(k))  BY <2>2, <2>3, AtBoth
  <2>5. 0 + Len(f[k - 1]) = Len(f[k - 1])  BY <1>4, <2>1
  <2>6. QED  BY <2>4, <2>5
<1>11. QED  BY <1>1, <1>4, <1>5, <1>6, <1>8, <1>9, <1>10 DEF f, n, e

-----------------------------------------------------------------------------
(***************************************************************************)
(* The reader.                                                             *)
(***************************************************************************)
\* Some frame is the last that has arrived whole.
LEMMA LastWhole ==
    ASSUME CrcFits, NEW cs \in Seq(Sendable), NEW c \in Nat
    PROVE  \E k \in 0..Len(cs) :
               /\ Len(FramesOf(cs)[k]) <= c
               /\ k < Len(cs) => c < Len(FramesOf(cs)[k + 1])
<1> DEFINE n == Len(cs)
           f == FramesOf(cs)
           E == {i \in Nat : Len(f[i]) <= c}
<1>1. n \in Nat /\ \A k \in 0..n : Len(f[k]) \in Nat  BY FramesStand
<1>2. f[0] = <<>>  BY FramesUnfold
<1> HIDE DEF n, f
<1>3. SUFFICES ASSUME \A k \in 0..n : ~(Len(f[k]) <= c /\ (k < n => c < Len(f[k + 1])))
               PROVE  FALSE
  BY DEF n, f
<1>4. 0 \in E
  <2>1. Len(f[0]) = 0  BY <1>2
  <2>2. QED  BY <2>1
<1>5. ASSUME NEW i \in 0..(n - 1), i \in E PROVE i + 1 \in E
  <2>1. i \in 0..n /\ i < n /\ i + 1 \in 0..n /\ Len(f[i]) <= c  BY <1>1, <1>5
  <2>2. ~(c < Len(f[i + 1]))  BY <1>3, <2>1
  <2>3. Len(f[i + 1]) <= c  BY <1>1, <2>1, <2>2
  <2>4. QED  BY <2>3
<1>6. n \in E
  <2> HIDE DEF E
  <2>1. \A i \in 0..n : i \in E  BY <1>1, <1>4, <1>5, BoundedInduction
  <2>2. QED  BY <1>1, <2>1
<1>7. QED
  <2>1. Len(f[n]) <= c /\ n \in 0..n /\ ~(n < n)  BY <1>1, <1>6
  <2>2. QED  BY <1>3, <2>1

\* One round of the loop hands on the command of a whole frame.
LEMMA RoundTakesFrame ==
    ASSUME CrcFits, NEW cs \in Seq(Sendable), NEW i \in 0..(Len(cs) - 1),
           NEW data \in Seq(Byte), At(data, Len(FramesOf(cs)[i]), EncodeCommand(cs[i + 1]))
    PROVE  NextFrame(data, Received("ok", Len(FramesOf(cs)[i]), SubSeq(cs, 1, i))) =
               Received("ok", Len(FramesOf(cs)[i + 1]), SubSeq(cs, 1, i + 1))
<1> DEFINE f == FramesOf(cs)
           at == Len(f[i])
           c == cs[i + 1]
           t == MessageType[c.type]
           p == Payload(c)
           r == Received("ok", at, SubSeq(cs, 1, i))
<1>1. Len(cs) \in Nat  BY LenProperties
<1>2. i + 1 \in 1..Len(cs) /\ i \in 0..Len(cs) /\ (i + 1) - 1 = i  BY <1>1
<1>3. c \in Sendable  BY <1>2, ElementOfSeq
<1>4. at \in Nat /\ Len(f[i + 1]) = at + Len(EncodeCommand(c))
  <2>1. Len(f[i + 1]) = Len(f[(i + 1) - 1]) + Len(EncodeCommand(cs[i + 1]))
    BY <1>2, FramesStand
  <2>2. at \in Nat  BY <1>2, FramesStand
  <2>3. QED  BY <1>2, <2>1, <2>2
<1>5. /\ t \in Byte /\ t # MessageType.Event /\ Crc32(p) \in 0..(Power[LengthBytes] - 1)
      /\ EncodeCommand(c) = FrameOf(t, p, Crc32(p))
  BY <1>3, CommandFramed
<1>6. /\ c.type \in {"Add", "Cancel", "Replace"} /\ p \in Seq(Byte)
      /\ Len(p) \in 0..(Power[LengthBytes] - 1) /\ DecodeCommand(t, p) = c
  BY <1>3, CommandSurvives
<1>7. At(data, at, EncodeCommand(c))  OBVIOUS
<1>8. SubSeq(cs, 1, i + 1) = Append(SubSeq(cs, 1, i), c)
  <2>1. \A j \in 1..(i + 1) : cs[j] \in Sendable  BY <1>1, ElementOfSeq
  <2>2. QED  BY <1>2
<1> HIDE DEF f, at, c, t, p
<1>9. ParsedFrame(data, at) = Frame("ok", t, p, at + Len(EncodeCommand(c)))
  BY <1>4, <1>5, <1>6, <1>7, FrameParsed
<1>10. r.status = "ok" /\ r.offset = at /\ r.commands = SubSeq(cs, 1, i)  BY DEF Received
<1> HIDE DEF r
<1> DEFINE u == ParsedFrame(data, r.offset)
<1>11. u.status = "ok" /\ u.code = t /\ u.payload = p /\ u.offset = Len(f[i + 1])
  BY <1>4, <1>9, <1>10 DEF Frame
<1>12. DecodeCommand(u.code, u.payload) = c /\ c.type # "malformed"  BY <1>6, <1>11
<1>13. NextFrame(data, r) = Received("ok", u.offset, Append(r.commands, c))
  BY <1>5, <1>10, <1>11, <1>12 DEF NextFrame
<1>14. QED  BY <1>8, <1>10, <1>11, <1>13 DEF f, r, at, c

\* The round behind the last whole frame finds it short.
LEMMA RoundAwaits ==
    ASSUME CrcFits, NEW cs \in Seq(Sendable), NEW c \in Nat, c <= Len(FramesOf(cs)[Len(cs)]),
           NEW k \in 0..Len(cs), Len(FramesOf(cs)[k]) <= c,
           k < Len(cs) => c < Len(FramesOf(cs)[k + 1]),
           NEW data \in Seq(Byte), Len(data) = c,
           Begins(data, FramesOf(cs)[Len(cs)])
    PROVE  NextFrame(data, Received("ok", Len(FramesOf(cs)[k]), SubSeq(cs, 1, k))) =
               Received("short", Len(FramesOf(cs)[k]), SubSeq(cs, 1, k))
<1> DEFINE f == FramesOf(cs)
           n == Len(cs)
           at == Len(f[k])
           s == SubSeq(cs, 1, k)
           r == Received("ok", at, s)
<1>1. n \in Nat /\ at \in Nat /\ f[n] \in Seq(Byte)  BY FramesStand
<1>2. ParsedFrame(data, at) = Frame("short", 0, <<>>, at)
  <2>1. CASE k = n
    <3>1. c <= at /\ at <= c /\ LengthBytes \in Nat  BY <2>1, ProtocolAssumption
    <3> HIDE DEF at
    <3>2. Len(data) < at + 1 + LengthBytes  BY <1>1, <3>1
    <3>3. QED  BY <3>2 DEF ParsedFrame
  <2>2. CASE k # n
    <3> DEFINE d == cs[k + 1]
               t == MessageType[d.type]
               p == Payload(d)
               e == EncodeCommand(d)
    <3>1. k + 1 \in 1..n /\ (k + 1) - 1 = k /\ k < n
      <4>1. k \in 0..n  OBVIOUS
      <4> HIDE DEF n
      <4>2. QED  BY <1>1, <2>2, <4>1
    <3>2. d \in Sendable  BY <3>1, ElementOfSeq
    <3>3. /\ t \in Byte /\ Crc32(p) \in 0..(Power[LengthBytes] - 1)
          /\ e = FrameOf(t, p, Crc32(p))
      BY <3>2, CommandFramed
    <3>4. p \in Seq(Byte) /\ Len(p) \in 0..(Power[LengthBytes] - 1)  BY <3>2, CommandSurvives
    <3>5. Len(f[k + 1]) = at + Len(e) /\ At(f[n], at, e)
      <4>1. /\ Len(f[k + 1]) = Len(f[(k + 1) - 1]) + Len(EncodeCommand(cs[k + 1]))
            /\ At(f[n], Len(f[(k + 1) - 1]), EncodeCommand(cs[k + 1]))
        BY <3>1, FramesStand
      <4>2. QED  BY <3>1, <4>1
    <3>6. Len(data) < at + Len(e)  BY <3>1, <3>5
    <3> DEFINE w == f[n]
               x == Crc32(p)
    <3>7. w \in Seq(Byte) /\ At(w, at, FrameOf(t, p, x)) /\ Len(data) < at + Len(FrameOf(t, p, x))
      BY <1>1, <3>3, <3>5, <3>6
    <3>8. Begins(data, w)  OBVIOUS
    <3>9. x \in 0..(Power[LengthBytes] - 1)  BY <3>3
    <3> HIDE DEF at, t, p, w, x
    <3>10. QED  BY <1>1, <3>3, <3>4, <3>7, <3>8, <3>9, FrameAwaited
  <2>3. QED  BY <2>1, <2>2
<1> HIDE DEF at, f
<1> DEFINE u == ParsedFrame(data, r.offset)
<1>3. r.status = "ok" /\ r.offset = at  BY DEF Received
<1>4. u.status = "short"  BY <1>2, <1>3 DEF Frame
<1>5. NextFrame(data, r) = [r EXCEPT !.status = "short"]
  <2> HIDE DEF r
  <2>1. u.status # "ok"  BY <1>4
  <2>2. QED  BY <1>3, <1>4, <2>1 DEF NextFrame
<1>6. [r EXCEPT !.status = "short"] = Received("short", at, s)
  <2> HIDE DEF s
  <2>1. QED  BY DEF Received
<1>7. QED  BY <1>5, <1>6 DEF at, f

\* The reader finds the commands whose frames have arrived whole, and waits.
LEMMA ReadsWhole ==
    ASSUME CrcFits, NEW cs \in Seq(Sendable), NEW c \in Nat, c <= Len(FramesOf(cs)[Len(cs)]),
           NEW k \in 0..Len(cs), Len(FramesOf(cs)[k]) <= c,
           k < Len(cs) => c < Len(FramesOf(cs)[k + 1])
    PROVE  ReadFrames(SubSeq(FramesOf(cs)[Len(cs)], 1, c)) =
               Received("short", Len(FramesOf(cs)[k]), SubSeq(cs, 1, k))
<1> DEFINE n == Len(cs)
           f == FramesOf(cs)
           w == f[n]
           data == SubSeq(w, 1, c)
           N == c + 1
           Ok(i) == Received("ok", Len(f[i]), SubSeq(cs, 1, i))
           done == Received("short", Len(f[k]), SubSeq(cs, 1, k))
           g == [i \in 0..N |-> IF i <= k THEN Ok(i) ELSE done]
<1>1. /\ n \in Nat /\ w \in Seq(Byte) /\ k \in 0..n
      /\ \A i \in 0..n : Len(f[i]) \in Nat /\ i <= Len(f[i])
  BY FramesStand
<1>2. data \in Seq(Byte) /\ Len(data) = c /\ Begins(data, w)
  <2>1. \A i \in 1..c : i \in 1..Len(w)
    <3>1. c <= Len(w)  OBVIOUS
    <3>2. Len(w) \in Nat  BY <1>1, LenProperties
    <3> HIDE DEF w
    <3>3. QED  BY <3>1, <3>2
  <2>2. \A i \in 1..c : w[i] \in Byte  BY <1>1, <2>1, ElementOfSeq
  <2> HIDE DEF w
  <2>3. /\ data \in Seq(Byte) /\ Len(data) = IF 1 <= c THEN c - 1 + 1 ELSE 0
        /\ \A i \in 1..(c - 1 + 1) : data[i] = w[1 + i - 1]
    BY <2>2, SubSeqProperties
  <2> HIDE DEF data
  <2>4. Len(data) = c  BY <2>3
  <2>5. ASSUME NEW i \in 1..c PROVE data[i] = w[i]
    <3>1. i \in 1..(c - 1 + 1) /\ 1 + i - 1 = i  OBVIOUS
    <3>2. QED  BY <2>3, <3>1
  <2>6. QED  BY <2>3, <2>4, <2>5 DEF Begins
<1>3. ASSUME NEW i \in 0..(k - 1) PROVE NextFrame(data, Ok(i)) = Ok(i + 1)
  <2> DEFINE e == EncodeCommand(cs[i + 1])
  <2>1. i \in 0..(n - 1) /\ i + 1 \in 1..n /\ (i + 1) - 1 = i /\ i \in 0..n  BY <1>1
  <2>2. At(w, Len(f[i]), e) /\ Len(f[i + 1]) = Len(f[i]) + Len(e)
    <3>1. /\ At(w, Len(f[(i + 1) - 1]), EncodeCommand(cs[i + 1]))
          /\ Len(f[i + 1]) = Len(f[(i + 1) - 1]) + Len(EncodeCommand(cs[i + 1]))
      BY <2>1, FramesStand
    <3>2. QED  BY <2>1, <3>1
  <2>3. Len(f[i + 1]) <= c
    <3>1. i + 1 \in 0..n /\ k \in 0..n /\ i + 1 <= k  BY <1>1
    <3>2. Len(f[i + 1]) <= Len(f[k])  BY <3>1, FramesStand
    <3>3. Len(f[i + 1]) \in Nat /\ Len(f[k]) \in Nat /\ Len(f[k]) <= c  BY <1>1, <3>1
    <3>4. QED  BY <3>2, <3>3
  <2>4. e \in Seq(Byte)
    <3>1. cs[i + 1] \in Sendable  BY <2>1, ElementOfSeq
    <3>2. QED  BY <3>1, CommandFramed
  <2>5. At(data, Len(f[i]), e)
    <3>1. Len(f[i]) + Len(e) <= c /\ c <= Len(w) /\ Len(f[i]) \in Nat  BY <1>1, <2>1, <2>2, <2>3
    <3> HIDE DEF w, e, f
    <3>2. QED  BY <1>1, <2>2, <2>4, <3>1, AtCut
  <2>6. QED  BY <1>2, <2>1, <2>5, RoundTakesFrame
<1>4. NextFrame(data, Ok(k)) = done  BY <1>2, RoundAwaits
<1>5. NextFrame(data, done) = done
  <2>1. done.status = "short"  BY DEF Received
  <2> HIDE DEF done
  <2>2. done.status # "ok"  BY <2>1
  <2>3. QED  BY <2>2 DEF NextFrame
<1>6. Ok(0) = Received("ok", 0, <<>>)
  <2>1. f[0] = <<>>  BY FramesUnfold
  <2>2. Len(f[0]) = 0 /\ SubSeq(cs, 1, 0) = <<>>  BY <2>1
  <2>3. QED  BY <2>2
<1>7. N \in Nat /\ k < N /\ N = Len(data) + 1
  <2>1. k <= Len(f[k]) /\ Len(f[k]) <= c /\ Len(f[k]) \in Nat /\ k \in Nat  BY <1>1
  <2>2. QED  BY <1>2, <2>1
<1> HIDE DEF n, f, w, data, Ok, done
<1>8. \A i \in 1..N : g[i] = NextFrame(data, g[i - 1])
  <2>1. SUFFICES ASSUME NEW i \in 1..N PROVE g[i] = NextFrame(data, g[i - 1])  OBVIOUS
  <2>2. i \in 0..N /\ i - 1 \in 0..N /\ k \in Nat  BY <1>1, <1>7
  <2>3. CASE i <= k
    <3>1. g[i] = Ok(i) /\ g[i - 1] = Ok(i - 1) /\ i - 1 \in 0..(k - 1) /\ (i - 1) + 1 = i
      BY <2>2, <2>3
    <3>2. NextFrame(data, Ok(i - 1)) = Ok((i - 1) + 1)  BY <1>3, <3>1
    <3>3. QED  BY <3>1, <3>2
  <2>4. CASE i = k + 1
    <3>1. g[i] = done /\ g[i - 1] = Ok(k)  BY <2>2, <2>4
    <3>2. QED  BY <1>4, <3>1
  <2>5. CASE i > k + 1
    <3>1. g[i] = done /\ g[i - 1] = done  BY <2>2, <2>5
    <3>2. QED  BY <1>5, <3>1
  <2>6. QED  BY <2>2, <2>3, <2>4, <2>5
<1>9. g[0] = Received("ok", 0, <<>>) /\ g[N] = done
  <2>1. 0 \in 0..N /\ N \in 0..N /\ k \in Nat /\ ~(N <= k)  BY <1>1, <1>7
  <2>2. g[0] = Ok(0) /\ g[N] = done  BY <2>1
  <2>3. QED  BY <1>6, <2>2
<1> DEFINE first == Received("ok", 0, <<>>)
           Solves(h) == h = [i \in 0..N |-> IF i = 0 THEN first ELSE NextFrame(data, h[i - 1])]
           a == CHOOSE h : Solves(h)
<1>10. g = [i \in 0..N |-> g[i]]  OBVIOUS
<1> HIDE DEF g, first
<1>11. Solves(g)
  <2>1. ASSUME NEW i \in 0..N PROVE g[i] = IF i = 0 THEN first ELSE NextFrame(data, g[i - 1])
    <3>1. CASE i = 0  BY <1>9, <3>1 DEF first
    <3>2. CASE i # 0
      <4>1. i \in 1..N  BY <1>7, <3>2
      <4>2. QED  BY <1>8, <3>2, <4>1
    <3>3. QED  BY <3>1, <3>2
  <2>2. QED  BY <1>10, <2>1
<1>12. ReadFrames(data) = a[N]  BY <1>7 DEF ReadFrames, first
<1>13. Solves(a)
  <2> HIDE DEF Solves
  <2>1. QED  BY <1>11
<1> HIDE DEF a
<1>14. a[N] = g[N]
  <2> DEFINE E == {i \in Nat : a[i] = g[i]}
  <2>1. 0 \in E
    <3>1. 0 \in 0..N  BY <1>7
    <3>2. a[0] = first  BY <1>13, <3>1
    <3>3. QED  BY <1>9, <3>2 DEF first
  <2>2. ASSUME NEW i \in 0..(N - 1), i \in E PROVE i + 1 \in E
    <3>1. /\ i + 1 \in 1..N /\ i + 1 \in 0..N /\ i + 1 # 0
          /\ (i + 1) - 1 = i /\ a[i] = g[i] /\ i + 1 \in Nat
      BY <1>7, <2>2
    <3>2. a[i + 1] = NextFrame(data, a[(i + 1) - 1])  BY <1>13, <3>1
    <3>3. g[i + 1] = NextFrame(data, g[(i + 1) - 1])  BY <1>8, <3>1
    <3>4. a[i + 1] = g[i + 1]  BY <3>1, <3>2, <3>3
    <3>5. QED  BY <3>1, <3>4
  <2>3. N \in E
    <3> HIDE DEF E, N
    <3>1. \A i \in 0..N : i \in E  BY <1>7, <2>1, <2>2, BoundedInduction
    <3>2. QED  BY <1>7, <3>1
  <2>4. QED  BY <2>3
<1>15. QED  BY <1>9, <1>12, <1>14 DEF done, data, w, f, n

-----------------------------------------------------------------------------
(***************************************************************************)
(* What the wire promises.                                                 *)
(***************************************************************************)
\* Whatever commands a client sends, and wherever the stream is cut between
\* encode_command() and drain_connection(): the reader hands on the commands that
\* are there whole, as they were sent, stops behind them and awaits the rest.
\* This holds for words and length fields of every size and every checksum that
\* fits its field.
THEOREM FramesAreReassembled ==
    ASSUME CrcFits, batch \in Seq(Sendable), cut \in Nat
    PROVE  FramesReassembled
<1> DEFINE n == Len(batch)
           f == FramesOf(batch)
<1>1. SUFFICES ASSUME cut <= Len(Stream)
               PROVE  \E k \in 0..n :
                        /\ Len(f[k]) <= cut
                        /\ k < n => cut < Len(f[k + 1])
                        /\ ReadFrames(SubSeq(Stream, 1, cut)) =
                               Received("short", Len(f[k]), SubSeq(batch, 1, k))
  BY DEF FramesReassembled
<1>2. PICK k \in 0..n : Len(f[k]) <= cut /\ (k < n => cut < Len(f[k + 1]))  BY LastWhole
<1>3. Stream = f[n]  BY DEF Stream
<1>4. ReadFrames(SubSeq(f[n], 1, cut)) = Received("short", Len(f[k]), SubSeq(batch, 1, k))
  BY <1>1, <1>2, <1>3, ReadsWhole
<1>5. QED  BY <1>2, <1>3, <1>4

\* A payload has a bounded length, since a name has.
LEMMA PayloadBound ==
    ASSUME NEW c \in Command
    PROVE  Len(Payload(c)) \in Nat /\ Len(Payload(c)) <= 515 + 4 * WordBytes
<1>1. ASSUME NEW s \in Name PROVE Len(s) \in 0..255
  <2>1. Len(s) \in Byte  BY FieldTypes
  <2>2. QED  BY <2>1 DEF Byte
<1>2. CASE c \in AddOrder
  <2>1. c.type = "Add" /\ c.symbol \in Name /\ c.participant \in Name  BY <1>2 DEF AddOrder
  <2>2. Payload(c) = PackAdd(c)  BY <2>1 DEF Payload
  <2> DEFINE m == Len(c.symbol)
             l == Len(c.participant)
             p == Len(PackAdd(c))
  <2>3. p = 5 + 3 * WordBytes + m + l  BY <1>2, AddSurvives
  <2>4. m \in 0..255 /\ l \in 0..255  BY <1>1, <2>1
  <2> HIDE DEF m, l, p
  <2>5. p \in Nat /\ p <= 515 + 4 * WordBytes  BY <2>3, <2>4, FieldTypes
  <2>6. QED  BY <2>2, <2>5 DEF p
<1>3. CASE c \in CancelOrder
  <2>1. c.type = "Cancel" /\ c.symbol \in Name  BY <1>3 DEF CancelOrder
  <2>2. Payload(c) = PackCancel(c)  BY <2>1 DEF Payload
  <2> DEFINE m == Len(c.symbol)
             p == Len(PackCancel(c))
  <2>3. p = 1 + WordBytes + m  BY <1>3, CancelSurvives
  <2>4. m \in 0..255  BY <1>1, <2>1
  <2> HIDE DEF m, p
  <2>5. p \in Nat /\ p <= 515 + 4 * WordBytes  BY <2>3, <2>4, FieldTypes
  <2>6. QED  BY <2>2, <2>5 DEF p
<1>4. CASE c \in ReplaceOrder
  <2>1. c.type = "Replace" /\ c.symbol \in Name  BY <1>4 DEF ReplaceOrder
  <2>2. Payload(c) = PackReplace(c)  BY <2>1 DEF Payload
  <2> DEFINE m == Len(c.symbol)
             p == Len(PackReplace(c))
  <2>3. p = 2 + 4 * WordBytes + m  BY <1>4, ReplaceSurvives
  <2>4. m \in 0..255  BY <1>1, <2>1
  <2> HIDE DEF m, p
  <2>5. p \in Nat /\ p <= 515 + 4 * WordBytes  BY <2>3, <2>4, FieldTypes
  <2>6. QED  BY <2>2, <2>5 DEF p
<1>5. QED  BY <1>2, <1>3, <1>4 DEF Command

\* With the widths of src/protocol.cpp every command that pack_*() does not refuse
\* can be sent: no payload outgrows its length field, none is found too large.
THEOREM EveryCommandIsSendable ==
    ASSUME WordBytes = 8, LengthBytes = 4, MaxAddPayload = 4096
    PROVE  Sendable = Command
<1>1. SUFFICES ASSUME NEW c \in Command
               PROVE  /\ Len(Payload(c)) < Power[LengthBytes]
                      /\ c.type = "Add" => Len(Payload(c)) <= MaxAddPayload
  BY DEF Sendable
<1>2. Power[LengthBytes] = 4294967296
  <2>1. Power[1] = 256
    <3>1. Power[0 + 1] = 256 * Power[0] /\ Power[0] = 1  BY PowerUnfolds
    <3>2. QED  BY <3>1
  <2>2. Power[2] = 65536
    <3>1. Power[1 + 1] = 256 * Power[1]  BY PowerUnfolds
    <3>2. QED  BY <2>1, <3>1
  <2>3. Power[3] = 16777216
    <3>1. Power[2 + 1] = 256 * Power[2]  BY PowerUnfolds
    <3>2. QED  BY <2>2, <3>1
  <2>4. Power[3 + 1] = 256 * Power[3]  BY PowerUnfolds
  <2>5. QED  BY <2>3, <2>4
<1>3. Len(Payload(c)) \in Nat /\ Len(Payload(c)) <= 515 + 4 * WordBytes  BY PayloadBound
<1>4. QED  BY <1>2, <1>3

\* A whole frame of any type whose checksum is not its payload's, whichever of the
\* two was damaged on the way, ends the session: the loop of drain_connection()
\* hands nothing of it on and goes no further.  What is left to the checksum is to
\* differ.
THEOREM DamageIsRefused ==
    ASSUME NEW t \in Byte, NEW body \in Seq(Byte), NEW x \in 0..(Power[LengthBytes] - 1),
           Len(body) \in 0..(Power[LengthBytes] - 1), Crc32(body) # x,
           NEW data \in Seq(Byte), NEW at \in Nat, At(data, at, FrameOf(t, body, x)),
           NEW handedOn
    PROVE  NextFrame(data, Received("ok", at, handedOn)) = Received("bad", at, handedOn)
<1> DEFINE r == Received("ok", at, handedOn)
           u == ParsedFrame(data, r.offset)
<1>1. ParsedFrame(data, at) = Frame("bad", 0, <<>>, at)  BY FrameParsed
<1>2. r.status = "ok" /\ r.offset = at  BY DEF Received
<1>3. u.status = "bad"  BY <1>1, <1>2 DEF Frame
<1>4. NextFrame(data, r) = [r EXCEPT !.status = "bad"]
  <2> HIDE DEF r
  <2>1. u.status # "ok"  BY <1>3
  <2>2. QED  BY <1>2, <1>3, <2>1 DEF NextFrame
<1>5. [r EXCEPT !.status = "bad"] = Received("bad", at, handedOn)  BY DEF Received
<1>6. QED  BY <1>4, <1>5

\* The frames of a batch are those of its first commands, then those of the rest.
LEMMA FramesOfRest ==
    ASSUME CrcFits, NEW cs \in Seq(Sendable), NEW j \in 0..Len(cs)
    PROVE  LET ds == SubSeq(cs, j + 1, Len(cs))
           IN  /\ ds \in Seq(Sendable) /\ Len(ds) = Len(cs) - j
               /\ \A i \in 1..(Len(cs) - j) : ds[i] = cs[j + i]
               /\ \A i \in 0..(Len(cs) - j) : FramesOf(cs)[j + i] = FramesOf(cs)[j] \o FramesOf(ds)[i]
<1> DEFINE n == Len(cs)
           m == n - j
           ds == SubSeq(cs, j + 1, n)
           f == FramesOf(cs)
           g == FramesOf(ds)
<1>1. n \in Nat /\ m \in Nat /\ j \in 0..n /\ \A i \in 1..n : cs[i] \in Sendable
  BY LenProperties, ElementOfSeq
<1>2. ds \in Seq(Sendable) /\ Len(ds) = m /\ \A i \in 1..m : ds[i] = cs[j + i]
  <2> HIDE DEF n
  <2>1. \A i \in (j + 1)..n : cs[i] \in Sendable  BY <1>1
  <2>2. j + 1 \in Int /\ n \in Int  BY <1>1
  <2>3. /\ ds \in Seq(Sendable) /\ Len(ds) = IF j + 1 <= n THEN n - (j + 1) + 1 ELSE 0
        /\ \A i \in 1..(n - (j + 1) + 1) : ds[i] = cs[(j + 1) + i - 1]
    BY <2>1, <2>2, SubSeqProperties
  <2> HIDE DEF ds
  <2>4. Len(ds) = m  BY <1>1, <2>3
  <2>5. ASSUME NEW i \in 1..m PROVE ds[i] = cs[j + i]
    <3>1. i \in 1..(n - (j + 1) + 1) /\ (j + 1) + i - 1 = j + i  BY <1>1
    <3>2. QED  BY <2>3, <3>1
  <2>6. QED  BY <2>3, <2>4, <2>5
<1> DEFINE E == {i \in Nat : f[j + i] = f[j] \o g[i]}
<1>3. /\ f \in [0..n -> Seq(Byte)]
      /\ \A k \in 1..n : f[k] = f[k - 1] \o EncodeCommand(cs[k])
  BY FramesUnfold
<1>4. /\ g \in [0..m -> Seq(Byte)] /\ g[0] = <<>>
      /\ \A k \in 1..m : g[k] = g[k - 1] \o EncodeCommand(ds[k])
  <2> HIDE DEF ds, m
  <2>1. QED  BY <1>2, FramesUnfold
<1>5. ASSUME NEW i \in 1..n PROVE EncodeCommand(cs[i]) \in Seq(Byte)  BY <1>1, CommandFramed
<1> HIDE DEF ds, f, g, n
<1>6. 0 \in E
  <2>1. f[j] \in Seq(Byte)  BY <1>1, <1>3
  <2>2. f[j] \o <<>> = f[j] /\ j + 0 = j  BY <1>1, <2>1, ConcatEmptySeq
  <2>3. QED  BY <1>4, <2>2
<1>7. ASSUME NEW i \in 0..(m - 1), i \in E PROVE i + 1 \in E
  <2> DEFINE e == EncodeCommand(cs[j + (i + 1)])
  <2>1. /\ j + (i + 1) \in 1..n /\ (j + (i + 1)) - 1 = j + i /\ i + 1 \in 1..m
        /\ (i + 1) - 1 = i /\ i \in 0..m /\ j \in 0..n
    BY <1>1
  <2>2. f[j + (i + 1)] = f[j + i] \o e  BY <1>3, <2>1
  <2>3. g[i + 1] = g[i] \o e  BY <1>2, <1>4, <2>1
  <2>4. f[j] \in Seq(Byte) /\ g[i] \in Seq(Byte) /\ e \in Seq(Byte)  BY <1>3, <1>4, <1>5, <2>1
  <2>5. f[j + i] = f[j] \o g[i]  BY <1>7
  <2> HIDE DEF e
  <2> DEFINE x == f[j]
             y == g[i]
  <2>6. (x \o y) \o e = x \o (y \o e)
    <3>1. x \in Seq(Byte) /\ y \in Seq(Byte) /\ e \in Seq(Byte)  BY <2>4
    <3> HIDE DEF x, y
    <3>2. QED  BY <3>1, ConcatAssociative, SMTT(30)
  <2>7. f[j + (i + 1)] = f[j] \o g[i + 1]  BY <2>2, <2>3, <2>5, <2>6
  <2>8. i + 1 \in Nat  OBVIOUS
  <2>9. QED  BY <2>7, <2>8
<1>8. \A i \in 0..m : i \in E
  <2> HIDE DEF E, m
  <2>1. QED  BY <1>1, <1>6, <1>7, BoundedInduction
<1>9. \A i \in 0..m : f[j + i] = f[j] \o g[i]  BY <1>8
<1>10. QED  BY <1>2, <1>9 DEF f, g, ds, n, m

\* drain_connection() erases the bytes of what it handed on.  The next call, with
\* what has arrived by then, goes on behind them: it hands on exactly the commands
\* that are whole by then and were not before, whatever the number of calls.
THEOREM NextDrainGoesOn ==
    ASSUME CrcFits, NEW cs \in Seq(Sendable), NEW c \in Nat, c <= Len(FramesOf(cs)[Len(cs)]),
           NEW j \in 0..Len(cs), NEW k \in j..Len(cs), Len(FramesOf(cs)[k]) <= c,
           k < Len(cs) => c < Len(FramesOf(cs)[k + 1])
    PROVE  ReadFrames(SubSeq(FramesOf(cs)[Len(cs)], Len(FramesOf(cs)[j]) + 1, c)) =
               Received("short", Len(FramesOf(cs)[k]) - Len(FramesOf(cs)[j]), SubSeq(cs, j + 1, k))
<1> DEFINE n == Len(cs)
           m == n - j
           i == k - j
           ds == SubSeq(cs, j + 1, n)
           f == FramesOf(cs)
           g == FramesOf(ds)
           a == Len(f[j])
           b == c - a
<1>1. n \in Nat /\ m \in Nat /\ j \in 0..n /\ k \in 0..n /\ i \in 0..m /\ j + i = k /\ j + m = n
  BY LenProperties
<1>2. /\ ds \in Seq(Sendable) /\ Len(ds) = m /\ (\A l \in 1..m : ds[l] = cs[j + l])
      /\ \A l \in 0..m : f[j + l] = f[j] \o g[l]
  BY FramesOfRest
<1>3. \A l \in 0..n : f[l] \in Seq(Byte) /\ Len(f[l]) \in Nat
  <2>1. f \in [0..n -> Seq(Byte)]  BY FramesUnfold
  <2>2. QED  BY <2>1, LenProperties
<1> HIDE DEF ds
<1>4. \A l \in 0..m : g[l] \in Seq(Byte) /\ Len(g[l]) \in Nat
  <2>1. g \in [0..Len(ds) -> Seq(Byte)]  BY <1>2, FramesUnfold
  <2>2. QED  BY <1>2, <2>1, LenProperties
<1>5. ASSUME NEW l \in 0..m PROVE Len(f[j + l]) = a + Len(g[l])
  <2> DEFINE x == f[j]
             y == g[l]
  <2>1. x \in Seq(Byte) /\ y \in Seq(Byte)  BY <1>1, <1>3, <1>4
  <2>2. f[j + l] = x \o y  BY <1>2
  <2>3. Len(x \o y) = Len(x) + Len(y)
    <3> HIDE DEF x, y
    <3>1. QED  BY <2>1, ConcatProperties
  <2>4. QED  BY <2>2, <2>3
<1>6. a \in Nat /\ a <= Len(f[k]) /\ Len(f[k]) <= c /\ c <= Len(f[n])
  <2>1. j <= k  OBVIOUS
  <2>2. Len(f[j]) <= Len(f[k])  BY <1>1, <2>1, FramesStand
  <2>3. QED  BY <1>1, <1>3, <2>2
<1>7. k < n => c < Len(f[k + 1])  OBVIOUS
<1> HIDE DEF n, f, g, a, i, m
<1>8. m \in 0..m /\ Len(f[n]) = a + Len(g[m]) /\ Len(f[k]) = a + Len(g[i])
  <2>1. m \in 0..m  BY <1>1
  <2>2. Len(f[j + m]) = a + Len(g[m])  BY <1>5, <2>1
  <2>3. Len(f[j + i]) = a + Len(g[i])  BY <1>1, <1>5
  <2>4. QED  BY <1>1, <2>1, <2>2, <2>3
<1>9. b \in Nat /\ b <= Len(g[m]) /\ Len(g[i]) <= b /\ (i < m => b < Len(g[i + 1]))
  <2>1. b \in Nat  BY <1>1, <1>3, <1>6
  <2>2. m \in 0..m /\ Len(f[n]) = a + Len(g[m]) /\ Len(f[k]) = a + Len(g[i])  BY <1>8
  <2>3. Len(g[m]) \in Nat /\ Len(g[i]) \in Nat  BY <1>1, <1>4, <2>2
  <2>4. b <= Len(g[m]) /\ Len(g[i]) <= b  BY <1>6, <2>2, <2>3
  <2>5. ASSUME i < m PROVE b < Len(g[i + 1])
    <3>1. i + 1 \in 0..m /\ j + (i + 1) = k + 1 /\ k < n  BY <1>1, <2>5
    <3>2. Len(f[k + 1]) = a + Len(g[i + 1]) /\ Len(g[i + 1]) \in Nat  BY <1>4, <1>5, <3>1
    <3>3. c < a + Len(g[i + 1])  BY <1>7, <3>1, <3>2
    <3>4. QED  BY <1>6, <3>2, <3>3
  <2>6. QED  BY <2>1, <2>4, <2>5
<1>10. SubSeq(f[n], a + 1, c) = SubSeq(g[m], 1, b)
  <2> DEFINE w == f[n]
             v == g[m]
             p == SubSeq(w, a + 1, c)
             q == SubSeq(v, 1, b)
  <2>1. w \in Seq(Byte) /\ v \in Seq(Byte) /\ Len(w) \in Nat /\ Len(v) \in Nat
    BY <1>1, <1>3, <1>4
  <2>2. Len(w) = a + Len(v)  BY <1>8
  <2>3. \A l \in 1..Len(v) : w[a + l] = v[l]
    <3>1. f[j] \in Seq(Byte) /\ w = f[j] \o v /\ Len(f[j]) = a
      <4>1. f[j] \in Seq(Byte)  BY <1>1, <1>3
      <4>2. f[j + m] = f[j] \o g[m]  BY <1>2, <1>8
      <4>3. QED  BY <1>1, <4>1, <4>2 DEF a
    <3> HIDE DEF w, v
    <3>2. \A o \in 1..(a + Len(v)) : w[o] = IF o <= a THEN f[j][o] ELSE v[o - a]
      BY <2>1, <3>1, ConcatProperties
    <3>3. SUFFICES ASSUME NEW l \in 1..Len(v) PROVE w[a + l] = v[l]  OBVIOUS
    <3>4. a + l \in 1..(a + Len(v)) /\ ~(a + l <= a) /\ (a + l) - a = l  BY <1>6, <2>1
    <3>5. QED  BY <3>2, <3>4
  <2>4. b \in Nat /\ b <= Len(v) /\ c <= Len(w) /\ c - a = b  BY <1>6, <1>9
  <2> HIDE DEF w, v, b
  <2>5. \A l \in (a + 1)..c : w[l] \in Byte
    <3>1. \A l \in (a + 1)..c : l \in 1..Len(w)  BY <1>6, <2>1, <2>4
    <3>2. QED  BY <2>1, <3>1, ElementOfSeq
  <2>6. \A l \in 1..b : v[l] \in Byte
    <3>1. \A l \in 1..b : l \in 1..Len(v)  BY <2>1, <2>4
    <3>2. QED  BY <2>1, <3>1, ElementOfSeq
  <2>7. /\ p \in Seq(Byte) /\ Len(p) = IF a + 1 <= c THEN c - (a + 1) + 1 ELSE 0
        /\ \A l \in 1..(c - (a + 1) + 1) : p[l] = w[(a + 1) + l - 1]
    <3>1. a + 1 \in Int /\ c \in Int  BY <1>6
    <3>2. QED  BY <2>5, <3>1, SubSeqProperties
  <2>8. /\ q \in Seq(Byte) /\ Len(q) = IF 1 <= b THEN b - 1 + 1 ELSE 0
        /\ \A l \in 1..(b - 1 + 1) : q[l] = v[1 + l - 1]
    <3>1. b \in Int  BY <2>4
    <3>2. QED  BY <2>6, <3>1, SubSeqProperties
  <2> HIDE DEF p, q
  <2>9. Len(p) = b /\ Len(q) = b  BY <1>6, <2>4, <2>7, <2>8
  <2>10. ASSUME NEW l \in 1..b PROVE p[l] = q[l]
    <3>1. l \in 1..(c - (a + 1) + 1) /\ (a + 1) + l - 1 = a + l  BY <1>6, <2>4
    <3>2. l \in 1..(b - 1 + 1) /\ 1 + l - 1 = l /\ l \in 1..Len(v)  BY <2>1, <2>4
    <3>3. p[l] = w[a + l] /\ q[l] = v[l] /\ w[a + l] = v[l]  BY <2>3, <2>7, <2>8, <3>1, <3>2
    <3>4. QED  BY <3>3
  <2>11. QED  BY <2>7, <2>8, <2>9, <2>10, SeqEqual DEF p, q, w, v
<1>11. ReadFrames(SubSeq(g[m], 1, b)) = Received("short", Len(g[i]), SubSeq(ds, 1, i))
  <2>1. g = FramesOf(ds)  BY DEF g
  <2> HIDE DEF b
  <2>2. QED  BY <1>1, <1>2, <1>9, <2>1, ReadsWhole
<1>12. Len(g[i]) = Len(f[k]) - a
  <2>1. Len(g[i]) \in Nat  BY <1>1, <1>4
  <2>2. QED  BY <1>6, <1>8, <2>1
<1>13. SubSeq(ds, 1, i) = SubSeq(cs, j + 1, k)
  <2> DEFINE p == SubSeq(ds, 1, i)
             q == SubSeq(cs, j + 1, k)
  <2>1. \A l \in (j + 1)..k : cs[l] \in Sendable
    <3>1. \A l \in (j + 1)..k : l \in 1..Len(cs)  BY <1>1 DEF n
    <3>2. QED  BY <3>1, ElementOfSeq
  <2>2. \A l \in 1..i : ds[l] \in Sendable
    <3>1. \A l \in 1..i : l \in 1..Len(ds)  BY <1>1, <1>2
    <3>2. QED  BY <1>2, <3>1, ElementOfSeq
  <2>3. i \in Int /\ j + 1 \in Int /\ k \in Int /\ k - j = i  BY <1>1
  <2>4. /\ p \in Seq(Sendable) /\ Len(p) = IF 1 <= i THEN i - 1 + 1 ELSE 0
        /\ \A l \in 1..(i - 1 + 1) : p[l] = ds[1 + l - 1]
    BY <2>2, <2>3, SubSeqProperties
  <2>5. /\ q \in Seq(Sendable) /\ Len(q) = IF j + 1 <= k THEN k - (j + 1) + 1 ELSE 0
        /\ \A l \in 1..(k - (j + 1) + 1) : q[l] = cs[(j + 1) + l - 1]
    BY <2>1, <2>3, SubSeqProperties
  <2> HIDE DEF p, q
  <2>6. Len(p) = i /\ Len(q) = i  BY <1>1, <2>3, <2>4, <2>5
  <2>7. ASSUME NEW l \in 1..i PROVE p[l] = q[l]
    <3>1. l \in 1..(i - 1 + 1) /\ 1 + l - 1 = l /\ l \in 1..m  BY <1>1
    <3>2. l \in 1..(k - (j + 1) + 1) /\ (j + 1) + l - 1 = j + l  BY <1>1, <2>3
    <3>3. p[l] = ds[l] /\ q[l] = cs[j + l] /\ ds[l] = cs[j + l]  BY <1>2, <2>4, <2>5, <3>1, <3>2
    <3>4. QED  BY <3>3
  <2>8. QED  BY <2>4, <2>5, <2>6, <2>7, SeqEqual DEF p, q
<1>14. QED  BY <1>10, <1>11, <1>12, <1>13 DEF f, a, n
=============================================================================
