----------------------------- MODULE PoolProofs -----------------------------
(***************************************************************************)
(* The memory pool of object_pool.hpp is safe for every number of levels,  *)
(* every set of types, every chunk and memory size: no byte is in two      *)
(* objects, the free list is exactly the blocks not in use, a block goes   *)
(* back to where it came from, and the pool outlives its nodes.            *)
(***************************************************************************)
EXTENDS Pool, Lemmas

-----------------------------------------------------------------------------
(***************************************************************************)
(* Sizes and addresses.                                                    *)
(***************************************************************************)
\* The sum of two products with one factor in common.
LEMMA Distribute ==
    ASSUME NEW i \in Int, NEW j \in Int, NEW z \in Int
    PROVE  (i + j) * z = i * z + j * z
OBVIOUS

\* A product grows with its factors.
LEMMA ProductMonotone ==
    ASSUME NEW i \in Int, NEW j \in Int, NEW z \in Nat, i <= j
    PROVE  i * z <= j * z
<1>1. (j - i) * z >= 0  OBVIOUS
<1>2. (i + (j - i)) * z = i * z + (j - i) * z  BY Distribute
<1>3. i + (j - i) = j  OBVIOUS
<1>4. QED  BY <1>1, <1>2, <1>3

\* Rounding up gives the next multiple of the alignment.
LEMMA RoundUpFacts ==
    ASSUME NEW n \in Nat, NEW al \in Nat \ {0}
    PROVE  /\ RoundUp(n, al) \in Nat
           /\ RoundUp(n, al) >= n
           /\ RoundUp(n, al) % al = 0
<1> DEFINE q == (n + al - 1) \div al
<1>1. /\ q \in Int
      /\ (n + al - 1) % al \in 0..(al - 1)
      /\ n + al - 1 = al * q + ((n + al - 1) % al)
  <2>1. n + al - 1 \in Int  OBVIOUS
  <2>2. QED  BY <2>1, DivMod
<1> HIDE DEF q
<1>2. RoundUp(n, al) = q * al  BY DEF RoundUp, q
<1>3. q * al = al * q  BY <1>1
<1>4. al * q >= n  BY <1>1
<1>5. (al * q + 0) % al = 0  BY <1>1, ModUnique
<1>6. al * q \in Int  BY <1>1
<1>7. QED  BY <1>2, <1>3, <1>4, <1>5, <1>6

\* A multiple of the alignment, made explicit.
LEMMA Multiple ==
    ASSUME NEW n \in Nat, NEW al \in Nat \ {0}, n % al = 0
    PROVE  \E q \in Int : n = al * q
<1> DEFINE q == n \div al
<1>1. q \in Int /\ n = al * q + (n % al)  BY DivMod
<1> HIDE DEF q
<1>2. n = al * q  BY <1>1
<1>3. QED  BY <1>1, <1>2

\* The larger of two numbers is one of them.
LEMMA MaxOfTwo ==
    ASSUME NEW a \in Nat, NEW b \in Nat
    PROVE  /\ Max({a, b}) \in Nat
           /\ Max({a, b}) >= a
           /\ Max({a, b}) >= b
<1>1. \E x \in {a, b} : \A y \in {a, b} : x >= y
  <2>1. CASE a >= b  BY <2>1
  <2>2. CASE b >= a  BY <2>2
  <2>3. QED  BY <2>1, <2>2
<1>2. Max({a, b}) \in {a, b} /\ \A y \in {a, b} : Max({a, b}) >= y
  BY <1>1 DEF Max
<1>3. QED  BY <1>2

\* A block has room for the object and for the link that replaces it, and blocks
\* laid end to end stay aligned.
LEMMA BlockSizeFacts ==
    ASSUME NEW k \in Kinds
    PROVE  /\ k.bytes \in Nat \ {0} /\ k.align \in Nat \ {0}
           /\ BlockSize(k) \in Nat \ {0}
           /\ BlockSize(k) >= k.bytes
           /\ BlockSize(k) >= PointerBytes
           /\ BlockSize(k) % k.align = 0
<1>1. k.bytes \in Nat \ {0} /\ k.align \in Nat \ {0} /\ PointerBytes \in Nat
  BY PoolAssumption
<1>2. Max({k.bytes, PointerBytes}) \in Nat
      /\ Max({k.bytes, PointerBytes}) >= k.bytes
      /\ Max({k.bytes, PointerBytes}) >= PointerBytes
  BY <1>1, MaxOfTwo
<1> DEFINE m == Max({k.bytes, PointerBytes})
<1> HIDE DEF m
<1>3. RoundUp(m, k.align) \in Nat /\ RoundUp(m, k.align) >= m /\ RoundUp(m, k.align) % k.align = 0
  BY <1>1, <1>2, RoundUpFacts DEF m
<1>4. QED  BY <1>1, <1>2, <1>3 DEF BlockSize, m

\* A block of a chunk lies within it.
LEMMA SlotWithin ==
    ASSUME NEW c \in Nat, NEW z \in Nat \ {0}, NEW s \in SlotsOf(c, z)
    PROVE  /\ s \in Nat
           /\ s >= c
           /\ s + z <= c + z * BlocksPerChunk
<1>1. BlocksPerChunk \in Nat \ {0}  BY PoolAssumption
<1>2. PICK i \in 0..(BlocksPerChunk - 1) : s = c + i * z  BY DEF SlotsOf
<1>3. i * z >= 0  BY <1>1
<1>4. (i + 1) * z <= BlocksPerChunk * z  BY <1>1, ProductMonotone
<1>5. (i + 1) * z = i * z + 1 * z  BY <1>1, Distribute
<1>6. BlocksPerChunk * z = z * BlocksPerChunk /\ 1 * z = z  BY <1>1
<1>7. i * z \in Int  BY <1>1
<1>8. QED  BY <1>1, <1>2, <1>3, <1>4, <1>5, <1>6, <1>7

\* Two blocks of one chunk are a block size apart.
LEMMA SlotsApartInChunk ==
    ASSUME NEW c \in Nat, NEW z \in Nat \ {0},
           NEW s \in SlotsOf(c, z), NEW t \in SlotsOf(c, z), s # t
    PROVE  s + z <= t \/ t + z <= s
<1>1. BlocksPerChunk \in Nat \ {0}  BY PoolAssumption
<1>2. PICK i \in 0..(BlocksPerChunk - 1) : s = c + i * z  BY DEF SlotsOf
<1>3. PICK j \in 0..(BlocksPerChunk - 1) : t = c + j * z  BY DEF SlotsOf
<1>4. i * z \in Int /\ j * z \in Int  BY <1>1
<1>5. CASE i < j
  <2>1. (i + 1) * z <= j * z  BY <1>1, <1>5, ProductMonotone
  <2>2. (i + 1) * z = i * z + 1 * z  BY <1>1, Distribute
  <2>3. QED  BY <1>2, <1>3, <1>4, <2>1, <2>2
<1>6. CASE j < i
  <2>1. (j + 1) * z <= i * z  BY <1>1, <1>6, ProductMonotone
  <2>2. (j + 1) * z = j * z + 1 * z  BY <1>1, Distribute
  <2>3. QED  BY <1>2, <1>3, <1>4, <2>1, <2>2
<1>7. i # j  BY <1>2, <1>3
<1>8. QED  BY <1>1, <1>5, <1>6, <1>7

\* The blocks of an aligned chunk are aligned.
LEMMA SlotAligned ==
    ASSUME NEW c \in Nat, NEW z \in Nat \ {0}, NEW al \in Nat \ {0},
           c % al = 0, z % al = 0, NEW s \in SlotsOf(c, z)
    PROVE  s % al = 0
<1>1. BlocksPerChunk \in Nat \ {0}  BY PoolAssumption
<1>2. PICK i \in 0..(BlocksPerChunk - 1) : s = c + i * z  BY DEF SlotsOf
<1>3. PICK q \in Int : z = al * q  BY Multiple
<1> DEFINE r == i * q
<1>4. i * z = al * r  BY <1>1, <1>3
<1>5. r \in Int /\ c \in Int  BY <1>1
<1> HIDE DEF r
<1>6. (c + al * r) % al = c % al  BY <1>5, ModShift
<1>7. QED  BY <1>2, <1>4, <1>6

-----------------------------------------------------------------------------
(***************************************************************************)
(* Lists threaded through their nodes.                                     *)
(***************************************************************************)
\* No node of a list links to the first one.  If s did, the nodes from which
\* every closed set reaches s would be closed, and NULL would be one of them.
LEMMA FirstUnlinked ==
    ASSUME NEW first, NEW next, NEW nodes,
           NULL \notin nodes, Threads(first, next, nodes),
           NEW s \in nodes
    PROVE  next[s] # first
<1> DEFINE all == nodes \cup {NULL}
           closed(ns) == \A t \in ns \ {NULL} : next[t] \in ns
           leads == {t \in all : \A ns \in SUBSET all : t \in ns /\ closed(ns) => s \in ns}
<1>1. first \in all /\ closed(all)  BY DEF Threads
<1>2. \A ns \in SUBSET all : first \in ns /\ closed(ns) => ns = all  BY DEF Threads
<1>3. SUFFICES ASSUME next[s] = first PROVE FALSE  OBVIOUS
<1>4. first \in leads  BY <1>1, <1>2
<1>5. closed(leads)
  <2>1. SUFFICES ASSUME NEW t \in leads \ {NULL} PROVE next[t] \in leads  OBVIOUS
  <2>2. CASE t = s  BY <1>3, <1>4, <2>2
  <2>3. CASE t # s
    <3>1. next[t] \in all  BY <1>1
    <3>2. ASSUME NEW ns \in SUBSET all, next[t] \in ns, closed(ns) PROVE s \in ns
      <4>1. ns \cup {t} \in SUBSET all  OBVIOUS
      <4>2. closed(ns \cup {t})  BY <3>2
      <4>3. s \in ns \cup {t}  BY <4>1, <4>2
      <4>4. QED  BY <4>3, <2>3
    <3>3. QED  BY <3>1, <3>2
  <2>4. QED  BY <2>2, <2>3
<1>6. leads = all  BY <1>2, <1>4, <1>5
<1>7. {NULL} \in SUBSET all /\ closed({NULL})  OBVIOUS
<1>8. s \in {NULL}  BY <1>6, <1>7
<1>9. QED  BY <1>8

\* Taking the first node off leaves a list of the others.
LEMMA ThreadsPop ==
    ASSUME NEW first, NEW next, NEW nodes,
           NULL \notin nodes, Threads(first, next, nodes), first # NULL
    PROVE  Threads(next[first], next, nodes \ {first})
<1> DEFINE all == nodes \cup {NULL}
           rest == (nodes \ {first}) \cup {NULL}
           closed(ns) == \A t \in ns \ {NULL} : next[t] \in ns
<1>1. first \in nodes /\ closed(all)  BY DEF Threads
<1>2. \A ns \in SUBSET all : first \in ns /\ closed(ns) => ns = all  BY DEF Threads
<1>3. \A s \in nodes : next[s] # first  BY FirstUnlinked
<1>4. next[first] \in rest /\ closed(rest)  BY <1>1, <1>3
<1>5. ASSUME NEW ns \in SUBSET rest, next[first] \in ns, closed(ns) PROVE ns = rest
  <2>1. ns \cup {first} \in SUBSET all  BY <1>1
  <2>2. closed(ns \cup {first})  BY <1>5
  <2>3. ns \cup {first} = all  BY <1>2, <2>1, <2>2
  <2>4. first \notin ns  BY <1>1
  <2>5. QED  BY <2>3, <2>4
<1>6. QED  BY <1>4, <1>5 DEF Threads

\* Linking a new node to the first one makes a list that begins with it.
LEMMA ThreadsPush ==
    ASSUME NEW first, NEW next, NEW nodes, NEW node, NEW next2,
           Threads(first, next, nodes),
           node \notin nodes, node # NULL,
           next2[node] = first, \A s \in nodes : next2[s] = next[s]
    PROVE  Threads(node, next2, nodes \cup {node})
<1> DEFINE all == nodes \cup {NULL}
           more == (nodes \cup {node}) \cup {NULL}
<1>1. first \in all /\ \A t \in all \ {NULL} : next[t] \in all  BY DEF Threads
<1>2. \A ns \in SUBSET all :
          first \in ns /\ (\A t \in ns \ {NULL} : next[t] \in ns) => ns = all
  BY DEF Threads
<1>3. node \in more /\ \A t \in more \ {NULL} : next2[t] \in more  BY <1>1
<1>4. ASSUME NEW ns \in SUBSET more, node \in ns, \A t \in ns \ {NULL} : next2[t] \in ns
      PROVE  ns = more
  <2>1. ns \ {node} \in SUBSET all  OBVIOUS
  <2>2. first \in ns \ {node}  BY <1>1, <1>4
  <2>3. \A t \in (ns \ {node}) \ {NULL} : next[t] \in ns \ {node}
    <3>1. SUFFICES ASSUME NEW t \in (ns \ {node}) \ {NULL} PROVE next[t] \in ns \ {node}
      OBVIOUS
    <3>2. t \in nodes  OBVIOUS
    <3>3. next2[t] = next[t] /\ next2[t] \in ns /\ next[t] \in all  BY <1>1, <1>4, <3>2
    <3>4. QED  BY <3>3
  <2>4. ns \ {node} = all  BY <1>2, <2>1, <2>2, <2>3
  <2>5. QED  BY <1>4, <2>4
<1>5. QED  BY <1>3, <1>4 DEF Threads

\* A list depends on the links of its own nodes only.
LEMMA ThreadsAgree ==
    ASSUME NEW first, NEW next, NEW nodes, NEW next2,
           Threads(first, next, nodes), \A s \in nodes : next2[s] = next[s]
    PROVE  Threads(first, next2, nodes)
BY DEF Threads

\* A list that starts with NULL has no nodes.
LEMMA ThreadsEmpty ==
    ASSUME NEW next, NEW nodes, NULL \notin nodes, Threads(NULL, next, nodes)
    PROVE  nodes = {}
<1>1. {NULL} \in SUBSET (nodes \cup {NULL})  OBVIOUS
<1>2. \A t \in {NULL} \ {NULL} : next[t] \in {NULL}  OBVIOUS
<1>3. {NULL} = nodes \cup {NULL}  BY <1>1, <1>2 DEF Threads
<1>4. QED  BY <1>3

\* The blocks of a new chunk, each linked to the one before, are a list that
\* begins with the last.
LEMMA ChainThreads ==
    ASSUME NEW c \in Nat, NEW z \in Nat \ {0}
    PROVE  /\ c + (BlocksPerChunk - 1) * z \in SlotsOf(c, z)
           /\ Threads(c + (BlocksPerChunk - 1) * z, Chain(c, z), SlotsOf(c, z))
<1> DEFINE b == BlocksPerChunk - 1
           slot(i) == c + i * z
           slots == SlotsOf(c, z)
           next == Chain(c, z)
<1>1. b \in Nat  BY PoolAssumption
<1> HIDE DEF b
<1>2. slots = {slot(i) : i \in 0..b}  BY DEF SlotsOf, b
<1>3. \A s \in slots : next[s] = IF s = c THEN NULL ELSE s - z  BY DEF Chain
<1>4. ASSUME NEW i \in 1..b PROVE i - 1 \in 0..b /\ slot(i) # c /\ slot(i) - z = slot(i - 1)
  <2>1. i - 1 \in 0..b  BY <1>1
  <2>2. ((i - 1) + 1) * z = (i - 1) * z + 1 * z  BY <1>1, Distribute
  <2>3. (i - 1) + 1 = i /\ 1 * z = z /\ i * z \in Int /\ (i - 1) * z \in Int  BY <1>1
  <2>4. (i - 1) * z >= 0  BY <1>1
  <2>5. QED  BY <2>1, <2>2, <2>3, <2>4
<1>5. slot(0) = c  OBVIOUS
<1> HIDE DEF slots, next, slot
<1>6. \A i \in 1..b : next[slot(i)] = slot(i - 1)  BY <1>1, <1>2, <1>3, <1>4
<1>7. next[c] = NULL  BY <1>1, <1>2, <1>3, <1>5
<1>8. slot(b) \in slots  BY <1>1, <1>2
<1>9. \A s \in slots : next[s] \in slots \cup {NULL}
  <2>1. SUFFICES ASSUME NEW s \in slots PROVE next[s] \in slots \cup {NULL}  OBVIOUS
  <2>2. PICK i \in 0..b : s = slot(i)  BY <1>2
  <2>3. CASE i = 0  BY <1>5, <1>7, <2>2, <2>3
  <2>4. CASE i # 0
    <3>1. i \in 1..b  BY <1>1, <2>4
    <3>2. next[s] = slot(i - 1) /\ i - 1 \in 0..b  BY <1>4, <1>6, <2>2, <3>1
    <3>3. QED  BY <1>2, <3>2
  <2>5. QED  BY <2>3, <2>4
<1>10. ASSUME NEW ns \in SUBSET (slots \cup {NULL}), slot(b) \in ns,
              \A s \in ns \ {NULL} : next[s] \in ns
       PROVE  ns = slots \cup {NULL}
  <2>0. NULL \notin Nat  BY PoolAssumption
  <2>a. \A i \in 0..b : slot(i) # NULL  
    <3>1. SUFFICES ASSUME NEW i \in 0..b PROVE slot(i) \in Nat  BY <2>0
    <3>2. i * z \in Nat  BY <1>1
    <3>3. QED  BY <3>2 DEF slot
  <2> DEFINE S == {i \in Nat : slot(b - i) \in ns}
  <2>1. 0 \in S  BY <1>1, <1>10
  <2>2. \A i \in 0..(b - 1) : i \in S => i + 1 \in S
    <3>1. SUFFICES ASSUME NEW i \in 0..(b - 1), i \in S PROVE i + 1 \in S  OBVIOUS
    <3>2. b - i \in 1..b  BY <1>1
    <3>3. next[slot(b - i)] = slot(b - i - 1)  BY <1>6, <3>2
    <3>4. slot(b - i) \in ns \ {NULL}  BY <2>a, <3>1, <3>2
    <3>5. slot(b - i - 1) \in ns  BY <1>10, <3>3, <3>4
    <3>6. b - i - 1 = b - (i + 1) /\ i + 1 \in Nat  BY <1>1
    <3>7. QED  BY <3>5, <3>6
  <2>3. \A i \in 0..b : i \in S
    <3> HIDE DEF S
    <3>1. QED  BY <1>1, <2>1, <2>2, BoundedInduction
  <2>4. \A i \in 0..b : slot(i) \in ns
    <3>1. SUFFICES ASSUME NEW i \in 0..b PROVE slot(i) \in ns  OBVIOUS
    <3>2. b - i \in 0..b /\ b - (b - i) = i  BY <1>1
    <3>3. b - i \in S  BY <2>3, <3>2
    <3>4. QED  BY <3>2, <3>3
  <2>5. slots \subseteq ns  BY <1>2, <2>4
  <2>6. c \in ns \ {NULL}  BY <1>1, <1>5, <2>a, <2>4
  <2>7. NULL \in ns  BY <1>7, <1>10, <2>6
  <2>8. QED  BY <2>5, <2>7
<1>11. slot(b) \in slots \cup {NULL} /\ \A s \in (slots \cup {NULL}) \ {NULL} : next[s] \in slots \cup {NULL}
  BY <1>8, <1>9
<1>12. Threads(slot(b), next, slots)  BY <1>10, <1>11 DEF Threads
<1>13. QED  BY <1>8, <1>12 DEF slot, slots, next, b

-----------------------------------------------------------------------------
(***************************************************************************)
(* The inductive invariant.                                                *)
(***************************************************************************)
Bytes(a) == a.n * a.kind.bytes
ChunkBytes == block * BlocksPerChunk
FromNew == {a \in live : a.from = "new"}
FromPool == {a \in live : a.from = "pool"}

\* Two ranges of addresses do not overlap.
Apart(at1, bytes1, at2, bytes2) == at1 + bytes1 <= at2 \/ at2 + bytes2 <= at1

\* Size and alignment were set together, by the first allocation of one object,
\* and until then there is no chunk and no such allocation.
Sized ==
    /\ block # 0 => \E k \in Kinds : block = BlockSize(k) /\ align = k.align
    /\ block = 0 => chunks = {} /\ \A a \in live : a.n # 1

\* An allocation belongs to a level, and a level has a share in the pool, whose
\* free list is empty before there is a chunk.
Owned ==
    /\ \A a \in live : a.owner \in levels
    /\ levels \subseteq holders
    /\ holders # {} /\ chunks = {} => free = NULL

\* Chunks are aligned, lie where operator new has already been, and do not overlap.
ChunksLaid ==
    /\ \A c \in chunks : c % align = 0 /\ c + ChunkBytes <= top
    /\ \A c, d \in chunks : c # d => Apart(c, ChunkBytes, d, ChunkBytes)

\* So do the objects that came from operator new, which are outside the chunks.
NewLaid ==
    /\ \A a \in FromNew : a.at % a.kind.align = 0 /\ a.at + Bytes(a) <= top
    /\ \A a, b \in FromNew : a # b => Apart(a.at, Bytes(a), b.at, Bytes(b))
    /\ \A a \in FromNew, c \in chunks : Apart(a.at, Bytes(a), c, ChunkBytes)

\* A block is handed out once, and every block has a link.
Handed ==
    /\ \A a, b \in FromPool : a.at = b.at => a = b
    /\ Slots \subseteq DOMAIN link

PoolInv ==
    /\ TypeOK /\ Sized /\ Owned /\ ChunksLaid /\ NewLaid /\ Handed
    /\ ReturnedWhereTaken /\ PoolOutlivesNodes /\ FreeListExact

-----------------------------------------------------------------------------
(***************************************************************************)
(* What the invariant says of an allocation, a chunk and a block.          *)
(***************************************************************************)
\* The pool's size, once set, has room for a link and keeps blocks aligned.
LEMMA Shape ==
    ASSUME Sized, block # 0
    PROVE  /\ block \in Nat \ {0} /\ align \in Nat \ {0}
           /\ block % align = 0 /\ block >= PointerBytes
<1>1. PICK k \in Kinds : block = BlockSize(k) /\ align = k.align  BY DEF Sized
<1>2. QED  BY <1>1, BlockSizeFacts

\* An allocation has an address and at least one byte.
LEMMA LiveFacts ==
    ASSUME TypeOK, NEW a \in live
    PROVE  /\ a.owner \in Levels /\ a.kind \in Kinds
           /\ a.n \in Nat \ {0} /\ a.at \in 1..Memory /\ a.from \in {"new", "pool"}
           /\ Bytes(a) \in Nat \ {0}
<1>1. a \in [owner: Levels, kind: Kinds, n: Lengths, at: 1..Memory, from: {"new", "pool"}]
  BY DEF TypeOK
<1>2. /\ a.owner \in Levels /\ a.kind \in Kinds
      /\ a.n \in Nat \ {0} /\ a.at \in 1..Memory /\ a.from \in {"new", "pool"}
  BY <1>1, PoolAssumption
<1>3. a.kind.bytes \in Nat \ {0}  BY <1>2, BlockSizeFacts
<1>4. a.n * a.kind.bytes \in Nat /\ a.n * a.kind.bytes >= 1  BY <1>2, <1>3
<1>5. QED  BY <1>2, <1>4 DEF Bytes

\* An allocation from the pool is one object of the pool's block size.
LEMMA PoolAllocation ==
    ASSUME TypeOK, ReturnedWhereTaken, NEW a \in FromPool
    PROVE  a \in live /\ block # 0 /\ a.n = 1 /\ BlockSize(a.kind) = block /\ a.kind.align = align
<1>1. a \in live /\ a.from = "pool"  BY DEF FromPool
<1>2. ~ToDelete(a)  BY <1>1 DEF ReturnedWhereTaken
<1>3. QED  BY <1>1, <1>2 DEF ToDelete

\* A block lies within one of the chunks.
LEMMA SlotFacts ==
    ASSUME TypeOK, Sized, ChunksLaid, NEW s \in Slots
    PROVE  /\ block # 0
           /\ s \in Nat \ {0} /\ s # NULL
           /\ s + block <= top
           /\ s % align = 0
           /\ \E c \in chunks : s \in SlotsOf(c, block) /\ c <= s /\ s + block <= c + ChunkBytes
<1>1. PICK c \in chunks : s \in SlotsOf(c, block)  BY DEF Slots
<1>2. block # 0  BY <1>1 DEF Sized
<1>3. block \in Nat \ {0} /\ align \in Nat \ {0} /\ block % align = 0  BY <1>2, Shape
<1>4. c \in Nat \ {0} /\ Memory \in Nat /\ top \in Nat  BY PoolAssumption DEF TypeOK
<1>5. s \in Nat /\ s >= c /\ s + block <= c + ChunkBytes
  BY <1>1, <1>3, <1>4, SlotWithin DEF ChunkBytes
<1>6. c % align = 0 /\ c + ChunkBytes <= top  BY DEF ChunksLaid
<1>7. ChunkBytes \in Nat
  <2>1. BlocksPerChunk \in Nat  BY PoolAssumption
  <2>2. block * BlocksPerChunk \in Nat  BY <1>3, <2>1
  <2>3. QED  BY <2>2 DEF ChunkBytes
<1>8. s % align = 0  BY <1>1, <1>3, <1>4, <1>6, SlotAligned
<1>9. s # NULL  BY <1>5, PoolAssumption
<1>10. QED  BY <1>1, <1>2, <1>3, <1>4, <1>5, <1>6, <1>7, <1>8, <1>9

\* Two blocks, of one chunk or of two, do not overlap.
LEMMA SlotsApart ==
    ASSUME TypeOK, Sized, ChunksLaid, NEW s \in Slots, NEW t \in Slots, s # t
    PROVE  Apart(s, block, t, block)
<1>1. block # 0  BY SlotFacts
<1>2. block \in Nat \ {0}  BY <1>1, Shape
<1>3. PICK c \in chunks : s \in SlotsOf(c, block) /\ c <= s /\ s + block <= c + ChunkBytes
  BY SlotFacts
<1>4. PICK d \in chunks : t \in SlotsOf(d, block) /\ d <= t /\ t + block <= d + ChunkBytes
  BY SlotFacts
<1>5. c \in Nat /\ d \in Nat /\ s \in Nat /\ t \in Nat  BY PoolAssumption, SlotFacts DEF TypeOK
<1>6. CASE c = d  BY <1>2, <1>3, <1>4, <1>5, <1>6, SlotsApartInChunk DEF Apart
<1>7. CASE c # d
  <2>1. Apart(c, ChunkBytes, d, ChunkBytes)  BY <1>7 DEF ChunksLaid
  <2>2. ChunkBytes \in Int
    <3>1. BlocksPerChunk \in Nat  BY PoolAssumption
    <3>2. QED  BY <1>2, <3>1 DEF ChunkBytes
  <2>3. QED  BY <1>2, <1>3, <1>4, <1>5, <2>1, <2>2 DEF Apart
<1>8. QED  BY <1>6, <1>7

\* The blocks in use are those of the allocations from the pool.
LEMMA InUseIs == InUse = {a.at : a \in FromPool}
BY DEF InUse, FromPool

\* operator new goes on at an aligned address that nothing lies beyond.
LEMMA NewAtFacts ==
    ASSUME TypeOK, NEW k \in Kinds
    PROVE  /\ top \in Nat \ {0}
           /\ NewAt(k.align) \in Nat \ {0}
           /\ NewAt(k.align) >= top
           /\ NewAt(k.align) % k.align = 0
<1>1. top \in Nat \ {0}  BY PoolAssumption DEF TypeOK
<1>2. k.align \in Nat \ {0}  BY BlockSizeFacts
<1>3. RoundUp(top, k.align) \in Nat /\ RoundUp(top, k.align) >= top /\ RoundUp(top, k.align) % k.align = 0
  BY <1>1, <1>2, RoundUpFacts
<1>4. QED  BY <1>1, <1>3 DEF NewAt

-----------------------------------------------------------------------------
(***************************************************************************)
(* The invariant holds at first and is kept by every action.               *)
(***************************************************************************)
\* A pool that nothing was allocated from.
LEMMA PoolInvInit == Init => PoolInv
<1> SUFFICES ASSUME Init PROVE PoolInv  OBVIOUS
<1> USE DEF Init
<1>1. DOMAIN link = {} /\ link \in [{} -> {NULL}]
  <2>1. DOMAIN link = {}  OBVIOUS
  <2>2. QED  BY <2>1
<1>2. Slots = {} /\ InUse = {} /\ FromNew = {} /\ FromPool = {}
  BY DEF Slots, InUse, FromNew, FromPool
<1>3. TypeOK  BY <1>1, PoolAssumption DEF TypeOK
<1>4. Sized /\ Owned /\ ChunksLaid  BY DEF Sized, Owned, ChunksLaid
<1>5. NewLaid /\ Handed  BY <1>2 DEF NewLaid, Handed
<1>6. ReturnedWhereTaken /\ PoolOutlivesNodes /\ FreeListExact
  BY <1>2 DEF ReturnedWhereTaken, PoolOutlivesNodes, FreeListExact
<1>7. QED  BY <1>3, <1>4, <1>5, <1>6 DEF PoolInv

\* A step that leaves the pool and its blocks in use alone.
LEMMA PoolUntouched ==
    ASSUME UNCHANGED <<block, align, free, link, chunks>>, FromPool' = FromPool
    PROVE  /\ Slots' = Slots /\ InUse' = InUse /\ ChunkBytes' = ChunkBytes
           /\ Handed => Handed'
           /\ PoolOutlivesNodes => PoolOutlivesNodes'
           /\ FreeListExact => FreeListExact'
<1>1. Slots' = Slots  BY DEF Slots, SlotsOf
<1>2. InUse' = InUse  BY DEF InUse, FromPool
<1>3. QED  BY <1>1, <1>2 DEF Handed, PoolOutlivesNodes, FreeListExact, ChunkBytes, Threads

\* Memory from operator new lies beyond all that was given out before.
LEMMA KeptByAllocateNew ==
    ASSUME PoolInv, NEW l \in Levels, NEW k \in Kinds, NEW n \in Lengths, AllocateNew(l, k, n)
    PROVE  PoolInv'
<1> DEFINE at == NewAt(k.align)
           z == n * k.bytes
           x == Allocation(l, k, n, at, "new")
<1>1. TypeOK /\ Sized /\ Owned /\ ChunksLaid /\ NewLaid /\ Handed
      /\ ReturnedWhereTaken /\ PoolOutlivesNodes /\ FreeListExact
  BY DEF PoolInv
<1>2. /\ l \in levels /\ (n # 1 \/ ~Pooled(k)) /\ at + z - 1 <= Memory
      /\ top' = at + z /\ live' = live \cup {x}
      /\ UNCHANGED <<block, align, free, link, chunks>> /\ UNCHANGED <<levels, holders>>
  BY DEF AllocateNew, Fits, poolVars
<1>3. top \in Nat \ {0} /\ at \in Nat \ {0} /\ at >= top /\ at % k.align = 0
  BY <1>1, NewAtFacts
<1>4. n \in Nat \ {0} /\ k.bytes \in Nat \ {0} /\ Memory \in Nat  BY PoolAssumption
<1>5. z \in Nat /\ z >= 1  BY <1>4
<1>6. x.owner = l /\ x.kind = k /\ x.n = n /\ x.at = at /\ x.from = "new" /\ Bytes(x) = z
  BY DEF Allocation, Bytes
<1>7. x \in [owner: Levels, kind: Kinds, n: Lengths, at: 1..Memory, from: {"new", "pool"}]
  <2>1. at \in 1..Memory  BY <1>2, <1>3, <1>4, <1>5
  <2>2. QED  BY <2>1 DEF Allocation
<1> HIDE DEF at, z, x
<1>8. FromPool' = FromPool /\ FromNew' = FromNew \cup {x}
  BY <1>2, <1>6 DEF FromPool, FromNew
<1>9. /\ Handed' /\ PoolOutlivesNodes' /\ FreeListExact' /\ ChunkBytes' = ChunkBytes
  BY <1>1, <1>2, <1>8, PoolUntouched
<1>10. TypeOK'
  BY <1>1, <1>2, <1>3, <1>4, <1>5, <1>7 DEF TypeOK
<1>11. Sized' /\ Owned'
  <2>1. block = 0 => n # 1  BY <1>2 DEF Pooled
  <2>2. Sized'  BY <1>1, <1>2, <1>6, <2>1 DEF Sized
  <2>3. QED  BY <1>1, <1>2, <1>6, <2>2 DEF Owned
<1>12. ReturnedWhereTaken'
  <2>1. x.n # 1 \/ block' = 0 \/ BlockSize(x.kind) # block' \/ x.kind.align # align'
    BY <1>2, <1>6 DEF Pooled
  <2>2. QED  BY <1>1, <1>2, <1>6, <2>1 DEF ReturnedWhereTaken, ToDelete
<1>13. \A c \in chunks : c \in Nat /\ c + ChunkBytes \in Int
  <2>1. SUFFICES ASSUME NEW c \in chunks PROVE c \in Nat /\ c + ChunkBytes \in Int  OBVIOUS
  <2>2. block # 0  BY <1>1 DEF Sized
  <2>3. block \in Nat /\ BlocksPerChunk \in Nat  BY <1>1, <2>2, Shape, PoolAssumption
  <2>4. c \in Nat  BY <1>1 DEF TypeOK
  <2>5. QED  BY <2>3, <2>4 DEF ChunkBytes
<1>14. ChunksLaid'
  <2>1. \A c \in chunks : c + ChunkBytes <= top'  BY <1>1, <1>2, <1>3, <1>5, <1>13 DEF ChunksLaid
  <2>2. QED  BY <1>1, <1>2, <1>9, <2>1 DEF ChunksLaid, Apart
<1>15. NewLaid'
  <2>1. \A a \in FromNew : a \in live /\ a.at \in Nat /\ Bytes(a) \in Nat
    BY <1>1, LiveFacts DEF FromNew
  <2>2. \A a \in FromNew' : a.at % a.kind.align = 0 /\ a.at + Bytes(a) <= top'
    BY <1>1, <1>2, <1>3, <1>5, <1>6, <1>8, <2>1 DEF NewLaid
  <2>3. \A a \in FromNew : Apart(a.at, Bytes(a), x.at, Bytes(x)) /\ Apart(x.at, Bytes(x), a.at, Bytes(a))
    BY <1>1, <1>3, <1>5, <1>6, <2>1 DEF NewLaid, Apart
  <2>4. \A c \in chunks : Apart(x.at, Bytes(x), c, ChunkBytes)
    BY <1>1, <1>3, <1>5, <1>6, <1>13 DEF ChunksLaid, Apart
  <2>5. \A a, b \in FromNew' : a # b => Apart(a.at, Bytes(a), b.at, Bytes(b))
    BY <1>1, <1>8, <2>3 DEF NewLaid
  <2>6. \A a \in FromNew', c \in chunks' : Apart(a.at, Bytes(a), c, ChunkBytes')
    BY <1>1, <1>2, <1>8, <1>9, <2>4 DEF NewLaid
  <2>7. QED  BY <2>2, <2>5, <2>6 DEF NewLaid, Apart, Bytes
<1>16. QED
  BY <1>9, <1>10, <1>11, <1>12, <1>14, <1>15 DEF PoolInv

\* The first free block is no one else's.
LEMMA KeptByAllocateFree ==
    ASSUME PoolInv, NEW l \in Levels, NEW k \in Kinds, AllocateFree(l, k)
    PROVE  PoolInv'
<1> DEFINE x == Allocation(l, k, 1, free, "pool")
<1>1. TypeOK /\ Sized /\ Owned /\ ChunksLaid /\ NewLaid /\ Handed
      /\ ReturnedWhereTaken /\ PoolOutlivesNodes /\ FreeListExact
  BY DEF PoolInv
<1>2. /\ l \in levels /\ Pooled(k) /\ free # NULL
      /\ live' = live \cup {x} /\ free' = link[free]
      /\ UNCHANGED <<block, align, link, chunks, top, levels, holders>>
  BY DEF AllocateFree
<1>3. x.owner = l /\ x.kind = k /\ x.n = 1 /\ x.at = free /\ x.from = "pool"
  BY DEF Allocation
<1>4. free \in DOMAIN link /\ free \in 1..Memory  BY <1>1, <1>2 DEF TypeOK
<1>5. x \in [owner: Levels, kind: Kinds, n: Lengths, at: 1..Memory, from: {"new", "pool"}]
  BY <1>4, PoolAssumption DEF Allocation
<1> HIDE DEF x
<1>6. chunks # {} /\ block # 0
  <2>1. holders # {}  BY <1>1, <1>2 DEF Owned
  <2>2. chunks # {}  BY <1>1, <1>2, <2>1 DEF Owned
  <2>3. QED  BY <1>1, <2>2 DEF Sized
<1>7. Threads(free, link, Slots \ InUse)  BY <1>1, <1>6 DEF FreeListExact
<1>8. free \in Slots \ InUse  BY <1>2, <1>7 DEF Threads
<1>9. Slots' = Slots /\ ChunkBytes' = ChunkBytes  BY <1>2 DEF Slots, SlotsOf, ChunkBytes
<1>10. FromPool' = FromPool \cup {x} /\ FromNew' = FromNew  BY <1>2, <1>3 DEF FromPool, FromNew
<1>11. InUse' = InUse \cup {free}  BY <1>3, <1>10 DEF InUse, FromPool
<1>12. TypeOK'  BY <1>1, <1>2, <1>4, <1>5 DEF TypeOK
<1>13. Sized' /\ Owned'
  BY <1>1, <1>2, <1>3, <1>6 DEF Sized, Owned
<1>14. ReturnedWhereTaken'
  <2>1. ~(x.n # 1 \/ block' = 0 \/ BlockSize(x.kind) # block' \/ x.kind.align # align')
    BY <1>2, <1>3, <1>6 DEF Pooled
  <2>2. QED  BY <1>1, <1>2, <1>3, <2>1 DEF ReturnedWhereTaken, ToDelete
<1>15. ChunksLaid' /\ NewLaid'
  BY <1>1, <1>2, <1>9, <1>10 DEF ChunksLaid, NewLaid, Apart, Bytes
<1>16. Handed' /\ PoolOutlivesNodes'
  <2>1. \A a \in FromPool : a.at # free  BY <1>8, InUseIs
  <2>2. Handed'  BY <1>1, <1>2, <1>3, <1>9, <1>10, <2>1 DEF Handed
  <2>3. QED  BY <1>1, <1>8, <1>9, <1>11, <2>2 DEF PoolOutlivesNodes
<1>17. FreeListExact'
  <2>1. NULL \notin Slots  BY <1>1, SlotFacts
  <2>2. Threads(link[free], link, (Slots \ InUse) \ {free})  BY <1>2, <1>7, <2>1, ThreadsPop
  <2>3. (Slots \ InUse) \ {free} = Slots' \ InUse'  BY <1>9, <1>11
  <2>4. Threads(free', link', Slots' \ InUse')  BY <1>2, <2>2, <2>3
  <2>5. QED  BY <2>4 DEF FreeListExact, Threads
<1>18. QED
  BY <1>12, <1>13, <1>14, <1>15, <1>16, <1>17 DEF PoolInv

\* A new chunk lies beyond all that was given out before, and its blocks are the
\* free list.
LEMMA KeptByAllocateGrowing ==
    ASSUME PoolInv, NEW l \in Levels, NEW k \in Kinds, AllocateGrowing(l, k)
    PROVE  PoolInv'
<1> DEFINE c == NewAt(k.align)
           z == BlockSize(k)
           last == c + (BlocksPerChunk - 1) * z
           next == Chain(c, z)
           new == SlotsOf(c, z)
           x == Allocation(l, k, 1, last, "pool")
           zs == z * BlocksPerChunk
<1>1. TypeOK /\ Sized /\ Owned /\ ChunksLaid /\ NewLaid /\ Handed
      /\ ReturnedWhereTaken /\ PoolOutlivesNodes /\ FreeListExact
  BY DEF PoolInv
<1>2. /\ l \in levels /\ Pooled(k) /\ free = NULL
      /\ c + zs - 1 <= Memory
      /\ block' = z /\ align' = k.align /\ chunks' = chunks \cup {c} /\ top' = c + zs
      /\ link' = [s \in DOMAIN link \cup DOMAIN next |->
                     IF s \in DOMAIN next THEN next[s] ELSE link[s]]
      /\ live' = live \cup {x} /\ free' = next[last]
      /\ UNCHANGED <<levels, holders>>
  BY DEF AllocateGrowing, Fits
<1>3. top \in Nat \ {0} /\ c \in Nat \ {0} /\ c >= top /\ c % k.align = 0  BY <1>1, NewAtFacts
<1>4. z \in Nat \ {0}  BY BlockSizeFacts
<1>5. Memory \in Nat /\ NULL \notin Nat /\ BlocksPerChunk \in Nat \ {0}  BY PoolAssumption
<1>6. zs \in Nat /\ zs >= 1
  BY <1>4, <1>5
<1>7. last \in new /\ Threads(last, next, new)  BY <1>3, <1>4, ChainThreads
<1>8. DOMAIN next = new  BY DEF Chain
<1>9. x.owner = l /\ x.kind = k /\ x.n = 1 /\ x.at = last /\ x.from = "pool"
  BY DEF Allocation
<1>10. \A s \in new : s \in Nat /\ s >= c /\ s + z <= c + zs  BY <1>3, <1>4, SlotWithin
<1>11. new \subseteq 1..Memory  BY <1>2, <1>3, <1>4, <1>5, <1>6, <1>10
<1>12. x \in [owner: Levels, kind: Kinds, n: Lengths, at: 1..Memory, from: {"new", "pool"}]
  <2>1. last \in 1..Memory  BY <1>7, <1>11
  <2> HIDE DEF last
  <2>2. QED  BY <2>1, PoolAssumption DEF Allocation
<1>13. SlotsOf(c, z) = new /\ zs = z * BlocksPerChunk  OBVIOUS
<1>14. c \in 1..Memory  BY <1>2, <1>3, <1>5, <1>6
<1> HIDE DEF c, z, last, next, new, x, zs
<1>15. block # 0 => z = block /\ k.align = align  BY <1>2 DEF Pooled, z
<1>16. chunks # {} => block # 0  BY <1>1 DEF Sized
<1>17. ChunkBytes' = zs  BY <1>2, <1>13 DEF ChunkBytes
<1>18. chunks # {} => ChunkBytes = zs /\ block = z /\ align = k.align
  BY <1>13, <1>15, <1>16 DEF ChunkBytes
<1>19. Slots' = Slots \cup new
  <2>1. CASE chunks = {}  BY <1>2, <1>13, <2>1 DEF Slots, SlotsOf
  <2>2. CASE chunks # {}  BY <1>2, <1>13, <1>18, <2>2 DEF Slots, SlotsOf
  <2>3. QED  BY <2>1, <2>2
<1>20. FromPool' = FromPool \cup {x} /\ FromNew' = FromNew  BY <1>2, <1>9 DEF FromPool, FromNew
<1>21. InUse' = InUse \cup {last}  BY <1>9, <1>20 DEF InUse, FromPool
<1>22. Slots \cap new = {}
  <2>1. SUFFICES ASSUME NEW s \in Slots, s \in new PROVE FALSE  OBVIOUS
  <2>2. s + block <= top /\ block # 0 /\ s \in Nat  BY <1>1, SlotFacts
  <2>3. block \in Nat \ {0}  BY <1>1, <2>2, Shape
  <2>4. QED  BY <1>3, <1>10, <2>1, <2>2, <2>3
<1>23. Slots \ InUse = {}
  <2>1. CASE chunks = {}  BY <2>1 DEF Slots
  <2>2. CASE chunks # {}
    <3>1. Threads(NULL, link, Slots \ InUse)  BY <1>1, <1>2, <2>2 DEF FreeListExact
    <3>2. NULL \notin Slots  BY <1>1, SlotFacts
    <3>3. QED  BY <3>1, <3>2, ThreadsEmpty
  <2>3. QED  BY <2>1, <2>2
<1>24. Slots' \ InUse' = new \ {last}
  <2>1. InUse \subseteq Slots  BY <1>1 DEF PoolOutlivesNodes
  <2>2. QED  BY <1>19, <1>21, <1>22, <1>23, <2>1
<1>25. NULL \notin new  BY <1>5, <1>10
<1>26. Threads(next[last], next, new \ {last})
  <2>1. last # NULL  BY <1>7, <1>25
  <2>2. QED  BY <1>7, <1>25, <2>1, ThreadsPop
<1>27. next[last] \in new \cup {NULL}  BY <1>26 DEF Threads
<1>28. \A s \in new : next[s] \in new \cup {NULL}  BY <1>7, <1>25 DEF Threads
<1>29. FreeListExact'
  <2>1. \A s \in new \ {last} : link'[s] = next[s]  BY <1>2, <1>8
  <2>2. Threads(next[last], link', new \ {last})  BY <1>26, <2>1, ThreadsAgree
  <2>3. Threads(free', link', Slots' \ InUse')  BY <1>2, <1>24, <2>2
  <2>4. QED  BY <2>3 DEF FreeListExact, Threads
<1>30. TypeOK'
  <2>1. DOMAIN link' = DOMAIN link \cup new  BY <1>2, <1>8
  <2>2. DOMAIN link' \subseteq 1..Memory  BY <1>1, <1>11, <2>1 DEF TypeOK
  <2>3. link' \in [DOMAIN link' -> DOMAIN link' \cup {NULL}]
    <3>1. \A s \in DOMAIN link : link[s] \in DOMAIN link \cup {NULL}  BY <1>1 DEF TypeOK
    <3>2. QED  BY <1>2, <1>8, <1>28, <2>1, <3>1
  <2>4. free' \in DOMAIN link' \cup {NULL}  BY <1>2, <1>27, <2>1
  <2>5. block' \in {0} \cup {BlockSize(kk) : kk \in Kinds} /\ align' \in {MaxAlign} \cup {kk.align : kk \in Kinds}
    BY <1>2 DEF z
  <2>6. chunks' \subseteq 1..Memory /\ top' \in 1..Memory + 1
    BY <1>1, <1>2, <1>3, <1>5, <1>6, <1>14 DEF TypeOK
  <2>7. live' \subseteq [owner: Levels, kind: Kinds, n: Lengths, at: 1..Memory, from: {"new", "pool"}]
    BY <1>1, <1>2, <1>12 DEF TypeOK
  <2>8. levels' \subseteq Levels /\ holders' \subseteq Levels \cup {Engine}  BY <1>1, <1>2 DEF TypeOK
  <2>9. QED  BY <2>2, <2>3, <2>4, <2>5, <2>6, <2>7, <2>8 DEF TypeOK
<1>31. Sized' /\ Owned'
  <2>1. Sized'  BY <1>2, <1>4 DEF Sized, z
  <2>2. Owned'  BY <1>1, <1>2, <1>9 DEF Owned
  <2>3. QED  BY <2>1, <2>2
<1>32. ReturnedWhereTaken'
  <2>1. ~(x.n # 1 \/ block' = 0 \/ BlockSize(x.kind) # block' \/ x.kind.align # align')
    BY <1>2, <1>4, <1>9 DEF z
  <2>2. CASE block = 0
    <3>1. \A a \in live : a.n # 1 /\ a.from = "new"
      BY <1>1, <2>2 DEF Sized, ReturnedWhereTaken, ToDelete
    <3>2. QED  BY <1>2, <1>9, <2>1, <3>1 DEF ReturnedWhereTaken, ToDelete
  <2>3. CASE block # 0
    <3>1. block' = block /\ align' = align  BY <1>2, <1>15, <2>3
    <3>2. QED  BY <1>1, <1>2, <1>9, <2>1, <3>1 DEF ReturnedWhereTaken, ToDelete
  <2>4. QED  BY <2>2, <2>3
<1>33. \A d \in chunks : d \in Nat /\ d + zs <= top /\ d % k.align = 0
  BY <1>1, <1>18 DEF ChunksLaid, TypeOK
<1>34. ChunksLaid'
  <2>1. \A d \in chunks' : d % align' = 0 /\ d + zs <= top'
    BY <1>2, <1>3, <1>6, <1>33
  <2>2. \A d \in chunks : Apart(d, zs, c, zs) /\ Apart(c, zs, d, zs)
    BY <1>3, <1>6, <1>33 DEF Apart
  <2>3. \A d, e \in chunks : d # e => Apart(d, zs, e, zs)  BY <1>1, <1>18 DEF ChunksLaid
  <2>4. \A d, e \in chunks' : d # e => Apart(d, zs, e, zs)  BY <1>2, <2>2, <2>3
  <2>5. QED  BY <1>17, <2>1, <2>4 DEF ChunksLaid, Apart
<1>35. NewLaid'
  <2>1. \A a \in FromNew : a \in live /\ a.at \in Nat /\ Bytes(a) \in Nat
    BY <1>1, LiveFacts DEF FromNew
  <2>2. \A a \in FromNew : a.at % a.kind.align = 0 /\ a.at + Bytes(a) <= top  BY <1>1 DEF NewLaid
  <2>3. \A a \in FromNew : a.at + Bytes(a) <= top'  BY <1>2, <1>3, <1>6, <2>1, <2>2
  <2>4. \A a \in FromNew : Apart(a.at, Bytes(a), c, zs)  BY <1>3, <1>6, <2>1, <2>2 DEF Apart
  <2>5. \A a \in FromNew, d \in chunks : Apart(a.at, Bytes(a), d, zs)  BY <1>1, <1>18 DEF NewLaid
  <2>6. \A a \in FromNew, d \in chunks' : Apart(a.at, Bytes(a), d, zs)  BY <1>2, <2>4, <2>5
  <2>7. \A a, b \in FromNew : a # b => Apart(a.at, Bytes(a), b.at, Bytes(b))  BY <1>1 DEF NewLaid
  <2>8. QED  BY <1>17, <1>20, <2>2, <2>3, <2>6, <2>7 DEF NewLaid, Apart, Bytes
<1>36. Handed' /\ PoolOutlivesNodes'
  <2>1. InUse \subseteq Slots  BY <1>1 DEF PoolOutlivesNodes
  <2>2. last \notin InUse  BY <1>7, <1>22, <2>1
  <2>3. \A a \in FromPool : a.at # last  BY <2>2, InUseIs
  <2>4. Slots' \subseteq DOMAIN link'  BY <1>1, <1>2, <1>8, <1>19 DEF Handed
  <2>5. Handed'  BY <1>1, <1>9, <1>20, <2>3, <2>4 DEF Handed
  <2>6. QED  BY <1>7, <1>19, <1>21, <2>1, <2>5 DEF PoolOutlivesNodes
<1>37. QED
  BY <1>29, <1>30, <1>31, <1>32, <1>34, <1>35, <1>36 DEF PoolInv

\* What goes back to operator delete came from operator new.
LEMMA KeptByDelete ==
    ASSUME PoolInv, NEW x \in live, Delete(x)
    PROVE  PoolInv'
<1>1. TypeOK /\ Sized /\ Owned /\ ChunksLaid /\ NewLaid /\ Handed
      /\ ReturnedWhereTaken /\ PoolOutlivesNodes /\ FreeListExact
  BY DEF PoolInv
<1>2. /\ ToDelete(x) /\ live' = live \ {x}
      /\ UNCHANGED <<block, align, free, link, chunks>> /\ UNCHANGED <<top, levels, holders>>
  BY DEF Delete, poolVars
<1>3. x.from = "new"  BY <1>1, <1>2 DEF ReturnedWhereTaken
<1>4. FromPool' = FromPool /\ FromNew' \subseteq FromNew  BY <1>2, <1>3 DEF FromPool, FromNew
<1>5. Handed' /\ PoolOutlivesNodes' /\ FreeListExact' /\ ChunkBytes' = ChunkBytes
  BY <1>1, <1>2, <1>4, PoolUntouched
<1>6. TypeOK' /\ Sized' /\ Owned'  BY <1>1, <1>2 DEF TypeOK, Sized, Owned
<1>7. ChunksLaid'  BY <1>1, <1>2, <1>5 DEF ChunksLaid, Apart
<1>8. NewLaid'  BY <1>1, <1>2, <1>4, <1>5 DEF NewLaid, Apart, Bytes
<1>9. ReturnedWhereTaken'  BY <1>1, <1>2 DEF ReturnedWhereTaken, ToDelete
<1>10. QED  BY <1>5, <1>6, <1>7, <1>8, <1>9 DEF PoolInv

\* What is pushed onto the free list is a block of the pool that was in use.
LEMMA KeptByPushFree ==
    ASSUME PoolInv, NEW x \in live, PushFree(x)
    PROVE  PoolInv'
<1>1. TypeOK /\ Sized /\ Owned /\ ChunksLaid /\ NewLaid /\ Handed
      /\ ReturnedWhereTaken /\ PoolOutlivesNodes /\ FreeListExact
  BY DEF PoolInv
<1>2. /\ ~ToDelete(x) /\ live' = live \ {x} /\ free' = x.at
      /\ link' = [s \in DOMAIN link \cup {x.at} |-> IF s = x.at THEN free ELSE link[s]]
      /\ UNCHANGED <<block, align, chunks, top, levels, holders>>
  BY DEF PushFree
<1>3. x.from = "pool" /\ x \in FromPool
  <2>1. x.from # "new" /\ x.from \in {"new", "pool"}
    BY <1>1, <1>2, LiveFacts DEF ReturnedWhereTaken
  <2>2. QED  BY <2>1 DEF FromPool
<1>4. x.at \in InUse /\ x.at \in Slots  BY <1>1, <1>3, InUseIs DEF PoolOutlivesNodes
<1>5. FromPool' = FromPool \ {x} /\ FromNew' = FromNew
  BY <1>2, <1>3 DEF FromPool, FromNew
<1>6. Slots' = Slots /\ ChunkBytes' = ChunkBytes  BY <1>2 DEF Slots, SlotsOf, ChunkBytes
<1>7. InUse' = InUse \ {x.at}
  <2>1. InUse' = {a.at : a \in FromPool'}  BY DEF InUse, FromPool
  <2>2. \A a \in FromPool : a.at = x.at => a = x  BY <1>1, <1>3 DEF Handed
  <2>3. QED  BY <1>5, <2>1, <2>2, InUseIs
<1>8. x.at \in DOMAIN link /\ x.at # NULL /\ chunks # {}
  <2>1. x.at \in DOMAIN link  BY <1>1, <1>4 DEF Handed
  <2>2. x.at # NULL  BY <1>1, <1>4, SlotFacts
  <2>3. QED  BY <1>4, <2>1, <2>2 DEF Slots
<1>9. TypeOK'
  <2>1. DOMAIN link' = DOMAIN link  BY <1>2, <1>8
  <2>2. link' \in [DOMAIN link' -> DOMAIN link' \cup {NULL}]
    <3>1. \A s \in DOMAIN link : link[s] \in DOMAIN link \cup {NULL}  BY <1>1 DEF TypeOK
    <3>2. free \in DOMAIN link \cup {NULL}  BY <1>1 DEF TypeOK
    <3>3. QED  BY <1>2, <2>1, <3>1, <3>2
  <2>3. QED  BY <1>1, <1>2, <1>8, <2>1, <2>2 DEF TypeOK
<1>10. Sized' /\ Owned'  BY <1>1, <1>2, <1>8 DEF Sized, Owned
<1>11. ChunksLaid' /\ NewLaid'
  BY <1>1, <1>2, <1>5, <1>6 DEF ChunksLaid, NewLaid, Apart, Bytes
<1>12. ReturnedWhereTaken'  BY <1>1, <1>2 DEF ReturnedWhereTaken, ToDelete
<1>13. PoolOutlivesNodes'  BY <1>1, <1>6, <1>7 DEF PoolOutlivesNodes
<1>14. Handed'
  <2>1. Slots' \subseteq DOMAIN link'  BY <1>1, <1>2, <1>6 DEF Handed
  <2>2. \A a, b \in FromPool' : a.at = b.at => a = b  BY <1>1, <1>5 DEF Handed
  <2>3. QED  BY <2>1, <2>2 DEF Handed
<1>15. FreeListExact'
  <2>1. Threads(free, link, Slots \ InUse)  BY <1>1, <1>8 DEF FreeListExact
  <2>2. link'[x.at] = free  BY <1>2
  <2>3. \A s \in Slots \ InUse : link'[s] = link[s]
    <3>1. Slots \subseteq DOMAIN link  BY <1>1 DEF Handed
    <3>2. QED  BY <1>2, <1>4, <3>1
  <2>4. Threads(x.at, link', (Slots \ InUse) \cup {x.at})
    BY <1>4, <1>8, <2>1, <2>2, <2>3, ThreadsPush
  <2>5. (Slots \ InUse) \cup {x.at} = Slots' \ InUse'  BY <1>4, <1>6, <1>7
  <2>6. Threads(free', link', Slots' \ InUse')  BY <1>2, <2>4, <2>5
  <2>7. QED  BY <2>6 DEF FreeListExact, Threads
<1>16. QED
  BY <1>9, <1>10, <1>11, <1>12, <1>13, <1>14, <1>15 DEF PoolInv

\* A new level gets its share of the pool.
LEMMA KeptByMakeLevel ==
    ASSUME PoolInv, NEW l \in Levels, MakeLevel(l)
    PROVE  PoolInv'
<1>1. TypeOK /\ Sized /\ Owned /\ ChunksLaid /\ NewLaid /\ Handed
      /\ ReturnedWhereTaken /\ PoolOutlivesNodes /\ FreeListExact
  BY DEF PoolInv
<1>2. /\ Engine \in holders /\ levels' = levels \cup {l} /\ holders' = holders \cup {l}
      /\ UNCHANGED <<block, align, free, link, chunks>> /\ UNCHANGED <<top, live>>
  BY DEF MakeLevel, poolVars
<1>3. FromPool' = FromPool /\ FromNew' = FromNew  BY <1>2 DEF FromPool, FromNew
<1>4. Handed' /\ PoolOutlivesNodes' /\ FreeListExact' /\ ChunkBytes' = ChunkBytes
  BY <1>1, <1>2, <1>3, PoolUntouched
<1>5. TypeOK' /\ Sized' /\ Owned'  BY <1>1, <1>2 DEF TypeOK, Sized, Owned
<1>6. ChunksLaid' /\ NewLaid'
  BY <1>1, <1>2, <1>3, <1>4 DEF ChunksLaid, NewLaid, Apart, Bytes
<1>7. ReturnedWhereTaken'  BY <1>1, <1>2 DEF ReturnedWhereTaken, ToDelete
<1>8. QED  BY <1>4, <1>5, <1>6, <1>7 DEF PoolInv

\* Whoever gives up a share leaves the pool to the others, and the last one
\* leaves when there is no level, and so no allocation.
LEMMA KeptByRelease ==
    ASSUME PoolInv, NEW h, Release(h),
           levels' \subseteq levels \ {h}, \A a \in live : a.owner \in levels'
    PROVE  PoolInv'
<1>1. TypeOK /\ Sized /\ Owned /\ ChunksLaid /\ NewLaid /\ Handed
      /\ ReturnedWhereTaken /\ PoolOutlivesNodes /\ FreeListExact
  BY DEF PoolInv
<1>2. /\ holders' = holders \ {h}
      /\ chunks' = IF holders' = {} THEN {} ELSE chunks
      /\ UNCHANGED <<block, align, free, link, top, live>>
  BY DEF Release
<1>3. chunks' \subseteq chunks /\ (holders' # {} => chunks' = chunks)  BY <1>2
<1>4. levels' \subseteq holders'  BY <1>1, <1>2 DEF Owned
<1>5. FromPool' = FromPool /\ FromNew' = FromNew /\ ChunkBytes' = ChunkBytes
  BY <1>2 DEF FromPool, FromNew, ChunkBytes
<1>6. TypeOK'  BY <1>1, <1>2, <1>3 DEF TypeOK
<1>7. Sized' /\ Owned'
  <2>1. Sized'  BY <1>1, <1>2, <1>3 DEF Sized
  <2>2. Owned'  BY <1>1, <1>2, <1>3, <1>4 DEF Owned
  <2>3. QED  BY <2>1, <2>2
<1>8. ChunksLaid'  BY <1>1, <1>2, <1>3, <1>5 DEF ChunksLaid, Apart
<1>9. NewLaid'  BY <1>1, <1>2, <1>3, <1>5 DEF NewLaid, Apart, Bytes
<1>10. ReturnedWhereTaken'  BY <1>1, <1>2 DEF ReturnedWhereTaken, ToDelete
<1>11. Handed' /\ PoolOutlivesNodes' /\ FreeListExact'
  <2>1. CASE holders' # {}
    <3>1. UNCHANGED <<block, align, free, link, chunks>>  BY <1>2, <1>3, <2>1
    <3>2. QED  BY <1>1, <1>5, <3>1, PoolUntouched
  <2>2. CASE holders' = {}
    <3>1. chunks' = {} /\ live = {}  BY <1>2, <1>4, <2>2
    <3>2. Slots' = {} /\ InUse' = {} /\ FromPool' = {}
      BY <1>2, <3>1 DEF Slots, InUse, FromPool
    <3>3. QED  BY <3>1, <3>2 DEF Handed, PoolOutlivesNodes, FreeListExact
  <2>3. QED  BY <2>1, <2>2
<1>12. QED
  BY <1>6, <1>7, <1>8, <1>9, <1>10, <1>11 DEF PoolInv

\* Every step keeps the invariant.
LEMMA PoolInvNext == PoolInv /\ [Next]_vars => PoolInv'
<1> SUFFICES ASSUME PoolInv, [Next]_vars PROVE PoolInv'  OBVIOUS
<1>1. ASSUME NEW l \in Levels, NEW k \in Kinds, NEW n \in Lengths, AllocateNew(l, k, n)
      PROVE  PoolInv'
  BY <1>1, KeptByAllocateNew
<1>2. ASSUME NEW l \in Levels, NEW k \in Kinds, AllocateFree(l, k) PROVE PoolInv'
  BY <1>2, KeptByAllocateFree
<1>3. ASSUME NEW l \in Levels, NEW k \in Kinds, AllocateGrowing(l, k) PROVE PoolInv'
  BY <1>3, KeptByAllocateGrowing
<1>4. ASSUME NEW a \in live, Delete(a) PROVE PoolInv'  BY <1>4, KeptByDelete
<1>5. ASSUME NEW a \in live, PushFree(a) PROVE PoolInv'  BY <1>5, KeptByPushFree
<1>6. ASSUME NEW l \in Levels, MakeLevel(l) PROVE PoolInv'  BY <1>6, KeptByMakeLevel
<1>7. ASSUME NEW l \in Levels, DestroyLevel(l) PROVE PoolInv'
  <2>1. Release(l) /\ levels' = levels \ {l} /\ \A a \in live : a.owner # l
    BY <1>7 DEF DestroyLevel
  <2>2. \A a \in live : a.owner \in levels'  BY <2>1 DEF PoolInv, Owned
  <2>3. QED  BY <2>1, <2>2, KeptByRelease
<1>8. CASE DestroyEngine
  <2>1. Release(Engine) /\ levels' = levels  BY <1>8 DEF DestroyEngine
  <2>2. Engine \notin levels  BY PoolAssumption DEF PoolInv, TypeOK
  <2>3. \A a \in live : a.owner \in levels'  BY <2>1 DEF PoolInv, Owned
  <2>4. QED  BY <2>1, <2>2, <2>3, KeptByRelease
<1>9. CASE UNCHANGED vars
  <2>1. UNCHANGED <<block, align, free, link, chunks>> /\ UNCHANGED <<top, live, levels, holders>>
    BY <1>9 DEF vars
  <2>2. FromPool' = FromPool /\ FromNew' = FromNew  BY <2>1 DEF FromPool, FromNew
  <2>3. Handed' /\ PoolOutlivesNodes' /\ FreeListExact' /\ ChunkBytes' = ChunkBytes
    BY <2>1, <2>2, PoolUntouched DEF PoolInv
  <2>4. TypeOK' /\ Sized' /\ Owned'  BY <2>1 DEF PoolInv, TypeOK, Sized, Owned
  <2>5. ChunksLaid' /\ NewLaid'
    BY <2>1, <2>2, <2>3 DEF PoolInv, ChunksLaid, NewLaid, Apart, Bytes
  <2>6. ReturnedWhereTaken'  BY <2>1 DEF PoolInv, ReturnedWhereTaken, ToDelete
  <2>7. QED  BY <2>3, <2>4, <2>5, <2>6 DEF PoolInv
<1>10. QED
  BY <1>1, <1>2, <1>3, <1>4, <1>5, <1>6, <1>7, <1>8, <1>9 DEF Next

\* No two objects, and no object and free block, overlap when all lie as the
\* invariant says.
LEMMA NothingOverlaps == PoolInv => BlocksDisjoint
<1> SUFFICES ASSUME PoolInv PROVE BlocksDisjoint  OBVIOUS
<1>1. TypeOK /\ Sized /\ Owned /\ ChunksLaid /\ NewLaid /\ Handed
      /\ ReturnedWhereTaken /\ PoolOutlivesNodes /\ FreeListExact
  BY DEF PoolInv
<1>2. \A a \in live : a \in FromNew \/ a \in FromPool  BY <1>1, LiveFacts DEF FromNew, FromPool
<1>3. \A a \in live : a.at \in Nat /\ Bytes(a) \in Nat  BY <1>1, LiveFacts
<1>4. \A a \in FromPool : a \in live /\ a.at \in InUse /\ a.at \in Slots /\ Bytes(a) <= block
  <2>1. SUFFICES ASSUME NEW a \in FromPool
                 PROVE  a \in live /\ a.at \in InUse /\ a.at \in Slots /\ Bytes(a) <= block
    OBVIOUS
  <2>2. a \in live /\ a.n = 1 /\ BlockSize(a.kind) = block  BY <1>1, PoolAllocation
  <2>3. a.kind \in Kinds  BY <1>1, <2>2, LiveFacts
  <2>4. a.kind.bytes \in Nat /\ a.kind.bytes <= block  BY <2>2, <2>3, BlockSizeFacts
  <2>5. Bytes(a) = a.kind.bytes  BY <2>2, <2>4 DEF Bytes
  <2>6. a.at \in InUse  BY InUseIs
  <2>7. QED  BY <1>1, <2>2, <2>4, <2>5, <2>6 DEF PoolOutlivesNodes
<1>5. \A s \in Slots : s \in Nat /\ block \in Nat /\ block >= PointerBytes  BY <1>1, SlotFacts, Shape
<1>6. ASSUME NEW a \in FromNew, NEW s \in Slots PROVE Apart(a.at, Bytes(a), s, block)
  <2>1. PICK c \in chunks : c <= s /\ s + block <= c + ChunkBytes  BY <1>1, SlotFacts
  <2>2. Apart(a.at, Bytes(a), c, ChunkBytes)  BY <1>1 DEF NewLaid
  <2>3. c \in Nat /\ a.at \in Nat /\ Bytes(a) \in Nat  BY <1>1, <1>3 DEF TypeOK, FromNew
  <2>4. ChunkBytes \in Int
    <3>1. BlocksPerChunk \in Nat  BY PoolAssumption
    <3>2. QED  BY <1>5, <3>1 DEF ChunkBytes
  <2>5. QED  BY <1>5, <2>1, <2>2, <2>3, <2>4 DEF Apart
<1>7. ASSUME NEW a \in live, NEW b \in live, a # b PROVE Apart(a.at, Bytes(a), b.at, Bytes(b))
  <2>1. CASE a \in FromNew /\ b \in FromNew  BY <1>1, <1>7, <2>1 DEF NewLaid
  <2>2. CASE a \in FromNew /\ b \in FromPool
    <3>1. Apart(a.at, Bytes(a), b.at, block)  BY <1>4, <1>6, <2>2
    <3>2. QED  BY <1>3, <1>4, <1>5, <2>2, <3>1 DEF Apart
  <2>3. CASE a \in FromPool /\ b \in FromNew
    <3>1. Apart(b.at, Bytes(b), a.at, block)  BY <1>4, <1>6, <2>3
    <3>2. QED  BY <1>3, <1>4, <1>5, <2>3, <3>1 DEF Apart
  <2>4. CASE a \in FromPool /\ b \in FromPool
    <3>1. a.at # b.at  BY <1>1, <1>7, <2>4 DEF Handed
    <3>2. Apart(a.at, block, b.at, block)  BY <1>1, <1>4, <2>4, <3>1, SlotsApart
    <3>3. QED  BY <1>3, <1>4, <1>5, <2>4, <3>2 DEF Apart
  <2>5. QED  BY <1>2, <2>1, <2>2, <2>3, <2>4
<1>8. ASSUME NEW a \in live, NEW s \in Slots \ InUse PROVE Apart(a.at, Bytes(a), s, PointerBytes)
  <2>0. PointerBytes \in Nat  BY PoolAssumption
  <2>1. CASE a \in FromNew  BY <1>3, <1>5, <1>6, <2>0, <2>1 DEF Apart
  <2>2. CASE a \in FromPool
    <3>1. a.at # s  BY <1>4, <2>2
    <3>2. Apart(a.at, block, s, block)  BY <1>1, <1>4, <2>2, <3>1, SlotsApart
    <3>3. QED  BY <1>3, <1>4, <1>5, <2>0, <2>2, <3>2 DEF Apart
  <2>3. QED  BY <1>2, <2>1, <2>2
<1>9. ASSUME NEW x \in Nat, NEW y \in Nat, NEW m \in Nat, NEW n \in Nat, Apart(x, m, y, n)
      PROVE  Span(x, m) \cap Span(y, n) = {}
  BY <1>9 DEF Apart, Span
<1>10. ASSUME NEW a \in live, NEW b \in live, a # b
       PROVE  Span(a.at, Bytes(a)) \cap Span(b.at, Bytes(b)) = {}
  BY <1>3, <1>7, <1>9, <1>10
<1>11. ASSUME NEW a \in live, NEW s \in Slots \ InUse
       PROVE  Span(a.at, Bytes(a)) \cap Span(s, PointerBytes) = {}
  <2>1. PointerBytes \in Nat /\ s \in Nat  BY <1>5, PoolAssumption
  <2>2. QED  BY <1>3, <1>8, <1>9, <2>1
<1>12. ASSUME NEW a \in live PROVE a.at % a.kind.align = 0
  <2>1. CASE a \in FromNew  BY <1>1, <2>1 DEF NewLaid
  <2>2. CASE a \in FromPool
    <3>1. a.kind.align = align  BY <1>1, <2>2, PoolAllocation
    <3>2. a.at % align = 0  BY <1>1, <1>4, <2>2, SlotFacts
    <3>3. QED  BY <3>1, <3>2
  <2>3. QED  BY <1>2, <2>1, <2>2
<1>13. QED  BY <1>10, <1>11, <1>12 DEF BlocksDisjoint, Bytes

-----------------------------------------------------------------------------
(***************************************************************************)
(* Theorems.                                                               *)
(***************************************************************************)
\* The variables of the pool keep their types: no address that allocate() hands
\* out or follows is outside the memory operator new gave.
THEOREM TypeCorrect == Spec => []TypeOK
<1>1. PoolInv => TypeOK  BY DEF PoolInv
<1>2. QED  BY <1>1, PoolInvInit, PoolInvNext, PTL DEF Spec

\* allocate() never hands out memory that is in use or that holds a link, and
\* what it hands out is aligned.
THEOREM MemoryDisjoint == Spec => []BlocksDisjoint
BY PoolInvInit, PoolInvNext, NothingOverlaps, PTL DEF Spec

\* allocate(), deallocate() and grow() keep the free list exactly the blocks not
\* in use.
THEOREM FreeListCorrect == Spec => []FreeListExact
<1>1. PoolInv => FreeListExact  BY DEF PoolInv
<1>2. QED  BY <1>1, PoolInvInit, PoolInvNext, PTL DEF Spec

\* deallocate() finds out from the size alone where the memory came from.
THEOREM ReturnsMatch == Spec => []ReturnedWhereTaken
<1>1. PoolInv => ReturnedWhereTaken  BY DEF PoolInv
<1>2. QED  BY <1>1, PoolInvInit, PoolInvNext, PTL DEF Spec

\* The destructor of the pool runs when none of its blocks is in use.
THEOREM PoolOutlives == Spec => []PoolOutlivesNodes
<1>1. PoolInv => PoolOutlivesNodes  BY DEF PoolInv
<1>2. QED  BY <1>1, PoolInvInit, PoolInvNext, PTL DEF Spec
=============================================================================
