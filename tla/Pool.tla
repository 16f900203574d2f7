-------------------------------- MODULE Pool --------------------------------
(***************************************************************************)
(* The PoolResource and PoolAllocator of include/object_pool.hpp: blocks   *)
(* of one size cut from chunks and chained through their own first bytes   *)
(* when they are free, operator new for everything else, and the shared    *)
(* ownership that keeps the pool alive.  The containers that allocate are  *)
(* the levels of an engine.  Memory is a range of addresses.               *)
(***************************************************************************)
EXTENDS Integers, Sequences, FiniteSets, FiniteSetsExt

CONSTANTS
    Levels,          \* the containers
    Engine,          \* the engine, which makes them and holds the pool too
    Kinds,           \* the types allocated: [bytes, align]
    Lengths,         \* how many objects an allocation asks for
    PointerBytes,    \* sizeof(void*)
    MaxAlign,        \* alignof(std::max_align_t)
    BlocksPerChunk,  \* kBlocksPerChunk
    Memory,          \* bound: addresses that operator new may give out
    NULL

ASSUME PoolAssumption ==
    /\ Kinds \subseteq [bytes: Nat \ {0}, align: Nat \ {0}]
    /\ \A k \in Kinds : k.bytes % k.align = 0
    /\ PointerBytes \in Nat \ {0} /\ BlocksPerChunk \in Nat \ {0} /\ Memory \in Nat
    /\ Lengths \subseteq Nat \ {0} /\ 1 \in Lengths
    /\ Engine \notin Levels /\ NULL \notin Nat

VARIABLES
    block,    \* block_
    align,    \* align_
    free,     \* free_: address of the first free block
    link,     \* the pointer in the first bytes of each free block
    chunks,   \* chunks_: their addresses
    top,      \* external: where operator new goes on
    live,     \* the allocations in use
    levels,   \* the containers that exist
    holders   \* who has a shared_ptr to the pool

poolVars == <<block, align, free, link, chunks>>
vars == <<block, align, free, link, chunks, top, live, levels, holders>>

RoundUp(n, al) == ((n + al - 1) \div al) * al

\* block_size()
BlockSizeAsIs(k) == RoundUp(k.bytes, k.align)
BlockSize(k) == RoundUp(Max({k.bytes, PointerBytes}), k.align)

Init ==
    /\ block = 0
    /\ align = MaxAlign
    /\ free = NULL
    /\ link = <<>>
    /\ chunks = {}
    /\ top = 1
    /\ live = {}
    /\ levels = {}
    /\ holders = {Engine}

-----------------------------------------------------------------------------
(***************************************************************************)
(* allocate()                                                              *)
(***************************************************************************)
Allocation(l, k, n, at, from) == [owner |-> l, kind |-> k, n |-> n, at |-> at, from |-> from]

\* operator new: aligned and fresh.
NewAt(al) == RoundUp(top, al)
Fits(size, al) == NewAt(al) + size - 1 <= Memory

\* Whether allocations of this kind are the pool's business.
PooledAnyAlign(k) == block = 0 \/ BlockSize(k) = block
Pooled(k) == block = 0 \/ (BlockSize(k) = block /\ k.align = align)

\* n # 1 in PoolAllocator::allocate(), or the off-size fallback.
AllocateNew(l, k, n) ==
    /\ l \in levels
    /\ n # 1 \/ ~Pooled(k)
    /\ Fits(n * k.bytes, k.align)
    /\ top' = NewAt(k.align) + n * k.bytes
    /\ live' = live \cup {Allocation(l, k, n, NewAt(k.align), "new")}
    /\ UNCHANGED <<poolVars, levels, holders>>

AllocateFree(l, k) ==
    /\ l \in levels
    /\ Pooled(k)
    /\ free # NULL
    /\ live' = live \cup {Allocation(l, k, 1, free, "pool")}
    /\ free' = link[free]
    /\ UNCHANGED <<block, align, link, chunks, top, levels, holders>>

\* grow() cuts a chunk into blocks, each linked to the one before, and the last
\* of them is handed out.  The first allocation sets the size.
SlotsOf(chunk, size) == {chunk + i * size : i \in 0..BlocksPerChunk - 1}
ChainSkippingFirst(chunk, size) ==
    [s \in SlotsOf(chunk, size) |-> IF s <= chunk + size THEN NULL ELSE s - size]
Chain(chunk, size) == [s \in SlotsOf(chunk, size) |-> IF s = chunk THEN NULL ELSE s - size]

AllocateGrowing(l, k) ==
    LET chunk == NewAt(k.align)
        size == BlockSize(k)
        last == chunk + (BlocksPerChunk - 1) * size
        chained == Chain(chunk, size)
    IN  /\ l \in levels
        /\ Pooled(k)
        /\ free = NULL
        /\ Fits(size * BlocksPerChunk, k.align)
        /\ block' = size
        /\ align' = k.align
        /\ chunks' = chunks \cup {chunk}
        /\ top' = chunk + size * BlocksPerChunk
        /\ link' = [s \in DOMAIN link \cup DOMAIN chained |->
                       IF s \in DOMAIN chained THEN chained[s] ELSE link[s]]
        /\ live' = live \cup {Allocation(l, k, 1, last, "pool")}
        /\ free' = chained[last]
        /\ UNCHANGED <<levels, holders>>

-----------------------------------------------------------------------------
(***************************************************************************)
(* deallocate()                                                            *)
(***************************************************************************)
ToDelete(a) == a.n # 1 \/ block = 0 \/ BlockSize(a.kind) # block \/ a.kind.align # align

Delete(a) ==
    /\ a \in live
    /\ ToDelete(a)
    /\ live' = live \ {a}
    /\ UNCHANGED <<poolVars, top, levels, holders>>

PushFree(a) ==
    /\ a \in live
    /\ ~ToDelete(a)
    /\ live' = live \ {a}
    /\ link' = [s \in DOMAIN link \cup {a.at} |-> IF s = a.at THEN free ELSE link[s]]
    /\ free' = a.at
    /\ UNCHANGED <<block, align, chunks, top, levels, holders>>

-----------------------------------------------------------------------------
(***************************************************************************)
(* Ownership: a level is made with a copy of the engine's shared_ptr and   *)
(* gives it up when it is destroyed, after its nodes; the engine may be    *)
(* gone before.  The last one to leave deletes the chunks.                 *)
(***************************************************************************)
MakeLevelUnshared(l) ==
    /\ Engine \in holders
    /\ l \notin levels
    /\ levels' = levels \cup {l}
    /\ UNCHANGED <<poolVars, top, live, holders>>

MakeLevel(l) ==
    /\ Engine \in holders
    /\ l \notin levels
    /\ levels' = levels \cup {l}
    /\ holders' = holders \cup {l}
    /\ UNCHANGED <<poolVars, top, live>>

Release(h) ==
    /\ holders' = holders \ {h}
    /\ chunks' = IF holders' = {} THEN {} ELSE chunks
    /\ UNCHANGED <<block, align, free, link, top, live>>

DestroyLevel(l) ==
    /\ l \in levels
    /\ \A a \in live : a.owner # l
    /\ levels' = levels \ {l}
    /\ Release(l)

DestroyEngine ==
    /\ Engine \in holders
    /\ Release(Engine)
    /\ UNCHANGED levels

Next ==
    \/ \E l \in Levels, k \in Kinds, n \in Lengths : AllocateNew(l, k, n)
    \/ \E l \in Levels, k \in Kinds : AllocateFree(l, k) \/ AllocateGrowing(l, k)
    \/ \E a \in live : Delete(a) \/ PushFree(a)
    \/ \E l \in Levels : MakeLevel(l) \/ DestroyLevel(l)
    \/ DestroyEngine

Spec == Init /\ [][Next]_vars

-----------------------------------------------------------------------------
(***************************************************************************)
(* Properties.                                                             *)
(***************************************************************************)
Slots == UNION {SlotsOf(c, block) : c \in chunks}
InUse == {a.at : a \in {b \in live : b.from = "pool"}}

\* Every variable keeps its type: what a link or free_ holds is the address of a
\* block that has a link of its own, or null.
TypeOK ==
    /\ block \in {0} \cup {BlockSize(k) : k \in Kinds}
    /\ align \in {MaxAlign} \cup {k.align : k \in Kinds}
    /\ DOMAIN link \subseteq 1..Memory
    /\ link \in [DOMAIN link -> DOMAIN link \cup {NULL}]
    /\ free \in DOMAIN link \cup {NULL}
    /\ chunks \subseteq 1..Memory
    /\ top \in 1..Memory + 1
    /\ live \subseteq [owner: Levels, kind: Kinds, n: Lengths, at: 1..Memory,
                       from: {"new", "pool"}]
    /\ levels \subseteq Levels
    /\ holders \subseteq Levels \cup {Engine}

Span(at, bytes) == at..at + bytes - 1

\* No byte is in two objects, and none that is in use is in the link of a free
\* block; every object is aligned.
BlocksDisjoint ==
    /\ \A a, b \in live : a # b =>
          Span(a.at, a.n * a.kind.bytes) \cap Span(b.at, b.n * b.kind.bytes) = {}
    /\ \A a \in live, s \in Slots \ InUse :
          Span(a.at, a.n * a.kind.bytes) \cap Span(s, PointerBytes) = {}
    /\ \A a \in live : a.at % a.kind.align = 0

\* The links lead from the first node through all the nodes to NULL: a set that
\* holds the first one, and with each node the next, is all of them.
Threads(first, next, nodes) ==
    LET closed(ns) == first \in ns /\ \A s \in ns \ {NULL} : next[s] \in ns
    IN  /\ closed(nodes \cup {NULL})
        /\ \A ns \in SUBSET (nodes \cup {NULL}) : closed(ns) => ns = nodes \cup {NULL}

\* Following the links from free_ leads through exactly the blocks of the chunks
\* that are not in use, and then to the end: no block is lost, none is in a
\* cycle, and none that is in use can be handed out again.
FreeListExact == chunks # {} => Threads(free, link, Slots \ InUse)

\* deallocate() sends every block back to where allocate() took it from, though
\* it has only its size to go by and the pool's size is set by the first call.
ReturnedWhereTaken == \A a \in live : ToDelete(a) <=> a.from = "new"

\* "The pool always outlives its nodes": a block in use lies in a chunk that is
\* still there, in whatever order engine and levels are destroyed.
PoolOutlivesNodes == InUse \subseteq Slots
=============================================================================
