# A TLA+ model of matching-engine-cpp

This directory models the matching engine, its memory pool, its sharding and
recovery, its threads, its order entry and its file and wire formats, checks the
models with TLC on small instances, and proves with TLAPS, for every instance,
the safety properties of everything but the formats. Paths below are relative to
the root of the repository.

## 1. The system

| Component | State | Operations | Interaction |
|---|---|---|---|
| `MatchingEngine` (`src/matching_engine.cpp`) | `books_` (per symbol two ordered maps from price to a list of orders), `index_` (id to list iterator), `sequence_` | `add`, `cancel`, `replace`, `reject`, `best_bid`, `best_ask`, `snapshot`, `load_snapshot` | called by one thread at a time |
| `PoolResource`, `PoolAllocator` (`include/object_pool.hpp`) | block size, free list, chunks | `allocate`, `deallocate` | the list nodes of an engine; shared by its levels |
| `ShardedMatchingEngine` (`src/sharded.cpp`) | per shard an engine, a `WalStore` and the last ingress number | `add`, `cancel`, `replace`, `snapshot_all`, `restore_from_snapshots`, `replay_shard` | checks ingress order and risk, logs, then calls the engine |
| `WalStore` (`src/recovery.cpp`) | log file, staged records, snapshot file, file handle | `append`, `flush`, `replay_commands`, `save_snapshot`, `load_snapshot`, `close` | used by one shard |
| `PreTradeRisk` (`include/risk.hpp`) | limits (constant) | `check_add` | called by `ShardedMatchingEngine::add` only |
| JSON (`src/json.cpp`), CRC-32 (`include/checksum.hpp`) | none | `dump`, `parse`, `find`; `crc32` | log records and snapshots; log lines and frames |
| `SpscQueue` (`include/spsc_queue.hpp`) | ring of slots, two atomic indices | `push`, `pop` | one producer and one consumer thread, no lock |
| `ThreadedShardedEngine` (`include/threaded_engine.hpp`) | two queues per shard, `running_`, worker threads | `start`, `stop`, `submit`, `drain` | producer, workers, consumer, controlling thread |
| `OrderEntryServer` (`src/net.cpp`) | sessions with receive buffers, `running_` | `start`, `stop`, the poll loop | an I/O thread; hands each command to a callback |
| Wire protocol (`src/protocol.cpp`) | none | `encode_command`, `parse_frame`, `decode_command` | clients write it, the server reads it |
| `Sequencer`, `IngressRing`, `SymbolTable` (`include/gateway.hpp`, `include/symbol_table.hpp`) | next number; bounded deque; two tables | `assign`; `push`, `pop`; `intern` | the gateway thread |
| `MulticastPublisher`, demo | | | output |

What is hard here: the loops of `add()` change two maps, a list and an index that
must agree after every combination of fills, self-trade cancels and early exits;
a process may die inside a flush or between the steps of a snapshot, and a write
may fail without a word; the ring has no lock, and its two threads decide on
values the other one is changing; a full queue makes a thread retry; `stop()` may
fall between any two steps of a worker or of a poll round; a stream of frames
arrives cut anywhere, and its client may be gone before it is read; the free
list lives inside the blocks it lists. The list of such places, each at its
line, is `hazards` in `PROJECT.json`.

## 2. The modules

| Module | Models | Extends / uses |
|---|---|---|
| `MatchingEngine` | the engine, whole | |
| `Pool` | the pool, its allocators and their owners | |
| `WalFile` | the log as pieces of lines, and how it is read | |
| `Shard` | one shard: ingress, risk, log, snapshot, crash, restart | `WalFile`; the engine as the list of calls made on it |
| `BoundedFifo` | what a queue promises (abstract) | |
| `SpscQueue` | the lock-free ring | implements `BoundedFifo` |
| `ThreadedEngine` | the threads around the engine | queues as `BoundedFifo` promises them |
| `Gateway` | symbol table, sequencer, ingress ring | |
| `OrderEntryServer` | the server, its clients, the kernel between them | `Gateway` as the handler |
| `Ascii`, `Outgoing` | bytes and hexadecimal numbers; the commands on their way out | |
| `Json`, `Checksum` | JSON texts; the CRC | |
| `Protocol` | commands, payloads and frames, for any checksum | |
| `Wire` | a stream of frames, and the loop that reads what has arrived of it | `Protocol` |
| `WalCodec` | commands as records of the log | `Json` |
| `WalBytes` | the log in bytes, for any checksum and any text of a record | `WalFile` |
| `Codecs` | both ways out of memory, cut behind any byte | `WalBytes` with the records and texts of `WalCodec`, `Wire`; the CRC as checksum of both |
| `MC...` | instances for TLC | the module named |
| `Selection` | `Kept`: a sequence without some of its places | used by `WalFile`, `Shard`, `OrderEntryServer` |
| `Lemmas` | facts about numbers, sequences and finite sums | used by the proofs |
| `MatchingEngineProofs`, `OrderLifeProofs` | theorems about the engine: its books; its orders over time | `MatchingEngine` |
| `SpscQueueProofs`, `ThreadedEngineProofs`, `PoolProofs`, `ShardProofs`, `OrderEntryServerProofs` | theorems about the module named; the last also about the frames a server reads | that module; the last also `Wire` |

Operators named after a deviation (`AcceptsBeyond`, `WriteOverwriting`, ...) stand
before the definition they deviate from. No specification uses them: each is a
bug that could be made at that place, and `mutants` in `PROJECT.json` says which
property catches it. `TypeOK` of a module says what its variables are; it is
proved of each module that has theorems, and checked in a run for
`MatchingEngine`.

### MatchingEngine

A call runs to its end before the next begins; `pc` is the place in `add()` or
`load_snapshot()`, and one iteration of their loops is one step, so the
properties hold inside a call too. A price map is its set of keys (`levels`) and
the list under each key (`queue`): a key with an empty list is a state the model
can be in. A list node is identified by the number of its allocation (`node`),
and that number is the iterator an index entry keeps, so a dangling iterator is
one too. The two nested loops of `add()` are one: the outer loop goes on with
the best level, which is the level of the inner loop until it is empty. The
passive order's level is erased in the step that empties it. Events are reduced
to `ledger`, history that says for each order how much of it the events have
left open and when it was last reported as resting. `MaxSequence` bounds the
length of behaviours: no call starts at or beyond it. `UniqueIds` says that
callers do not add an id that is resting, which the code does not enforce; the
theorems about the books hold without it, `IndexComplete` does not. The volume
`available_volume()` adds up is a sum over the set of orders within the limit:
their nodes differ, so no two of them are one element.

`LoadInvalid` is a document without books, with any sequence number or none; other
malformed documents are not modelled, since documents come from `snapshot()`.

### Pool

Memory is a few addresses; `operator new` gives out fresh ones, aligned. A free
block keeps its link (`link`) in its own first bytes, `PointerBytes` of them, so a
block smaller than a pointer would let a link reach into the neighbour. The
kinds allocated are small types of equal and unequal block size and alignment:
the containers of an engine allocate one kind of node, but the fallback for
others is in the code, and `deallocate()` has to make the same decision as
`allocate()` did, when the pool's size may not have been set. `holders` is who has
a `shared_ptr`: the engine and every level. `Release` by the last one frees the
chunks. Memory that was given back to `operator new` is not given out again,
which makes a use of it visible.

### WalFile, Shard

The engine is deterministic, so its state is the list of calls made on it; the
snapshot document is that list, which `load_snapshot()` brings back
(`ReloadExact`). The file is a list of pieces: whole lines, and what a crash or a
failed write left of a line. A piece after such a rest continues its line, and
the reader passes over it, accepts it or stops there as `replay_commands()` does;
that this is what the bytes of a log do is `LogReadsAsPieces` of `WalBytes`. `Crash`
may cut a flush in progress anywhere; with `PowerLoss` it also takes what was
never fsynced. `WriteFails` leaves any part of the staged records in the file:
`flush()` clears `pending_` whatever `fwrite()` returned. What a stdio buffer might
still write later after such a failure is left out. The snapshot's temporary file
is written without a look at the result, too: `SaveWriteFails` leaves the first
bytes of the document (`DAMAGED`) or an empty file, and the save goes on to rename
it over the good snapshot and to truncate the log. `load_snapshot()` takes an empty
file for none and throws on a damaged one; `RestoreThrows` is that exception, on
this shard's document or on that of a shard before it in the loop of
`restore_from_snapshots()`, after which the caller does not go on. File metadata (rename,
truncation) is taken to reach the disk in order. Shards share nothing that
changes, so one is enough; `snapshot_all()` saves them one by one.
`RestoreFromSnapshots` follows every restart: it is the only operation that fills
the engines of a new process. `trouble` is history: after a failed write, a restart, or a snapshot that was
not written whole, snapshot and log need not be what the engine did, until the
next snapshot that is.

### SpscQueue, BoundedFifo

One action for each access to shared memory. Indices wrap at `Pow2[Width]`; the
instance has three bits, so wrapping happens all the time, and the state space is
finite without a bound on the number of calls. The release store and acquire load
of an index order the accesses to the slot between them; loads are taken to
return the latest value. In `BoundedFifo` a call takes effect at one instant
between call and return; the refinement mapping of `Fifo` says which: the store of
the own index, or the load of the other one when the call is refused.

### ThreadedEngine

The queues are atomic, which is what `ImplementsFifo` shows. `push()` takes its
argument by value, so `push(std::move(msg))` empties `msg` even when it is
refused; `whole` says whether a message still has its strings and vectors.
`window` is history: the most commands of a shard that were at once under way
between `submit()` and `drain()`. The call on the engine lasts as
long as a worker is at `"execute"`, and `Routed` is the shard it is in. `start()` and
`stop()` are called from one thread. `oneThread`, chosen at the start, says that
`submit()` and `drain()` are called from one thread, as the demo does.
`MaxSubmits` and `MaxStops` bound the calls.

### Gateway, OrderEntryServer

Actors are the clients, the I/O thread (`pc`) and the thread that calls `start()`
and `stop()`. Byte `k` of message `i` of a client is the pair `<<i, k>>`; a message
has the number of bytes sent, the number its header claims, and what parsing
and decoding make of it. A frame read from any byte but a first one is nonsense:
no state of the passing run gets there unless the erasing of the buffer or the
offset is wrong. `kernel` is what the server has not read. `Poll` takes the
sessions that are readable at that moment; what arrives later is for the next
round. A `recv()` that fails is taken for "no more data" by the code whatever the
error, and after a reset the next one returns 0 (`"over"`).

The handler is the ingress: `SymbolTable::intern`, `Sequencer::assign` and
`IngressRing::push`. Nothing in the repository connects these to the server; the
composition follows the architecture in its README and the comments that all
three belong to the gateway thread, so `Feed`, which pops the ring, is a step of
that thread between two rounds.

### Json, Checksum, Protocol, Wire, WalCodec, WalBytes, Codecs

Bytes are numbers. Words are two bytes instead of eight, lengths two instead of
four, the checksum has 16 bits and a polynomial of that degree (TLC's integers
have 31 bits); the widths, and the checksum, are parameters of
`Protocol` and `WalBytes`. `Wire` has the stream a client writes and the loop of
`drain_connection()` as a function from the bytes in the buffer to the commands
handed on, the offset reached, and how the loop ended. `WalBytes` has the line of
`append()`, and `replay_commands()` as a fold over the bytes of the file: a line is
gathered until its newline, or the end of the file, and is then passed over, read,
or the reason to stop. The file is a sequence of rests, records of which the first
bytes were written; `Pieces` says what WalFile calls them. Keys and names in
records are shortened to a letter each. `Codecs` writes a pair of commands to a log and to a stream, or
a document, byte by byte; each state is a place where a crash or the network may
have cut it.

## 3. What the runs check

| Run | Instance | Shows |
|---|---|---|
| `engine_book` | 1 symbol, 3 ids, 2 participants, 2 prices, quantities 0-2, all times in force, every prevention mode with GTC, add and cancel, 5 events, fair | type, uncrossed books, no exception, index sound and complete, levels exact, volume per order, FOK all or nothing, price-time priority, every call ends |
| `engine_amend` | 2 symbols, 3 ids, 2 prices, quantities 0 and 1, all operations, 5 events | replace across books and ids; reloading is exact, keeps priority and leaves every order reachable |
| `shard` | batch of 2, Fsync, 3 commands, ingress numbers 1 and 2, loss of power anywhere, every failure, 1 restart | recovery misses at most one group commit and invents nothing; ingress order; appended records are replayed; a snapshot is replaced by one that continues it, or by a write that failed |
| `spsc_queue` | capacity 3 rounded to 4, 3-bit indices, 3 values | no race on a slot; implements `BoundedFifo` |
| `threads_pipeline` | 2 shards, queues of 1, 3 commands, 2 stops, one or two application threads | each command in one place, in order, and whole within the window; `stop()` and `submit()` return; ids come back |
| `order_entry` | 2 clients, 4 scripts of up to 4 messages of 2-4 bytes, reads of 2 bytes, ring of 2, 2 stops | commands handled in order and once; sessions dropped for a reason only; ring and symbol table sound; patient clients served; `stop()` returns |
| `codecs` | 6 commands in pairs, 480 documents, strings with every kind of reserved byte, numbers at the ends of a word | what is written is read back, what is cut is refused or awaited, damage is noticed |
| `pool` | 2 levels, 4 kinds, chunks of 2 blocks, 9 addresses | no overlap, free list exact, blocks returned where taken, no use after free |

Three orders are the least for which one order can lose its place to another
while a third trades. A batch of two is the least in which one record of a batch
can survive and one be lost; three commands then leave one staged behind a
committed batch. Commands without an ingress number, which pass the check whatever
came before, are in `shard_restart_supersedes` and in the proofs, and not in `shard`,
where they would take it past five minutes. Queues of one element are full as often as possible, and three
commands fill both queues of a shard and its worker; for `ContentsKept` this is a
window of one command, and the theorem has every other. Scripts have a command
behind an event, behind a malformed frame and behind a frame that claims too
much, and frames longer than a read. Nine addresses hold two chunks of
the smallest blocks, or one chunk and several allocations beside it. `order_entry` and `codecs` check
a bounded instance with ends, so they, `shard` and `pool` do not check for
deadlock: a client has nothing more to say, a process that is down stays down,
memory is used up.

Fairness: `engine_book` assumes that the engine's thread goes on with a call it
has begun. `threads_pipeline` assumes that the scheduler runs each thread that can
move (they spin, none ever blocks). That the application keeps calling `drain()`
is a premise of `ResultsEchoed` and `SubmitReturns` and not of `StopReturns`.
`order_entry` assumes that the I/O thread runs and that `stop()` goes on to join it;
poll's timeout makes the loop look at `running_` again. No run assumes that a
caller submits, starts or stops, or that a client sends or closes.

`SubmitReturns` has the premise that shows the limit of the one-thread use: with
more commands of a shard outstanding than its two queues hold, a thread that has
to drain spins in `submit()` for ever (one shard and a fourth command are enough,
once the premise is taken away).

### Where the code departs from its documentation

Each of these runs ends in a counterexample; `findings` quotes the text.

| Run | What happens |
|---|---|
| `engine_fok_partial` | FOK with CancelPassive counts the participant's own orders as available and is executed in part |
| `shard_restart_supersedes` | `restore_from_snapshots()` ignores the log, and the next snapshot deletes it |
| `threads_race` | a retried command has lost its symbol and runs in another worker's shard |
| `order_entry_close` | the commands of a client that closes at once are read and not handled |

The premises of other properties say where more of them are:

- `CrashLosesTail` without its second case: a crash between the rename of the
  snapshot and the truncation of the log makes replay apply the log to the
  snapshot that contains it (`src/recovery.cpp:139`).
- `AppendedReplayed` without "every piece is full": the first record after a
  restart continues a torn line, its checksum fails, and replay stops there
  (`src/recovery.cpp:43`).
- `VolumeConserved` in the instance of `engine_fok_partial`: the rest of such an
  order vanishes without an event (`src/matching_engine.cpp:186`).
- `IndexComplete` with `UniqueIds = FALSE`: adding an id that is resting makes the
  earlier order impossible to cancel (`src/matching_engine.cpp:50`).
- `IngressOrdered` with a restart: the last ingress number is in no file, so a
  command that is sent again runs again (`src/sharded.cpp:17`).
- `Recoverable` with a handle that a failing truncation took away: `flush()` does
  nothing from then on, and records pile up (`src/recovery.cpp:119`).
- `SnapshotNeverRegresses` without its second case: a full disk cuts the document,
  the cut document is renamed over the good snapshot, and the log that could have
  replaced it is truncated (`src/recovery.cpp:132`); the next restart throws, or
  begins with empty books if nothing was written at all.
- `ContentsKept` beyond the window: a result whose queue was full arrives without
  its events and trades (`include/threaded_engine.hpp:130`), a command without its
  symbol.
- `IngressSound` bounds the ring for positive capacities: at zero the code never
  drops anything (`include/gateway.hpp:26`), where the deque its comment compares
  it with would hold nothing.

Visible in the actions themselves: `FailsRisk` asks about `add()` only, so an order
of any size enters the book through `replace()`; the checksum of a frame covers
neither its type nor its length, and a length that claims too much keeps the
session waiting.

## 4. What is proved

Every invariant of the passing runs except three of `Codecs` (listed below), the
action properties `PriceTime` and `SnapshotNeverRegresses`, and the refinement
`ImplementsFifo` are theorems: for every value of the constants that meets the
`ASSUME` of its module, and the hypotheses named below.

| Module | Theorem | Property |
|---|---|---|
| `MatchingEngineProofs` | `TypeCorrect`, `BookNeverCrosses`, `EngineNeverThrows`, `IndexNeverDangles`, `LevelsStayExact` | `TypeOK`, `NeverCrossed`, `NoEngineError`, `IndexSound`, `LevelsExact` |
| | `FokWhole` | `FokAllOrNothing` |
| `OrderLifeProofs` | `ReloadsExactly`, `EveryOrderReachable`, `PriceTimePriority`, `VolumeBalances` | `ReloadExact`, `IndexComplete`, `PriceTime`, `VolumeConserved` |
| `PoolProofs` | `MemoryDisjoint`, `FreeListCorrect`, `ReturnsMatch`, `PoolOutlives` | `BlocksDisjoint`, `FreeListExact`, `ReturnedWhereTaken`, `PoolOutlivesNodes` |
| `ShardProofs` | `RebuildsEngine`, `CrashBounded`, `IngressInOrder`, `AppendedIsReplayed`, `ReplayNeverReorders`, `SnapshotsContinue` | `Recoverable`, `CrashLosesTail`, `IngressOrdered`, `AppendedReplayed`, `ReplayInOrder`, `SnapshotNeverRegresses` |
| | `CrashedLogIsRead` | `LogReadsAsPieces` |
| | `FileReadsAsPieces`, `BytesRebuildEngine` | (facts about `WalBytes`) |
| `SpscQueueProofs` | `NoDataRace`, `Refinement` | `SlotsDisjoint`, `ImplementsFifo` |
| `ThreadedEngineProofs` | `NothingLost`, `WindowKeepsContents` | `PipelineExact`, `ContentsKept` |
| `OrderEntryServerProofs` | `HandledInOrder`, `ReasonForDrop`, `IngressStaysSound` | `HandledAsMeant`, `DroppedForReason`, `IngressSound` |
| | `FramesAreReassembled` | `FramesReassembled` |
| | `EveryCommandIsSendable`, `DamageIsRefused`, `NextDrainGoesOn` | (facts about `Wire`) |

Each module also proves its type invariant (`TypeCorrect`). The inductive
invariants were checked with TLC before they were proved.

### The books

`TypeCorrect` to `LevelsStayExact` hold for all sets of symbols, ids and
participants, all sets of integer prices and quantities, all styles, and whether or
not ids are unique. They follow from one inductive invariant, `Inv`. None of
them is inductive by itself:

- an index entry survives the removal of another order only if list nodes are
  told apart, so `Inv` has `NodesUnique`: within a list no two orders have the
  same node, and all are older than the next allocation;
- a GTC order may rest without crossing only because the loop ended for the right
  reason: `ScanDone` says that at `"finish"`, if anything remains of an order that is
  not MARKET, nothing on the other side is within its limit;
- a fill is positive only if no order rests with nothing, which is part of
  `LevelsExact`;
- reloading keeps books uncrossed because the saved document is one of uncrossed
  books (`SavedInv`), and every level restored so far is one of the document's
  (`LoadInv`).

The proof goes by action: for each, one lemma that the books stay good
(`MatchFillBooks`, `AddRestBooks`, `EraseBook`, `RestoreBooks`, ...), gathered in
`BookStep`; one that the other variables keep their types (`ControlStep`); and
`FlowStep` and `SavedStep` for the control points and the saved document.

### Fill-or-kill

`FokInv` says why an accepted order cannot run short: the volume within its limit,
compared once by `add()`, stays at least what is left of the order, since a fill
takes the same from both (`FokCovered`), and what is not left has been executed
(`RestExecuted`). `PopVolume` is the heart of it: a sum over a finite set, less the
front order of one list. For it `Inv` gives that the nodes of a side are
distinct, and `FiniteLevels` that the sum is over a finite set.

`FokWhole` has two hypotheses. Quantities are not negative: `check_add()` lets no
others through (`include/risk.hpp:25`). And fill-or-kill orders ask for no
self-trade prevention: with `CancelPassive` the statement is false, which is what
the run `engine_fok_partial` shows. With `CancelAggressor` or `CancelBoth` the
order may be cancelled in the middle; what is proved of these is that nothing
of the order is left over when the loop ends (`FokDone`).

### The life of an order

`ReloadInv`: a list is restored from its front, so that what has been restored of
it is the beginning of the document's list and what is still to do is its rest.
At the end nothing is to do, and keys and lists are the document's. Ids may be
reused for this.

`LifeInv`, under `UniqueIds`: every order in a list has the entry of the index
that names its symbol, side, price and node (`Indexed`); lists are in the order of
arrival (`Timed`); the order `add()` works on has no entry yet (`Unknown`), since
otherwise resting it would cut off an older one; and a document, and what is
left of it to load, keeps all this (`SavedLife`, `LoadLife`). Fills, self-trade
prevention, cancels and the first half of a replace are one kind of step,
`Shrinks`: it takes a quantity from one order, which leaves books and index when
nothing remains, and keeps the sequence of all others. `PriceTimePriority` then
needs only that the front of the best level is the oldest order of the best
price.

`VolumeInv`: what the events leave open of an order is what rests of it
(`OpenRests`), what the `add()` in progress has left (`OpenWorking`), what the
document holds (`SavedOpen`), and otherwise nothing (`NothingElse`). The last is
where `FokDone` comes in: a fill-or-kill order ends without an event, so nothing
may be left of it. Hence the hypotheses of `VolumeBalances`: unique ids, no
negative quantities, and no style that combines FOK with CancelPassive.

### The pool

`PoolInv` says how chunks and single allocations lie in memory (`ChunksLaid`,
`NewLaid`), that the block size was fixed by the first allocation of one object
(`Sized`), that every node has a level and every level a share of the pool
(`Owned`), and that a block is handed out once (`Handed`). That blocks of one chunk
do not overlap is arithmetic of multiples; that the free list has no cycle
rests on `FreeListExact` counting each block once. Assumed: the size of a type is
a multiple of its alignment, and arrays of length one are among the lengths asked
for.

### The shard

`ShardInv` relates engine, log, staged records and snapshot at every point of an
operation: while a snapshot is saved the document is the engine unless the write of
it failed, a snapshot that can be loaded is something the engine has been, and
without trouble the one just renamed is the engine (`SaveInv`); numbers increase along the
log (`NumberInv`); without trouble, snapshot and log make up the engine and less
than a batch is staged (`LogInv`); without a failure the log ends with what this
process appended (`AppendInv`). `CrashBounded` covers both kinds of crash: in a
loss of power the bound holds of a store that fsyncs, which the property states.

### Ring and threads

`RingInv` says that what a thread learnt from the other's index stays true until
it acts on it: room for the producer can only grow, supply for the consumer can
only grow. `Refinement` maps every access to shared memory to a step of
`BoundedFifo` or to none. Assumed: at least two bits, and a requested capacity of
at most half the range of an index, without which rounding up to a power of two
would not end at one that fits.

`PipelineInv` orders the five places of a shard, from results already returned
back to the command being submitted, and says that every number issued is in
one of them or was dropped. `DropBound` is what makes "at most one result per
worker and stop" inductive: while `stop()` is joining, the workers that have not
seen it still count. `KeptInv` is behind `WindowKeepsContents`: what is under way in
a shard, the command at the door included, is counted in its window, so that a
push that is refused has more under way than the queue holds; and a message without
its contents has been refused by that queue.

### Ingress and order entry

`FramedInv` says of a client that the server is done with its first `m` messages:
their commands are handled, none was malformed, and `StreamInv` puts buffer and
kernel at the byte behind the last of them. It holds at every offset of
`drain_connection()` (`Parsed`). `TablesInv` and `RingInv` do the same for symbol
table and ring. `ServerAssumption` says of messages what makes a stream readable:
they have a byte at least, claim a header at least, and one whose length is not
what it claims is malformed.

### The wire

`FramesAreReassembled` says of every sequence of commands, and every number of
bytes that has arrived of their frames, what the run `codecs` checks of 36 pairs
with words of two bytes. Its hypotheses are that the commands can be sent and that a
checksum fits its field (`CrcFits`: `crc32()` returns a `uint32_t`). Nothing else
is asked of the checksum. `EveryCommandIsSendable` shows that the first is no
restriction: with the widths of the code, every command that `pack_*()` does not
refuse is one, since a payload has at most 547 bytes.

The argument goes up through the layers:

- a number written by `put_u32()` or `put_u64()` is read as itself modulo the number
  of values of the field (`GetPut`), so that a signed word comes back with its
  sign (`GetSigned`);
- a payload is unpacked into the command it was packed from (`AddSurvives`,
  `CancelSurvives`, `ReplaceSurvives`): `At` says which bytes stand where in a
  sequence put together from several;
- a frame with all its bytes in the buffer is parsed to its payload, whatever
  follows it (`FrameParsed`), and one of which bytes are missing, whatever number
  the bytes that are there spell, is awaited (`FrameAwaited`);
- so every round of the loop takes one whole frame (`RoundTakesFrame`) or is the last
  (`RoundAwaits`), which gives the loop's result in closed form (`ReadsWhole`).

`NextDrainGoesOn` puts two calls of `drain_connection()` together: the first erases
what it handed on, the second starts behind it, and hands on exactly what has
become whole in between. This is the step from one call to the session that
`OrderEntryServer` takes for granted when it treats a stream as messages with
lengths. `DamageIsRefused` says what a wrong checksum does; that damage makes the
checksum wrong is a matter of the CRC, and only checked (`DamageDetected`).

### The log in bytes

`FileReadsAsPieces` is what `Shard` rests on when it treats the log as pieces of
lines: a file of any number of lines and rests of lines, each cut behind any byte
and each continued by the next, is read by `replay_commands()` as `WalFile` says. It
asks of a record that it is `Loggable`: its text has no line break and is read back
as the record, and its checksum fits the digits. The run `codecs` checks that of the
commands it writes (`CommandSurvivesLog`). And it asks `TornNoticed`: no line of this
file that is not as `append()` wrote it has the right checksum. A CRC can collide, so
without it the statement is false; it is a statement about the file at hand, and TLC
evaluates the conclusion, `LogReadsAsPieces`, with the CRC itself and every cut.
`CrashedLogIsRead` is that property for every two commands. `BytesRebuildEngine` needs
no such hypothesis, since without a crash or a failed write no line is torn: the
bytes of the log and the snapshot rebuild the books of the live engine.

The argument:

- a checksum written as hexadecimal digits is read as itself (`HexRead`), so a line
  that is whole, with or without its newline, passes and gives its record
  (`LineIsRead`, `BodyFacts`);
- bytes that are no newline extend the line (`ReadPlain`), a newline takes it
  (`ReadNewLine`), and a file may be read in parts (`ReadInParts`, `ReadJoined`);
- a line that begins with a short rest has no blank at the ninth place whatever
  follows, because only digits can get there; any other line has it (`SpanFacts`);
- so at the end of every line the loop does what `Passed`, `Valid` and `Corrupt` say
  (`LineTaken`), and `ReadUpTo` holds after every piece (`PieceRead`).

### How the proofs go

The installed provers cannot instantiate induction theorems that take an operator,
so an induction is done by minimal counterexample: a set of natural numbers that
holds 0 and with `i` also `i + 1` is all of them (`BoundedInduction` in `Lemmas`).
That is how `Lemmas` obtains what `Kept` returns for every sequence, what powers of
two divide, and that finite sums exist and may be taken apart (`SumPick`). `Kept` of
`Selection` stands where `SelectSeq` would, because the latter is defined by a
recursion the provers do not see into. `BoundedRecursion` does the same for
definitions by recursion: a function on `0..n` that starts with a value and takes
a given step exists, which is what the provers need before they may unfold `Get`,
`FramesOf`, `ReadFrames`, `HexValue`, `Joined` and `ReadBytes`.

### Only model-checked

- Liveness (`CallReturns`, `StopReturns`, `ResultsEchoed`, `SubmitReturns`,
  `SessionServed`) needs fairness and ENABLED.
- `DocumentSurvives` and `CommandSurvivesLog`: a JSON document is
  a tree, and printing and parsing it are recursive operators, which these provers
  do not unfold; what they compute for every tree is a matter of induction over it.
- `DamageDetected`: the CRC is computed bit by bit with `Bitwise`, and what it
  detects is the algebra of polynomials over two elements.

## 5. What is not modelled

- `MulticastPublisher` (one `sendto()` per call) and the demo: no state.
- Thread pinning, the socket calls that open the listener, `mkdir`.
- Doubles in JSON, which nothing here writes, and what `stoi`, `stoll` and `stod`
  accept of texts that `dump()` does not produce.
- A handler that throws, which `drain_connection()` takes for a malformed frame.
- Exhausted memory.
- Overflow of 64-bit prices, quantities and sequence numbers; the product in
  `check_add()` stays below 2^54 under the default limits.
- A load of an atomic index that returns an older value than the latest: it would
  only make `push()` or `pop()` refuse where it could succeed.

## 6. Plan

Done, in this order: `MatchingEngine` with the proofs about its books, `Shard`,
`SpscQueue` with `BoundedFifo`, `ThreadedEngine`, `Gateway` with `OrderEntryServer`,
`Pool`, and the codecs; then the proofs about ring, threads, pool, shard, order
entry, the life of an order, the wire, and the log in bytes. Worth doing next:

1. Fill-or-kill with `CancelAggressor` or `CancelBoth`: what is executed of the
   order when its owner's order stands in the way.
2. Two steps that stand between the models and are argued here in words: that the
   queues of `ThreadedEngine` are the `BoundedFifo` that the ring implements, and
   that the engine's snapshot is the list of calls `Shard` takes it for.
