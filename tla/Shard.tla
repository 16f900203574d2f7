-------------------------------- MODULE Shard --------------------------------
(***************************************************************************)
(* One shard of the ShardedMatchingEngine (src/sharded.cpp): ingress and   *)
(* risk checks, the engine, and its WalStore (src/recovery.cpp) with group *)
(* commit, snapshot, truncation, crash and restart.  Shards share no       *)
(* mutable state, so one of them is the whole model.                       *)
(*                                                                         *)
(* The engine is deterministic: its state is the list of calls made on it. *)
(* snapshot() of the engine is that list, load_snapshot() brings it back   *)
(* (ReloadExact of MatchingEngine), and add() never throws                 *)
(* (EngineNeverThrows).                                                    *)
(***************************************************************************)
EXTENDS WalFile, FiniteSetsExt

CONSTANTS
    Requests,    \* the adds, cancels and replaces that callers send
    Ingress,     \* the ingress sequence numbers they send with them, NULL for none
    Limits,      \* the RiskLimits
    Batch,       \* kCommitBatch
    Fsync,       \* the AckPolicy is Fsync
    PowerLoss,   \* a crash may lose what was not fsynced
    CrashAt,     \* the points (values of pc) at which the process may die
    Failures,    \* the operations that may fail: "open", "rename", "truncate", "write"
    MaxCommands, \* bound: commands sent to the shard
    MaxRestarts, \* bound: restarts of the process
    NULL,        \* for a snapshot: no file, or an empty one
    DAMAGED      \* the first bytes of a snapshot document, without its end

Request == [type: {"add", "cancel", "replace"},
            tif: {"GTC", "IOC", "FOK", "MARKET"}, price: Int, quantity: Int]

RiskLimits == [max_order_quantity: Int, min_price_ticks: Int,
               max_price_ticks: Int, max_notional_ticks: Int]

(***************************************************************************)
(* An entry is a call on the engine and, in the log, its record: a request *)
(* with its ingress number and a number that tells entries apart.          *)
(***************************************************************************)
Entry == [type: {"add", "cancel", "replace", "reject", "risk_reject"},
          request: Requests, ingress: Ingress, number: 1..MaxCommands]

Calls == Seq(Entry)

ASSUME ShardAssumption ==
    /\ Requests \subseteq Request
    /\ Ingress \subseteq Int \cup {NULL}
    /\ NULL \notin Int /\ NULL \notin Calls
    /\ DAMAGED \notin Calls /\ DAMAGED # NULL
    /\ Limits \in RiskLimits
    /\ Batch \in Nat \ {0}
    /\ Fsync \in BOOLEAN /\ PowerLoss \in BOOLEAN
    /\ CrashAt \subseteq {"idle", "flush", "save", "write", "rename", "truncate", "boot"}
    /\ MaxCommands \in Nat /\ MaxRestarts \in Nat

VARIABLES
    engine,     \* the calls made on engines_[s] since it was constructed
    last,       \* last_ingress_sequence_[s]
    pending,    \* pending_: records staged for the next group commit
    open,       \* handle_ # nullptr
    file,       \* the WAL file: pieces of records, in the order written
    synced,     \* history: how many pieces fsync() made durable
    snapshot,   \* the snapshot file
    doc,        \* the document save_snapshot() is writing, then its temporary file
    pc,         \* where the process is
    sent,       \* number of commands sent so far
    restarts,   \* number of restarts so far
    appended,   \* history: records appended since start or last snapshot
    trouble     \* history: why the log need not match the engine until the next
                \* snapshot: a "restart", a "failure" of the log, a "snapshot"
                \* that was not written whole, or "none"

walVars == <<pending, open, file, synced>>
saveVars == <<snapshot, doc>>
vars == <<engine, last, pending, open, file, synced, snapshot, doc, pc, sent, restarts, appended,
          trouble>>

-----------------------------------------------------------------------------
\* The calls that change a book: what a replay has to reproduce.
Books(calls) ==
    Kept(calls, {i \in DOMAIN calls : calls[i].type \in {"add", "cancel", "replace"}})

As(c, type) == [c EXCEPT !.type = type]

\* check_add().  The limits are small enough that the product does not overflow.
CheckAdd(r) ==
    /\ 0 < r.quantity /\ r.quantity <= Limits.max_order_quantity
    /\ \/ r.tif = "MARKET"
       \/ /\ r.price \in Limits.min_price_ticks..Limits.max_price_ticks
          /\ r.price * r.quantity <= Limits.max_notional_ticks

FailsRisk(c) == c.type = "add" /\ ~CheckAdd(c.request)

-----------------------------------------------------------------------------
Unreadable == {NULL, DAMAGED}

\* load_snapshot(): without a document the engine stays as it was constructed.
Loaded(snap) == IF snap \in Unreadable THEN <<>> ELSE snap

\* replay_shard(): the calls made on the rebuilt engine.  Risk rejects are in
\* the log and are not replayed.
Rebuilt(snap, f) == Loaded(snap) \o Books(ReplayCommands(f))

\* What may be there of a file whose end could not be written: the pieces that
\* are safe, and of the others all up to any point.
Shorter(form) == IF form \in {"short", "long"} THEN {"short", form} ELSE Torn \ {form}
Cut(written, safe) ==
    {SubSeq(written, 1, k) : k \in safe..Len(written)}
    \cup UNION {{Append(SubSeq(written, 1, k), [written[k + 1] EXCEPT !.form = t]) :
                    t \in Shorter(written[k + 1].form)} : k \in safe..Len(written) - 1}

WriteOverwriting ==
    /\ file' = IF open THEN Lines(pending) ELSE file
    /\ synced' = IF open /\ Fsync THEN Len(file') ELSE synced
    /\ UNCHANGED trouble

\* pending_ goes to the file, unless there is no handle.
WriteStaged ==
    /\ file' = IF open THEN file \o Lines(pending) ELSE file
    /\ synced' = IF open /\ Fsync THEN Len(file') ELSE synced
    /\ UNCHANGED trouble

\* The results of fwrite(), fflush() and fsync() are not looked at.
WriteFails ==
    /\ "write" \in Failures
    /\ open /\ pending # <<>>
    /\ file' \in Cut(file \o Lines(pending), Len(file))
    /\ trouble' = "failure"
    /\ UNCHANGED synced

FlushKeepingStaged == (WriteStaged \/ WriteFails) /\ UNCHANGED <<pending, open>>

\* flush(): written or not, what was staged is gone.
Flush ==
    /\ WriteStaged \/ WriteFails
    /\ pending' = IF open THEN <<>> ELSE pending
    /\ UNCHANGED open

\* append(): stage the record; a full batch is flushed before add() returns.
WindowFull(records) == Len(records) >= Batch

AppendRecord(r) ==
    /\ pending' = Append(pending, r)
    /\ appended' = Append(appended, r)
    /\ pc' = IF WindowFull(pending') THEN "flush" ELSE "idle"
    /\ UNCHANGED <<open, file, synced, trouble>>

-----------------------------------------------------------------------------
Init ==
    /\ engine = <<>>
    /\ last = 0
    /\ pending = <<>>
    /\ open = TRUE
    /\ file = <<>>
    /\ synced = 0
    /\ snapshot = NULL
    /\ doc = NULL
    /\ pc = "idle"
    /\ sent = 0
    /\ restarts = 0
    /\ appended = <<>>
    /\ trouble = "none"

\* validate_ingress()
OutOfOrderStrict(c) == c.ingress # NULL /\ c.ingress < last
OutOfOrder(c) == c.ingress # NULL /\ c.ingress <= last

Send(c) ==
    /\ pc = "idle"
    /\ sent < MaxCommands
    /\ sent' = sent + 1

RefuseIngressLogged(c) ==
    /\ Send(c)
    /\ OutOfOrder(c)
    /\ AppendRecord(c)
    /\ engine' = Append(engine, As(c, "reject"))
    /\ UNCHANGED <<saveVars, last, restarts>>

\* add(), cancel() or replace() with an ingress number that is not new.
RefuseIngress(c) ==
    /\ Send(c)
    /\ OutOfOrder(c)
    /\ engine' = Append(engine, As(c, "reject"))
    /\ UNCHANGED <<walVars, saveVars, last, pc, restarts, appended, trouble>>

InOrder(c) ==
    /\ ~OutOfOrder(c)
    /\ last' = IF c.ingress = NULL THEN last ELSE c.ingress

\* add() of an order the risk check refuses: the rejection is logged.
RefuseRisk(c) ==
    /\ Send(c)
    /\ InOrder(c)
    /\ FailsRisk(c)
    /\ engine' = Append(engine, As(c, "reject"))
    /\ AppendRecord(As(c, "risk_reject"))
    /\ UNCHANGED <<saveVars, restarts>>

\* The record is logged before the engine is called; nothing can tell whether a
\* flush of a full batch comes before or after the call on the engine.
Execute(c) ==
    /\ Send(c)
    /\ InOrder(c)
    /\ ~FailsRisk(c)
    /\ AppendRecord(c)
    /\ engine' = Append(engine, c)
    /\ UNCHANGED <<saveVars, restarts>>

\* replay_shard() starts with a flush; what it returns is Rebuilt.
ReplayShard ==
    /\ pc = "idle"
    /\ pc' = "flush"
    /\ UNCHANGED <<walVars, saveVars, engine, last, sent, restarts, appended, trouble>>

GroupCommit ==
    /\ pc = "flush"
    /\ Flush
    /\ pc' = "idle"
    /\ UNCHANGED <<saveVars, engine, last, sent, restarts, appended>>

-----------------------------------------------------------------------------
(***************************************************************************)
(* snapshot_all() for this shard: engine.snapshot(), then save_snapshot(). *)
(***************************************************************************)
SaveBegin ==
    /\ pc = "idle"
    /\ doc' = engine
    /\ pc' = "save"
    /\ UNCHANGED <<walVars, engine, last, snapshot, sent, restarts, appended, trouble>>

SaveFlush ==
    /\ pc = "save"
    /\ Flush
    /\ pc' = "write"
    /\ UNCHANGED <<saveVars, engine, last, sent, restarts, appended>>

\* An exception leaves save_snapshot() before anything was replaced.
SaveFails ==
    /\ \/ pc = "write" /\ "open" \in Failures
       \/ pc = "rename" /\ "rename" \in Failures
    /\ doc' = NULL
    /\ pc' = "idle"
    /\ UNCHANGED <<walVars, engine, last, snapshot, sent, restarts, appended, trouble>>

\* The temporary file is written, flushed and fsynced.
SaveWrite ==
    /\ pc = "write"
    /\ pc' = "rename"
    /\ UNCHANGED <<walVars, saveVars, engine, last, sent, restarts, appended, trouble>>

\* The results of fwrite(), fflush(), fsync() and fclose() are not looked at: a
\* full disk leaves the first bytes of the document, or none, and the save goes on.
SaveWriteFails ==
    /\ pc = "write"
    /\ "write" \in Failures
    /\ doc' \in Unreadable
    /\ pc' = "rename"
    /\ UNCHANGED <<walVars, snapshot, engine, last, sent, restarts, appended, trouble>>

\* The file that was written, well or not, takes the place of the snapshot.
SaveRename ==
    /\ pc = "rename"
    /\ snapshot' = doc
    /\ doc' = NULL
    /\ trouble' = IF doc = engine \/ trouble # "none" THEN trouble ELSE "snapshot"
    /\ pc' = "truncate"
    /\ UNCHANGED <<walVars, engine, last, sent, restarts, appended>>

\* truncate_wal(): the log starts anew behind whatever the snapshot file holds.
Superseded == IF snapshot = engine THEN "none" ELSE "snapshot"

SaveKeepLog ==
    /\ pc = "truncate"
    /\ open' = TRUE
    /\ pending' = <<>>
    /\ appended' = <<>>
    /\ trouble' = Superseded
    /\ pc' = "idle"
    /\ UNCHANGED <<saveVars, file, synced, engine, last, sent, restarts>>

SaveTruncate ==
    /\ pc = "truncate"
    /\ open' = TRUE
    /\ file' = <<>>
    /\ synced' = 0
    /\ pending' = <<>>
    /\ appended' = <<>>
    /\ trouble' = Superseded
    /\ pc' = "idle"
    /\ UNCHANGED <<saveVars, engine, last, sent, restarts>>

\* fopen() fails after the old handle was closed.
TruncateFails ==
    /\ pc = "truncate"
    /\ "truncate" \in Failures
    /\ open' = FALSE
    /\ trouble' = "failure"
    /\ pc' = "idle"
    /\ UNCHANGED <<pending, file, synced, saveVars, engine, last, sent, restarts, appended>>

-----------------------------------------------------------------------------
(***************************************************************************)
(* The end of the process and its restart.                                 *)
(***************************************************************************)
Gone ==
    /\ pc' = "down"
    /\ pending' = <<>>
    /\ open' = FALSE
    /\ last' = 0
    /\ doc' = NULL
    /\ UNCHANGED <<engine, snapshot, sent, restarts, appended>>

\* The destructor flushes and closes.
Close ==
    /\ pc = "idle"
    /\ Gone
    /\ WriteStaged \/ WriteFails

\* The process dies.  Of a flush in progress any prefix is in the file, cut
\* anywhere; a loss of power also cuts what was never fsynced.
Crash ==
    LET written == IF pc \in {"flush", "save"} /\ open THEN file \o Lines(pending) ELSE file
        kept == IF PowerLoss THEN synced ELSE Len(file)
    IN  /\ pc \in CrashAt
        /\ Gone
        /\ file' \in Cut(written, kept)
        /\ synced' = Len(file')
        /\ UNCHANGED trouble

\* A new process: the constructor opens the log for appending.
Restart ==
    /\ pc = "down"
    /\ restarts < MaxRestarts
    /\ restarts' = restarts + 1
    /\ engine' = <<>>
    /\ open' = TRUE
    /\ appended' = <<>>
    /\ trouble' = "restart"
    /\ pc' = "boot"
    /\ UNCHANGED <<last, pending, file, synced, saveVars, sent>>

\* restore_from_snapshots(), the one call that fills engines_.
RestoreNothing ==
    /\ pc = "boot"
    /\ snapshot # DAMAGED
    /\ pc' = "idle"
    /\ UNCHANGED <<walVars, saveVars, engine, last, sent, restarts, appended, trouble>>

RestoreFromSnapshots ==
    /\ pc = "boot"
    /\ snapshot # DAMAGED
    /\ engine' = Loaded(snapshot)
    /\ pc' = "idle"
    /\ UNCHANGED <<walVars, saveVars, last, sent, restarts, appended, trouble>>

\* Json::parse() throws on a damaged document, of this shard or of one before it
\* in the loop: the caller does not go on with engines that were not restored.
RestoreThrows ==
    /\ pc = "boot"
    /\ "write" \in Failures
    /\ Gone
    /\ UNCHANGED <<file, synced, trouble>>

-----------------------------------------------------------------------------
Sent(r, i) == [type |-> r.type, request |-> r, ingress |-> i, number |-> sent + 1]
Commands == {Sent(r, i) : r \in Requests, i \in Ingress}

Next ==
    \/ \E c \in Commands : RefuseIngress(c)
    \/ \E c \in Commands : RefuseRisk(c)
    \/ \E c \in Commands : Execute(c)
    \/ ReplayShard
    \/ GroupCommit
    \/ SaveBegin
    \/ SaveFlush
    \/ SaveFails
    \/ SaveWrite
    \/ SaveWriteFails
    \/ SaveRename
    \/ SaveTruncate
    \/ TruncateFails
    \/ Close
    \/ Crash
    \/ Restart
    \/ RestoreFromSnapshots
    \/ RestoreThrows

Spec == Init /\ [][Next]_vars

-----------------------------------------------------------------------------
(***************************************************************************)
(* Properties.                                                             *)
(***************************************************************************)
\* Every variable keeps its type; there is a document until it is written, and a
\* temporary file, whole or not, until it is renamed.
TypeOK ==
    /\ engine \in Calls /\ appended \in Calls /\ pending \in Calls
    /\ last \in Int
    /\ open \in BOOLEAN
    /\ file \in Seq([form: {"full"} \cup Torn, record: Entry])
    /\ synced \in 0..Len(file)
    /\ snapshot \in Calls \cup Unreadable /\ doc \in Calls \cup Unreadable
    /\ pc \in {"idle", "flush", "save", "write", "rename", "truncate", "down", "boot"}
    /\ pc \in {"save", "write"} => doc \in Calls
    /\ pc \notin {"save", "write", "rename"} => doc = NULL
    /\ sent \in 0..MaxCommands /\ restarts \in 0..MaxRestarts
    /\ trouble \in {"none", "restart", "failure", "snapshot"}

\* Whenever the process is between two steps of its store, snapshot, log file
\* and staged records together rebuild the books of the live engine: that is
\* what replay_shard() returns, flush() being its first step.  A restart, a failed
\* write of the log and the rename of a snapshot that was not written whole end
\* this; the next snapshot that is written whole makes it true again.
Recoverable ==
    /\ trouble = "none"
    /\ pc \in {"idle", "flush", "save", "write", "rename"} /\ open
    => snapshot # DAMAGED /\ Books(Rebuilt(snapshot, file \o Lines(pending))) = Books(engine)

\* After a crash at any point, torn write or not, the files rebuild a prefix of
\* what the engine had done and at most one group commit is missing; or the
\* process died between rename and truncation, and the snapshot alone, without
\* the log it supersedes, is all the engine had done.  A loss of power is covered
\* where the AckPolicy is Fsync.
CrashLosesTail ==
    pc = "down" /\ trouble = "none" /\ (PowerLoss => Fsync) =>
        LET done == Books(engine)
            rebuilt == Books(Rebuilt(snapshot, file))
        IN  \/ IsPrefix(rebuilt, done) /\ Len(done) - Len(rebuilt) <= Batch
            \/ snapshot = engine

\* Within what a process has executed, ingress numbers strictly increase: no
\* command is executed twice or behind a later one.
IngressOrdered ==
    restarts = 0 =>
        \A i, j \in DOMAIN Books(engine) :
            LET earlier == Books(engine)[i].ingress
                later == Books(engine)[j].ingress
            IN  i < j /\ earlier # NULL /\ later # NULL => earlier < later

\* Whatever was in the log before, a replay reads every record this process has
\* appended since its start or its last snapshot, last and in order: unless a
\* write failed, or an earlier process left a torn line.
AppendedReplayed ==
    /\ trouble # "failure" /\ \A i \in DOMAIN file : file[i].form = "full"
    /\ pc \notin {"down", "truncate"} /\ open
    => IsSuffix(appended, ReplayCommands(file \o Lines(pending)))

\* Whatever was lost, torn, or written behind a torn line by the next process, a
\* replay of the log invents nothing: it reads records in the order in which they
\* were appended, none twice.
ReplayInOrder ==
    LET records == ReplayCommands(file)
    IN  \A i, j \in DOMAIN records : i < j => records[i].number < records[j].number

\* When truncate_wal() drops the log, the snapshot holds all that is in it.
SnapshotSupersedes ==
    pc = "truncate" =>
        ToSet(Books(ReplayCommands(file))) \subseteq ToSet(snapshot)

\* A snapshot that can be loaded is only ever replaced by one that continues it,
\* or, where the write of the document fails, by a file that loads nothing; over
\* failed opens, renames and truncations, crashes and restarts, and after files
\* that could not be loaded.
SnapshotNeverRegresses ==
    [][snapshot' # snapshot /\ snapshot \notin Unreadable =>
          \/ snapshot' \notin Unreadable /\ IsPrefix(snapshot, snapshot')
          \/ snapshot' \in Unreadable /\ "write" \in Failures]_vars
=============================================================================
