------------------------------ MODULE ShareStore ------------------------------
(***************************************************************************)
(* The Share store of uPaste: SQLite rows, File objects on local disk, the *)
(* request handlers that change them (internal/share, service.go and       *)
(* admin.go) and the maintenance pass that purges expired rows and         *)
(* reclaims orphaned objects (internal/maintenance, with                   *)
(* objectstore.Local.Reconcile).                                           *)
(*                                                                         *)
(* SQLite and the file system share no transaction, and every handler      *)
(* reads the server clock BEFORE it waits for SQLite's single write lock   *)
(* (_txlock=immediate). One action is one step another goroutine can be    *)
(* scheduled around: a clock read, a whole immediate transaction, one      *)
(* file-system call. A Share names, at once, the Share ID and the storage  *)
(* key that its create request draws: both are drawn from crypto/rand, so  *)
(* no two requests ever share one.                                         *)
(*                                                                         *)
(* What a Share contains, its owner token and its update time are left     *)
(* out: no step below branches on them except to refuse a request, and a   *)
(* refused request changes nothing.                                        *)
(***************************************************************************)
EXTENDS Integers, FiniteSets

CONSTANTS
    Shares,            \* the create requests, each with its fresh ID and key
    Handlers,          \* concurrent requests other than creation
    Sweepers,          \* concurrent maintenance passes
    Worker,            \* the ticker's pass; the other ones are an admin's
    Never,             \* expires_at IS NULL
    NoOne,             \* nobody holds the write lock / a handler has no Share
    Public,            \* RetentionPolicy.Public
    DefaultTTL, MaxTTL,
    Grace,             \* maintenance.Grace
    TransferDeadline,  \* share.FileTransferDeadline
    BatchSize,         \* maintenance.BatchSize
    MaxBatches,        \* maintenance.MaxPerRun / maintenance.BatchSize
    Wants,             \* bound: the expirations clients ask for; Never is null
    MaxTime,           \* bound: the last clock value explored
    MaxFaults          \* bound: crashes, failed unlinks and failed passes

\* The retention policy config.Parse accepts: a default within the maximum.
ASSUME RetentionAssumption ==
    /\ Public \in BOOLEAN
    /\ DefaultTTL \in Nat \ {0} /\ MaxTTL \in Nat
    /\ DefaultTTL <= MaxTTL

\* "The grace exceeds the 10-minute File transfer deadline" (ADR 0012).
ASSUME GraceAssumption ==
    /\ Grace \in Nat /\ TransferDeadline \in Nat
    /\ TransferDeadline < Grace

ASSUME BoundsAssumption ==
    /\ BatchSize \in Nat \ {0} /\ MaxBatches \in Nat \ {0}
    /\ MaxTime \in Nat /\ MaxFaults \in Nat
    /\ Wants \subseteq Nat \union {Never}

ASSUME NamesAssumption ==
    /\ Never \notin Int /\ NoOne \notin Shares /\ Worker \in Sweepers

VARIABLES
    now,      \* the server clock
    rows,     \* Shares with a committed row in "shares"
    meta,     \* the row's columns, from the moment its create computes them
    up,       \* where the create request of a Share stands
    began,    \* when its upload began
    writer,   \* the CreateFile that holds SQLite's write lock, or NoOne
    stage,    \* Shares with a ".stage-" file in the object root
    final,    \* Shares with a published object
    mtime,    \* modification time of that file (a hard link keeps it)
    handler,  \* the other requests
    sweep,    \* the maintenance passes
    faults    \* environment faults so far

vars == <<now, rows, meta, up, began, writer, stage, final, mtime,
          handler, sweep, faults>>
disk == <<stage, final, mtime>>
database == <<rows, meta, writer>>
creation == <<up, began>>

Times == 0..MaxTime

Blank == [kind |-> "text", created |-> 0, expires |-> Never]
Idle == [pc |-> "idle", share |-> NoOne, at |-> 0, want |-> Never]
Asleep == [pc |-> "idle", at |-> 0, left |-> 0, keys |-> {}, refs |-> {},
           todo |-> {}]

-------------------------------------------------------------------------------
(* Expiration: domain.IsExpired, and who is a File.                        *)

\* now == expires_at is expired; the purge query uses the same comparison.
IsExpired(e, t) == e # Never /\ e <= t

MutDueSwapped(t) == {s \in rows : meta[s].expires # Never /\ meta[s].expires >= t}

\* The rows purgeBatch selects, and deletes again under the same condition.
Due(t) == {s \in rows : IsExpired(meta[s].expires, t)}

Files == {s \in rows : meta[s].kind = "file"}

MutMayExpireFromNow(want, created, at) ==
    IF want = Never THEN ~Public
    ELSE want > at /\ (Public => want <= at + MaxTTL)

\* validateUpdatedExpiration: null only on a private instance, otherwise in
\* the future and, on a public instance, within MaxTTL of creation.
MayExpire(want, created, at) ==
    IF want = Never THEN ~Public
    ELSE want > at /\ (Public => want <= created + MaxTTL)

\* normalizeExpiration: a public instance replaces null by its default.
Normalized(want, at) ==
    IF Public /\ want = Never THEN at + DefaultTTL ELSE want

\* The File requests between the first staged byte and the DB commit.
Transferring ==
    {s \in Shares : /\ meta[s].kind = "file"
                    /\ up[s] \in {"staging", "staged", "creating", "inTx",
                                  "linked", "published"}}

-------------------------------------------------------------------------------
Init ==
    /\ now = 0 /\ faults = 0 /\ writer = NoOne
    /\ rows = {} /\ stage = {} /\ final = {}
    /\ meta = [s \in Shares |-> Blank]
    /\ up = [s \in Shares |-> "unused"]
    /\ began = [s \in Shares |-> 0]
    /\ mtime = [s \in Shares |-> 0]
    /\ handler = [h \in Handlers |-> Idle]
    /\ sweep = [w \in Sweepers |-> Asleep]

Fault == faults < MaxFaults /\ faults' = faults + 1

(***************************************************************************)
(* Creating a Share.  A File goes                                          *)
(*   staging -> staged -> creating -> inTx -> linked -> published -> created *)
(* and leaves that path through "undo", the deferred compensation.         *)
(***************************************************************************)
StageFile(s) ==
    /\ up[s] = "unused"
    /\ up' = [up EXCEPT ![s] = "staging"]
    /\ began' = [began EXCEPT ![s] = now]
    /\ meta' = [meta EXCEPT ![s].kind = "file"]
    /\ stage' = stage \union {s}
    /\ mtime' = [mtime EXCEPT ![s] = now]
    /\ UNCHANGED <<now, rows, writer, final, handler, sweep, faults>>

\* The last byte arrives; the file keeps the time of its last write.
FinishStage(s) ==
    /\ up[s] = "staging"
    /\ up' = [up EXCEPT ![s] = "staged"]
    /\ \E t \in mtime[s]..now : mtime' = [mtime EXCEPT ![s] = t]
    /\ UNCHANGED <<now, database, began, stage, final, handler, sweep, faults>>

\* The upload fails, is too large or empty, or its metadata or expiration is
\* refused: the staged file is removed, or stays behind if that fails.
AbortStage(s) ==
    /\ up[s] \in {"staging", "staged"}
    /\ up' = [up EXCEPT ![s] = "failed"]
    /\ \/ stage' = stage \ {s} /\ UNCHANGED faults
       \/ Fault /\ UNCHANGED stage
    /\ meta' = [meta EXCEPT ![s] = Blank]
    /\ UNCHANGED <<now, rows, writer, began, final, mtime, handler, sweep>>

\* CreateFile reads the clock and fixes the expiration before BeginTx.
CreateFile(s, want) ==
    /\ up[s] = "staged"
    /\ want = Never \/ MayExpire(want, now, now)
    /\ up' = [up EXCEPT ![s] = "creating"]
    /\ meta' = [meta EXCEPT ![s] = [kind |-> "file", created |-> now,
                                    expires |-> Normalized(want, now)]]
    /\ UNCHANGED <<now, rows, writer, began, disk, handler, sweep, faults>>

\* BeginTx takes the write lock; the metadata row is inserted, uncommitted.
BeginFileTx(s) ==
    /\ up[s] = "creating" /\ meta[s].kind = "file" /\ writer = NoOne
    /\ writer' = s
    /\ up' = [up EXCEPT ![s] = "inTx"]
    /\ UNCHANGED <<now, rows, meta, began, disk, handler, sweep, faults>>

\* localStaged.Commit, first half: the object appears under its key.
LinkObject(s) ==
    /\ up[s] = "inTx" /\ s \in stage /\ s \notin final
    /\ up' = [up EXCEPT ![s] = "linked"]
    /\ final' = final \union {s}
    /\ UNCHANGED <<now, database, began, stage, mtime, handler, sweep, faults>>

\* localStaged.Commit, second half: the staging name goes.  When it cannot be
\* removed Commit tries to unpublish the object again and fails.
DropStage(s) ==
    /\ up[s] = "linked"
    /\ \/ /\ s \in stage
          /\ stage' = stage \ {s}
          /\ up' = [up EXCEPT ![s] = "published"]
          /\ UNCHANGED <<writer, final, faults>>
       \/ /\ Fault
          /\ final' \in {final, final \ {s}}
          /\ up' = [up EXCEPT ![s] = "undo"]
          /\ writer' = NoOne
          /\ UNCHANGED stage
    /\ UNCHANGED <<now, rows, meta, began, mtime, handler, sweep>>

MutCommitFileUnmarked(s) ==
    /\ up[s] = "published"
    /\ rows' = rows \union {s}
    /\ up' = [up EXCEPT ![s] = "undo"]
    /\ writer' = NoOne
    /\ UNCHANGED <<now, meta, began, disk, handler, sweep, faults>>

\* The payload row is inserted and the transaction commits: 201.
CommitFile(s) ==
    /\ up[s] = "published"
    /\ rows' = rows \union {s}
    /\ up' = [up EXCEPT ![s] = "created"]
    /\ writer' = NoOne
    /\ UNCHANGED <<now, meta, began, disk, handler, sweep, faults>>

MutRollbackFileKeepsLock(s) ==
    /\ up[s] \in {"creating", "inTx", "linked", "published"}
    /\ meta[s].kind = "file"
    /\ up' = [up EXCEPT ![s] = "undo"]
    /\ UNCHANGED <<now, database, began, disk, handler, sweep, faults>>

\* An error anywhere after the compensation is registered: the busy timeout, a
\* failed insert, link, directory sync or commit.  tx.Rollback runs first.
RollbackFile(s) ==
    /\ up[s] \in {"creating", "inTx", "linked", "published"}
    /\ meta[s].kind = "file"
    /\ up' = [up EXCEPT ![s] = "undo"]
    /\ writer' = IF writer = s THEN NoOne ELSE writer
    /\ UNCHANGED <<now, rows, meta, began, disk, handler, sweep, faults>>

\* The other deferred calls: store.Delete(key), then staged.Abort().
Compensate(s) ==
    /\ up[s] = "undo"
    /\ up' = [up EXCEPT ![s] = "failed"]
    /\ \/ /\ final' = final \ {s}
          /\ stage' = stage \ {s}
          /\ UNCHANGED faults
       \/ /\ Fault
          /\ final' \in {final, final \ {s}}
          /\ stage' \in {stage, stage \ {s}}
    /\ meta' = [meta EXCEPT ![s] = Blank]
    /\ UNCHANGED <<now, rows, writer, began, mtime, handler, sweep>>

\* create: the clock is read, the expiration fixed, the insert still to come.
CreateText(s, want) ==
    /\ up[s] = "unused"
    /\ want = Never \/ MayExpire(want, now, now)
    /\ up' = [up EXCEPT ![s] = "creating"]
    /\ meta' = [meta EXCEPT ![s] = [kind |-> "text", created |-> now,
                                    expires |-> Normalized(want, now)]]
    /\ UNCHANGED <<now, rows, writer, began, disk, handler, sweep, faults>>

\* insert: metadata and payload rows in one immediate transaction.
InsertText(s) ==
    /\ up[s] = "creating" /\ meta[s].kind = "text" /\ writer = NoOne
    /\ rows' = rows \union {s}
    /\ up' = [up EXCEPT ![s] = "created"]
    /\ UNCHANGED <<now, meta, writer, began, disk, handler, sweep, faults>>

FailText(s) ==
    /\ up[s] = "creating" /\ meta[s].kind = "text"
    /\ up' = [up EXCEPT ![s] = "failed"]
    /\ meta' = [meta EXCEPT ![s] = Blank]
    /\ UNCHANGED <<now, rows, writer, began, disk, handler, sweep, faults>>

-------------------------------------------------------------------------------
(***************************************************************************)
(* Requests on an existing Share.  Each reads the clock, then waits for    *)
(* the write lock; its transaction is one step.                            *)
(***************************************************************************)
Become(h, state) == handler' = [handler EXCEPT ![h] = state]

\* The transaction that removes rows: the payload rows go by cascade.
Remove(gone) ==
    /\ rows' = rows \ gone
    /\ meta' = [s \in Shares |-> IF s \in gone THEN Blank ELSE meta[s]]

StartUpdate(h, s, want) ==
    /\ handler[h].pc = "idle" /\ up[s] = "created"
    /\ Become(h, [pc |-> "update", share |-> s, at |-> now, want |-> want])
    /\ UNCHANGED <<now, database, creation, disk, sweep, faults>>

\* Update: existence and expiration are checked at the clock read before the
\* lock, the horizon is counted from the row's own created_at.
UpdateTx(h) ==
    LET s == handler[h].share
    IN  /\ handler[h].pc = "update" /\ writer = NoOne
        /\ \/ /\ s \in rows /\ ~IsExpired(meta[s].expires, handler[h].at)
              /\ MayExpire(handler[h].want, meta[s].created, handler[h].at)
              /\ meta' = [meta EXCEPT ![s].expires = handler[h].want]
           \/ UNCHANGED meta      \* 404, 410, 422, or an error
        /\ Become(h, Idle)
        /\ UNCHANGED <<now, rows, writer, creation, disk, sweep, faults>>

StartDelete(h, s, by) ==
    /\ handler[h].pc = "idle" /\ up[s] = "created"
    /\ Become(h, [pc |-> by, share |-> s, at |-> now, want |-> Never])
    /\ UNCHANGED <<now, database, creation, disk, sweep, faults>>

MutDeleteTxObjectFirst(h) ==
    LET s == handler[h].share
    IN  /\ handler[h].pc \in {"delete", "adminDelete"} /\ writer = NoOne
        /\ s \in rows
        /\ final' = final \ {s}
        /\ Become(h, [Idle EXCEPT !.pc = "unlink", !.share = s])
        /\ UNCHANGED <<now, database, creation, stage, mtime, sweep, faults>>

\* Delete and AdminDelete: the row first.  Only the owner's path checks the
\* expiration, at the clock read before the lock.
DeleteTx(h) ==
    LET s == handler[h].share
    IN  /\ handler[h].pc \in {"delete", "adminDelete"} /\ writer = NoOne
        /\ s \in rows
        /\ handler[h].pc = "delete" => ~IsExpired(meta[s].expires, handler[h].at)
        /\ Remove({s})
        /\ Become(h, IF meta[s].kind = "file"
                     THEN [Idle EXCEPT !.pc = "unlink", !.share = s]
                     ELSE Idle)
        /\ UNCHANGED <<now, writer, creation, disk, sweep, faults>>

\* Any request may also end without effect: the Share is missing or expired,
\* the token is wrong, the lock times out or the client goes away.
Refuse(h) ==
    /\ handler[h].pc \in {"delete", "adminDelete"}
    /\ Become(h, Idle)
    /\ UNCHANGED <<now, database, creation, disk, sweep, faults>>

\* The object goes after the commit; a failure is a CleanupError, still 204.
UnlinkDeleted(h) ==
    /\ handler[h].pc = "unlink"
    /\ \/ final' = final \ {handler[h].share} /\ UNCHANGED faults
       \/ Fault /\ UNCHANGED final
    /\ Become(h, Idle)
    /\ UNCHANGED <<now, database, creation, stage, mtime, sweep>>

\* OpenFile: Get finds the row active ...
GetFile(h, s) ==
    /\ handler[h].pc = "idle"
    /\ s \in Files /\ ~IsExpired(meta[s].expires, now)
    /\ Become(h, [Idle EXCEPT !.pc = "open", !.share = s])
    /\ UNCHANGED <<now, database, creation, disk, sweep, faults>>

\* ... and the object is opened by its key: served, or a 500 if it is gone.
OpenObject(h) ==
    /\ handler[h].pc = "open"
    /\ Become(h, [handler[h] EXCEPT
                     !.pc = IF handler[h].share \in final
                            THEN "served" ELSE "missing"])
    /\ UNCHANGED <<now, database, creation, disk, sweep, faults>>

EndOpen(h) ==
    /\ handler[h].pc \in {"served", "missing"}
    /\ Become(h, Idle)
    /\ UNCHANGED <<now, database, creation, disk, sweep, faults>>

-------------------------------------------------------------------------------
(***************************************************************************)
(* The maintenance pass.  Its clock value is read once, at the start.      *)
(*   purge -> refs -> stages -> objects -> idle                            *)
(***************************************************************************)
Sweep(w, state) == sweep' = [sweep EXCEPT ![w] = state]

StartSweep(w) ==
    /\ sweep[w].pc = "idle"
    /\ Sweep(w, [Asleep EXCEPT !.pc = "purge", !.at = now,
                               !.left = MaxBatches])
    /\ UNCHANGED <<now, database, creation, disk, handler, faults>>

\* purgeBatch: one immediate transaction; another batch follows a full one.
PurgeBatch(w) ==
    /\ sweep[w].pc = "purge" /\ sweep[w].keys = {} /\ sweep[w].left > 0
    /\ writer = NoOne
    /\ \E batch \in SUBSET Due(sweep[w].at) :
          /\ Cardinality(batch) <= BatchSize
          /\ batch = Due(sweep[w].at) \/ Cardinality(batch) = BatchSize
          /\ Remove(batch)
          /\ Sweep(w, [sweep[w] EXCEPT
                !.keys = batch \intersect Files,
                !.left = IF Cardinality(batch) = BatchSize THEN @ - 1 ELSE 0])
    /\ UNCHANGED <<now, writer, creation, disk, handler, faults>>

\* The purged File's object; a failure is only counted.
UnlinkPurged(w, s) ==
    /\ sweep[w].pc = "purge" /\ s \in sweep[w].keys
    /\ Sweep(w, [sweep[w] EXCEPT !.keys = @ \ {s}])
    /\ \/ final' = final \ {s} /\ UNCHANGED faults
       \/ Fault /\ UNCHANGED final
    /\ UNCHANGED <<now, database, creation, stage, mtime, handler>>

\* SELECT storage_key FROM file_payloads: the committed rows of this moment.
SnapshotReferences(w) ==
    /\ sweep[w].pc = "purge" /\ sweep[w].keys = {} /\ sweep[w].left = 0
    /\ Sweep(w, [sweep[w] EXCEPT !.pc = "refs", !.refs = Files])
    /\ UNCHANGED <<now, database, creation, disk, handler, faults>>

\* Reconcile reads the object root: the staging files.
ListStages(w) ==
    /\ sweep[w].pc = "refs"
    /\ Sweep(w, [sweep[w] EXCEPT !.pc = "stages", !.todo = stage])
    /\ UNCHANGED <<now, database, creation, disk, handler, faults>>

MutStaleNoGrace(w, s) == mtime[s] <= sweep[w].at
MutStaleInverted(w, s) == mtime[s] > sweep[w].at - Grace

\* !ModTime().After(staleBefore), with staleBefore = pass clock - Grace.
Stale(w, s) == mtime[s] <= sweep[w].at - Grace

\* One staging file.  One that has vanished since fails the whole pass.
VisitStage(w, s) ==
    /\ sweep[w].pc = "stages" /\ s \in sweep[w].todo
    /\ stage' = IF Stale(w, s) THEN stage \ {s} ELSE stage
    /\ Sweep(w, IF s \in stage THEN [sweep[w] EXCEPT !.todo = @ \ {s}]
                ELSE Asleep)
    /\ UNCHANGED <<now, database, creation, final, mtime, handler, faults>>

\* The shard directories are read after the staging files.
ListObjects(w) ==
    /\ sweep[w].pc = "stages" /\ sweep[w].todo = {}
    /\ Sweep(w, [sweep[w] EXCEPT !.pc = "objects", !.todo = final])
    /\ UNCHANGED <<now, database, creation, disk, handler, faults>>

\* One object: removed when unreferenced by the snapshot and stale.  Each shard
\* is read on its own: an object that vanished before that is not met, one that
\* vanishes afterwards fails the whole pass.
VisitObject(w, s) ==
    /\ sweep[w].pc = "objects" /\ s \in sweep[w].todo
    /\ final' = IF s \notin sweep[w].refs /\ Stale(w, s)
                THEN final \ {s} ELSE final
    /\ \/ Sweep(w, [sweep[w] EXCEPT !.todo = @ \ {s}])
       \/ s \notin final /\ Sweep(w, Asleep)
    /\ UNCHANGED <<now, database, creation, stage, mtime, handler, faults>>

EndSweep(w) ==
    /\ sweep[w].pc = "objects" /\ sweep[w].todo = {}
    /\ Sweep(w, Asleep)
    /\ UNCHANGED <<now, database, creation, disk, handler, faults>>

\* A database or file-system error, or an admin request cancelled, ends the
\* pass where it is.
FailSweep(w) ==
    /\ sweep[w].pc # "idle" /\ Fault
    /\ Sweep(w, Asleep)
    /\ UNCHANGED <<now, database, creation, disk, handler>>

-------------------------------------------------------------------------------
\* The process dies and restarts: committed rows and files stay, requests,
\* passes and the uncommitted transaction are gone.
Crash ==
    /\ Fault
    /\ writer' = NoOne
    /\ up' = [s \in Shares |-> IF up[s] \in {"unused", "created"} THEN up[s]
                               ELSE "failed"]
    /\ meta' = [s \in Shares |-> IF s \in rows THEN meta[s] ELSE Blank]
    /\ handler' = [h \in Handlers |-> Idle]
    /\ sweep' = [w \in Sweepers |-> Asleep]
    /\ UNCHANGED <<now, rows, began, disk>>

\* Time passes, but no upload outlives its transfer deadline: the connection's
\* read deadline ends it, and the transaction that follows is short.
Tick ==
    /\ now < MaxTime
    /\ \A s \in Transferring : now < began[s] + TransferDeadline
    /\ now' = now + 1
    /\ UNCHANGED <<database, creation, disk, handler, sweep, faults>>

FileStep(s) ==
    \/ FinishStage(s) \/ AbortStage(s)
    \/ \E want \in Wants : CreateFile(s, want)
    \/ BeginFileTx(s) \/ LinkObject(s) \/ DropStage(s) \/ CommitFile(s)
    \/ RollbackFile(s) \/ Compensate(s)

TextStep(s) == InsertText(s) \/ FailText(s)

HandlerStep(h) ==
    \/ \E s \in Shares, want \in Wants : StartUpdate(h, s, want)
    \/ \E s \in Shares, by \in {"delete", "adminDelete"} : StartDelete(h, s, by)
    \/ \E s \in Shares : GetFile(h, s)
    \/ UpdateTx(h) \/ DeleteTx(h) \/ Refuse(h) \/ UnlinkDeleted(h)
    \/ OpenObject(h) \/ EndOpen(h)

PassStep(w) ==
    \/ PurgeBatch(w) \/ SnapshotReferences(w) \/ ListStages(w)
    \/ ListObjects(w) \/ EndSweep(w)
    \/ \E s \in Shares : UnlinkPurged(w, s) \/ VisitStage(w, s) \/ VisitObject(w, s)

Next ==
    \/ \E s \in Shares : \/ StageFile(s) \/ FileStep(s) \/ TextStep(s)
                         \/ \E want \in Wants : CreateText(s, want)
    \/ \E h \in Handlers : HandlerStep(h)
    \/ \E w \in Sweepers : StartSweep(w) \/ PassStep(w) \/ FailSweep(w)
    \/ Crash \/ Tick

Spec == Init /\ [][Next]_vars

(***************************************************************************)
(* Fairness: the clock runs; a create request ends, since its reads have a *)
(* deadline and its lock wait a busy timeout; a pass that has begun goes   *)
(* on; the ticker always starts another.  No client has to do anything.    *)
(***************************************************************************)
Fairness ==
    /\ WF_vars(Tick)
    /\ \A s \in Shares : WF_vars(FileStep(s) \/ TextStep(s))
    /\ \A w \in Sweepers : WF_vars(PassStep(w))
    /\ WF_vars(StartSweep(Worker))

FairSpec == Spec /\ Fairness

-------------------------------------------------------------------------------
(* Properties.                                                             *)

Row == [kind : {"text", "file"}, created : Times, expires : Nat \union {Never}]
Request ==
    [pc : {"idle", "update", "delete", "adminDelete", "unlink", "open", "served",
           "missing"},
     share : Shares \union {NoOne}, at : Times, want : Wants \union {Never}]
Pass ==
    [pc : {"idle", "purge", "refs", "stages", "objects"}, at : Times,
     left : 0..MaxBatches, keys : SUBSET Shares, refs : SUBSET Shares,
     todo : SUBSET Shares]

\* Every variable has its type, and the write lock is held exactly by a
\* CreateFile between BeginTx and the end of its transaction.
TypeOK ==
    /\ now \in Times /\ faults \in 0..MaxFaults
    /\ rows \subseteq Shares /\ stage \subseteq Shares /\ final \subseteq Shares
    /\ meta \in [Shares -> Row]
    /\ up \in [Shares -> {"unused", "staging", "staged", "creating", "inTx",
                          "linked", "published", "undo", "created", "failed"}]
    /\ began \in [Shares -> Times] /\ mtime \in [Shares -> Times]
    /\ handler \in [Handlers -> Request]
    /\ \A h \in Handlers : (handler[h].share = NoOne) <=> (handler[h].pc = "idle")
    /\ sweep \in [Sweepers -> Pass]
    /\ writer \in Shares \union {NoOne}
    /\ \A s \in Shares : (writer = s) <=> (up[s] \in {"inTx", "linked", "published"})

(***************************************************************************)
(* Why the safety properties hold: the parts of their inductive invariant. *)
(***************************************************************************)
\* A row is there only after its create committed, with its object.
RowsBacked ==
    /\ \A s \in rows : up[s] = "created"
    /\ Files \subseteq final
    /\ \A s \in Shares : up[s] \in {"linked", "published"} => s \in final

\* An upload is a File's, and its file is no older than the upload, which is
\* no older than the transfer deadline.
UploadsYoung ==
    /\ \A s \in Shares : up[s] \in {"staging", "staged", "inTx", "linked",
                                    "published"} => meta[s].kind = "file"
    /\ \A s \in Transferring : /\ began[s] <= mtime[s] /\ mtime[s] <= now
                               /\ now <= began[s] + TransferDeadline

\* A row, and the row its create is about to commit, keeps to the horizon.
WithinHorizon ==
    Public => \A s \in Shares :
        s \in rows \/ up[s] \in {"creating", "inTx", "linked", "published"} =>
            meta[s].expires # Never /\ meta[s].expires <= meta[s].created + MaxTTL

\* A pass only unlinks objects of rows it purged, and its reference snapshot
\* misses no File but those too young for it to remove.
PassesSafe ==
    \A w \in Sweepers :
        /\ sweep[w].at <= now
        /\ \A s \in sweep[w].keys : s \notin rows /\ up[s] = "created"
        /\ sweep[w].pc \in {"refs", "stages", "objects"} =>
              \A s \in Files : s \in sweep[w].refs \/ mtime[s] > sweep[w].at - Grace

\* A deletion unlinks, and an open misses, only the object of a removed row.
RequestsSafe ==
    \A h \in Handlers :
        /\ handler[h].pc # "idle" => up[handler[h].share] = "created"
        /\ handler[h].pc \in {"unlink", "missing"} => handler[h].share \notin rows
        /\ handler[h].pc = "open" => handler[h].share \in Files
                                    \/ handler[h].share \notin rows

IndInv ==
    TypeOK /\ RowsBacked /\ UploadsYoung /\ WithinHorizon /\ PassesSafe
    /\ RequestsSafe

\* A committed File row always has its published object (ADR 0011), whatever
\* create, compensation, delete, purge, reconciliation and crashes do between.
NoDanglingRow == Files \subseteq final

\* On a public instance every row, however often it was updated, expires
\* within MaxTTL of its creation (validateUpdatedExpiration).
PublicHorizon ==
    Public => \A s \in rows : /\ meta[s].expires # Never
                              /\ meta[s].expires <= meta[s].created + MaxTTL

\* OpenFile answers 500 for a missing object only when the Share was deleted
\* or purged between Get and Open: no live Share is ever reported broken.
OpenFailsOnlyIfDeleted ==
    \A h \in Handlers : handler[h].pc = "missing" => handler[h].share \notin rows

\* Nobody but the upload itself removes its staging file or its object: the
\* reference snapshot misses both, only the grace protects them.
InFlightFilesKept ==
    [][\A s \in Transferring :
          up'[s] = up[s] => /\ s \in stage => s \in stage'
                            /\ s \in final => s \in final']_vars

\* A row disappears because somebody deletes it, or because it has expired by
\* the clock now: the pass's old clock value and the re-check protect updates.
PurgeOnlyExpired ==
    [][\A s \in rows \ rows' :
          \/ meta[s].expires # Never /\ meta[s].expires <= now
          \/ \E h \in Handlers : /\ handler[h].share = s
                                 /\ handler[h].pc \in {"delete", "adminDelete"}
                                 /\ handler'[h] # handler[h]]_vars

\* "Expired Shares cannot be read, updated, deleted, or revived" (API.md:33):
\* once the clock has reached expires_at, the row no longer changes.
ExpiredNotRevived ==
    [][\A s \in rows \intersect rows' :
          IsExpired(meta[s].expires, now) => meta'[s] = meta[s]]_vars

Abandoned(s) ==
    /\ up[s] \in {"created", "failed"} /\ s \notin rows
    /\ s \in stage \union final
    /\ mtime[s] + Grace <= MaxTime

\* A file no Share refers to, left by a crash or a failed unlink, is removed
\* by some later pass (while the clock still has a grace period to run).
OrphansReclaimed ==
    \A s \in Shares : Abandoned(s) ~> (s \notin stage \union final)

\* A row that has expired does not stay: it is purged, unless it is revived.
ExpiredPurged ==
    \A s \in Shares :
        LET overdue == s \in rows /\ IsExpired(meta[s].expires, now)
        IN  overdue ~> ~overdue
===============================================================================
