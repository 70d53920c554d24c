---------------------- MODULE ShareStoreRefinementProofs ----------------------
(* ShareStore implements ShareLifecycle, for every value of its constants.     *)
EXTENDS ShareStoreRefinement, ShareStoreProofs

USE RetentionAssumption, BoundsAssumption, NamesAssumption

\* A create request that has come to its end leaves its Share gone, but for a row.
Ended(s) == up[s] \in {"created", "failed", "undo"}

\* A row that is about to be committed expires after its creation, which is past.
Prepared ==
    \A s \in Shares :
        up[s] \in {"creating", "inTx", "linked", "published"} =>
           /\ meta[s].created <= now
           /\ meta[s].expires = Never \/ meta[s].expires > meta[s].created

Inv == IndInv /\ Prepared

-------------------------------------------------------------------------------
\* Only CreateFile and CreateText prepare a row; until it is committed nobody
\* changes it.
LEMMA PreparedInv == Inv /\ [Next]_vars => Inv'
<1> SUFFICES ASSUME Inv, [Next]_vars PROVE Prepared' BY NextInv DEF Inv
<1> USE DEF Inv, IndInv
<1>1. ASSUME NEW s \in Shares, NEW want \in Wants,
             CreateFile(s, want) \/ CreateText(s, want)
      PROVE  Prepared'
  <2>1. meta[s] \in Row /\ now \in Nat /\ Never \notin Int BY DEF TypeOK, Times
  <2>2. want \in Nat \union {Never} OBVIOUS
  <2>3. /\ want = Never \/ want > now
        /\ \E kind \in {"text", "file"} :
              meta' = [meta EXCEPT ![s] = [kind |-> kind, created |-> now,
                                           expires |-> Normalized(want, now)]]
        /\ now' = now /\ up' = [up EXCEPT ![s] = "creating"]
        BY <1>1, <2>2 DEF CreateFile, CreateText, MayExpire
  <2>4. Normalized(want, now) = Never \/ Normalized(want, now) > now
        BY <2>1, <2>2, <2>3 DEF Normalized
  <2> HIDE DEF Normalized
  <2> QED BY <2>1, <2>3, <2>4 DEF Prepared, TypeOK
<1>2. ASSUME NEW s \in Shares, StageFile(s) \/ FinishStage(s) \/ AbortStage(s)
                               \/ BeginFileTx(s) \/ LinkObject(s) \/ DropStage(s)
                               \/ CommitFile(s) \/ RollbackFile(s) \/ Compensate(s)
                               \/ InsertText(s) \/ FailText(s)
      PROVE  Prepared'
      BY <1>2 DEF Prepared, TypeOK, database, disk, creation, StageFile, FinishStage,
         AbortStage, BeginFileTx, LinkObject, DropStage, CommitFile, RollbackFile,
         Compensate, InsertText, FailText
<1>3. ASSUME NEW h \in Handlers, HandlerStep(h) PROVE Prepared'
  <2>1. /\ UNCHANGED <<now, up>>
        /\ \A s \in Shares \ rows : meta'[s] = meta[s]
        BY <1>3 DEF HandlerStep, StartUpdate, StartDelete, GetFile, UpdateTx, DeleteTx,
           Refuse, UnlinkDeleted, OpenObject, EndOpen, Remove, database, creation, TypeOK
  <2> QED BY <2>1 DEF Prepared, RowsBacked
<1>4. ASSUME NEW w \in Sweepers, StartSweep(w) \/ PassStep(w) \/ FailSweep(w)
      PROVE  Prepared'
  <2>1. /\ UNCHANGED <<now, up>>
        /\ \A s \in Shares \ rows : meta'[s] = meta[s]
        BY <1>4 DEF StartSweep, PassStep, FailSweep, PurgeBatch, SnapshotReferences,
           ListStages, ListObjects, EndSweep, UnlinkPurged, VisitStage, VisitObject,
           Remove, Due, database, creation
  <2> QED BY <2>1 DEF Prepared, RowsBacked
<1>5. CASE Crash BY <1>5 DEF Crash, Prepared
<1>6. CASE Tick BY <1>6 DEF Tick, Prepared, database, creation, TypeOK, Row, Times
<1>7. CASE UNCHANGED vars BY <1>7 DEF vars, Prepared
<1> QED BY <1>1, <1>2, <1>3, <1>4, <1>5, <1>6, <1>7 DEF Next, FileStep, TextStep

\* Both invariants hold in every reachable state.
LEMMA PreparedAlways == Spec => []Inv
<1>1. Init => Inv BY InitInv DEF Init, Inv, Prepared
<1> QED BY <1>1, PreparedInv, PTL DEF Spec

-------------------------------------------------------------------------------
\* What users see of the store: a row always has its object.
LEMMA Seen ==
    ASSUME IndInv, NEW s \in Shares
    PROVE  Life(s) = IF s \in rows THEN "live" ELSE IF Ended(s) THEN "gone" ELSE "pending"
BY DEF IndInv, RowsBacked, Files, Life, Ended

\* The same after a step.
LEMMA SeenNext ==
    ASSUME IndInv', NEW s \in Shares
    PROVE  Life(s)' = IF s \in rows' THEN "live"
                      ELSE IF Ended(s)' THEN "gone" ELSE "pending"
BY DEF IndInv, RowsBacked, Files, Life, Ended

\* A step that changes no row is invisible, or fails create requests.
LEMMA QuietStep ==
    ASSUME IndInv, IndInv', UNCHANGED <<now, rows>>,
           \A s \in rows : meta'[s] = meta[s],
           \A s \in Shares \ rows : Ended(s) => Ended(s)'
    PROVE  Lifecycle!Fail
<1>1. \A s \in Shares : /\ Life(s)' \in {"pending", "live", "gone"}
                        /\ Life(s)' # Life(s) => Life(s) = "pending" /\ Life(s)' = "gone"
      BY Seen, SeenNext
<1>2. \A s \in Shares : /\ Shown(s, meta[s].created, 0)' = Shown(s, meta[s].created, 0)
                        /\ Shown(s, meta[s].expires, Never)' = Shown(s, meta[s].expires, Never)
      BY DEF Shown
<1> QED BY <1>1, <1>2 DEF Lifecycle!Fail

\* A step that commits a row makes its Share appear.
LEMMA AppearStep ==
    ASSUME Inv, IndInv', NEW s \in Shares, s \notin rows, ~Ended(s),
           up[s] \in {"creating", "published"},
           rows' = rows \union {s}, UNCHANGED <<now, meta>>,
           up' = [up EXCEPT ![s] = "created"]
    PROVE  Lifecycle!Appear(s)
<1> USE DEF Inv
<1>1. Life(s) = "pending" BY Seen
<1>2. \A t \in Shares : Life(t)' = IF t = s THEN "live" ELSE Life(t)
      BY Seen, SeenNext DEF Ended, IndInv, TypeOK
<1>3. /\ meta[s] \in Row /\ meta[s].created \in 0..now
      /\ meta[s].expires = Never \/ meta[s].expires > meta[s].created
      /\ Public => meta[s].expires # Never /\ meta[s].expires <= meta[s].created + MaxTTL
      BY DEF Prepared, IndInv, TypeOK, WithinHorizon, Row, Times
<1>4. \A t \in Shares :
         /\ Shown(t, meta[t].created, 0)' = IF t = s THEN meta[s].created
                                            ELSE Shown(t, meta[t].created, 0)
         /\ Shown(t, meta[t].expires, Never)' = IF t = s THEN meta[s].expires
                                                ELSE Shown(t, meta[t].expires, Never)
      BY DEF Shown
<1> QED BY <1>1, <1>2, <1>3, <1>4 DEF Lifecycle!Appear, Lifecycle!Within

\* A step that removes rows makes their Shares disappear, for good.
LEMMA LoseStep ==
    ASSUME IndInv, IndInv', NEW lost \in SUBSET rows,
           rows' = rows \ lost, UNCHANGED <<now, up>>,
           \A s \in rows \ lost : meta'[s] = meta[s]
    PROVE  Lifecycle!Lose(lost)
<1>1. \A s \in Shares : Life(s)' = IF s \in lost THEN "gone" ELSE Life(s)
      BY Seen, SeenNext DEF Ended, IndInv, RowsBacked
<1>2. \A s \in Shares :
         /\ Shown(s, meta[s].created, 0)' = IF s \in lost THEN 0
                                            ELSE Shown(s, meta[s].created, 0)
         /\ Shown(s, meta[s].expires, Never)' = IF s \in lost THEN Never
                                                ELSE Shown(s, meta[s].expires, Never)
      BY DEF Shown
<1> QED BY <1>1, <1>2 DEF Lifecycle!Lose

\* The owner's update moves the expiration, within the horizon.
LEMMA UpdateStep ==
    ASSUME IndInv, IndInv', NEW h \in Handlers, UpdateTx(h)
    PROVE  [Lifecycle!Next]_Lifecycle!vars
<1> DEFINE s == handler[h].share
<1>1. UNCHANGED <<now, rows, up, final>> BY DEF UpdateTx, creation, disk
<1>2. CASE UNCHANGED meta
  <2>1. Lifecycle!Fail BY <1>1, <1>2, QuietStep DEF Ended
  <2> QED BY <2>1 DEF Lifecycle!Next
<1>3. ASSUME s \in rows, meta' = [meta EXCEPT ![s].expires = handler[h].want]
      PROVE  Lifecycle!Next
  <2>1. s \in Shares /\ meta \in [Shares -> Row] BY <1>3 DEF IndInv, TypeOK
  <2>2. Life(s) = "live" /\ \A t \in Shares : Life(t)' = Life(t)
        BY <1>1, <1>3, <2>1, Seen, SeenNext DEF Ended
  <2>3. Public => handler[h].want # Never
                  /\ handler[h].want <= meta[s].created + MaxTTL
        BY <1>1, <1>3, <2>1 DEF IndInv, WithinHorizon, Row
  <2>4. \A t \in Shares :
           /\ Shown(t, meta[t].created, 0)' = Shown(t, meta[t].created, 0)
           /\ Shown(t, meta[t].expires, Never)' = IF t = s THEN handler[h].want
                                                  ELSE Shown(t, meta[t].expires, Never)
        BY <1>1, <1>3, <2>1 DEF Shown, Row
  <2>5. Shown(s, meta[s].created, 0) = meta[s].created BY <1>3 DEF Shown
  <2> HIDE DEF s
  <2>6. Lifecycle!Extend(s)
        BY <1>1, <2>1, <2>2, <2>3, <2>4, <2>5 DEF Lifecycle!Extend, Lifecycle!Within
  <2> QED BY <2>1, <2>6 DEF Lifecycle!Next
<1> QED BY <1>2, <1>3 DEF UpdateTx

\* A deletion takes one live Share.
LEMMA DeleteStep ==
    ASSUME IndInv, IndInv', NEW h \in Handlers, DeleteTx(h)
    PROVE  Lifecycle!Next
<1> DEFINE s == handler[h].share
<1>1. /\ s \in rows /\ rows' = rows \ {s} /\ UNCHANGED <<now, up>>
      /\ \A t \in rows \ {s} : meta'[t] = meta[t]
      BY DEF DeleteTx, Remove, creation, IndInv, TypeOK
<1>2. s \in Shares BY <1>1 DEF IndInv, TypeOK
<1> HIDE DEF s
<1>3. Lifecycle!Lose({s}) BY <1>1, LoseStep
<1>4. Life(s) = "live" BY <1>1, <1>2, Seen
<1>5. Lifecycle!Delete(s) BY <1>2, <1>3, <1>4 DEF Lifecycle!Delete
<1> QED BY <1>2, <1>5 DEF Lifecycle!Next

\* A purge takes what has expired by the clock value of its pass, which is past.
LEMMA PurgeStep ==
    ASSUME IndInv, IndInv', NEW w \in Sweepers, PurgeBatch(w)
    PROVE  Lifecycle!Next
<1>1. PICK batch \in SUBSET Due(sweep[w].at) : Remove(batch)
      BY DEF PurgeBatch
<1>2. /\ batch \subseteq rows /\ rows \subseteq Shares /\ meta \in [Shares -> Row]
      /\ sweep[w] \in Pass /\ sweep[w].at <= now /\ now \in Times
      BY DEF Due, IndInv, TypeOK, PassesSafe
<1>3. \A s \in batch : meta[s].expires # Never /\ meta[s].expires <= now
      BY <1>2 DEF Due, IsExpired, Row, Pass, Times
<1>4. Lifecycle!Lose(batch)
      BY <1>1, <1>2, LoseStep DEF Remove, PurgeBatch, creation
<1>5. \A s \in batch : /\ s \in Shares /\ Life(s) = "live"
                        /\ Shown(s, meta[s].expires, Never) = meta[s].expires
      BY <1>2, Seen DEF Shown
<1>6. Lifecycle!Purge BY <1>3, <1>4, <1>5 DEF Lifecycle!Purge
<1> QED BY <1>6 DEF Lifecycle!Next

\* Time passes for the lifecycle, too.
LEMMA TickStep ==
    ASSUME IndInv, IndInv', Tick PROVE Lifecycle!Next
<1>1. now' = now + 1 /\ UNCHANGED <<rows, meta, up>>
      BY DEF Tick, database, creation
<1>2. \A s \in Shares : /\ Life(s)' = Life(s)
                        /\ Shown(s, meta[s].created, 0)' = Shown(s, meta[s].created, 0)
                        /\ Shown(s, meta[s].expires, Never)' = Shown(s, meta[s].expires, Never)
      BY <1>1, Seen, SeenNext DEF Shown, Ended
<1> QED BY <1>1, <1>2 DEF Lifecycle!Pass, Lifecycle!Next

\* A step of a create request: its commit, or no row changes.
LEMMA CreateStep ==
    ASSUME Inv, IndInv', NEW s \in Shares,
           StageFile(s) \/ FileStep(s) \/ TextStep(s) \/ \E want \in Wants : CreateText(s, want)
    PROVE  Lifecycle!Next
<1> USE DEF Inv
<1>1. CASE CommitFile(s) \/ InsertText(s)
  <2>1. /\ up[s] \in {"creating", "published"} /\ rows' = rows \union {s}
        /\ UNCHANGED <<now, meta>> /\ up' = [up EXCEPT ![s] = "created"]
        BY <1>1 DEF CommitFile, InsertText
  <2>2. s \notin rows /\ ~Ended(s) BY <2>1 DEF IndInv, RowsBacked, Ended
  <2>3. Lifecycle!Appear(s) BY <2>1, <2>2, AppearStep
  <2> QED BY <2>3 DEF Lifecycle!Next
<1>2. CASE ~(CommitFile(s) \/ InsertText(s))
  <2>1. /\ UNCHANGED <<now, rows>> /\ up[s] # "created"
        /\ \A t \in Shares \ {s} : meta'[t] = meta[t] /\ up'[t] = up[t]
        /\ up[s] \in {"failed", "undo"} => up'[s] \in {"failed", "undo"}
        BY <1>2 DEF IndInv, TypeOK, FileStep, TextStep, database, disk, creation,
           StageFile, FinishStage, AbortStage, CreateFile, CreateText, BeginFileTx,
           LinkObject, DropStage, RollbackFile, Compensate, FailText
  <2>2. s \notin rows BY <2>1 DEF IndInv, RowsBacked
  <2>3. Lifecycle!Fail BY <2>1, <2>2, QuietStep DEF Ended, IndInv, TypeOK
  <2> QED BY <2>3 DEF Lifecycle!Next
<1> QED BY <1>1, <1>2

\* Every step of the store is a step of the lifecycle.
LEMMA LifecycleStep ==
    Inv /\ IndInv' /\ [Next]_vars => [Lifecycle!Next]_Lifecycle!vars
<1> SUFFICES ASSUME Inv, IndInv', [Next]_vars
             PROVE  [Lifecycle!Next]_Lifecycle!vars
    OBVIOUS
<1>1. IndInv /\ rows \subseteq Shares BY DEF Inv, IndInv, TypeOK
<1>2. ASSUME UNCHANGED <<now, rows, meta, up>> PROVE Lifecycle!Next
  <2>1. Lifecycle!Fail BY <1>1, <1>2, QuietStep DEF Ended
  <2> QED BY <2>1 DEF Lifecycle!Next
<1>3. ASSUME NEW s \in Shares, StageFile(s) \/ FileStep(s) \/ TextStep(s)
                               \/ \E want \in Wants : CreateText(s, want)
      PROVE  Lifecycle!Next
      BY <1>3, CreateStep
<1>4. ASSUME NEW h \in Handlers, HandlerStep(h) PROVE [Lifecycle!Next]_Lifecycle!vars
  <2>1. CASE UpdateTx(h) BY <1>1, <2>1, UpdateStep
  <2>2. CASE DeleteTx(h) BY <1>1, <2>2, DeleteStep
  <2>3. CASE ~UpdateTx(h) /\ ~DeleteTx(h)
    <3>1. UNCHANGED <<now, rows, meta, up>>
          BY <1>4, <2>3 DEF HandlerStep, StartUpdate, StartDelete, GetFile, Refuse,
             UnlinkDeleted, OpenObject, EndOpen, database, creation
    <3> QED BY <1>2, <3>1
  <2> QED BY <2>1, <2>2, <2>3
<1>5. ASSUME NEW w \in Sweepers, StartSweep(w) \/ PassStep(w) \/ FailSweep(w)
      PROVE  Lifecycle!Next
  <2>1. CASE PurgeBatch(w) BY <1>1, <2>1, PurgeStep
  <2>2. CASE ~PurgeBatch(w)
    <3>1. UNCHANGED <<now, rows, meta, up>>
          BY <1>5, <2>2 DEF StartSweep, PassStep, FailSweep, SnapshotReferences,
             ListStages, ListObjects, EndSweep, UnlinkPurged, VisitStage, VisitObject,
             database, creation
    <3> QED BY <1>2, <3>1
  <2> QED BY <2>1, <2>2
<1>6. CASE Crash
  <2>1. /\ UNCHANGED <<now, rows>> /\ \A s \in rows : meta'[s] = meta[s]
        /\ \A s \in Shares : Ended(s) => Ended(s)'
        BY <1>1, <1>6 DEF Crash, Ended
  <2>2. Lifecycle!Fail BY <1>1, <2>1, QuietStep
  <2> QED BY <2>2 DEF Lifecycle!Next
<1>7. CASE Tick BY <1>1, <1>7, TickStep
<1>8. CASE UNCHANGED vars BY <1>2, <1>8 DEF vars
<1> QED BY <1>3, <1>4, <1>5, <1>6, <1>7, <1>8 DEF Next

\* Whatever create, compensation, updates, deletions, purges, reconciliation and
\* crashes do between them, users see Shares appear with their content, live
\* within the horizon, and go for good.
THEOREM Implements == Spec => ImplementsLifecycle
<1>1. Init => Lifecycle!Init
      BY DEF Init, Lifecycle!Init, Life, Shown
<1>2. Inv => IndInv BY DEF Inv
<1> QED BY <1>1, <1>2, PreparedAlways, LifecycleStep, PTL
        DEF Spec, ImplementsLifecycle, Lifecycle!Spec

-------------------------------------------------------------------------------
(* What the implementation buys: facts about the store's own steps, read off  *)
(* the lifecycle its steps implement.                                          *)

\* Once a Share was deleted, purged or failed to be created its ID is never
\* served again: no late commit, retry or restart brings the Share back.
GoneStays == \A s \in Shares : Life(s) = "gone" => Life(s)' = "gone"
GoneForGood == [][GoneStays]_vars

\* A Share that users see keeps its creation time, from which the public horizon
\* is counted, through every update (validateUpdatedExpiration).
CreationStays ==
    \A s \in Shares : Life(s) = "live" /\ Life(s)' = "live" =>
        Shown(s, meta[s].created, 0)' = Shown(s, meta[s].created, 0)
CreationFixed == [][CreationStays]_vars

\* Both hold of every step of the lifecycle, hence of every step of the store.
LEMMA LifecycleKeeps ==
    [Lifecycle!Next]_Lifecycle!vars => GoneStays /\ CreationStays
<1> SUFFICES ASSUME [Lifecycle!Next]_Lifecycle!vars, NEW s \in Shares
             PROVE  /\ Life(s) = "gone" => Life(s)' = "gone"
                    /\ Life(s) = "live" /\ Life(s)' = "live" =>
                          Shown(s, meta[s].created, 0)' = Shown(s, meta[s].created, 0)
    BY DEF GoneStays, CreationStays
<1>1. ASSUME NEW t \in Shares, Lifecycle!Appear(t)
      PROVE  /\ Life(t) = "pending"
             /\ s # t => /\ Life(s)' = Life(s)
                         /\ Shown(s, meta[s].created, 0)' = Shown(s, meta[s].created, 0)
      BY <1>1 DEF Lifecycle!Appear
<1>2. CASE Lifecycle!Fail BY <1>2 DEF Lifecycle!Fail
<1>3. ASSUME NEW lost, Lifecycle!Lose(lost)
      PROVE  /\ Life(s)' = IF s \in lost THEN "gone" ELSE Life(s)
             /\ s \notin lost =>
                   Shown(s, meta[s].created, 0)' = Shown(s, meta[s].created, 0)
      BY <1>3 DEF Lifecycle!Lose
<1>4. ASSUME NEW t \in Shares, Lifecycle!Extend(t)
      PROVE  /\ Life(s)' = Life(s)
             /\ Shown(s, meta[s].created, 0)' = Shown(s, meta[s].created, 0)
      BY <1>4 DEF Lifecycle!Extend
<1>5. CASE Lifecycle!Pass \/ UNCHANGED Lifecycle!vars
      BY <1>5 DEF Lifecycle!Pass, Lifecycle!vars
<1> QED BY <1>1, <1>2, <1>3, <1>4, <1>5
        DEF Lifecycle!Next, Lifecycle!Delete, Lifecycle!Purge

\* What is gone stays gone: a property of the lifecycle the store inherits.
THEOREM NeverReturns == Spec => GoneForGood
<1>1. Inv => IndInv BY DEF Inv
<1> QED BY <1>1, PreparedAlways, LifecycleStep, LifecycleKeeps, PTL
        DEF Spec, GoneForGood

\* And the creation time users see never moves.
THEOREM KeepsCreation == Spec => CreationFixed
<1>1. Inv => IndInv BY DEF Inv
<1> QED BY <1>1, PreparedAlways, LifecycleStep, LifecycleKeeps, PTL
        DEF Spec, CreationFixed
===============================================================================
