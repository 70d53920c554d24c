--------------------------- MODULE ShareStoreProofs ---------------------------
(* Proofs about ShareStore for every value of its constants.                 *)
EXTENDS ShareStore, TLAPS

USE RetentionAssumption, GraceAssumption, BoundsAssumption, NamesAssumption

(***************************************************************************)
(* Record updates that stay within their type.                             *)
(***************************************************************************)
\* The values written into a finished request, pass or row are well typed.
LEMMA IdleTyped == Idle \in Request /\ Asleep \in Pass /\ Blank \in Row
BY DEF Idle, Request, Asleep, Pass, Blank, Row, Times

\* A request that only changes its step and its Share stays well typed.
LEMMA RequestMoves ==
    ASSUME NEW r \in Request, NEW s \in Shares,
           NEW pc \in {"unlink", "open", "served", "missing"}
    PROVE  [r EXCEPT !.pc = pc, !.share = s] \in Request
BY DEF Request

\* The state StartSweep gives a pass is well typed.
LEMMA PassStarts ==
    ASSUME NEW t \in Times
    PROVE  [Asleep EXCEPT !.pc = "purge", !.at = t, !.left = MaxBatches] \in Pass
<1>1. MaxBatches \in 0..MaxBatches OBVIOUS
<1> QED BY <1>1, IdleTyped DEF Pass

\* The updates a running pass makes keep it well typed.
LEMMA PassMoves ==
    ASSUME NEW p \in Pass, NEW found \in SUBSET Shares
    PROVE  /\ \A n \in 0..MaxBatches : [p EXCEPT !.keys = found, !.left = n] \in Pass
           /\ [p EXCEPT !.pc = "refs", !.refs = found] \in Pass
           /\ [p EXCEPT !.pc = "stages", !.todo = found] \in Pass
           /\ [p EXCEPT !.pc = "objects", !.todo = found] \in Pass
BY DEF Pass

(***************************************************************************)
(* The invariant holds initially and every action preserves it.            *)
(***************************************************************************)
\* An empty database and disk satisfy the invariant.
LEMMA InitInv == Init => IndInv
BY DEF Init, IndInv, TypeOK, RowsBacked, UploadsYoung, WithinHorizon, PassesSafe,
   RequestsSafe, Files, Transferring, Times, Row, Request, Pass,
   Blank, Idle, Asleep

\* A new upload is as young as can be, and has no row yet.
LEMMA StageFileInv ==
    ASSUME IndInv, NEW s \in Shares, StageFile(s) PROVE IndInv'
<1> USE DEF IndInv, StageFile
<1>1. TypeOK' BY DEF TypeOK, Times, Row
<1>2. RowsBacked' BY DEF TypeOK, RowsBacked, Files
<1>3. UploadsYoung' BY DEF TypeOK, RowsBacked, UploadsYoung, Transferring, Times
<1>4. WithinHorizon' BY DEF TypeOK, WithinHorizon, RowsBacked
<1>5. PassesSafe' BY DEF TypeOK, PassesSafe, RowsBacked, Files, Pass, Times
<1>6. RequestsSafe' BY DEF TypeOK, RequestsSafe, RowsBacked, Files, Request
<1> QED BY <1>1, <1>2, <1>3, <1>4, <1>5, <1>6

\* The last write moves the file time forward, never past the clock.
LEMMA FinishStageInv ==
    ASSUME IndInv, NEW s \in Shares, FinishStage(s) PROVE IndInv'
<1> USE DEF IndInv, FinishStage, database
<1>1. TypeOK' BY DEF TypeOK, Times, Row
<1>2. RowsBacked' BY DEF TypeOK, RowsBacked, Files
<1>3. UploadsYoung' BY DEF TypeOK, RowsBacked, UploadsYoung, Transferring, Times
<1>4. WithinHorizon' BY DEF TypeOK, WithinHorizon, RowsBacked
<1>5. PassesSafe' BY DEF TypeOK, PassesSafe, RowsBacked, Files, Pass, Times
<1>6. RequestsSafe' BY DEF TypeOK, RequestsSafe, RowsBacked, Files, Request
<1> QED BY <1>1, <1>2, <1>3, <1>4, <1>5, <1>6

\* A refused upload never had a row, so its file may stay or go.
LEMMA AbortStageInv ==
    ASSUME IndInv, NEW s \in Shares, AbortStage(s) PROVE IndInv'
<1> USE DEF IndInv, AbortStage, Fault
<1>1. TypeOK' BY DEF TypeOK, Times, Row, Blank
<1>2. RowsBacked' BY DEF TypeOK, RowsBacked, Files
<1>3. UploadsYoung' BY DEF TypeOK, RowsBacked, UploadsYoung, Transferring, Times, Blank
<1>4. WithinHorizon' BY DEF TypeOK, WithinHorizon, RowsBacked
<1>5. PassesSafe' BY DEF TypeOK, PassesSafe, RowsBacked, Files, Pass, Times
<1>6. RequestsSafe' BY DEF TypeOK, RequestsSafe, RowsBacked, Files, Request
<1> QED BY <1>1, <1>2, <1>3, <1>4, <1>5, <1>6

\* The expiration CreateFile fixes is within the horizon of its clock value.
LEMMA CreateFileInv ==
    ASSUME IndInv, NEW s \in Shares, NEW want \in Wants, CreateFile(s, want) PROVE IndInv'
<1> USE DEF IndInv, CreateFile, disk, Normalized, MayExpire
<1>1. TypeOK' BY DEF TypeOK, Times, Row
<1>2. RowsBacked' BY DEF TypeOK, RowsBacked, Files
<1>3. UploadsYoung' BY DEF TypeOK, RowsBacked, UploadsYoung, Transferring, Times
<1>4. WithinHorizon' BY DEF TypeOK, WithinHorizon, RowsBacked
<1>5. PassesSafe' BY DEF TypeOK, PassesSafe, RowsBacked, Files, Pass, Times
<1>6. RequestsSafe' BY DEF TypeOK, RequestsSafe, RowsBacked, Files, Request
<1> QED BY <1>1, <1>2, <1>3, <1>4, <1>5, <1>6

\* The write lock goes to exactly one CreateFile.
LEMMA BeginFileTxInv ==
    ASSUME IndInv, NEW s \in Shares, BeginFileTx(s) PROVE IndInv'
<1> USE DEF IndInv, BeginFileTx, disk
<1>1. TypeOK' BY DEF TypeOK
<1>2. RowsBacked' BY DEF TypeOK, RowsBacked, Files
<1>3. UploadsYoung' BY DEF TypeOK, RowsBacked, UploadsYoung, Transferring, Times
<1>4. WithinHorizon' BY DEF TypeOK, WithinHorizon, RowsBacked
<1>5. PassesSafe' BY DEF TypeOK, PassesSafe, RowsBacked, Files, Pass, Times
<1>6. RequestsSafe' BY DEF TypeOK, RequestsSafe, RowsBacked, Files, Request
<1> QED BY <1>1, <1>2, <1>3, <1>4, <1>5, <1>6

\* The object exists before any row can refer to it.
LEMMA LinkObjectInv ==
    ASSUME IndInv, NEW s \in Shares, LinkObject(s) PROVE IndInv'
<1> USE DEF IndInv, LinkObject, database
<1>1. TypeOK' BY DEF TypeOK
<1>2. RowsBacked' BY DEF TypeOK, RowsBacked, Files
<1>3. UploadsYoung' BY DEF TypeOK, RowsBacked, UploadsYoung, Transferring, Times
<1>4. WithinHorizon' BY DEF TypeOK, WithinHorizon, RowsBacked
<1>5. PassesSafe' BY DEF TypeOK, PassesSafe, RowsBacked, Files, Pass, Times
<1>6. RequestsSafe' BY DEF TypeOK, RequestsSafe, RowsBacked, Files, Request
<1> QED BY <1>1, <1>2, <1>3, <1>4, <1>5, <1>6

\* A failed Commit unpublishes the object while its row is uncommitted.
LEMMA DropStageInv ==
    ASSUME IndInv, NEW s \in Shares, DropStage(s) PROVE IndInv'
<1> USE DEF IndInv, DropStage, Fault
<1>1. TypeOK' BY DEF TypeOK
<1>2. RowsBacked' BY DEF TypeOK, RowsBacked, Files
<1>3. UploadsYoung' BY DEF TypeOK, RowsBacked, UploadsYoung, Transferring, Times
<1>4. WithinHorizon' BY DEF TypeOK, WithinHorizon, RowsBacked
<1>5. PassesSafe' BY DEF TypeOK, PassesSafe, RowsBacked, Files, Pass, Times
<1>6. RequestsSafe'
  <2>1. \A t \in Shares : up[t] = "created" => up'[t] = "created" BY DEF TypeOK
  <2>2. \A h \in Handlers : handler[h].pc # "idle" => handler[h].share \in Shares
        BY DEF TypeOK, Request
  <2>3. Files' = Files BY DEF Files
  <2> QED BY <2>1, <2>2, <2>3 DEF RequestsSafe
<1> QED BY <1>1, <1>2, <1>3, <1>4, <1>5, <1>6

\* The row appears over a published object; a pass whose snapshot missed it
\* finds the object too young, which is what the grace is for.
LEMMA CommitFileInv ==
    ASSUME IndInv, NEW s \in Shares, CommitFile(s) PROVE IndInv'
<1> USE DEF IndInv, CommitFile, disk
<1>1. TypeOK' BY DEF TypeOK
<1>2. RowsBacked' BY DEF TypeOK, RowsBacked, Files
<1>3. UploadsYoung' BY DEF TypeOK, RowsBacked, UploadsYoung, Transferring, Times
<1>4. WithinHorizon' BY DEF TypeOK, WithinHorizon, RowsBacked
<1>5. PassesSafe' BY DEF TypeOK, PassesSafe, RowsBacked, Files, Pass, Times, UploadsYoung, Transferring
<1>6. RequestsSafe' BY DEF TypeOK, RequestsSafe, RowsBacked, Files, Request
<1> QED BY <1>1, <1>2, <1>3, <1>4, <1>5, <1>6

\* The lock goes with the transaction; no row was visible.
LEMMA RollbackFileInv ==
    ASSUME IndInv, NEW s \in Shares, RollbackFile(s) PROVE IndInv'
<1> USE DEF IndInv, RollbackFile, disk
<1>1. TypeOK' BY DEF TypeOK
<1>2. RowsBacked' BY DEF TypeOK, RowsBacked, Files
<1>3. UploadsYoung' BY DEF TypeOK, RowsBacked, UploadsYoung, Transferring, Times
<1>4. WithinHorizon' BY DEF TypeOK, WithinHorizon, RowsBacked
<1>5. PassesSafe' BY DEF TypeOK, PassesSafe, RowsBacked, Files, Pass, Times
<1>6. RequestsSafe' BY DEF TypeOK, RequestsSafe, RowsBacked, Files, Request
<1> QED BY <1>1, <1>2, <1>3, <1>4, <1>5, <1>6

\* The compensation only touches the objects of a Share without a row.
LEMMA CompensateInv ==
    ASSUME IndInv, NEW s \in Shares, Compensate(s) PROVE IndInv'
<1> USE DEF IndInv, Compensate, Fault
<1>1. TypeOK' BY DEF TypeOK, Times, Row, Blank
<1>2. RowsBacked' BY DEF TypeOK, RowsBacked, Files
<1>3. UploadsYoung' BY DEF TypeOK, RowsBacked, UploadsYoung, Transferring, Times, Blank
<1>4. WithinHorizon' BY DEF TypeOK, WithinHorizon, RowsBacked
<1>5. PassesSafe' BY DEF TypeOK, PassesSafe, RowsBacked, Files, Pass, Times
<1>6. RequestsSafe' BY DEF TypeOK, RequestsSafe, RowsBacked, Files, Request
<1> QED BY <1>1, <1>2, <1>3, <1>4, <1>5, <1>6

\* A text row keeps to the horizon from the moment it is computed.
LEMMA CreateTextInv ==
    ASSUME IndInv, NEW s \in Shares, NEW want \in Wants, CreateText(s, want) PROVE IndInv'
<1> USE DEF IndInv, CreateText, disk, Normalized, MayExpire
<1>1. TypeOK' BY DEF TypeOK, Times, Row
<1>2. RowsBacked' BY DEF TypeOK, RowsBacked, Files
<1>3. UploadsYoung' BY DEF TypeOK, RowsBacked, UploadsYoung, Transferring, Times
<1>4. WithinHorizon' BY DEF TypeOK, WithinHorizon, RowsBacked
<1>5. PassesSafe' BY DEF TypeOK, PassesSafe, RowsBacked, Files, Pass, Times
<1>6. RequestsSafe' BY DEF TypeOK, RequestsSafe, RowsBacked, Files, Request
<1> QED BY <1>1, <1>2, <1>3, <1>4, <1>5, <1>6

\* A text row needs no object.
LEMMA InsertTextInv ==
    ASSUME IndInv, NEW s \in Shares, InsertText(s) PROVE IndInv'
<1> USE DEF IndInv, InsertText, disk
<1>1. TypeOK' BY DEF TypeOK
<1>2. RowsBacked' BY DEF TypeOK, RowsBacked, Files
<1>3. UploadsYoung' BY DEF TypeOK, RowsBacked, UploadsYoung, Transferring, Times
<1>4. WithinHorizon' BY DEF TypeOK, WithinHorizon, RowsBacked
<1>5. PassesSafe' BY DEF TypeOK, PassesSafe, RowsBacked, Files, Pass, Times
<1>6. RequestsSafe' BY DEF TypeOK, RequestsSafe, RowsBacked, Files, Request
<1> QED BY <1>1, <1>2, <1>3, <1>4, <1>5, <1>6

\* A failed text create leaves nothing.
LEMMA FailTextInv ==
    ASSUME IndInv, NEW s \in Shares, FailText(s) PROVE IndInv'
<1> USE DEF IndInv, FailText, disk
<1>1. TypeOK' BY DEF TypeOK, Times, Row, Blank
<1>2. RowsBacked' BY DEF TypeOK, RowsBacked, Files
<1>3. UploadsYoung' BY DEF TypeOK, RowsBacked, UploadsYoung, Transferring, Times, Blank
<1>4. WithinHorizon' BY DEF TypeOK, WithinHorizon, RowsBacked
<1>5. PassesSafe' BY DEF TypeOK, PassesSafe, RowsBacked, Files, Pass, Times
<1>6. RequestsSafe' BY DEF TypeOK, RequestsSafe, RowsBacked, Files, Request
<1> QED BY <1>1, <1>2, <1>3, <1>4, <1>5, <1>6

\* Reading the clock changes no Share.
LEMMA StartUpdateInv ==
    ASSUME IndInv, NEW h \in Handlers, NEW s \in Shares, NEW want \in Wants, StartUpdate(h, s, want) PROVE IndInv'
<1> USE DEF IndInv, StartUpdate, Become, database, disk, creation
<1>1. TypeOK' BY DEF TypeOK, Request
<1>2. RowsBacked' BY DEF TypeOK, RowsBacked, Files
<1>3. UploadsYoung' BY DEF TypeOK, RowsBacked, UploadsYoung, Transferring, Times
<1>4. WithinHorizon' BY DEF TypeOK, WithinHorizon, RowsBacked
<1>5. PassesSafe' BY DEF TypeOK, PassesSafe, RowsBacked, Files, Pass, Times
<1>6. RequestsSafe' BY DEF TypeOK, RequestsSafe, RowsBacked, Files, Request
<1> QED BY <1>1, <1>2, <1>3, <1>4, <1>5, <1>6

\* An update moves the expiration within the horizon of the row's own creation.
LEMMA UpdateTxInv ==
    ASSUME IndInv, NEW h \in Handlers, UpdateTx(h) PROVE IndInv'
<1> USE DEF IndInv, UpdateTx, MayExpire, Become, Idle, creation, disk
<1>0. /\ rows' = rows /\ final' = final /\ up' = up
      /\ \A t \in Shares : /\ meta'[t].kind = meta[t].kind
                          /\ meta'[t].created = meta[t].created
      BY DEF TypeOK, Row
<1>1. TypeOK'
  <2>1. handler[h].want \in Nat \union {Never} BY DEF TypeOK, Request
  <2>2. meta' \in [Shares -> Row]
    <3>1. ASSUME NEW t \in Shares PROVE [meta[t] EXCEPT !.expires = handler[h].want] \in Row
          BY <2>1 DEF TypeOK, Row
    <3> QED BY <3>1 DEF TypeOK
  <2>3. handler' \in [Handlers -> Request] BY IdleTyped DEF TypeOK
  <2>4. \A k \in Handlers : (handler'[k].share = NoOne) <=> (handler'[k].pc = "idle")
        BY DEF TypeOK
  <2> QED BY <2>2, <2>3, <2>4 DEF TypeOK
<1>2. RowsBacked' BY <1>0 DEF TypeOK, RowsBacked, Files
<1>3. UploadsYoung' BY DEF TypeOK, RowsBacked, UploadsYoung, Transferring, Times
<1>4. WithinHorizon' BY DEF TypeOK, WithinHorizon, RowsBacked, Request, Row, Times
<1>5. PassesSafe' BY <1>0 DEF TypeOK, PassesSafe, RowsBacked, Files, Pass, Times
<1>6. RequestsSafe' BY <1>0 DEF TypeOK, RequestsSafe, Files, Request
<1> QED BY <1>1, <1>2, <1>3, <1>4, <1>5, <1>6

\* Reading the clock changes no Share.
LEMMA StartDeleteInv ==
    ASSUME IndInv, NEW h \in Handlers, NEW s \in Shares,
           NEW by \in {"delete", "adminDelete"}, StartDelete(h, s, by) PROVE IndInv'
<1> USE DEF IndInv, StartDelete, Become, database, disk, creation
<1>1. TypeOK' BY DEF TypeOK, Request
<1>2. RowsBacked' BY DEF TypeOK, RowsBacked, Files
<1>3. UploadsYoung' BY DEF TypeOK, RowsBacked, UploadsYoung, Transferring, Times
<1>4. WithinHorizon' BY DEF TypeOK, WithinHorizon, RowsBacked
<1>5. PassesSafe' BY DEF TypeOK, PassesSafe, RowsBacked, Files, Pass, Times
<1>6. RequestsSafe' BY DEF TypeOK, RequestsSafe, RowsBacked, Files, Request
<1> QED BY <1>1, <1>2, <1>3, <1>4, <1>5, <1>6

\* The row goes first, and its object is then nobody's.
LEMMA DeleteTxInv ==
    ASSUME IndInv, NEW h \in Handlers, DeleteTx(h) PROVE IndInv'
<1> USE DEF IndInv, DeleteTx, Remove, Become, Idle, creation, disk
<1>1. TypeOK'
  <2>2. meta' \in [Shares -> Row] BY IdleTyped DEF TypeOK
  <2>3. handler[h].share \in Shares BY DEF TypeOK
  <2>5. [Idle EXCEPT !.pc = "unlink", !.share = handler[h].share] \in Request
        BY <2>3, IdleTyped, RequestMoves
  <2>6. handler' \in [Handlers -> Request] BY <2>5, IdleTyped DEF TypeOK
  <2>7. \A k \in Handlers : (handler'[k].share = NoOne) <=> (handler'[k].pc = "idle")
        BY <2>3 DEF TypeOK
  <2> QED BY <2>2, <2>6, <2>7 DEF TypeOK
<1>2. RowsBacked' BY DEF TypeOK, RowsBacked, Files
<1>3. UploadsYoung' BY DEF TypeOK, RowsBacked, UploadsYoung, Transferring, Times, Blank
<1>4. WithinHorizon' BY DEF TypeOK, WithinHorizon, RowsBacked
<1>5. PassesSafe' BY DEF TypeOK, PassesSafe, RowsBacked, Files, Pass, Times
<1>6. RequestsSafe' BY DEF TypeOK, RequestsSafe, RowsBacked, Files, Request
<1> QED BY <1>1, <1>2, <1>3, <1>4, <1>5, <1>6

\* A refused request changes nothing.
LEMMA RefuseInv ==
    ASSUME IndInv, NEW h \in Handlers, Refuse(h) PROVE IndInv'
<1> USE DEF IndInv, Refuse, Become, Idle, database, disk, creation
<1>1. TypeOK' BY DEF TypeOK, Request, Times
<1>2. RowsBacked' BY DEF TypeOK, RowsBacked, Files
<1>3. UploadsYoung' BY DEF TypeOK, RowsBacked, UploadsYoung, Transferring, Times
<1>4. WithinHorizon' BY DEF TypeOK, WithinHorizon, RowsBacked
<1>5. PassesSafe' BY DEF TypeOK, PassesSafe, RowsBacked, Files, Pass, Times
<1>6. RequestsSafe' BY DEF TypeOK, RequestsSafe, RowsBacked, Files, Request
<1> QED BY <1>1, <1>2, <1>3, <1>4, <1>5, <1>6

\* The object unlinked after the commit belongs to no row.
LEMMA UnlinkDeletedInv ==
    ASSUME IndInv, NEW h \in Handlers, UnlinkDeleted(h) PROVE IndInv'
<1> USE DEF IndInv, UnlinkDeleted, Become, Idle, Fault, database, creation
<1>1. TypeOK' BY DEF TypeOK, Request, Times
<1>2. RowsBacked' BY DEF TypeOK, RowsBacked, Files, RequestsSafe, Request
<1>3. UploadsYoung' BY DEF TypeOK, RowsBacked, UploadsYoung, Transferring, Times
<1>4. WithinHorizon' BY DEF TypeOK, WithinHorizon, RowsBacked
<1>5. PassesSafe' BY DEF TypeOK, PassesSafe, RowsBacked, Files, Pass, Times
<1>6. RequestsSafe' BY DEF TypeOK, RequestsSafe, RowsBacked, Files, Request
<1> QED BY <1>1, <1>2, <1>3, <1>4, <1>5, <1>6

\* A request that is about to open starts from a live File.
LEMMA GetFileInv ==
    ASSUME IndInv, NEW h \in Handlers, NEW s \in Shares, GetFile(h, s) PROVE IndInv'
<1> USE DEF IndInv, GetFile, Files, Become, Idle, database, disk, creation
<1>1. TypeOK'
  <2>1. [Idle EXCEPT !.pc = "open", !.share = s] \in Request 
        BY IdleTyped, RequestMoves
  <2> QED BY <2>1 DEF TypeOK
<1>2. RowsBacked' BY DEF TypeOK, RowsBacked, Files
<1>3. UploadsYoung' BY DEF TypeOK, RowsBacked, UploadsYoung, Transferring, Times
<1>4. WithinHorizon' BY DEF TypeOK, WithinHorizon, RowsBacked
<1>5. PassesSafe' BY DEF TypeOK, PassesSafe, RowsBacked, Files, Pass, Times
<1>6. RequestsSafe' BY DEF TypeOK, RequestsSafe, RowsBacked, Files, Request
<1> QED BY <1>1, <1>2, <1>3, <1>4, <1>5, <1>6

\* A File still in the database has its object: only a removed one is missing.
LEMMA OpenObjectInv ==
    ASSUME IndInv, NEW h \in Handlers, OpenObject(h) PROVE IndInv'
<1> USE DEF IndInv, OpenObject, Become, database, disk, creation
<1>1. TypeOK' BY DEF TypeOK, Request
<1>2. RowsBacked' BY DEF TypeOK, RowsBacked, Files
<1>3. UploadsYoung' BY DEF TypeOK, RowsBacked, UploadsYoung, Transferring, Times
<1>4. WithinHorizon' BY DEF TypeOK, WithinHorizon, RowsBacked
<1>5. PassesSafe' BY DEF TypeOK, PassesSafe, RowsBacked, Files, Pass, Times
<1>6. RequestsSafe'
  <2>1. handler[h].share \in Shares /\ up[handler[h].share] = "created"
        BY DEF TypeOK, Request, RequestsSafe
  <2>2. handler[h].share \notin final => handler[h].share \notin rows
        BY <2>1 DEF RowsBacked, RequestsSafe
  <2> QED BY <2>1, <2>2 DEF TypeOK, RequestsSafe, Request, Files
<1> QED BY <1>1, <1>2, <1>3, <1>4, <1>5, <1>6

\* The end of a download changes nothing.
LEMMA EndOpenInv ==
    ASSUME IndInv, NEW h \in Handlers, EndOpen(h) PROVE IndInv'
<1> USE DEF IndInv, EndOpen, Become, Idle, database, disk, creation
<1>1. TypeOK' BY DEF TypeOK, Request, Times
<1>2. RowsBacked' BY DEF TypeOK, RowsBacked, Files
<1>3. UploadsYoung' BY DEF TypeOK, RowsBacked, UploadsYoung, Transferring, Times
<1>4. WithinHorizon' BY DEF TypeOK, WithinHorizon, RowsBacked
<1>5. PassesSafe' BY DEF TypeOK, PassesSafe, RowsBacked, Files, Pass, Times
<1>6. RequestsSafe' BY DEF TypeOK, RequestsSafe, RowsBacked, Files, Request
<1> QED BY <1>1, <1>2, <1>3, <1>4, <1>5, <1>6

\* A pass starts with the clock of now.
LEMMA StartSweepInv ==
    ASSUME IndInv, NEW w \in Sweepers, StartSweep(w) PROVE IndInv'
<1> USE DEF IndInv, StartSweep, Sweep, Asleep, database, disk, creation
<1>1. TypeOK'
  <2>1. [Asleep EXCEPT !.pc = "purge", !.at = now, !.left = MaxBatches] \in Pass
        BY PassStarts, now \in Times DEF TypeOK
  <2> QED BY <2>1 DEF TypeOK
<1>2. RowsBacked' BY DEF TypeOK, RowsBacked, Files
<1>3. UploadsYoung' BY DEF TypeOK, RowsBacked, UploadsYoung, Transferring, Times
<1>4. WithinHorizon' BY DEF TypeOK, WithinHorizon, RowsBacked
<1>5. PassesSafe' BY DEF TypeOK, PassesSafe, RowsBacked, Files, Pass, Times
<1>6. RequestsSafe' BY DEF TypeOK, RequestsSafe, RowsBacked, Files, Request
<1> QED BY <1>1, <1>2, <1>3, <1>4, <1>5, <1>6

\* A purged object belongs to no row.
LEMMA UnlinkPurgedInv ==
    ASSUME IndInv, NEW w \in Sweepers, NEW s \in Shares, UnlinkPurged(w, s) PROVE IndInv'
<1> USE DEF IndInv, UnlinkPurged, Sweep, Fault, database, creation
<1>1. TypeOK' BY DEF TypeOK, Pass
<1>2. RowsBacked' BY DEF TypeOK, RowsBacked, Files, PassesSafe
<1>3. UploadsYoung' BY DEF TypeOK, RowsBacked, UploadsYoung, Transferring, Times
<1>4. WithinHorizon' BY DEF TypeOK, WithinHorizon, RowsBacked
<1>5. PassesSafe' BY DEF TypeOK, PassesSafe, RowsBacked, Files, Pass, Times
<1>6. RequestsSafe' BY DEF TypeOK, RequestsSafe, RowsBacked, Files, Request
<1> QED BY <1>1, <1>2, <1>3, <1>4, <1>5, <1>6

\* The snapshot has every File of its moment.
LEMMA SnapshotReferencesInv ==
    ASSUME IndInv, NEW w \in Sweepers, SnapshotReferences(w) PROVE IndInv'
<1> USE DEF IndInv, SnapshotReferences, Sweep, Files, database, disk, creation
<1>1. TypeOK'
  <2>1. [sweep[w] EXCEPT !.pc = "refs", !.refs = Files] \in Pass
        BY PassMoves, sweep[w] \in Pass, Files \in SUBSET Shares DEF TypeOK
  <2> QED BY <2>1 DEF TypeOK
<1>2. RowsBacked' BY DEF TypeOK, RowsBacked, Files
<1>3. UploadsYoung' BY DEF TypeOK, RowsBacked, UploadsYoung, Transferring, Times
<1>4. WithinHorizon' BY DEF TypeOK, WithinHorizon, RowsBacked
<1>5. PassesSafe' BY DEF TypeOK, PassesSafe, RowsBacked, Files, Pass, Times
<1>6. RequestsSafe' BY DEF TypeOK, RequestsSafe, RowsBacked, Files, Request
<1> QED BY <1>1, <1>2, <1>3, <1>4, <1>5, <1>6

\* Listing changes nothing.
LEMMA ListStagesInv ==
    ASSUME IndInv, NEW w \in Sweepers, ListStages(w) PROVE IndInv'
<1> USE DEF IndInv, ListStages, Sweep, database, disk, creation
<1>1. TypeOK'
  <2>1. [sweep[w] EXCEPT !.pc = "stages", !.todo = stage] \in Pass
        BY PassMoves, sweep[w] \in Pass, stage \in SUBSET Shares DEF TypeOK
  <2> QED BY <2>1 DEF TypeOK
<1>2. RowsBacked' BY DEF TypeOK, RowsBacked, Files
<1>3. UploadsYoung' BY DEF TypeOK, RowsBacked, UploadsYoung, Transferring, Times
<1>4. WithinHorizon' BY DEF TypeOK, WithinHorizon, RowsBacked
<1>5. PassesSafe' BY DEF TypeOK, PassesSafe, RowsBacked, Files, Pass, Times
<1>6. RequestsSafe' BY DEF TypeOK, RequestsSafe, RowsBacked, Files, Request
<1> QED BY <1>1, <1>2, <1>3, <1>4, <1>5, <1>6

\* Staging files carry no row.
LEMMA VisitStageInv ==
    ASSUME IndInv, NEW w \in Sweepers, NEW s \in Shares, VisitStage(w, s) PROVE IndInv'
<1> USE DEF IndInv, VisitStage, Sweep, Asleep, database, creation
<1>1. TypeOK' BY DEF TypeOK, Pass, Times
<1>2. RowsBacked' BY DEF TypeOK, RowsBacked, Files
<1>3. UploadsYoung' BY DEF TypeOK, RowsBacked, UploadsYoung, Transferring, Times
<1>4. WithinHorizon' BY DEF TypeOK, WithinHorizon, RowsBacked
<1>5. PassesSafe' BY DEF TypeOK, PassesSafe, RowsBacked, Files, Pass, Times
<1>6. RequestsSafe' BY DEF TypeOK, RequestsSafe, RowsBacked, Files, Request
<1> QED BY <1>1, <1>2, <1>3, <1>4, <1>5, <1>6

\* Listing changes nothing.
LEMMA ListObjectsInv ==
    ASSUME IndInv, NEW w \in Sweepers, ListObjects(w) PROVE IndInv'
<1> USE DEF IndInv, ListObjects, Sweep, database, disk, creation
<1>1. TypeOK'
  <2>1. [sweep[w] EXCEPT !.pc = "objects", !.todo = final] \in Pass
        BY PassMoves, sweep[w] \in Pass, final \in SUBSET Shares DEF TypeOK
  <2> QED BY <2>1 DEF TypeOK
<1>2. RowsBacked' BY DEF TypeOK, RowsBacked, Files
<1>3. UploadsYoung' BY DEF TypeOK, RowsBacked, UploadsYoung, Transferring, Times
<1>4. WithinHorizon' BY DEF TypeOK, WithinHorizon, RowsBacked
<1>5. PassesSafe' BY DEF TypeOK, PassesSafe, RowsBacked, Files, Pass, Times
<1>6. RequestsSafe' BY DEF TypeOK, RequestsSafe, RowsBacked, Files, Request
<1> QED BY <1>1, <1>2, <1>3, <1>4, <1>5, <1>6

\* An unreferenced stale object is no File's: a File the snapshot missed is young.
LEMMA VisitObjectInv ==
    ASSUME IndInv, NEW w \in Sweepers, NEW s \in Shares, VisitObject(w, s) PROVE IndInv'
<1> USE DEF IndInv, VisitObject, Stale, Sweep, Asleep, database, creation
<1>1. TypeOK' BY DEF TypeOK, Pass, Times
<1>2. RowsBacked' BY DEF TypeOK, RowsBacked, Files, PassesSafe, UploadsYoung, Transferring, Times, Pass
<1>3. UploadsYoung' BY DEF TypeOK, RowsBacked, UploadsYoung, Transferring, Times
<1>4. WithinHorizon' BY DEF TypeOK, WithinHorizon, RowsBacked
<1>5. PassesSafe' BY DEF TypeOK, PassesSafe, RowsBacked, Files, Pass, Times
<1>6. RequestsSafe' BY DEF TypeOK, RequestsSafe, RowsBacked, Files, Request
<1> QED BY <1>1, <1>2, <1>3, <1>4, <1>5, <1>6

\* The end of a pass changes nothing.
LEMMA EndSweepInv ==
    ASSUME IndInv, NEW w \in Sweepers, EndSweep(w) PROVE IndInv'
<1> USE DEF IndInv, EndSweep, Sweep, Asleep, database, disk, creation
<1>1. TypeOK' BY DEF TypeOK, Pass, Times
<1>2. RowsBacked' BY DEF TypeOK, RowsBacked, Files
<1>3. UploadsYoung' BY DEF TypeOK, RowsBacked, UploadsYoung, Transferring, Times
<1>4. WithinHorizon' BY DEF TypeOK, WithinHorizon, RowsBacked
<1>5. PassesSafe' BY DEF TypeOK, PassesSafe, RowsBacked, Files, Pass, Times
<1>6. RequestsSafe' BY DEF TypeOK, RequestsSafe, RowsBacked, Files, Request
<1> QED BY <1>1, <1>2, <1>3, <1>4, <1>5, <1>6

\* A failed pass leaves what it has done so far, which is safe.
LEMMA FailSweepInv ==
    ASSUME IndInv, NEW w \in Sweepers, FailSweep(w) PROVE IndInv'
<1> USE DEF IndInv, FailSweep, Fault, Sweep, Asleep, database, disk, creation
<1>1. TypeOK' BY DEF TypeOK, Pass, Times
<1>2. RowsBacked' BY DEF TypeOK, RowsBacked, Files
<1>3. UploadsYoung' BY DEF TypeOK, RowsBacked, UploadsYoung, Transferring, Times
<1>4. WithinHorizon' BY DEF TypeOK, WithinHorizon, RowsBacked
<1>5. PassesSafe' BY DEF TypeOK, PassesSafe, RowsBacked, Files, Pass, Times
<1>6. RequestsSafe' BY DEF TypeOK, RequestsSafe, RowsBacked, Files, Request
<1> QED BY <1>1, <1>2, <1>3, <1>4, <1>5, <1>6

\* Only committed rows survive a crash, and their objects do too.
LEMMA CrashInv ==
    ASSUME IndInv, Crash PROVE IndInv'
<1> USE DEF IndInv, Crash, Fault, disk, Idle, Asleep
<1>1. TypeOK' BY DEF TypeOK, Row, Request, Pass, Blank, Times
<1>2. RowsBacked' BY DEF TypeOK, RowsBacked, Files
<1>3. UploadsYoung' BY DEF TypeOK, RowsBacked, UploadsYoung, Transferring, Times, Blank
<1>4. WithinHorizon' BY DEF TypeOK, WithinHorizon, RowsBacked
<1>5. PassesSafe' BY DEF TypeOK, PassesSafe, RowsBacked, Files, Pass, Times
<1>6. RequestsSafe' BY DEF TypeOK, RequestsSafe, RowsBacked, Files, Request
<1> QED BY <1>1, <1>2, <1>3, <1>4, <1>5, <1>6

\* Time passes only while every upload is within its deadline.
LEMMA TickInv ==
    ASSUME IndInv, Tick PROVE IndInv'
<1> USE DEF IndInv, Tick, database, disk, creation
<1>1. TypeOK' BY DEF TypeOK, Times
<1>2. RowsBacked' BY DEF TypeOK, RowsBacked, Files
<1>3. UploadsYoung' BY DEF TypeOK, RowsBacked, UploadsYoung, Transferring, Times
<1>4. WithinHorizon' BY DEF TypeOK, WithinHorizon, RowsBacked
<1>5. PassesSafe' BY DEF TypeOK, PassesSafe, RowsBacked, Files, Pass, Times
<1>6. RequestsSafe' BY DEF TypeOK, RequestsSafe, RowsBacked, Files, Request
<1> QED BY <1>1, <1>2, <1>3, <1>4, <1>5, <1>6

\* A purge hands the pass only keys of rows it has removed.
LEMMA PurgeBatchInv ==
    ASSUME IndInv, NEW w \in Sweepers, PurgeBatch(w) PROVE IndInv'
<1> USE DEF IndInv
<1>1. PICK batch \in SUBSET Due(sweep[w].at) :
          /\ Remove(batch)
          /\ sweep' = [sweep EXCEPT ![w] =
                [sweep[w] EXCEPT !.keys = batch \intersect Files,
                    !.left = IF Cardinality(batch) = BatchSize THEN @ - 1 ELSE 0]]
      BY DEF PurgeBatch, Sweep
<1> DEFINE left == IF Cardinality(batch) = BatchSize THEN sweep[w].left - 1 ELSE 0
<1>2. left \in 0..MaxBatches /\ sweep[w].pc = "purge" /\ batch \subseteq rows
      BY <1>1 DEF PurgeBatch, Due, TypeOK, Pass
<1>3. sweep' = [sweep EXCEPT ![w] =
                [sweep[w] EXCEPT !.keys = batch \intersect Files, !.left = left]]
      BY <1>1
<1>4. UNCHANGED <<now, writer, creation, disk, handler, faults>>
      BY DEF PurgeBatch
<1> HIDE DEF left
<1> USE <1>1, <1>2, <1>3, <1>4 DEF Remove, creation, disk
<1>5. TypeOK'
  <2>2. meta' \in [Shares -> Row] BY IdleTyped DEF TypeOK
  <2>3. sweep[w] \in Pass /\ batch \intersect Files \in SUBSET Shares
        BY DEF TypeOK
  <2>5. [sweep[w] EXCEPT !.keys = batch \intersect Files, !.left = left] \in Pass
        BY <2>3, PassMoves DEF TypeOK
  <2> QED BY <2>2, <2>5 DEF TypeOK
<1>6. RowsBacked' BY DEF TypeOK, RowsBacked, Files
<1>7. UploadsYoung' BY DEF TypeOK, RowsBacked, UploadsYoung, Transferring, Times
<1>8. WithinHorizon' BY DEF TypeOK, WithinHorizon, RowsBacked
<1>9. PassesSafe' BY DEF TypeOK, PassesSafe, RowsBacked, Files
<1>10. RequestsSafe' BY DEF TypeOK, RequestsSafe, RowsBacked, Files, Request
<1> QED BY <1>5, <1>6, <1>7, <1>8, <1>9, <1>10

\* The invariant is inductive: one case for each action of Next.
LEMMA NextInv == IndInv /\ [Next]_vars => IndInv'
<1> SUFFICES ASSUME IndInv, [Next]_vars PROVE IndInv' OBVIOUS
<1>1. ASSUME NEW s \in Shares, StageFile(s) \/ FileStep(s) \/ TextStep(s)
                               \/ \E want \in Wants : CreateText(s, want)
      PROVE  IndInv'
      BY <1>1, StageFileInv, FinishStageInv, AbortStageInv, CreateFileInv,
         BeginFileTxInv, LinkObjectInv, DropStageInv, CommitFileInv,
         RollbackFileInv, CompensateInv, CreateTextInv, InsertTextInv, FailTextInv
         DEF FileStep, TextStep
<1>2. ASSUME NEW h \in Handlers, HandlerStep(h) PROVE IndInv'
      BY <1>2, StartUpdateInv, UpdateTxInv, StartDeleteInv, DeleteTxInv, RefuseInv,
         UnlinkDeletedInv, GetFileInv, OpenObjectInv, EndOpenInv DEF HandlerStep
<1>3. ASSUME NEW w \in Sweepers, StartSweep(w) \/ PassStep(w) \/ FailSweep(w)
      PROVE  IndInv'
      BY <1>3, StartSweepInv, PurgeBatchInv, UnlinkPurgedInv, SnapshotReferencesInv,
         ListStagesInv, VisitStageInv, ListObjectsInv, VisitObjectInv, EndSweepInv,
         FailSweepInv DEF PassStep
<1>4. CASE UNCHANGED vars
      BY <1>4 DEF vars, IndInv, TypeOK, RowsBacked, UploadsYoung, WithinHorizon,
         PassesSafe, RequestsSafe, Files, Transferring
<1> QED BY <1>1, <1>2, <1>3, <1>4, CrashInv, TickInv DEF Next

(***************************************************************************)
(* The theorems.                                                           *)
(***************************************************************************)

\* The inductive invariant holds in every reachable state: types, the write
\* lock, and the six facts the properties below rest on.
THEOREM Invariance == Spec => []IndInv
<1> QED BY InitInv, NextInv, PTL DEF Spec

\* Every variable keeps its type and the write lock is held exactly inside a
\* CreateFile transaction.
THEOREM TypeCorrect == Spec => []TypeOK
<1>1. IndInv => TypeOK BY DEF IndInv
<1> QED BY <1>1, Invariance, PTL

\* CreateFile, Delete, AdminDelete, purge, reconciliation and crashes never
\* leave a committed File Share without its object.
THEOREM NoDangling == Spec => []NoDanglingRow
<1>1. IndInv => NoDanglingRow BY DEF IndInv, RowsBacked, NoDanglingRow
<1> QED BY <1>1, Invariance, PTL

\* normalizeExpiration and validateUpdatedExpiration together keep every row of
\* a public instance within MaxTTL of its creation.
THEOREM Horizon == Spec => []PublicHorizon
<1>1. IndInv => PublicHorizon
      BY DEF IndInv, TypeOK, WithinHorizon, PublicHorizon
<1> QED BY <1>1, Invariance, PTL

\* OpenFile finds no object only for a Share that was removed after its Get.
THEOREM OpenFails == Spec => []OpenFailsOnlyIfDeleted
<1>1. IndInv => OpenFailsOnlyIfDeleted
      BY DEF IndInv, RequestsSafe, OpenFailsOnlyIfDeleted
<1> QED BY <1>1, Invariance, PTL

\* An upload is young, so no pass finds its files stale.
LEMMA UploadNotStale ==
    ASSUME IndInv, NEW s \in Transferring, NEW w \in Sweepers
    PROVE  ~Stale(w, s)
BY DEF IndInv, TypeOK, UploadsYoung, PassesSafe, Stale, Pass, Times, Transferring

\* No step but an upload's own, and a crash, takes its staging file or object.
LEMMA UploadKept ==
    ASSUME IndInv, Next, NEW s \in Transferring, up'[s] = up[s]
    PROVE  (s \in stage => s \in stage') /\ (s \in final => s \in final')
<1> USE DEF IndInv, creation, disk, database
<1>0. s \in Shares /\ up[s] # "created" BY DEF Transferring
<1>1. ASSUME NEW t \in Shares, StageFile(t) \/ FileStep(t) \/ TextStep(t)
                               \/ \E want \in Wants : CreateText(t, want)
      PROVE  (s \in stage => s \in stage') /\ (s \in final => s \in final')
  <2>1. s # t \/ (stage' = stage /\ final' = final)
        BY <1>0, <1>1 DEF TypeOK, StageFile, FileStep, TextStep, CreateText,
           FinishStage, AbortStage, CreateFile, BeginFileTx, LinkObject, DropStage,
           CommitFile, RollbackFile, Compensate, InsertText, FailText
  <2>2. stage \ {t} \subseteq stage' /\ final \ {t} \subseteq final'
        BY <1>1 DEF StageFile, FileStep, TextStep, CreateText,
           FinishStage, AbortStage, CreateFile, BeginFileTx, LinkObject, DropStage,
           CommitFile, RollbackFile, Compensate, InsertText, FailText
  <2> QED BY <2>1, <2>2
<1>2. ASSUME NEW h \in Handlers, HandlerStep(h)
      PROVE  (s \in stage => s \in stage') /\ (s \in final => s \in final')
  <2>1. CASE UnlinkDeleted(h)
    <3>1. handler[h].share # s
          BY <2>1, <1>0 DEF UnlinkDeleted, RequestsSafe
    <3> QED BY <2>1, <3>1 DEF UnlinkDeleted
  <2>2. CASE ~UnlinkDeleted(h)
        BY <1>2, <2>2 DEF HandlerStep, StartUpdate, StartDelete, GetFile, UpdateTx,
           DeleteTx, Refuse, OpenObject, EndOpen
  <2> QED BY <2>1, <2>2
<1>3. ASSUME NEW w \in Sweepers, StartSweep(w) \/ PassStep(w) \/ FailSweep(w)
      PROVE  (s \in stage => s \in stage') /\ (s \in final => s \in final')
  <2>1. ASSUME NEW t \in Shares, UnlinkPurged(w, t)
        PROVE  (s \in stage => s \in stage') /\ (s \in final => s \in final')
        BY <2>1, <1>0 DEF UnlinkPurged, PassesSafe
  <2>2. ASSUME NEW t \in Shares, VisitStage(w, t) \/ VisitObject(w, t)
        PROVE  (s \in stage => s \in stage') /\ (s \in final => s \in final')
        BY <2>2, UploadNotStale DEF VisitStage, VisitObject
  <2>3. CASE StartSweep(w) \/ FailSweep(w) \/ PurgeBatch(w) \/ SnapshotReferences(w)
             \/ ListStages(w) \/ ListObjects(w) \/ EndSweep(w)
        BY <2>3 DEF StartSweep, FailSweep, PurgeBatch, SnapshotReferences,
           ListStages, ListObjects, EndSweep
  <2> QED BY <1>3, <2>1, <2>2, <2>3 DEF PassStep
<1>4. CASE Crash BY <1>4 DEF Crash
<1>5. CASE Tick BY <1>5 DEF Tick
<1> QED BY <1>1, <1>2, <1>3, <1>4, <1>5 DEF Next

\* The maintenance grace protects what the reference snapshot cannot see: no
\* pass, deletion or purge takes a file from an upload that goes on.
THEOREM InFlightKept == Spec => InFlightFilesKept
<1>1. IndInv /\ [Next]_vars =>
         [\A s \in Transferring :
             up'[s] = up[s] => /\ s \in stage => s \in stage'
                               /\ s \in final => s \in final']_vars
      BY UploadKept
<1> QED BY <1>1, Invariance, PTL DEF Spec, InFlightFilesKept

\* A step that removes a row is somebody's deletion of it, or a purge of a row
\* that has expired by the clock of the removal, not only of the pass.
LEMMA RemovalJustified ==
    ASSUME IndInv, Next, NEW s \in rows \ rows'
    PROVE  \/ meta[s].expires # Never /\ meta[s].expires <= now
           \/ \E h \in Handlers : /\ handler[h].share = s
                                  /\ handler[h].pc \in {"delete", "adminDelete"}
                                  /\ handler'[h] # handler[h]
<1> USE DEF IndInv, creation, disk, database
<1>1. ASSUME NEW t \in Shares, StageFile(t) \/ FileStep(t) \/ TextStep(t)
                               \/ \E want \in Wants : CreateText(t, want)
      PROVE  FALSE
      BY <1>1 DEF StageFile, FileStep, TextStep, CreateText, FinishStage,
         AbortStage, CreateFile, BeginFileTx, LinkObject, DropStage, CommitFile,
         RollbackFile, Compensate, InsertText, FailText
<1>2. ASSUME NEW h \in Handlers, HandlerStep(h)
      PROVE  /\ handler[h].share = s /\ handler[h].pc \in {"delete", "adminDelete"}
             /\ handler'[h] # handler[h]
  <2>1. DeleteTx(h)
        BY <1>2 DEF HandlerStep, StartUpdate, StartDelete, GetFile, UpdateTx,
           Refuse, UnlinkDeleted, OpenObject, EndOpen
  <2>2. handler'[h].pc \in {"unlink", "idle"}
        BY <2>1 DEF DeleteTx, Become, Idle, TypeOK, Request
  <2> QED BY <2>1, <2>2 DEF DeleteTx, Remove
<1>3. ASSUME NEW w \in Sweepers, StartSweep(w) \/ PassStep(w) \/ FailSweep(w)
      PROVE  meta[s].expires # Never /\ meta[s].expires <= now
  <2>1. PurgeBatch(w)
        BY <1>3 DEF PassStep, StartSweep, FailSweep, SnapshotReferences, ListStages,
           ListObjects, EndSweep, UnlinkPurged, VisitStage, VisitObject
  <2>2. s \in Due(sweep[w].at) BY <2>1 DEF PurgeBatch, Remove
  <2>3. sweep[w].at \in Times /\ sweep[w].at <= now /\ now \in Times
        BY DEF TypeOK, Pass, PassesSafe
  <2>4. meta[s].expires \in Nat \union {Never} BY DEF TypeOK, Row
  <2> QED BY <2>2, <2>3, <2>4 DEF Due, IsExpired, Times
<1>4. CASE Crash BY <1>4 DEF Crash
<1>5. CASE Tick BY <1>5 DEF Tick
<1> QED BY <1>1, <1>2, <1>3, <1>4, <1>5 DEF Next

\* Maintenance never removes a Share that is still active.
THEOREM PurgeJustified == Spec => PurgeOnlyExpired
<1>1. IndInv /\ [Next]_vars =>
         [\A s \in rows \ rows' :
             \/ meta[s].expires # Never /\ meta[s].expires <= now
             \/ \E h \in Handlers : /\ handler[h].share = s
                                    /\ handler[h].pc \in {"delete", "adminDelete"}
                                    /\ handler'[h] # handler[h]]_vars
      BY RemovalJustified
<1> QED BY <1>1, Invariance, PTL DEF Spec, PurgeOnlyExpired

(***************************************************************************)
(* What a pass achieves: the part of OrphansReclaimed that needs no        *)
(* fairness.                                                               *)
(***************************************************************************)
\* What a pass has to remove, it has still before it: a file that comes while it
\* runs is too young for it.
PassesThorough ==
    \A w \in Sweepers :
        /\ sweep[w].pc = "stages" =>
              \A s \in stage : Stale(w, s) => s \in sweep[w].todo
        /\ sweep[w].pc = "objects" =>
              /\ \A s \in stage : ~Stale(w, s)
              /\ \A s \in final \ sweep[w].refs : Stale(w, s) => s \in sweep[w].todo

\* A pass that has come to its end leaves no staging file, and no object that its
\* reference snapshot does not name, older than the grace, whatever appeared,
\* committed or was removed while it read the directories.
PassesReclaim ==
    \A w \in Sweepers :
        sweep[w].pc = "objects" /\ sweep[w].todo = {} =>
            \A s \in stage \union (final \ sweep[w].refs) : mtime[s] > sweep[w].at - Grace

\* A step that adds no file, makes none older and leaves the passes alone.
LEMMA ThoroughKept ==
    ASSUME IndInv, PassesThorough, UNCHANGED sweep,
           stage' \subseteq stage, final' \subseteq final,
           \A s \in stage' \union final' : mtime'[s] = mtime[s]
    PROVE  PassesThorough'
BY DEF PassesThorough, Stale

\* A step of a create request: the files it makes or writes to are young.
LEMMA ThoroughCreate ==
    ASSUME IndInv, IndInv', PassesThorough, NEW s \in Shares,
           StageFile(s) \/ FileStep(s) \/ TextStep(s) \/ \E want \in Wants : CreateText(s, want)
    PROVE  PassesThorough'
<1>1. /\ sweep' = sweep /\ now' = now
      /\ stage' \subseteq stage \union {s} /\ final' \subseteq final \union {s}
      /\ \A t \in Shares \ {s} : mtime'[t] = mtime[t]
      BY DEF IndInv, TypeOK, FileStep, TextStep, StageFile, FinishStage, AbortStage,
         CreateFile, CreateText, BeginFileTx, LinkObject, DropStage, CommitFile,
         RollbackFile, Compensate, InsertText, FailText, disk
<1>2. \/ stage' \subseteq stage /\ final' \subseteq final /\ mtime' = mtime
      \/ up'[s] \in {"staging", "staged", "linked"}
      BY DEF IndInv, TypeOK, FileStep, TextStep, StageFile, FinishStage, AbortStage,
         CreateFile, CreateText, BeginFileTx, LinkObject, DropStage, CommitFile,
         RollbackFile, Compensate, InsertText, FailText, disk
<1>3. CASE stage' \subseteq stage /\ final' \subseteq final /\ mtime' = mtime
      BY <1>1, <1>3, ThoroughKept
<1>4. CASE up'[s] \in {"staging", "staged", "linked"}
  <2>1. s \in Transferring' BY <1>4 DEF IndInv, UploadsYoung, Transferring
  <2>2. \A w \in Sweepers : ~Stale(w, s)'
        BY <2>1 DEF IndInv, TypeOK, UploadsYoung, PassesSafe, Stale, Pass, Times,
           Transferring
  <2>3. stage \subseteq Shares /\ final \subseteq Shares BY DEF IndInv, TypeOK
  <2>4. \A w \in Sweepers : \A t \in Shares \ {s} : Stale(w, t)' <=> Stale(w, t)
        BY <1>1 DEF Stale
  <2> QED BY <1>1, <2>2, <2>3, <2>4 DEF PassesThorough
<1> QED BY <1>2, <1>3, <1>4

\* A step of a pass: it reads a directory whole, and visits what it has read.
LEMMA ThoroughPass ==
    ASSUME IndInv, PassesThorough, NEW w \in Sweepers,
           StartSweep(w) \/ PassStep(w) \/ FailSweep(w)
    PROVE  PassesThorough'
<1>1. sweep \in [Sweepers -> Pass] BY DEF IndInv, TypeOK
<1>2. stage' \subseteq stage /\ final' \subseteq final /\ mtime' = mtime
      BY DEF StartSweep, PassStep, FailSweep, PurgeBatch, SnapshotReferences, ListStages,
         ListObjects, EndSweep, UnlinkPurged, VisitStage, VisitObject, disk
<1>3. \A v \in Sweepers \ {w} : sweep'[v] = sweep[v]
      BY <1>1 DEF StartSweep, PassStep, FailSweep, PurgeBatch, SnapshotReferences,
         ListStages, ListObjects, EndSweep, UnlinkPurged, VisitStage, VisitObject, Sweep
<1>4. SUFFICES
         /\ sweep'[w].pc = "stages" =>
               \A s \in stage' : Stale(w, s)' => s \in sweep'[w].todo
         /\ sweep'[w].pc = "objects" =>
               /\ \A s \in stage' : ~Stale(w, s)'
               /\ \A s \in final' \ sweep'[w].refs : Stale(w, s)' => s \in sweep'[w].todo
      BY <1>2, <1>3 DEF PassesThorough, Stale
<1>5. CASE StartSweep(w) \/ FailSweep(w) \/ EndSweep(w) \/ SnapshotReferences(w)
  <2>1. CASE StartSweep(w) \/ FailSweep(w) \/ EndSweep(w)
    <3>1. CASE StartSweep(w)
      <4>1. sweep'[w] = [Asleep EXCEPT !.pc = "purge", !.at = now, !.left = MaxBatches]
            BY <1>1, <3>1 DEF StartSweep, Sweep
      <4>2. sweep'[w].pc = "purge" BY <4>1 DEF Asleep
      <4> QED BY <4>2
    <3>2. CASE FailSweep(w) \/ EndSweep(w)
      <4>1. sweep'[w] = Asleep BY <1>1, <3>2 DEF FailSweep, EndSweep, Sweep
      <4> QED BY <4>1 DEF Asleep
    <3> QED BY <2>1, <3>1, <3>2
  <2>2. CASE SnapshotReferences(w)
    <3>1. sweep'[w].pc = "refs"
          BY <1>1, <2>2 DEF SnapshotReferences, Sweep, Pass
    <3> QED BY <3>1
  <2> QED BY <1>5, <2>1, <2>2
<1>6. CASE PurgeBatch(w) \/ \E s \in Shares : UnlinkPurged(w, s)
  <2>1. /\ sweep[w].pc = "purge"
        /\ \E left, keys : sweep' = [sweep EXCEPT ![w] = [sweep[w] EXCEPT !.keys = keys,
                                                                       !.left = left]]
    <3>1. CASE PurgeBatch(w) BY <3>1 DEF PurgeBatch, Sweep
    <3>2. CASE \E s \in Shares : UnlinkPurged(w, s)
      <4>1. PICK s \in Shares : UnlinkPurged(w, s) BY <3>2
      <4>2. sweep' = [sweep EXCEPT ![w] = [sweep[w] EXCEPT !.keys = sweep[w].keys \ {s},
                                                          !.left = sweep[w].left]]
            BY <1>1, <4>1 DEF UnlinkPurged, Sweep, Pass
      <4> QED BY <4>1, <4>2 DEF UnlinkPurged
    <3> QED BY <1>6, <3>1, <3>2
  <2>2. sweep'[w].pc = "purge" BY <1>1, <2>1 DEF Pass
  <2> QED BY <2>2
<1>7. CASE ListStages(w)
      BY <1>1, <1>7 DEF ListStages, Sweep, Pass, disk
<1>8. CASE ListObjects(w)
  <2>1. \A s \in stage : ~Stale(w, s) BY <1>8 DEF ListObjects, PassesThorough
  <2> QED BY <1>1, <1>8, <2>1 DEF ListObjects, Sweep, Pass, Stale, disk
<1>9. ASSUME NEW s \in Shares, VisitStage(w, s)
      PROVE  /\ sweep'[w].pc = "stages" =>
                   \A t \in stage' : Stale(w, t)' => t \in sweep'[w].todo
             /\ sweep'[w].pc # "objects"
  <2>1. CASE s \in stage
        BY <1>1, <1>9, <2>1 DEF VisitStage, Sweep, Pass, Stale, PassesThorough
  <2>2. CASE s \notin stage
        BY <1>1, <1>9, <2>2 DEF VisitStage, Sweep, Asleep
  <2> QED BY <2>1, <2>2
<1>10. ASSUME NEW s \in Shares, VisitObject(w, s)
       PROVE  /\ sweep'[w].pc # "stages"
              /\ sweep'[w].pc = "objects" =>
                    /\ \A t \in stage' : ~Stale(w, t)'
                    /\ \A t \in final' \ sweep'[w].refs : Stale(w, t)' => t \in sweep'[w].todo
  <2>1. CASE Sweep(w, [sweep[w] EXCEPT !.todo = @ \ {s}])
        BY <1>1, <1>10, <2>1 DEF VisitObject, Sweep, Pass, Stale, PassesThorough
  <2>2. CASE Sweep(w, Asleep) BY <1>1, <2>2 DEF Sweep, Asleep
  <2> QED BY <1>10, <2>1, <2>2 DEF VisitObject
<1> QED BY <1>5, <1>6, <1>7, <1>8, <1>9, <1>10 DEF PassStep

\* The passes stay thorough, whatever goes on beside them.
LEMMA ThoroughInv == IndInv /\ IndInv' /\ PassesThorough /\ [Next]_vars => PassesThorough'
<1> SUFFICES ASSUME IndInv, IndInv', PassesThorough, [Next]_vars PROVE PassesThorough'
    OBVIOUS
<1>1. ASSUME NEW h \in Handlers, HandlerStep(h) PROVE PassesThorough'
  <2>1. /\ UNCHANGED sweep /\ stage' \subseteq stage /\ final' \subseteq final
        /\ mtime' = mtime
        BY <1>1 DEF HandlerStep, StartUpdate, StartDelete, GetFile, UpdateTx, DeleteTx,
           Refuse, UnlinkDeleted, OpenObject, EndOpen, disk
  <2> QED BY <2>1, ThoroughKept
<1>2. CASE Crash BY <1>2 DEF Crash, PassesThorough, Asleep
<1>3. CASE Tick \/ UNCHANGED vars BY <1>3, ThoroughKept DEF Tick, vars, disk
<1> QED BY <1>1, <1>2, <1>3, ThoroughCreate, ThoroughPass DEF Next

\* A completed maintenance pass has reclaimed every orphan older than the grace.
THEOREM PassReclaims == Spec => []PassesReclaim
<1>1. Init => PassesThorough BY DEF Init, PassesThorough, Asleep
<1>2. IndInv /\ PassesThorough => PassesReclaim
  <2> SUFFICES ASSUME IndInv, PassesThorough, NEW w \in Sweepers,
                      sweep[w].pc = "objects", sweep[w].todo = {},
                      NEW s \in stage \union (final \ sweep[w].refs)
               PROVE  mtime[s] > sweep[w].at - Grace
    BY DEF PassesReclaim
  <2>1. ~Stale(w, s) BY DEF PassesThorough
  <2>2. mtime[s] \in Nat /\ sweep[w].at \in Nat BY DEF IndInv, TypeOK, Pass, Times
  <2> QED BY <2>1, <2>2 DEF Stale
<1> QED BY <1>1, <1>2, ThoroughInv, Invariance, PTL DEF Spec
===============================================================================
