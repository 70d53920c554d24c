---------------------------- MODULE MigrationsProofs ----------------------------
(* Proofs about Migrations for every set of processes and of releases, and any   *)
(* number of faults.                                                             *)
EXTENDS Migrations, TLAPS

USE ReleaseAssumption, BoundAssumption, NobodyAssumption

\* The schema of the first n migrations, and what one more makes of it.
LEMMA SchemaGrows ==
    ASSUME NEW n \in Nat
    PROVE  LET s == [i \in 1..n |-> i] IN
           /\ s \in Seq(Nat) /\ DOMAIN s = 1..n
           /\ {s[i] : i \in DOMAIN s} = 1..n
           /\ Append(s, n + 1) = [i \in 1..(n + 1) |-> i]
<1> DEFINE s == [i \in 1..n |-> i]
<1>1. s \in Seq(Nat) /\ DOMAIN s = 1..n OBVIOUS
<1>2. {s[i] : i \in DOMAIN s} = 1..n OBVIOUS
<1>3. Append(s, n + 1) = [i \in 1..(n + 1) |-> i]
  <2>1. Len(s) = n OBVIOUS
  <2> QED BY <2>1
<1> QED BY <1>1, <1>2, <1>3

\* No process is in a transaction at first.
LEMMA InitInv == Init => IndInv
<1> SUFFICES ASSUME Init PROVE IndInv
  OBVIOUS
<1> USE DEF Init
<1>1. schema = [i \in 1..version |-> i] OBVIOUS
<1>2. pending = [schema |-> <<>>, version |-> 0] BY DEF Committed
<1>3. TypeOK
  <2>1. schema \in Seq(Nat) /\ pending \in [schema : Seq(Nat), version : Nat] BY <1>2
  <2> QED BY <2>1 DEF TypeOK, Steps
<1>4. VersionExact BY <1>1 DEF VersionExact
<1>5. \A p \in Processes : TransactionOf(p) /\ KnownTo(p)
  <2> SUFFICES ASSUME NEW p \in Processes PROVE TransactionOf(p) /\ KnownTo(p)
    OBVIOUS
  <2>1. pc[p] = "down" /\ began[p] = 0 /\ writer # p OBVIOUS
  <2> QED BY <2>1 DEF TransactionOf, KnownTo, InTransaction
<1> QED BY <1>3, <1>4, <1>5 DEF IndInv

(***************************************************************************)
(* The steps of a process outside a transaction.                           *)
(***************************************************************************)
\* What a step of process p has to show: it changes no other process.
LEMMA StepInv ==
    ASSUME IndInv, TypeOK', VersionExact', NEW p \in Processes,
           writer' = Nobody => pending' = Committed',
           TransactionOf(p)', KnownTo(p)',
           UNCHANGED <<version, schema, pending>> \/ writer = p,
           version' >= version,
           writer' = writer \/ (writer \in {p, Nobody} /\ writer' \in {p, Nobody}),
           \A q \in Processes \ {p} :
              /\ pc'[q] = pc[q] /\ latest'[q] = latest[q]
              /\ current'[q] = current[q] /\ began'[q] = began[q]
    PROVE  IndInv'
<1> SUFFICES ASSUME NEW q \in Processes, q # p PROVE TransactionOf(q)' /\ KnownTo(q)'
  BY DEF IndInv
<1> USE DEF IndInv
<1>1. TransactionOf(q) /\ KnownTo(q) /\ (writer' = q <=> writer = q) OBVIOUS
<1>2. TransactionOf(q)' BY <1>1 DEF TransactionOf, Committed, InTransaction
<1>3. version \in Nat /\ version' \in Nat /\ current[q] \in Nat /\ began[q] \in Nat
  BY DEF TypeOK
<1>4. pc[q] \in InTransaction => version' = version BY <1>1 DEF TransactionOf
<1>5. KnownTo(q)' BY <1>1, <1>3, <1>4 DEF KnownTo, InTransaction
<1> QED BY <1>2, <1>5

\* An error rolls the transaction back.
LEMMA FailInv ==
    ASSUME IndInv, NEW p \in Processes, Fail(p), faults' \in Nat PROVE IndInv'
<1> USE DEF IndInv, Fail, Goto
<1>1. TypeOK' BY DEF TypeOK, Steps, Committed
<1>2. VersionExact' BY DEF VersionExact
<1>3. writer' = Nobody => pending' = Committed' BY DEF Committed
<1>4. TransactionOf(p)' /\ KnownTo(p)'
  BY DEF TransactionOf, KnownTo, TypeOK, InTransaction, Committed
<1>5. UNCHANGED <<version, schema, pending>> \/ writer = p BY DEF Committed
<1>6. version' >= version BY DEF TypeOK
<1>7. \A q \in Processes \ {p} :
         /\ pc'[q] = pc[q] /\ latest'[q] = latest[q]
         /\ current'[q] = current[q] /\ began'[q] = began[q]
  BY DEF TypeOK
<1>8. writer' = writer \/ (writer \in {p, Nobody} /\ writer' \in {p, Nobody}) OBVIOUS
<1> QED BY <1>1, <1>2, <1>3, <1>4, <1>5, <1>6, <1>7, <1>8, StepInv

\* A step that changes nothing but what p knows of the schema.
LEMMA QuietInv ==
    ASSUME IndInv, NEW p \in Processes,
           \/ Start(p) \/ FindFile(p) \/ Replace(p) \/ Finish(p)
           \/ ~exists /\ CreateFile(p) /\ exists'
           \/ pc'[p] = "next" /\ ReadVersion(p)
    PROVE  IndInv'
<1> USE DEF IndInv, Start, FindFile, CreateFile, ReadVersion, Finish, Replace, Step, Goto,
            database, Fail
<1>1. TypeOK'
  <2>1. CASE Start(p) BY <2>1 DEF TypeOK, Steps
  <2>2. CASE FindFile(p) BY <2>2 DEF TypeOK, Steps
  <2>3. CASE Replace(p) BY <2>3 DEF TypeOK, Steps
  <2>4. CASE Finish(p) BY <2>4 DEF TypeOK, Steps
  <2>5. CASE ~exists /\ CreateFile(p) /\ exists'
    <3>1. /\ exists' = TRUE /\ pc' = [pc EXCEPT ![p] = "read"]
          /\ UNCHANGED <<latest, current, began, version, schema, writer, pending, faults>>
      BY <2>5
    <3> QED BY ONLY <3>1, IndInv DEF IndInv, TypeOK, Steps
  <2>6. CASE pc'[p] = "next" /\ ReadVersion(p)
    <3>1. /\ current' = [current EXCEPT ![p] = version] /\ pc' = [pc EXCEPT ![p] = "next"]
          /\ UNCHANGED <<latest, began, exists, version, schema, writer, pending, faults>>
      BY <2>6 DEF TypeOK
    <3> QED BY ONLY <3>1, IndInv DEF IndInv, TypeOK, Steps
  <2> QED BY <2>1, <2>2, <2>3, <2>4, <2>5, <2>6
<1>2. UNCHANGED <<version, schema, writer, pending>> BY DEF TypeOK
<1>3. VersionExact' BY <1>2 DEF VersionExact
<1>4. writer' = Nobody => pending' = Committed' BY <1>2 DEF Committed
<1>5. TransactionOf(p)' BY <1>2 DEF TransactionOf, TypeOK, InTransaction, Committed
<1>6. KnownTo(p)'
  <2> USE <1>2 DEF KnownTo, TypeOK, InTransaction
  <2>1. CASE Start(p) BY <2>1
  <2>2. CASE FindFile(p) BY <2>2
  <2>3. CASE Replace(p) BY <2>3
  <2>4. CASE Finish(p) BY <2>4
  <2>5. CASE ~exists /\ CreateFile(p) /\ exists' BY <2>5
  <2>6. CASE pc'[p] = "next" /\ ReadVersion(p)
    <3>1. /\ version <= latest[p] /\ current'[p] = version
          /\ UNCHANGED <<began, latest, version>>
      BY <2>6
    <3>2. /\ began[p] \in Nat /\ latest[p] \in Nat /\ version \in Nat
          /\ began[p] <= version
      OBVIOUS
    <3> QED BY ONLY <2>6, <3>1, <3>2 DEF KnownTo, InTransaction
  <2> QED BY <2>1, <2>2, <2>3, <2>4, <2>5, <2>6
<1>7. version' >= version BY <1>2 DEF TypeOK
<1>8. \A q \in Processes \ {p} :
         /\ pc'[q] = pc[q] /\ latest'[q] = latest[q]
         /\ current'[q] = current[q] /\ began'[q] = began[q]
  BY DEF TypeOK
<1> QED BY <1>1, <1>2, <1>3, <1>4, <1>5, <1>6, <1>7, <1>8, StepInv

(***************************************************************************)
(* The steps of a migration.                                               *)
(***************************************************************************)
LEMMA BeginMigrationInv ==
    ASSUME IndInv, NEW p \in Processes, BeginMigration(p) PROVE IndInv'
<1> USE DEF IndInv, BeginMigration, Step, Goto
<1>1. TypeOK' BY DEF TypeOK, Steps
<1>2. VersionExact' BY DEF VersionExact
<1>3. writer' = Nobody => pending' = Committed' OBVIOUS
<1>4. TransactionOf(p)' BY DEF TransactionOf, TypeOK, InTransaction, Committed
<1>5. KnownTo(p)' BY DEF KnownTo, TypeOK, InTransaction
<1>6. version' >= version BY DEF TypeOK
<1>7. \A q \in Processes \ {p} :
         /\ pc'[q] = pc[q] /\ latest'[q] = latest[q]
         /\ current'[q] = current[q] /\ began'[q] = began[q]
  BY DEF TypeOK
<1> QED BY <1>1, <1>2, <1>3, <1>4, <1>5, <1>6, <1>7, StepInv

\* The script succeeds only when what p has read is what is committed.
LEMMA ApplyInv ==
    ASSUME IndInv, NEW p \in Processes, Apply(p) PROVE IndInv'
<1> DEFINE Made == {schema[i] : i \in DOMAIN schema}
<1>1. CASE pc[p] = "apply" /\ current[p] + 1 \in Made /\ Fail(p) /\ UNCHANGED faults
  BY <1>1, FailInv DEF IndInv, TypeOK
<1>2. CASE /\ current[p] + 1 \notin Made
           /\ pending' = [pending EXCEPT !.schema = Append(@, current[p] + 1)]
           /\ Step(p, "apply", "setVersion")
           /\ UNCHANGED <<current, exists, version, schema, writer>>
  <2> USE <1>2 DEF IndInv, Step, Goto
  <2>0. current[p] + 1 \in Nat /\ Append(pending.schema, current[p] + 1) \in Seq(Nat)
    BY DEF TypeOK
  <2>1. TypeOK' BY <2>0 DEF TypeOK, Steps
  <2>2. VersionExact' BY DEF VersionExact
  <2>3. writer = p /\ pending = Committed BY DEF TransactionOf, InTransaction
  <2>4. Made = 1..version BY SchemaGrows DEF VersionExact, TypeOK
  <2>5. current[p] = version
    <3>1. current[p] \in Nat /\ version \in Nat /\ current[p] <= version
      BY DEF KnownTo, TypeOK, InTransaction
    <3>2. current[p] + 1 \notin 1..version BY <1>2, <2>4
    <3> QED BY ONLY <3>1, <3>2
  <2>6. TransactionOf(p)' BY <2>3, <2>5 DEF TransactionOf, TypeOK, InTransaction, Committed
  <2>7. KnownTo(p)' BY <2>5 DEF KnownTo, TypeOK, InTransaction
  <2>8. version' >= version BY DEF TypeOK
  <2>9. \A q \in Processes \ {p} :
           /\ pc'[q] = pc[q] /\ latest'[q] = latest[q]
           /\ current'[q] = current[q] /\ began'[q] = began[q]
    BY DEF TypeOK
  <2> QED BY <2>1, <2>2, <2>3, <2>6, <2>7, <2>8, <2>9, StepInv
<1> QED BY <1>1, <1>2 DEF Apply

LEMMA SetVersionInv ==
    ASSUME IndInv, NEW p \in Processes, SetVersion(p) PROVE IndInv'
<1> USE DEF IndInv, SetVersion, Step, Goto
<1>0. pending'.schema = pending.schema /\ pending'.version = current[p] + 1
      /\ pending' \in [schema : Seq(Nat), version : Nat]
  <2>1. pending \in [schema : Seq(Nat), version : Nat] /\ current[p] + 1 \in Nat
    BY DEF TypeOK
  <2> QED BY <2>1
<1>1. TypeOK' BY <1>0 DEF TypeOK, Steps
<1>2. VersionExact' BY DEF VersionExact
<1>3. writer = p BY DEF TransactionOf, InTransaction
<1>4. pending' = [schema |-> Append(schema, version + 1), version |-> version + 1]
  BY DEF TransactionOf, KnownTo
<1>8. TransactionOf(p)' BY <1>3, <1>4 DEF TransactionOf, TypeOK, InTransaction
<1>5. KnownTo(p)' BY DEF KnownTo, TypeOK, InTransaction
<1>6. version' >= version BY DEF TypeOK
<1>7. \A q \in Processes \ {p} :
         /\ pc'[q] = pc[q] /\ latest'[q] = latest[q]
         /\ current'[q] = current[q] /\ began'[q] = began[q]
  BY DEF TypeOK
<1> QED BY <1>1, <1>2, <1>3, <1>5, <1>6, <1>7, <1>8, StepInv

\* What a commit makes of the database.
LEMMA CommitAdvances ==
    ASSUME IndInv, NEW p \in Processes, CommitMigration(p)
    PROVE  /\ writer = p /\ current[p] = version
           /\ schema' = Append(schema, version + 1) /\ version' = version + 1
BY DEF IndInv, CommitMigration, Step, TransactionOf, KnownTo, InTransaction

LEMMA CommitMigrationInv ==
    ASSUME IndInv, NEW p \in Processes, CommitMigration(p) PROVE IndInv'
<1> USE DEF IndInv, CommitMigration, Step, Goto
<1>0. /\ writer = p /\ current[p] = version
      /\ schema' = Append(schema, version + 1) /\ version' = version + 1
  BY CommitAdvances
<1>1. TypeOK' BY <1>0 DEF TypeOK, Steps
<1>2. VersionExact' BY <1>0, SchemaGrows DEF VersionExact, TypeOK
<1>3. pending = Committed' /\ pending' = pending
  BY <1>0 DEF TransactionOf, Committed
<1>4. TransactionOf(p)' BY <1>0 DEF TransactionOf, TypeOK, InTransaction
<1>5. KnownTo(p)'
  <2>1. pc'[p] = "next" /\ current'[p] = version + 1 BY <1>0 DEF TypeOK
  <2>2. /\ began'[p] = began[p] /\ latest'[p] = latest[p] /\ version \in Nat
        /\ began[p] \in Nat /\ latest[p] \in Nat
    BY DEF TypeOK
  <2>3. began[p] <= version /\ began[p] <= latest[p] /\ version < latest[p]
    BY <1>0 DEF KnownTo, InTransaction
  <2> QED BY <1>0, <2>1, <2>2, <2>3 DEF KnownTo, InTransaction
<1>6. version' >= version BY <1>0 DEF TypeOK
<1>7. \A q \in Processes \ {p} :
         /\ pc'[q] = pc[q] /\ latest'[q] = latest[q]
         /\ current'[q] = current[q] /\ began'[q] = began[q]
  BY DEF TypeOK
<1> QED BY <1>0, <1>1, <1>2, <1>3, <1>4, <1>5, <1>6, <1>7, StepInv

-------------------------------------------------------------------------------
\* Every step of the processes, whatever their releases, preserves the invariant.
LEMMA NextInv == IndInv /\ [Next]_vars => IndInv'
<1> SUFFICES ASSUME IndInv, [Next]_vars PROVE IndInv'
  OBVIOUS
<1>1. CASE UNCHANGED vars
  BY <1>1 DEF IndInv, TypeOK, VersionExact, TransactionOf, KnownTo, Committed, vars, process,
     database
<1>2. ASSUME NEW p \in Processes, Open(p) \/ Fault(p) \/ Replace(p) PROVE IndInv'
  <2>1. CASE Start(p) \/ FindFile(p) \/ Replace(p) \/ Finish(p) BY <2>1, QuietInv
  <2>2. CASE CreateFile(p)
    <3>1. CASE Fail(p) /\ UNCHANGED faults BY <3>1, FailInv DEF IndInv, TypeOK
    <3>2. CASE ~exists /\ exists' BY <2>2, <3>2, QuietInv
    <3> QED BY <2>2, <3>1, <3>2 DEF CreateFile
  <2>3. CASE ReadVersion(p)
    <3>1. CASE Fail(p) /\ UNCHANGED faults BY <3>1, FailInv DEF IndInv, TypeOK
    <3>2. CASE Step(p, "read", "next")
      BY <2>3, <3>2, QuietInv DEF Step, Goto, IndInv, TypeOK
    <3> QED BY <2>3, <3>1, <3>2 DEF ReadVersion
  <2>4. CASE BeginMigration(p) BY <2>4, BeginMigrationInv
  <2>5. CASE Apply(p) BY <2>5, ApplyInv
  <2>6. CASE SetVersion(p) BY <2>6, SetVersionInv
  <2>7. CASE CommitMigration(p) BY <2>7, CommitMigrationInv
  <2>8. CASE Fault(p) 
    <3>1. faults' \in Nat BY <2>8 DEF Fault, IndInv, TypeOK
    <3> QED BY <2>8, <3>1, FailInv DEF Fault
  <2> QED BY <1>2, <2>1, <2>2, <2>3, <2>4, <2>5, <2>6, <2>7, <2>8 DEF Open
<1> QED BY <1>1, <1>2 DEF Next

\* The invariant holds in every state, however the processes race and fail.
THEOREM Invariance == Spec => []IndInv
<1>1. Init => IndInv BY InitInv
<1>2. IndInv /\ [Next]_vars => IndInv' BY NextInv
<1> QED BY <1>1, <1>2, PTL DEF Spec

\* Each migration is applied once, in order, and the version counts them: the race
\* on a version read outside the transaction does no harm.
THEOREM SchemaIsVersion == Spec => []VersionExact
<1>1. IndInv => VersionExact BY DEF IndInv
<1> QED BY <1>1, Invariance, PTL

\* Open returns a database that has its binary's schema, and refuses a newer one.
THEOREM SchemaIsServed == Spec => []ServesItsSchema
<1>1. IndInv => ServesItsSchema
  BY DEF IndInv, ServesItsSchema, KnownTo, TypeOK
<1> QED BY <1>1, Invariance, PTL

\* No step takes a migration back or leaves one out.
THEOREM SchemaGoesForward == Spec => ForwardOnly
<1>1. IndInv /\ [Next]_vars => [version' \in {version, version + 1}]_vars
  <2> SUFFICES ASSUME IndInv, Next PROVE version' \in {version, version + 1}
    OBVIOUS
  <2>1. ASSUME NEW p \in Processes, CommitMigration(p) PROVE version' = version + 1
    BY <2>1, CommitAdvances
  <2> QED
    BY <2>1 DEF Next, Open, Fault, Replace, Start, FindFile, CreateFile, ReadVersion,
       BeginMigration, Apply, SetVersion, Finish, Step, Fail, database
<1> QED BY <1>1, Invariance, PTL DEF Spec, ForwardOnly

\* Why Open gives up of its own accord, without an error of SQLite or the system.
GivesUp(p) == pc[p] \notin {"down", "serving"} /\ pc'[p] = "down" /\ faults' = faults
Overtaken(p) ==
    \/ pc[p] = "create" /\ exists               \* another process made the file
    \/ pc[p] = "read" /\ latest[p] < version    \* the schema is of a newer release
    \/ pc[p] = "apply" /\ current[p] < version  \* another process applied this one

\* A migration script never fails on a database that has not changed since its
\* version was read: what Open refuses by itself, another process has made meanwhile
\* or a newer release has left, so that a restart reads what it lost the race for.
OvertakenOnly == [][\A p \in Processes : GivesUp(p) => Overtaken(p)]_vars

\* The script finds objects of its own only if the version it counts from is old.
LEMMA ScriptFails ==
    ASSUME IndInv, NEW p \in Processes, pc[p] = "apply",
           current[p] + 1 \in {schema[i] : i \in DOMAIN schema}
    PROVE  current[p] < version
<1>1. version \in Nat /\ current[p] \in Nat BY DEF IndInv, TypeOK
<1>2. {schema[i] : i \in DOMAIN schema} = 1..version
      BY <1>1, SchemaGrows DEF IndInv, VersionExact
<1>3. current[p] + 1 \in 1..version BY <1>2
<1> QED BY ONLY <1>1, <1>3

\* Open gives up only for what others have done to the database.
THEOREM GivesUpOvertaken == Spec => OvertakenOnly
<1>1. ASSUME IndInv, [Next]_vars, NEW p \in Processes, GivesUp(p) PROVE Overtaken(p)
  <2>0. pc[p] \notin {"down", "serving"} /\ pc'[p] = "down" /\ faults' = faults
        BY <1>1 DEF GivesUp
  <2>1. pc \in [Processes -> Steps] /\ faults \in Nat BY <1>1 DEF IndInv, TypeOK
  <2>2. ASSUME NEW q \in Processes, q # p, NEW to, pc' = [pc EXCEPT ![q] = to] PROVE FALSE
        BY <2>0, <2>1, <2>2
  <2>3. ~UNCHANGED pc BY <2>0
  <2>4. PICK q \in Processes : Open(q) \/ Fault(q) \/ Replace(q)
        BY <1>1, <2>3 DEF Next, vars, process
  <2>5. q = p
        BY <2>2, <2>4 DEF Open, Start, FindFile, CreateFile, ReadVersion, BeginMigration,
           Apply, SetVersion, CommitMigration, Finish, Fault, Replace, Step, Fail, Goto
  <2>6. ~Fault(p) /\ ~Replace(p) BY <2>0, <2>1 DEF Fault, Replace
  <2>7. CreateFile(p) \/ ReadVersion(p) \/ Apply(p)
        BY <2>0, <2>1, <2>4, <2>5, <2>6 DEF Open, Start, FindFile, BeginMigration,
           SetVersion, CommitMigration, Finish, Step, Goto
  <2>8. CASE CreateFile(p)
        BY <2>0, <2>1, <2>8 DEF CreateFile, Step, Goto, Overtaken
  <2>9. CASE ReadVersion(p)
    <3>1. version \in Nat /\ latest[p] \in Nat
          BY <1>1 DEF IndInv, TypeOK
    <3> QED BY <2>0, <2>1, <2>9, <3>1 DEF ReadVersion, Step, Goto, Overtaken
  <2>10. CASE Apply(p)
    <3>1. pc[p] = "apply" /\ current[p] + 1 \in {schema[i] : i \in DOMAIN schema}
          BY <2>0, <2>1, <2>10 DEF Apply, Step, Goto
    <3> QED BY <1>1, <3>1, ScriptFails DEF Overtaken
  <2> QED BY <2>7, <2>8, <2>9, <2>10
<1>2. IndInv /\ [Next]_vars => [\A p \in Processes : GivesUp(p) => Overtaken(p)]_vars
      BY <1>1
<1> QED BY <1>2, Invariance, PTL DEF Spec, OvertakenOnly
=================================================================================
