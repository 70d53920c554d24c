------------------------------- MODULE Migrations -------------------------------
(***************************************************************************)
(* database.Open: a process finds or makes the database file, reads the    *)
(* schema version and applies the migrations it lacks, each in a           *)
(* transaction of its own (database.go, migrate.go).                       *)
(*                                                                         *)
(* The version is read once, before the first transaction, so another      *)
(* process, of the same release or of another, may migrate in between.  A  *)
(* process may die at any point, and is started again, perhaps with        *)
(* another binary.  SQLite gives one writer at a time, and takes back what *)
(* a process that dies has not committed.                                  *)
(***************************************************************************)
EXTENDS Integers, Sequences

CONSTANTS
    Processes,
    Releases,       \* the releases: of each, the schema version it supports
    MaxFaults,      \* bound: crashes, and errors that SQLite or the system give
    Nobody          \* no process

ASSUME ReleaseAssumption == Releases # {} /\ Releases \subseteq Nat \ {0}
ASSUME BoundAssumption == MaxFaults \in Nat
ASSUME NobodyAssumption == Nobody \notin Processes

VARIABLES
    pc,         \* how far Open is in each process
    latest,     \* latestSchemaVersion of its binary
    current,    \* the version it believes the schema has
    exists,     \* whether the database file is there
    version,    \* PRAGMA user_version, as committed
    schema,     \* the migrations whose objects are there, as they were made
    writer,     \* the process in a write transaction
    pending,    \* what it has written there: the schema and the version
    began,      \* history: the version when the process was started
    faults

process == <<pc, latest, current, began>>
database == <<exists, version, schema, writer, pending>>
vars == <<process, database, faults>>

Committed == [schema |-> schema, version |-> version]
Goto(p, there) == pc' = [pc EXCEPT ![p] = there]

Init ==
    /\ pc = [p \in Processes |-> "down"]
    /\ latest \in [Processes -> Releases]
    /\ current = [p \in Processes |-> 0] /\ began = [p \in Processes |-> 0]
    /\ exists = FALSE /\ version = 0 /\ schema = <<>>
    /\ writer = Nobody /\ pending = Committed
    /\ faults = 0

\* systemd starts the process, and again when it has failed.
Start(p) ==
    /\ pc[p] = "down"
    /\ Goto(p, "prepare")
    /\ began' = [began EXCEPT ![p] = version]
    /\ UNCHANGED <<latest, current, database, faults>>

\* Open returns an error and the process exits; a transaction is rolled back.
Fail(p) ==
    /\ Goto(p, "down")
    /\ writer' = IF writer = p THEN Nobody ELSE writer
    /\ pending' = IF writer = p THEN Committed ELSE pending
    /\ UNCHANGED <<latest, current, began, exists, version, schema>>

\* A step of Open, and an error it may meet.
Step(p, from, to) ==
    /\ pc[p] = from /\ Goto(p, to)
    /\ UNCHANGED <<latest, began, faults>>

-------------------------------------------------------------------------------
\* prepareDatabaseFile: Lstat, then an exclusive creation, which fails when
\* another process was first.
FindFile(p) ==
    /\ Step(p, "prepare", IF exists THEN "read" ELSE "create")
    /\ UNCHANGED <<current, database>>

CreateFile(p) ==
    \/ /\ ~exists
       /\ exists' = TRUE
       /\ Step(p, "create", "read")
       /\ UNCHANGED <<current, version, schema, writer, pending>>
    \/ pc[p] = "create" /\ exists /\ Fail(p) /\ UNCHANGED faults

\* PRAGMA user_version; a schema newer than the binary is refused.
ReadVersion(p) ==
    \/ /\ version <= latest[p]
       /\ current' = [current EXCEPT ![p] = version]
       /\ Step(p, "read", "next")
       /\ UNCHANGED database
    \/ pc[p] = "read" /\ version > latest[p] /\ Fail(p) /\ UNCHANGED faults

\* BEGIN IMMEDIATE for the next migration waits for the other writer.
BeginMigration(p) ==
    /\ current[p] < latest[p] /\ writer = Nobody
    /\ writer' = p
    /\ Step(p, "next", "apply")
    /\ UNCHANGED <<current, exists, version, schema, pending>>

\* A script that makes only what is not there (CREATE IF NOT EXISTS).
MutApply(p) ==
    /\ pending' = [pending EXCEPT !.schema =
                     IF current[p] + 1 \in {@[i] : i \in DOMAIN @} THEN @
                                                     ELSE Append(@, current[p] + 1)]
    /\ Step(p, "apply", "setVersion")
    /\ UNCHANGED <<current, exists, version, schema, writer>>

\* The script of the migration, which fails on objects that are already there.
Apply(p) ==
    LET Made == {schema[i] : i \in DOMAIN schema} IN
    \/ /\ current[p] + 1 \notin Made
       /\ pending' = [pending EXCEPT !.schema = Append(@, current[p] + 1)]
       /\ Step(p, "apply", "setVersion")
       /\ UNCHANGED <<current, exists, version, schema, writer>>
    \/ pc[p] = "apply" /\ current[p] + 1 \in Made /\ Fail(p) /\ UNCHANGED faults

\* The script committed before the version is set.
MutSetVersion(p) ==
    /\ pending' = [pending EXCEPT !.version = current[p] + 1]
    /\ schema' = pending.schema
    /\ Step(p, "setVersion", "commit")
    /\ UNCHANGED <<current, exists, version, writer>>

SetVersion(p) ==
    /\ pending' = [pending EXCEPT !.version = current[p] + 1]
    /\ Step(p, "setVersion", "commit")
    /\ UNCHANGED <<current, exists, version, schema, writer>>

\* The commit; the process then goes on from the version it has set.
CommitMigration(p) ==
    /\ schema' = pending.schema /\ version' = pending.version
    /\ writer' = Nobody
    /\ current' = [current EXCEPT ![p] = @ + 1]
    /\ Step(p, "commit", "next")
    /\ UNCHANGED <<exists, pending>>

\* A migration that is put off until the process serves.
MutFinish(p) == Step(p, "next", "serving") /\ UNCHANGED <<current, database>>

\* No migration is left: Open returns the database.
Finish(p) ==
    /\ current[p] = latest[p]
    /\ Step(p, "next", "serving")
    /\ UNCHANGED <<current, database>>

-------------------------------------------------------------------------------
\* The process dies, or a call returns an error: the lock is busy for five
\* seconds, the context is cancelled, the disk is full.
Fault(p) ==
    /\ pc[p] # "down" /\ faults < MaxFaults
    /\ faults' = faults + 1
    /\ Fail(p)

\* The operator stops a process that serves, and may change its binary.
Replace(p) ==
    /\ pc[p] \in {"serving", "down"}
    /\ \E r \in Releases : latest' = [latest EXCEPT ![p] = r]
    /\ Goto(p, "down")
    /\ UNCHANGED <<current, began, database, faults>>

Open(p) ==
    \/ Start(p) \/ FindFile(p) \/ CreateFile(p) \/ ReadVersion(p)
    \/ BeginMigration(p) \/ Apply(p) \/ SetVersion(p) \/ CommitMigration(p) \/ Finish(p)

Next == \E p \in Processes : Open(p) \/ Fault(p) \/ Replace(p)

Spec == Init /\ [][Next]_vars

\* systemd starts a process again, and a process that can go on does; BEGIN
\* IMMEDIATE gets its turn among the writers.
Fairness ==
    \A p \in Processes :
       /\ WF_vars(Start(p) \/ FindFile(p) \/ CreateFile(p) \/ ReadVersion(p)
                  \/ Apply(p) \/ SetVersion(p) \/ CommitMigration(p) \/ Finish(p))
       /\ SF_vars(BeginMigration(p))
FairSpec == Spec /\ Fairness

-------------------------------------------------------------------------------
Steps == {"down", "prepare", "create", "read", "next", "apply", "setVersion", "commit", "serving"}
InTransaction == {"apply", "setVersion", "commit"}

TypeOK ==
    /\ pc \in [Processes -> Steps] /\ latest \in [Processes -> Releases]
    /\ current \in [Processes -> Nat] /\ began \in [Processes -> Nat]
    /\ exists \in BOOLEAN /\ version \in Nat /\ schema \in Seq(Nat)
    /\ writer \in Processes \union {Nobody}
    /\ pending \in [schema : Seq(Nat), version : Nat]
    /\ faults \in Nat

\* Each migration is applied once, in ascending order, and the version says which:
\* the processes that race, on a version read before the transaction, and those
\* that die never leave another schema.
VersionExact == schema = [i \in 1..version |-> i]

\* A process that serves has at least the schema of its binary, and none that was
\* newer when it started (docs/ARCHITECTURE.md:86).
ServesItsSchema ==
    \A p \in Processes : pc[p] = "serving" => began[p] <= latest[p] /\ latest[p] <= version

\* How far process p is with its migration, by what its transaction has written,
\* and what it knows of the schema.
TransactionOf(p) ==
    /\ pc[p] \in InTransaction <=> writer = p
    /\ pc[p] = "apply" => pending = Committed
    /\ pc[p] = "setVersion" => pending = [schema |-> Append(schema, version + 1),
                                         version |-> version]
    /\ pc[p] = "commit" => pending = [schema |-> Append(schema, version + 1),
                                     version |-> version + 1]

KnownTo(p) ==
    /\ began[p] <= version
    /\ pc[p] \in {"next", "serving"} \union InTransaction =>
          began[p] <= latest[p] /\ current[p] <= version /\ current[p] <= latest[p]
    /\ pc[p] \in InTransaction => current[p] < latest[p]
    /\ pc[p] \in {"setVersion", "commit"} => current[p] = version
    /\ pc[p] = "serving" => current[p] = latest[p]

\* The invariant that makes the others inductive: a transaction is its writer's,
\* and a process whose script succeeds has read the version that is committed.
IndInv ==
    /\ TypeOK /\ VersionExact
    /\ writer = Nobody => pending = Committed
    /\ \A p \in Processes : TransactionOf(p) /\ KnownTo(p)

\* The schema goes forward by one migration at a time.
ForwardOnly == [][version' \in {version, version + 1}]_vars

\* A process of the newest release gets to serve, whatever failed on the way and
\* whoever migrates beside it, once the faults are over.
NewestServes ==
    \A p \in Processes :
       <>[](\A r \in Releases : latest[p] >= r) => []<>(pc[p] = "serving")
=================================================================================
