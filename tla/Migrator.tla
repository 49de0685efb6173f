------------------------------ MODULE Migrator ------------------------------
(***************************************************************************)
(* The migrate command: processes that apply the migration files of their  *)
(* directory, one after another, to one database.                          *)
(*                                                                         *)
(* A process has one PostgreSQL session.  The session holds the advisory   *)
(* lock, so the lock ends with the session; and since every statement goes *)
(* through it, a process that lost the lock can execute nothing more.      *)
(***************************************************************************)
EXTENDS Integers, Sequences, SequencesExt

CONSTANTS
    Migrators,    \* migrate processes
    Directory,    \* the files each of them finds in MIGRATIONS_DIR
    MaxFailures,  \* bound: failed calls and lost sessions
    NoOne         \* nobody holds the lock

\* A directory entry.  version is 0 where no number above 0 can be read from
\* the name; checksum stands for the contents.
File == [sql : BOOLEAN, version : Nat, checksum : STRING]

ASSUME MigratorAssumption ==
    /\ \A m \in Migrators : Directory[m] \subseteq File
    /\ MaxFailures \in Nat
    /\ NoOne \notin Migrators

VARIABLES
    lock,      \* the session that holds the advisory lock
    recorded,  \* schema_migrations: version and checksum
    effects,   \* the migrations whose SQL was committed, in order
    step,      \* where each process stands
    todo,      \* files its loop has not dealt with
    failures   \* failed calls so far

migratorVars == <<lock, recorded, effects, step, todo, failures>>

Steps == {"start", "discover", "check", "apply", "commit", "partitions", "done", "failed"}

MigratorInit ==
    /\ lock = NoOne
    /\ recorded = {}
    /\ effects = <<>>
    /\ step = [m \in Migrators |-> "start"]
    /\ todo = [m \in Migrators |-> {}]
    /\ failures = 0

SQLFiles(m) == {f \in Directory[m] : f.sql}

\* The errors of DiscoverMigrations.
Discoverable(m) ==
    /\ SQLFiles(m) # {}
    /\ \A f \in SQLFiles(m) : f.version > 0
    /\ \A f, g \in SQLFiles(m) : f.version = g.version => f = g

\* The loop goes through the files sorted by version.
NextFile(m) == CHOOSE f \in todo[m] : \A g \in todo[m] : f.version <= g.version

Row(f) == [version |-> f.version, checksum |-> f.checksum]

RowsOf(f) == {r \in recorded : r.version = f.version}

GoTo(m, s) == step' = [step EXCEPT ![m] = s]

\* pg_advisory_lock, which waits for the holder.
AcquireLock(m) ==
    /\ step[m] = "start"
    /\ lock = NoOne
    /\ lock' = m
    /\ GoTo(m, "discover")
    /\ UNCHANGED <<recorded, effects, todo, failures>>

\* ensureVersionTable and DiscoverMigrations.
DiscoverMigrations(m) ==
    /\ step[m] = "discover"
    /\ Discoverable(m)
    /\ todo' = [todo EXCEPT ![m] = SQLFiles(m)]
    /\ GoTo(m, "check")
    /\ UNCHANGED <<lock, recorded, effects, failures>>

\* An error that needs no fault: Run returns, its deferred unlock runs.
Refuse(m) ==
    /\ \/ step[m] = "discover" /\ ~Discoverable(m)
       \/ /\ step[m] = "check"
          /\ todo[m] # {}
          /\ \E r \in RowsOf(NextFile(m)) : r.checksum # NextFile(m).checksum
    /\ lock' = NoOne
    /\ GoTo(m, "failed")
    /\ todo' = [todo EXCEPT ![m] = {}]
    /\ UNCHANGED <<recorded, effects, failures>>

\* isApplied
IsApplied(m) ==
    /\ step[m] = "check"
    /\ todo[m] # {}
    /\ \/ /\ RowsOf(NextFile(m)) = {}
          /\ GoTo(m, "apply")
          /\ UNCHANGED todo
       \/ /\ Row(NextFile(m)) \in recorded
          /\ todo' = [todo EXCEPT ![m] = @ \ {NextFile(m)}]
          /\ UNCHANGED step
    /\ UNCHANGED <<lock, recorded, effects, failures>>

\* Mutant: the SQL of the file is committed before its version is recorded.
BugExecuteMigration(m) ==
    /\ step[m] = "apply"
    /\ effects' = Append(effects, Row(NextFile(m)))
    /\ GoTo(m, "commit")
    /\ UNCHANGED <<lock, recorded, todo, failures>>

\* apply: Begin and the SQL of the file, visible to nobody else.
ExecuteMigration(m) ==
    /\ step[m] = "apply"
    /\ GoTo(m, "commit")
    /\ UNCHANGED <<lock, recorded, effects, todo, failures>>

\* apply: INSERT INTO schema_migrations and Commit.
TransactionCommits(m) ==
    /\ step[m] = "commit"
    /\ recorded' = recorded \cup {Row(NextFile(m))}
    /\ effects' = Append(effects, Row(NextFile(m)))

CommitMigration(m) ==
    /\ TransactionCommits(m)
    /\ todo' = [todo EXCEPT ![m] = @ \ {NextFile(m)}]
    /\ GoTo(m, "check")
    /\ UNCHANGED <<lock, failures>>

\* The transaction commits and the process is not told.
CommitUnconfirmed(m) ==
    /\ failures < MaxFailures
    /\ failures' = failures + 1
    /\ TransactionCommits(m)
    /\ GoTo(m, "failed")
    /\ todo' = [todo EXCEPT ![m] = {}]
    /\ UNCHANGED lock

\* The end of the loop and the deferred unlock.
Unlock(m) ==
    /\ step[m] = "check"
    /\ todo[m] = {}
    /\ lock' = NoOne
    /\ GoTo(m, "partitions")
    /\ UNCHANGED <<recorded, effects, todo, failures>>

\* EnsureDailyPartitions, and exit code 0.
EnsureDailyPartitions(m) ==
    /\ step[m] = "partitions"
    /\ GoTo(m, "done")
    /\ UNCHANGED <<lock, recorded, effects, todo, failures>>

\* MIGRATION_TIMEOUT, an error of PostgreSQL or the death of the process: a
\* transaction is rolled back, the process exits with 1.
MigratorFails(m) ==
    /\ step[m] \notin {"done", "failed"}
    /\ failures < MaxFailures
    /\ failures' = failures + 1
    /\ GoTo(m, "failed")
    /\ todo' = [todo EXCEPT ![m] = {}]
    /\ UNCHANGED <<lock, recorded, effects>>

\* The server ends the session of a failed process, at once or later.
SessionEnds(m) ==
    /\ step[m] = "failed"
    /\ lock = m
    /\ lock' = NoOne
    /\ UNCHANGED <<recorded, effects, step, todo, failures>>

\* The command is run once more, after its former session has ended.
MigrateAgain(m) ==
    /\ step[m] = "failed"
    /\ lock # m
    /\ GoTo(m, "start")
    /\ UNCHANGED <<lock, recorded, effects, todo, failures>>

MigratorStep(m) ==
    \/ AcquireLock(m)
    \/ DiscoverMigrations(m)
    \/ Refuse(m)
    \/ IsApplied(m)
    \/ ExecuteMigration(m)
    \/ CommitMigration(m)
    \/ CommitUnconfirmed(m)
    \/ Unlock(m)
    \/ EnsureDailyPartitions(m)
    \/ MigratorFails(m)
    \/ SessionEnds(m)
    \/ MigrateAgain(m)

MigratorNext == \E m \in Migrators : MigratorStep(m)

-----------------------------------------------------------------------------
(* Properties.                                                             *)

\* The directories are releases of one history: of two, the versions of one
\* are the first versions of the other.
ReleasesOfOneHistory ==
    \A m, n \in Migrators : Discoverable(m) /\ Discoverable(n) =>
        \A f \in SQLFiles(m), g \in SQLFiles(n) :
            f.version < g.version => \E h \in SQLFiles(n) : h.version = f.version

\* The SQL of a recorded migration took effect, once, and nothing else did.
AppliedOnce == IsInjective(effects) /\ Range(effects) = recorded

\* In the order of the versions (where ReleasesOfOneHistory).
AppliedInOrder ==
    \A i, j \in DOMAIN effects : i < j => effects[i].version < effects[j].version

\* A process that exited with 0 leaves all its files recorded with the contents
\* it has.
DoneIsRecorded ==
    \A m \in Migrators : step[m] = "done" => {Row(f) : f \in SQLFiles(m)} \subseteq recorded

\* The three hold whatever migrators raced, died in the middle of a file or were
\* not told of a commit.
SchemaSound == AppliedOnce /\ AppliedInOrder /\ DoneIsRecorded
=============================================================================
