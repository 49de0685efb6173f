-------------------------- MODULE DeploymentProofs --------------------------
(***************************************************************************)
(* Proofs about Deployment, for any number of migrators, directories,      *)
(* environments and failures: what SchemaSound says of the database, that  *)
(* exit code 0 of a service can be trusted, and that no constructor        *)
(* rejects what config.Load accepted.                                      *)
(*                                                                         *)
(* For the migrators the argument is the advisory lock: only its holder is *)
(* between discovery and commit, so what isApplied read is still true when *)
(* the transaction commits.  For a service it is where the only two paths  *)
(* to exit code 0 lead: the listener reports nil only after Shutdown, and  *)
(* the group ends without error only after ctx.                            *)
(***************************************************************************)
EXTENDS Deployment, FiniteSetTheorems, SequenceTheorems, TLAPS

-----------------------------------------------------------------------------
(* The inductive invariant of the migrators.                               *)

Rows == [version : Nat, checksum : STRING]

MigratorTypeOK ==
    /\ lock \in Migrators \cup {NoOne}
    /\ recorded \subseteq Rows
    /\ effects \in Seq(Rows)
    /\ step \in [Migrators -> Steps]
    /\ todo \in [Migrators -> SUBSET File]
    /\ failures \in 0..MaxFailures

\* A process in Run holds the lock.
LockHeld == \A m \in Migrators : step[m] \in {"discover", "check", "apply", "commit"} => lock = m

\* What a process that is in its loop, or past it, knows of the database.
LoopInv(m) ==
    /\ step[m] \in {"check", "apply", "commit"} =>
          /\ Discoverable(m)
          /\ todo[m] \subseteq SQLFiles(m)
          /\ \A f \in SQLFiles(m) : f \in todo[m] \/ Row(f) \in recorded
    /\ step[m] \in {"apply", "commit"} => todo[m] # {} /\ RowsOf(NextFile(m)) = {}
    /\ step[m] \in {"partitions", "done"} =>
          Discoverable(m) /\ \A f \in SQLFiles(m) : Row(f) \in recorded

\* A recorded migration is one of a directory whose lower versions are recorded
\* as well.
LowerRecorded ==
    \A r \in recorded : \E n \in Migrators :
        /\ Discoverable(n)
        /\ \E g \in SQLFiles(n) : g.version = r.version
        /\ \A h \in SQLFiles(n) : h.version < r.version => RowsOf(h) # {}

MigratorInv ==
    /\ MigratorTypeOK
    /\ LockHeld
    /\ \A m \in Migrators : LoopInv(m)
    /\ LowerRecorded
    /\ AppliedOnce

-----------------------------------------------------------------------------
(* The inductive invariant of a service.                                   *)

LifecycleTypeOK ==
    /\ service \in {"api", "worker"}
    /\ config \in Configs \cup {NotLoaded}
    /\ pc \in {"down", "booted", "opened", "serving", "http", "admin", "bridge", "errCh", "group",
               "closing", "exited"}
    /\ exitCode \in 0..2
    /\ refused \in BOOLEAN
    /\ stop \in BOOLEAN
    /\ http \in {"off", "open", "failed", "closing", "closed"}
    /\ errCh \in {<<>>, <<"error">>, <<"nil">>}
    /\ part \in [Parts -> {"off", "running", "idle", "nil", "error"}]
    /\ request \in {"none", "active", "answered", "cut"}
    /\ stream \in {"none", "open", "cut"}

\* Before Serve there is nothing to end, and only the API serves requests.
NothingServed ==
    /\ pc \in {"down", "booted", "opened"} =>
          /\ http = "off" /\ request = "none" /\ stream = "none"
          /\ \A p \in Parts : part[p] = "off"
    /\ pc \in {"down", "booted", "opened", "serving", "exited"} => errCh # <<"nil">>
    /\ pc = "exited" => http = "off"
    /\ service = "worker" => http = "off" /\ request = "none" /\ stream = "none"

\* The listener reports nil only once Shutdown has closed it.
ListenerEnds ==
    /\ http \in {"closing", "closed"} => pc \in {"http", "admin", "bridge", "errCh", "closing"}
    /\ pc \in {"http", "admin", "bridge", "errCh", "group"} => stop /\ http # "open"
    /\ pc \in {"admin", "bridge", "errCh", "group"} => request # "active" /\ stream # "open"

\* Parts end without error because of ctx, or because another part failed.
PartsEnd ==
    /\ \A p \in Parts : part[p] = "nil" => ContextDone
    /\ service = "api" => part["bridge"] \in {"off", "running", "nil"}
    /\ pc = "errCh" => service = "api" /\ part["bridge"] = "nil"
    /\ pc = "group" => service = "worker"

\* runService returns 0.
ReturnsZero ==
    pc = "closing" /\ exitCode = 0 =>
        /\ stop
        /\ http # "open" /\ request # "active" /\ stream # "open"
        /\ \A p \in Parts : part[p] \in {"off", "nil"}

\* What is cut off is cut off by Exit.
CutAtExit == pc # "exited" => request # "cut" /\ stream # "cut"

\* The configuration stays, and Load has accepted that of a running process.
Loaded ==
    /\ config = NotLoaded => pc = "down" /\ ~refused
    /\ pc \in {"booted", "opened"} => Load(config)

LifecycleInv ==
    /\ LifecycleTypeOK
    /\ NothingServed
    /\ ListenerEnds
    /\ PartsEnd
    /\ ReturnsZero
    /\ CutAtExit
    /\ CleanExit
    /\ Loaded
    /\ ConfigChecksAgree

-----------------------------------------------------------------------------
(* The operators of the migrators.                                         *)

\* A nonempty finite set of numbers has a least element.
LEMMA LeastElement ==
    ASSUME NEW S \in SUBSET Nat, IsFiniteSet(S), S # {}
    PROVE  \E x \in S : \A y \in S : x <= y
<1> DEFINE Below(x) == {y \in S : y < x}
           Family == {Below(x) : x \in S}
<1>1. IsWellFoundedOn(StrictSubsetOrdering(S), SUBSET S)
  BY FS_StrictSubsetOrderingWellFounded, FS_FiniteSubsetsOfFinite
<1>2. Family \subseteq SUBSET S /\ Family # {}
  OBVIOUS
<1> HIDE DEF Family
<1>3. PICK U \in Family : \A V \in Family : ~(<<V, U>> \in StrictSubsetOrdering(S))
  BY <1>1, <1>2, WFMin
<1>4. PICK x \in S : U = Below(x)
  BY <1>3 DEF Family
<1>5. ASSUME NEW y \in S, y < x
      PROVE  FALSE
  <2>1. Below(y) \in Family
    BY DEF Family
  <2>2. Below(y) \subseteq U /\ y \in U /\ y \notin Below(y)
    <3>1. \A z \in S : z \in Nat
      OBVIOUS
    <3>2. \A z \in S : z < y => z < x
      BY <3>1, <1>5
    <3>3. Below(y) \subseteq Below(x)
      BY <3>2
    <3>4. y \in Below(x)
      BY <1>5
    <3>5. y \notin Below(y)
      BY <3>1
    <3>6. QED
      BY <3>3, <3>4, <3>5, <1>4
  <2>3. <<Below(y), U>> \in StrictSubsetOrdering(S)
    BY <2>1, <2>2, <1>2, <1>3 DEF StrictSubsetOrdering
  <2>4. QED
    BY <2>1, <2>3, <1>3
<1>6. \A y \in S : x <= y
  BY <1>5
<1>7. QED
  BY <1>6

\* The loop has a next file as long as it has a file.
LEMMA NextFileIsFirst ==
    ASSUME MigratorTypeOK, NEW m \in Migrators, todo[m] # {}
    PROVE  /\ NextFile(m) \in todo[m]
           /\ NextFile(m) \in File
           /\ \A g \in todo[m] : NextFile(m).version <= g.version
<1>1. todo[m] \subseteq File
  BY DEF MigratorTypeOK
<1>2. \A f \in todo[m] : f.version \in Nat
  BY <1>1 DEF File
<1>3. PICK f0 \in todo[m] : TRUE
  OBVIOUS
<1> DEFINE S == {v \in 0..f0.version : \E f \in todo[m] : f.version = v}
<1>4. f0.version \in Nat /\ f0.version \in S
  BY <1>2, <1>3
<1>5. S \subseteq Nat /\ S # {} /\ IsFiniteSet(S)
  <2>1. IsFiniteSet(0..f0.version)
    BY <1>4, FS_Interval
  <2>2. S \subseteq 0..f0.version
    OBVIOUS
  <2>3. QED
    BY <1>4, <2>1, <2>2, FS_Subset
<1>6. PICK x \in S : \A y \in S : x <= y
  <2> HIDE DEF S
  <2>1. QED
    BY <1>5, LeastElement
<1>7. PICK f \in todo[m] : f.version = x
  BY <1>6
<1>8. \A g \in todo[m] : f.version <= g.version
  <2>1. TAKE g \in todo[m]
  <2>2. f.version \in Nat /\ g.version \in Nat /\ x \in 0..f0.version
    BY <1>2, <1>6
  <2>3. CASE g.version <= f0.version
    <3>1. g.version \in S
      BY <2>2, <2>3, <1>4
    <3>2. QED
      BY <3>1, <1>6, <1>7
  <2>4. CASE ~(g.version <= f0.version)
    BY <2>2, <2>4, <1>4, <1>7
  <2>5. QED
    BY <2>3, <2>4
<1>9. /\ NextFile(m) \in todo[m]
      /\ \A g \in todo[m] : NextFile(m).version <= g.version
  BY <1>7, <1>8 DEF NextFile
<1>10. QED
  BY <1>1, <1>9

\* The row of a file.
LEMMA RowFields ==
    ASSUME NEW f \in File
    PROVE  Row(f) \in Rows /\ Row(f).version = f.version
BY DEF File, Row, Rows

\* A step of a migrator concerns no other migrator, and records only in a
\* transaction that commits.
LEMMA OneMigrator ==
    ASSUME MigratorTypeOK, NEW m \in Migrators, MigratorStep(m)
    PROVE  /\ \A n \in Migrators \ {m} : step'[n] = step[n] /\ todo'[n] = todo[n]
           /\ (recorded' = recorded /\ effects' = effects) \/ TransactionCommits(m)
BY DEF MigratorTypeOK, MigratorStep, AcquireLock, DiscoverMigrations, Refuse, IsApplied, ExecuteMigration,
       CommitMigration, CommitUnconfirmed, Unlock, EnsureDailyPartitions, MigratorFails, SessionEnds, MigrateAgain,
       GoTo

\* The transaction that commits is that of the first file in hand, which nobody
\* has recorded since isApplied looked.
LEMMA CommitsNew ==
    ASSUME MigratorInv, NEW m \in Migrators, TransactionCommits(m)
    PROVE  /\ lock = m
           /\ Discoverable(m)
           /\ NextFile(m) \in todo[m]
           /\ NextFile(m) \in SQLFiles(m)
           /\ NextFile(m) \in File
           /\ Row(NextFile(m)) \in Rows
           /\ Row(NextFile(m)).version = NextFile(m).version
           /\ Row(NextFile(m)) \notin recorded
           /\ RowsOf(NextFile(m)) = {}
           /\ recorded' = recorded \cup {Row(NextFile(m))}
           /\ effects' = Append(effects, Row(NextFile(m)))
<1>1. step[m] = "commit"
  BY DEF TransactionCommits
<1>2. lock = m /\ Discoverable(m) /\ todo[m] \subseteq SQLFiles(m) /\ todo[m] # {} /\ RowsOf(NextFile(m)) = {}
  BY <1>1 DEF MigratorInv, LockHeld, LoopInv
<1>3. NextFile(m) \in todo[m] /\ NextFile(m) \in File
  BY <1>2, NextFileIsFirst DEF MigratorInv
<1>4. Row(NextFile(m)) \in Rows /\ Row(NextFile(m)).version = NextFile(m).version
  BY <1>3, RowFields
<1>5. Row(NextFile(m)) \notin recorded
  BY <1>2, <1>4 DEF RowsOf
<1>6. QED
  BY <1>2, <1>3, <1>4, <1>5 DEF TransactionCommits

\* Nothing is ever removed from schema_migrations.
LEMMA RecordedGrows ==
    ASSUME MigratorInv, NEW m \in Migrators, MigratorStep(m)
    PROVE  /\ recorded \subseteq recorded'
           /\ \A f : RowsOf(f) \subseteq RowsOf(f)'
           /\ recorded' = recorded => \A f : RowsOf(f)' = RowsOf(f)
<1>1. recorded \subseteq recorded'
  BY OneMigrator DEF MigratorInv, TransactionCommits
<1>2. QED
  BY <1>1 DEF RowsOf

-----------------------------------------------------------------------------
(* Every step of a migrator keeps the invariant.                           *)

\* Types, for a step of a migrator.
LEMMA MigratorTypeStep ==
    ASSUME MigratorInv, NEW m \in Migrators, MigratorStep(m)
    PROVE  MigratorTypeOK'
<1> USE MigratorAssumption
<1>1. recorded' \subseteq Rows /\ effects' \in Seq(Rows)
  <2>1. CASE TransactionCommits(m)
    <3> HIDE DEF Rows
    <3>1. recorded \subseteq Rows /\ effects \in Seq(Rows)
      BY DEF MigratorInv, MigratorTypeOK
    <3>2. QED
      BY <2>1, <3>1, CommitsNew, AppendProperties
  <2>2. CASE recorded' = recorded /\ effects' = effects
    BY <2>2 DEF MigratorInv, MigratorTypeOK
  <2>3. QED
    BY <2>1, <2>2, OneMigrator DEF MigratorInv
<1>2. lock' \in Migrators \cup {NoOne}
  BY DEF MigratorInv, MigratorTypeOK, MigratorStep, AcquireLock, DiscoverMigrations, Refuse, IsApplied,
         ExecuteMigration, CommitMigration, CommitUnconfirmed, Unlock, EnsureDailyPartitions, MigratorFails,
         SessionEnds, MigrateAgain
<1>3. step' \in [Migrators -> Steps]
  BY DEF MigratorInv, MigratorTypeOK, MigratorStep, AcquireLock, DiscoverMigrations, Refuse, IsApplied,
         ExecuteMigration, CommitMigration, CommitUnconfirmed, Unlock, EnsureDailyPartitions, MigratorFails,
         SessionEnds, MigrateAgain, GoTo, Steps
<1>4. todo' \in [Migrators -> SUBSET File]
  <2>1. SQLFiles(m) \subseteq File
    BY DEF SQLFiles, MigratorAssumption
  <2>2. todo \in [Migrators -> SUBSET File]
    BY DEF MigratorInv, MigratorTypeOK
  <2>3. \/ todo' = todo
        \/ \E s \in SUBSET File : todo' = [todo EXCEPT ![m] = s]
    <3>1. todo[m] \ {NextFile(m)} \in SUBSET File
      BY <2>2
    <3>2. QED
      BY <2>1, <3>1 DEF MigratorStep, AcquireLock, DiscoverMigrations, Refuse, IsApplied,
         ExecuteMigration, CommitMigration, CommitUnconfirmed, Unlock, EnsureDailyPartitions, MigratorFails,
         SessionEnds, MigrateAgain
  <2>4. QED
    BY <2>2, <2>3
<1>5. failures' \in 0..MaxFailures
  BY DEF MigratorInv, MigratorTypeOK, MigratorStep, AcquireLock, DiscoverMigrations, Refuse, IsApplied,
         ExecuteMigration, CommitMigration, CommitUnconfirmed, Unlock, EnsureDailyPartitions, MigratorFails,
         SessionEnds, MigrateAgain, MigratorAssumption
<1>6. QED
  BY <1>1, <1>2, <1>3, <1>4, <1>5 DEF MigratorTypeOK

\* The lock passes only from a process that has left Run to one that enters it.
LEMMA LockStep ==
    ASSUME MigratorInv, NEW m \in Migrators, MigratorStep(m)
    PROVE  LockHeld'
BY MigratorAssumption DEF MigratorAssumption, MigratorInv, MigratorTypeOK, LockHeld, MigratorStep, AcquireLock,
         DiscoverMigrations, Refuse, IsApplied,
         ExecuteMigration, CommitMigration, CommitUnconfirmed, Unlock, EnsureDailyPartitions, MigratorFails,
         SessionEnds, MigrateAgain, GoTo, TransactionCommits


\* Nobody interferes with a process in its loop.
LEMMA LoopOfOthers ==
    ASSUME MigratorInv, NEW m \in Migrators, MigratorStep(m), NEW n \in Migrators \ {m}
    PROVE  LoopInv(n)'
<1>1. step'[n] = step[n] /\ todo'[n] = todo[n] /\ LoopInv(n)
  BY OneMigrator DEF MigratorInv
<1>2. recorded \subseteq recorded'
  BY RecordedGrows
<1>3. step[n] \in {"apply", "commit"} => recorded' = recorded
  <2>1. SUFFICES ASSUME step[n] \in {"apply", "commit"}, TransactionCommits(m)
                 PROVE  FALSE
    BY OneMigrator DEF MigratorInv
  <2>2. lock = n
    BY <2>1 DEF MigratorInv, LockHeld
  <2>3. QED
    BY <2>1, <2>2, CommitsNew
<1>4. Discoverable(n)' = Discoverable(n) /\ SQLFiles(n)' = SQLFiles(n)
  BY DEF Discoverable, SQLFiles
<1>5. NextFile(n)' = NextFile(n)
  BY <1>1 DEF NextFile
<1>6. step[n] \in {"apply", "commit"} => RowsOf(NextFile(n))' = RowsOf(NextFile(n))
  BY <1>3, <1>5 DEF RowsOf
<1>7. QED
  BY <1>1, <1>2, <1>4, <1>6 DEF LoopInv, Row

\* A process knows what it has just done.
LEMMA LoopOfOne ==
    ASSUME MigratorInv, NEW m \in Migrators, MigratorStep(m)
    PROVE  LoopInv(m)'
<1> DEFINE F == NextFile(m)
<1>1. MigratorTypeOK /\ LoopInv(m) /\ step \in [Migrators -> Steps] /\ todo \in [Migrators -> SUBSET File]
  BY DEF MigratorInv, MigratorTypeOK
<1>2. Discoverable(m)' = Discoverable(m) /\ SQLFiles(m)' = SQLFiles(m)
  BY DEF Discoverable, SQLFiles
<1>3. CASE DiscoverMigrations(m)
  <2>1. step'[m] = "check" /\ todo'[m] = SQLFiles(m) /\ Discoverable(m)
    BY <1>1, <1>3 DEF DiscoverMigrations, GoTo
  <2>2. QED
    BY <2>1, <1>2 DEF LoopInv
<1>4. CASE IsApplied(m)
  <2>0. step[m] = "check" /\ recorded' = recorded /\ todo[m] # {}
    BY <1>4 DEF IsApplied
  <2>1. CASE /\ RowsOf(NextFile(m)) = {}
             /\ GoTo(m, "apply")
             /\ UNCHANGED todo
    <3>1. step'[m] = "apply" /\ todo' = todo
      BY <1>1, <2>1 DEF GoTo
    <3>2. RowsOf(NextFile(m))' = {}
      BY <2>0, <2>1, <3>1 DEF RowsOf, NextFile
    <3>3. QED
      BY <2>0, <3>1, <3>2, <1>1, <1>2 DEF LoopInv, Row
  <2>2. CASE /\ Row(NextFile(m)) \in recorded
             /\ todo' = [todo EXCEPT ![m] = @ \ {NextFile(m)}]
             /\ UNCHANGED step
    <3>1. step'[m] = "check" /\ todo'[m] = todo[m] \ {F}
      BY <1>1, <2>0, <2>2
    <3>2. \A f \in SQLFiles(m) : f \in todo[m] \ {F} \/ Row(f) \in recorded
      BY <1>1, <2>0, <2>2 DEF LoopInv
    <3>3. QED
      BY <1>1, <1>2, <2>0, <3>1, <3>2 DEF LoopInv, Row
  <2>3. QED
    BY <1>4, <2>1, <2>2 DEF IsApplied
<1>5. CASE ExecuteMigration(m)
  <2>1. step[m] = "apply" /\ step'[m] = "commit" /\ todo' = todo /\ recorded' = recorded
    BY <1>1, <1>5 DEF ExecuteMigration, GoTo
  <2>2. RowsOf(NextFile(m))' = RowsOf(NextFile(m))
    BY <2>1 DEF RowsOf, NextFile
  <2>3. QED
    BY <1>1, <1>2, <2>1, <2>2 DEF LoopInv, Row
<1>6. CASE CommitMigration(m)
  <2>1. TransactionCommits(m) /\ step[m] = "commit" /\ step'[m] = "check" /\ todo'[m] = todo[m] \ {F}
    BY <1>1, <1>6 DEF CommitMigration, TransactionCommits, GoTo
  <2>2. recorded' = recorded \cup {Row(F)}
    BY <2>1, CommitsNew
  <2>3. \A f \in SQLFiles(m) : f \in todo[m] \ {F} \/ Row(f) \in recorded'
    BY <1>1, <2>1, <2>2 DEF LoopInv
  <2>4. QED
    BY <1>1, <1>2, <2>1, <2>3 DEF LoopInv, Row
<1>7. CASE Unlock(m)
  <2>1. step[m] = "check" /\ todo[m] = {} /\ step'[m] = "partitions" /\ recorded' = recorded
    BY <1>1, <1>7 DEF Unlock, GoTo
  <2>2. QED
    BY <1>1, <1>2, <2>1 DEF LoopInv, Row
<1>8. CASE EnsureDailyPartitions(m)
  <2>1. step[m] = "partitions" /\ step'[m] = "done" /\ recorded' = recorded
    BY <1>1, <1>8 DEF EnsureDailyPartitions, GoTo
  <2>2. QED
    BY <1>1, <1>2, <2>1 DEF LoopInv, Row
<1>9. CASE \/ AcquireLock(m) \/ Refuse(m) \/ CommitUnconfirmed(m) \/ MigratorFails(m) \/ SessionEnds(m)
           \/ MigrateAgain(m)
  <2>1. step'[m] \in {"start", "discover", "failed"}
    BY <1>1, <1>9 DEF AcquireLock, Refuse, CommitUnconfirmed, MigratorFails, SessionEnds, MigrateAgain, GoTo
  <2>2. QED
    BY <2>1 DEF LoopInv
<1>10. QED
  BY <1>3, <1>4, <1>5, <1>6, <1>7, <1>8, <1>9 DEF MigratorStep

\* A migration is recorded after the lower versions of its directory.
LEMMA LowerStep ==
    ASSUME MigratorInv, NEW m \in Migrators, MigratorStep(m)
    PROVE  LowerRecorded'
<1>1. \A n \in Migrators : Discoverable(n)' = Discoverable(n) /\ SQLFiles(n)' = SQLFiles(n)
  BY DEF Discoverable, SQLFiles
<1>2. \A f : RowsOf(f) \subseteq RowsOf(f)'
  BY RecordedGrows
<1>3. CASE recorded' = recorded
  BY <1>1, <1>2, <1>3 DEF MigratorInv, LowerRecorded, RowsOf
<1>4. CASE TransactionCommits(m)
  <2>1. PICK f \in SQLFiles(m) : f = NextFile(m)
    BY <1>4, CommitsNew
  <2>2. recorded' = recorded \cup {Row(f)} /\ Row(f).version = f.version /\ Discoverable(m)
    BY <1>4, <2>1, CommitsNew
  <2>3. \A h \in SQLFiles(m) : h.version < f.version => RowsOf(h) # {}
    <3>1. SUFFICES ASSUME NEW h \in SQLFiles(m), h.version < f.version
                   PROVE  RowsOf(h) # {}
      OBVIOUS
    <3>2. h \in File /\ f \in File
      BY MigratorAssumption DEF MigratorAssumption, SQLFiles
    <3>3. h \notin todo[m]
      <4>1. SUFFICES ASSUME h \in todo[m] PROVE FALSE
        OBVIOUS
      <4>2. f.version <= h.version
        BY <2>1, <4>1, NextFileIsFirst DEF MigratorInv
      <4>3. h.version \in Nat /\ f.version \in Nat
        BY <3>2 DEF File
      <4>4. QED
        BY <3>1, <4>2, <4>3
    <3>4. Row(h) \in recorded
      BY <1>4, <3>3 DEF MigratorInv, LoopInv, TransactionCommits
    <3>5. Row(h).version = h.version
      BY <3>2, RowFields
    <3>6. QED
      BY <3>4, <3>5 DEF RowsOf
  <2>4. ASSUME NEW r \in recorded'
        PROVE  \E n \in Migrators :
                  /\ Discoverable(n)
                  /\ \E g \in SQLFiles(n) : g.version = r.version
                  /\ \A h \in SQLFiles(n) : h.version < r.version => RowsOf(h) # {}
    <3>1. CASE r \in recorded
      BY <3>1 DEF MigratorInv, LowerRecorded
    <3>2. CASE r = Row(f)
      BY <3>2, <2>2, <2>3
    <3>3. QED
      BY <2>2, <2>4, <3>1, <3>2
  <2>5. QED
    BY <1>1, <1>2, <2>4 DEF LowerRecorded
<1>5. QED
  BY <1>3, <1>4, OneMigrator DEF MigratorInv

\* What commits takes effect once.
LEMMA OnceStep ==
    ASSUME MigratorInv, NEW m \in Migrators, MigratorStep(m)
    PROVE  AppliedOnce'
<1>1. CASE recorded' = recorded /\ effects' = effects
  BY <1>1 DEF MigratorInv, AppliedOnce, IsInjective, Range
<1>2. CASE TransactionCommits(m)
  <2> DEFINE R == Row(NextFile(m))
  <2>1. recorded' = recorded \cup {R} /\ effects' = Append(effects, R) /\ R \notin recorded /\ R \in Rows
    BY <1>2, CommitsNew
  <2> HIDE DEF R
  <2>2. effects \in Seq(Rows) /\ IsInjective(effects) /\ Range(effects) = recorded
    BY DEF MigratorInv, MigratorTypeOK, AppliedOnce
  <2> HIDE DEF Rows
  <2>3. Len(effects) \in Nat /\ DOMAIN effects = 1..Len(effects)
    BY <2>2
  <2>4. /\ DOMAIN effects' = 1..(Len(effects) + 1)
        /\ \A i \in 1..Len(effects) : effects'[i] = effects[i] /\ effects'[i] \in recorded
        /\ effects'[Len(effects) + 1] = R
    <3>1. /\ Append(effects, R) \in Seq(Rows)
          /\ Len(Append(effects, R)) = Len(effects) + 1
          /\ \A i \in 1..Len(effects) : Append(effects, R)[i] = effects[i]
          /\ Append(effects, R)[Len(effects) + 1] = R
      BY <2>1, <2>2, AppendProperties
    <3>2. \A i \in 1..Len(effects) : effects[i] \in recorded
      BY <2>2, <2>3 DEF Range
    <3>3. DOMAIN Append(effects, R) = 1..Len(Append(effects, R))
      BY <3>1
    <3>4. QED
      BY <2>1, <3>1, <3>2, <3>3
  <2>5. \A i \in 1..(Len(effects) + 1) : i \in 1..Len(effects) \/ i = Len(effects) + 1
    BY <2>3
  <2>6. IsInjective(effects')
    <3>1. SUFFICES ASSUME NEW a \in 1..(Len(effects) + 1), NEW b \in 1..(Len(effects) + 1),
                          effects'[a] = effects'[b]
                   PROVE  a = b
      BY <2>4 DEF IsInjective
    <3>2. QED
      BY <2>1, <2>2, <2>3, <2>4, <2>5, <3>1 DEF IsInjective
  <2>7. Range(effects') = recorded'
    <3>1. \A i \in 1..(Len(effects) + 1) : effects'[i] \in recorded'
      BY <2>1, <2>4, <2>5
    <3>2. ASSUME NEW r \in recorded
          PROVE  \E i \in 1..(Len(effects) + 1) : effects'[i] = r
      <4>1. PICK i \in 1..Len(effects) : effects[i] = r
        BY <2>2, <2>3, <3>2 DEF Range
      <4>2. i \in 1..(Len(effects) + 1)
        BY <2>3
      <4>3. QED
        BY <2>4, <4>1, <4>2
    <3>3. Len(effects) + 1 \in 1..(Len(effects) + 1)
      BY <2>3
    <3>4. QED
      BY <2>1, <2>4, <3>1, <3>2, <3>3 DEF Range
  <2>8. QED
    BY <2>6, <2>7 DEF AppliedOnce, IsInjective, Range
<1>3. QED
  BY <1>1, <1>2, OneMigrator DEF MigratorInv

\* Every step of a migrator keeps its invariant.
LEMMA MigratorInvStep ==
    ASSUME MigratorInv, MigratorNext
    PROVE  MigratorInv'
<1>1. PICK m \in Migrators : MigratorStep(m)
  BY DEF MigratorNext
<1>2. \A n \in Migrators : LoopInv(n)'
  BY <1>1, LoopOfOthers, LoopOfOne
<1>3. QED
  BY <1>1, <1>2, MigratorTypeStep, LockStep, LowerStep, OnceStep DEF MigratorInv

\* With directories of one history, a version commits after the lower ones.
LEMMA InOrderStep ==
    ASSUME ReleasesOfOneHistory, MigratorInv, AppliedInOrder, MigratorNext
    PROVE  AppliedInOrder'
<1>1. PICK m \in Migrators : MigratorStep(m)
  BY DEF MigratorNext
<1>2. CASE effects' = effects
  BY <1>2 DEF AppliedInOrder
<1>3. CASE TransactionCommits(m)
  <2>1. PICK f \in SQLFiles(m) : f = NextFile(m)
    BY <1>3, CommitsNew
  <2>2. /\ effects' = Append(effects, Row(f)) /\ Row(f).version = f.version /\ Discoverable(m)
        /\ RowsOf(f) = {} /\ f \in File /\ Row(f) \in Rows
    BY <1>3, <2>1, CommitsNew
  <2>3. ASSUME NEW r \in recorded
        PROVE  r.version < f.version
    <3>1. PICK n \in Migrators :
              /\ Discoverable(n)
              /\ \E g \in SQLFiles(n) : g.version = r.version
              /\ \A h \in SQLFiles(n) : h.version < r.version => RowsOf(h) # {}
      BY <2>3 DEF MigratorInv, LowerRecorded
    <3>2. r.version # f.version
      BY <2>2, <2>3 DEF RowsOf
    <3>3. ~(f.version < r.version)
      <4>1. SUFFICES ASSUME f.version < r.version PROVE FALSE
        OBVIOUS
      <4>2. PICK g \in SQLFiles(n) : g.version = r.version
        BY <3>1
      <4>3. PICK h \in SQLFiles(n) : h.version = f.version
        BY <2>2, <3>1, <4>1, <4>2 DEF ReleasesOfOneHistory
      <4>4. RowsOf(h) # {}
        BY <3>1, <4>1, <4>3
      <4>5. QED
        BY <2>2, <4>3, <4>4 DEF RowsOf
    <3>4. r.version \in Nat /\ f.version \in Nat
      BY <2>2, <2>3 DEF MigratorInv, MigratorTypeOK, File, Rows
    <3>5. QED
      BY <3>2, <3>3, <3>4
  <2>4. effects \in Seq(Rows) /\ Range(effects) = recorded
    BY DEF MigratorInv, MigratorTypeOK, AppliedOnce
  <2> DEFINE R == Row(f)
  <2>5. R \in Rows /\ effects' = Append(effects, R) /\ \A r \in recorded : r.version < R.version
    BY <2>2, <2>3
  <2> HIDE DEF R, Rows
  <2>6. Len(effects) \in Nat /\ DOMAIN effects = 1..Len(effects)
    BY <2>4
  <2>7. /\ DOMAIN effects' = 1..(Len(effects) + 1)
        /\ \A i \in 1..Len(effects) : effects'[i] = effects[i] /\ effects[i] \in recorded
        /\ effects'[Len(effects) + 1] = R
    <3>1. /\ Append(effects, R) \in Seq(Rows)
          /\ Len(Append(effects, R)) = Len(effects) + 1
          /\ \A i \in 1..Len(effects) : Append(effects, R)[i] = effects[i]
          /\ Append(effects, R)[Len(effects) + 1] = R
      BY <2>4, <2>5, AppendProperties
    <3>2. \A i \in 1..Len(effects) : effects[i] \in recorded
      BY <2>4, <2>6 DEF Range
    <3>3. DOMAIN Append(effects, R) = 1..Len(Append(effects, R))
      BY <3>1
    <3>4. QED
      BY <2>5, <3>1, <3>2, <3>3
  <2>8. ASSUME NEW i \in 1..(Len(effects) + 1), NEW j \in 1..(Len(effects) + 1), i < j
        PROVE  effects'[i].version < effects'[j].version
    <3>1. i \in 1..Len(effects)
      BY <2>6, <2>8
    <3>2. CASE j \in 1..Len(effects)
      BY <2>6, <2>7, <2>8, <3>1, <3>2 DEF AppliedInOrder
    <3>3. CASE j = Len(effects) + 1
      BY <2>5, <2>7, <3>1, <3>3
    <3>4. QED
      BY <2>6, <3>2, <3>3
  <2>9. QED
    BY <2>7, <2>8 DEF AppliedInOrder
<1>4. QED
  BY <1>1, <1>2, <1>3, OneMigrator DEF MigratorInv

-----------------------------------------------------------------------------
(* The configuration.                                                      *)

\* The checks of config.go imply those of every constructor the service calls.
LEMMA ChecksAgree ==
    ASSUME NEW c \in Config, Load(c), c.service \in {"api", "worker"}
    PROVE  ConstructorsAccept(c.service, c)
<1>1. /\ c.instance # "empty" /\ c.amqpURL # "empty"
      /\ c["publishers"] > 0 /\ c["writeTimeout"] > 0 /\ c["confirmTimeout"] > 0 /\ c["maxAttempts"] > 0
      /\ c["initialBackoff"] > 0 /\ c["maintenanceInterval"] > 0 /\ c["prefetch"] > 0 /\ c["batchMax"] > 0
      /\ c["flushInterval"] > 0 /\ c["shutdownTimeout"] > 0
      /\ c.maxBackoff >= c.initialBackoff /\ c.retentionWindow = 168
  BY DEF Load, Validate, Blank, RequiresAMQP, RetentionHours
<1>2. /\ c.publishers \in Int /\ c.writeTimeout \in Int /\ c.confirmTimeout \in Int /\ c.maxAttempts \in Int
      /\ c.initialBackoff \in Int /\ c.maxBackoff \in Int /\ c.maintenanceInterval \in Int /\ c.prefetch \in Int
      /\ c.batchMax \in Int /\ c.flushInterval \in Int /\ c.shutdownTimeout \in Int
  BY DEF Config
<1>3. PublisherAccepts(c)
  BY <1>1, <1>2 DEF PublisherAccepts, OrDefault
<1>4. ConsumerAccepts(c)
  BY <1>1, <1>2 DEF ConsumerAccepts, OrDefault
<1>5. BridgeAccepts(c) /\ EventPublisherAccepts(c) /\ MaintenanceAccepts(c)
  BY <1>1 DEF BridgeAccepts, EventPublisherAccepts, MaintenanceAccepts
<1>6. QED
  BY <1>3, <1>4, <1>5 DEF ConstructorsAccept

-----------------------------------------------------------------------------
(* Every step of a service keeps its invariant.                            *)

\* One step per action.
LEMMA LifecycleStep ==
    ASSUME LifecycleInv, LifecycleNext \/ Bootstrap \/ UNCHANGED lifecycleVars
    PROVE  /\ LifecycleTypeOK' /\ NothingServed' /\ ListenerEnds' /\ PartsEnd' /\ ReturnsZero'
           /\ CutAtExit' /\ CleanExit'
<1> USE LifecycleAssumption DEF Fault, NoFault, Parts, ContextDone, LifecycleInv, LifecycleTypeOK, NothingServed,
    ListenerEnds, PartsEnd, ReturnsZero, CutAtExit, CleanExit
<1>1. CASE UNCHANGED lifecycleVars
  BY <1>1 DEF lifecycleVars
<1>2. CASE OpenPool
  BY <1>2 DEF OpenPool, Return
<1>3. CASE DependencyFails
  BY <1>3 DEF DependencyFails, Return
<1>4. CASE Serve
  <2>1. CASE pc' = "serving"
    <3>1. /\ pc = "opened" /\ http' = IF service = "api" THEN "open" ELSE "off"
          /\ part' = [p \in Parts |-> "running"]
          /\ UNCHANGED <<service, config, stop, errCh, request, stream, exitCode, refused>>
      BY <1>4, <2>1 DEF Serve, Return
    <3>2. QED
      BY <2>1, <3>1
  <2>2. CASE pc' = "closing"
    <3>1. /\ pc = "opened" /\ exitCode' = 1 /\ refused' = TRUE
          /\ UNCHANGED <<service, config, stop, http, part, errCh, request, stream>>
      BY <1>4, <2>2 DEF Serve, Return
    <3>2. QED
      BY <2>2, <3>1
  <2>3. QED
    BY <1>4, <2>1, <2>2 DEF Serve, Return
<1>5. CASE ListenerFails
  BY <1>5 DEF ListenerFails
<1>6. CASE ListenerClosed
  BY <1>6 DEF ListenerClosed
<1>7. CASE RequestArrives
  BY <1>7 DEF RequestArrives
<1>8. CASE RequestAnswered
  BY <1>8 DEF RequestAnswered, Alive
<1>9. CASE StreamLeaves
  BY <1>9 DEF StreamLeaves, Alive
<1>10. CASE MaintenancePass
  BY <1>10 DEF MaintenancePass, Alive
<1>11. CASE MaintenanceFails
  BY <1>11 DEF MaintenanceFails, Alive, PassError
<1>12. CASE Sigterm
  BY <1>12 DEF Sigterm, processVars
<1>13. CASE SelectStop
  BY <1>13 DEF SelectStop
<1>14. CASE SelectListenerError
  BY <1>14 DEF SelectListenerError, Return
<1>15. CASE SelectGroupDone
  BY <1>15 DEF SelectGroupDone, Return, GroupCode, AllReturned, Returned
<1>16. CASE ShutdownTimeout
  BY <1>16 DEF ShutdownTimeout
<1>17. CASE ShutdownHTTP
  BY <1>17 DEF ShutdownHTTP, ShutdownStep, Return, Idle
<1>18. CASE ShutdownAdmin
  BY <1>18 DEF ShutdownAdmin, ShutdownStep, Return
<1>19. CASE WaitBridge
  BY <1>19 DEF WaitBridge, ShutdownStep, Return, Returned
<1>20. CASE WaitListener
  BY <1>20 DEF WaitListener, Return
<1>21. CASE WaitGroup
  BY <1>21 DEF WaitGroup, Return, GroupCode, AllReturned, Returned
<1>22. CASE Exit
  BY <1>22 DEF Exit
<1>23. CASE Restart
  BY <1>23 DEF Restart
<1>24. CASE Bootstrap
  BY <1>24 DEF Bootstrap, Return
<1>25. CASE \E p \in Parts : PartReturns(p)
  BY <1>25 DEF PartReturns, Alive
<1> HIDE DEF Fault, NoFault, Parts, ContextDone, LifecycleInv, LifecycleTypeOK, NothingServed,
    ListenerEnds, PartsEnd, ReturnsZero, CutAtExit, CleanExit
<1>26. QED
  BY <1>1, <1>2, <1>3, <1>4, <1>5, <1>6, <1>7, <1>8, <1>9, <1>10, <1>11, <1>12, <1>13, <1>14, <1>15, <1>16, <1>17, <1>18, <1>19, <1>20, <1>21, <1>22, <1>23, <1>24, <1>25 DEF LifecycleNext, ProcessStep

\* The configuration is read once, and the process that runs is one it was
\* loaded for.
LEMMA LoadedStep ==
    ASSUME LifecycleInv, LifecycleNext \/ Bootstrap \/ UNCHANGED lifecycleVars
    PROVE  Loaded' /\ ConfigChecksAgree'
<1> USE LifecycleAssumption DEF LifecycleAssumption
<1>1. CASE Bootstrap
  <2>1. /\ config = NotLoaded => config' \in Configs /\ ~refused
        /\ config # NotLoaded => config' = config
        /\ refused' = refused /\ service' = service
        /\ (pc' = "booted" /\ Load(config')) \/ pc' = "closing"
    BY <1>1 DEF Bootstrap, Return, LifecycleInv, Loaded
  <2>2. Load(config') => Load(config)'
    BY DEF Load, Validate, Blank, RequiresAMQP, RequiresDatabase
  <2>3. config' # NotLoaded
    BY <2>1
  <2>4. Loaded'
    BY <2>1, <2>2, <2>3 DEF Loaded
  <2>5. QED
    BY <2>1, <2>4 DEF LifecycleInv, ConfigChecksAgree
<1>2. CASE Serve
  <2>1. config' = config /\ service' = service /\ config # NotLoaded /\ config \in Config /\ Load(config)
    BY <1>2 DEF Serve, LifecycleInv, LifecycleTypeOK, Loaded
  <2>2. pc' \notin {"down", "booted", "opened"}
    BY <1>2 DEF Serve, Return
  <2>3. refused' => refused \/ ~ConstructorsAccept(service, config)
    BY <1>2 DEF Serve
  <2>4. config.service = service => ConstructorsAccept(service, config)
    BY <2>1, ChecksAgree DEF LifecycleInv, LifecycleTypeOK
  <2>5. Loaded'
    BY <2>1, <2>2 DEF Loaded
  <2>6. QED
    BY <2>1, <2>3, <2>4, <2>5 DEF LifecycleInv, ConfigChecksAgree
<1>3. CASE \/ LifecycleNext /\ ~Serve
           \/ UNCHANGED lifecycleVars
  <2>1. config' = config /\ service' = service /\ refused' = refused
    BY <1>3 DEF lifecycleVars, LifecycleNext, ProcessStep, OpenPool, DependencyFails, ListenerFails, ListenerClosed,
           RequestArrives, RequestAnswered, StreamLeaves, MaintenancePass, MaintenanceFails, PartReturns, Sigterm,
           processVars, SelectStop, SelectListenerError, SelectGroupDone, ShutdownTimeout, ShutdownHTTP, ShutdownAdmin,
           WaitBridge, ShutdownStep, WaitListener, WaitGroup, Exit, Restart
  <2>2. /\ pc' \in {"booted", "opened"} => pc \in {"booted", "opened"}
        /\ pc = "down" => pc' = "down"
    BY <1>3 DEF lifecycleVars, LifecycleNext, ProcessStep, OpenPool, DependencyFails, ListenerFails, ListenerClosed,
           RequestArrives, RequestAnswered, StreamLeaves, MaintenancePass, MaintenanceFails, PartReturns, Sigterm,
           processVars, SelectStop, SelectListenerError, SelectGroupDone, ShutdownTimeout, ShutdownHTTP, ShutdownAdmin,
           WaitBridge, ShutdownStep, WaitListener, WaitGroup, Exit, Restart, Return
  <2>3. Load(config') = Load(config)
    BY <2>1
  <2>4. Load(config)' = Load(config')
    BY DEF Load, Validate, Blank, RequiresAMQP, RequiresDatabase
  <2>5. Loaded'
    BY <2>1, <2>2, <2>3, <2>4 DEF LifecycleInv, Loaded
  <2>6. QED
    BY <2>1, <2>5 DEF LifecycleInv, ConfigChecksAgree
<1>4. QED
  BY <1>1, <1>2, <1>3

-----------------------------------------------------------------------------
(* The theorems.                                                           *)

\* Initially nothing has happened.
LEMMA InitInv ==
    ASSUME Init
    PROVE  MigratorInv /\ LifecycleInv /\ AppliedInOrder /\ StartsOnSchema
<1>1. MigratorInv /\ AppliedInOrder
  <2>1. effects = <<>> /\ recorded = {} /\ \A m \in Migrators : step[m] = "start"
    BY DEF Init, MigratorInit
  <2>2. DOMAIN effects = {}
    BY <2>1
  <2>3. AppliedOnce /\ AppliedInOrder
    BY <2>1, <2>2 DEF AppliedOnce, AppliedInOrder, IsInjective, Range
  <2>4. effects \in Seq(Rows)
    BY <2>1, EmptySeq
  <2>5. MigratorTypeOK
    BY <2>1, <2>4, MigratorAssumption DEF Init, MigratorInit, MigratorTypeOK, MigratorAssumption, Steps
  <2>6. QED
    BY <2>1, <2>3, <2>5 DEF MigratorInv, LockHeld, LoopInv, LowerRecorded
<1>2. LifecycleInv /\ StartsOnSchema
  <2>1. LifecycleTypeOK
    <3>1. part \in [Parts -> {"off", "running", "idle", "nil", "error"}]
      BY DEF Init, LifecycleInit
    <3>2. service \in {"api", "worker"} /\ config \in Configs \cup {NotLoaded} /\ exitCode \in 0..2
      BY DEF Init, LifecycleInit
    <3>3. errCh \in {<<>>, <<"error">>, <<"nil">>}
      BY DEF Init, LifecycleInit
    <3>4. pc = "down" /\ ~refused /\ ~stop /\ http = "off" /\ request = "none" /\ stream = "none"
          /\ refused \in BOOLEAN /\ stop \in BOOLEAN
      BY DEF Init, LifecycleInit
    <3>5. QED
      BY <3>1, <3>2, <3>3, <3>4 DEF LifecycleTypeOK
  <2>2. \A p \in Parts : part[p] = "off"
    BY DEF Init, LifecycleInit
  <2>3. service = "api" => "bridge" \in Parts
    BY DEF Parts
  <2>4. NothingServed /\ ListenerEnds /\ PartsEnd /\ ReturnsZero /\ CutAtExit
    BY <2>2, <2>3 DEF Init, LifecycleInit, NothingServed, ListenerEnds, PartsEnd, ReturnsZero, CutAtExit
  <2>5. CleanExit /\ Loaded /\ ConfigChecksAgree /\ StartsOnSchema
    BY DEF Init, LifecycleInit, CleanExit, Loaded, ConfigChecksAgree, StartsOnSchema
  <2>6. QED
    BY <2>1, <2>4, <2>5 DEF LifecycleInv
<1>3. QED
  BY <1>1, <1>2

\* A step is one of a migrator, of the service, or of neither.
LEMMA NextSplit ==
    ASSUME [Next]_vars
    PROVE  /\ (MigratorNext /\ config = NotLoaded) \/ UNCHANGED migratorVars
           /\ LifecycleNext \/ StartService \/ UNCHANGED lifecycleVars
BY DEF Next, vars

\* The invariants hold in every state.
LEMMA InvInvariant == Spec => [](MigratorInv /\ LifecycleInv)
<1>1. ASSUME MigratorInv, [Next]_vars
      PROVE  MigratorInv'
  <2>1. CASE MigratorNext
    BY <1>1, <2>1, MigratorInvStep
  <2>2. CASE UNCHANGED migratorVars
    BY <1>1, <2>2 DEF migratorVars, MigratorInv, MigratorTypeOK, LockHeld, LoopInv, LowerRecorded, AppliedOnce,
                      Discoverable, SQLFiles, NextFile, RowsOf, Row, IsInjective, Range
  <2>3. QED
    BY <1>1, <2>1, <2>2, NextSplit
<1>2. ASSUME LifecycleInv, [Next]_vars
      PROVE  LifecycleInv'
  <2>1. LifecycleNext \/ Bootstrap \/ UNCHANGED lifecycleVars
    BY <1>2, NextSplit DEF StartService
  <2>2. QED
    BY <1>2, <2>1, LifecycleStep, LoadedStep DEF LifecycleInv
<1>3. QED
  BY <1>1, <1>2, InitInv, PTL DEF Spec

\* Every recorded migration took effect exactly once and nothing else did,
\* whatever the directories hold.
THEOREM AppliedOnceAlways == Spec => []AppliedOnce
<1>1. MigratorInv => AppliedOnce
  BY DEF MigratorInv
<1>2. QED
  BY <1>1, InvInvariant, PTL

\* A migrate process that exited with 0 leaves all its files recorded, whatever
\* the directories hold.
THEOREM DoneIsRecordedAlways == Spec => []DoneIsRecorded
<1>1. MigratorInv => DoneIsRecorded
  BY DEF MigratorInv, LoopInv, DoneIsRecorded
<1>2. QED
  BY <1>1, InvInvariant, PTL

\* With directories of one history, the schema is sound: each migration took
\* effect once, in the order of the versions, and exit code 0 means all of them.
THEOREM SchemaSoundAlways ==
    ASSUME ReleasesOfOneHistory
    PROVE  Spec => []SchemaSound
<1>1. ASSUME MigratorInv, AppliedInOrder, [Next]_vars
      PROVE  AppliedInOrder'
  <2>1. CASE MigratorNext
    BY <1>1, <2>1, InOrderStep
  <2>2. CASE UNCHANGED migratorVars
    BY <1>1, <2>2 DEF migratorVars, AppliedInOrder
  <2>3. QED
    BY <1>1, <2>1, <2>2, NextSplit
<1>2. Init => AppliedInOrder
  BY InitInv
<1>3. Spec => []AppliedInOrder
  BY <1>1, <1>2, InvInvariant, PTL DEF Spec
<1>4. QED
  BY <1>3, AppliedOnceAlways, DoneIsRecordedAlways, PTL DEF SchemaSound

\* Exit code 0 of a service can be trusted.
THEOREM CleanExitAlways == Spec => []CleanExit
<1>1. LifecycleInv => CleanExit
  BY DEF LifecycleInv
<1>2. QED
  BY <1>1, InvInvariant, PTL

\* No constructor rejects what Load accepted for the service.
THEOREM ConfigChecksAgreeAlways == Spec => []ConfigChecksAgree
<1>1. LifecycleInv => ConfigChecksAgree
  BY DEF LifecycleInv
<1>2. QED
  BY <1>1, InvInvariant, PTL

\* A service never reads its configuration before some directory was migrated
\* to the end.
THEOREM StartsOnSchemaAlways == Spec => []StartsOnSchema
<1>1. ASSUME MigratorInv, LifecycleInv, StartsOnSchema, [Next]_vars
      PROVE  StartsOnSchema'
  <2>1. CASE config' = NotLoaded
    BY <2>1 DEF StartsOnSchema
  <2>2. CASE config' # NotLoaded /\ config' = config
    <3>1. UNCHANGED migratorVars
      BY <1>1, <2>2, NextSplit
    <3>2. QED
      BY <1>1, <2>2, <3>1 DEF StartsOnSchema, migratorVars, SQLFiles, Row
  <2>3. CASE config' # config
    <3>1. StartService /\ UNCHANGED migratorVars
      <4>1. LifecycleNext \/ UNCHANGED lifecycleVars => config' = config
        BY DEF lifecycleVars, LifecycleNext, ProcessStep, OpenPool, Serve, DependencyFails, ListenerFails,
           ListenerClosed,
           RequestArrives, RequestAnswered, StreamLeaves, MaintenancePass, MaintenanceFails, PartReturns, Sigterm,
           processVars, SelectStop, SelectListenerError, SelectGroupDone, ShutdownTimeout, ShutdownHTTP, ShutdownAdmin,
           WaitBridge, ShutdownStep, WaitListener, WaitGroup, Exit, Restart
      <4>2. QED
        BY <1>1, <2>3, <4>1 DEF Next, vars, lifecycleVars
    <3>2. PICK m \in Migrators : step[m] = "done"
      BY <3>1 DEF StartService, Migrated
    <3>3. SQLFiles(m) # {} /\ {Row(f) : f \in SQLFiles(m)} \subseteq recorded
      BY <1>1, <3>2 DEF MigratorInv, LoopInv, Discoverable
    <3>4. QED
      BY <3>1, <3>3 DEF StartsOnSchema, migratorVars, SQLFiles, Row
  <2>4. QED
    BY <2>1, <2>2, <2>3
<1>2. Init => StartsOnSchema
  BY InitInv
<1>3. QED
  BY <1>1, <1>2, InvInvariant, PTL DEF Spec
=============================================================================
