---------------------------- MODULE StartupProofs ----------------------------
(***************************************************************************)
(* Proofs about Startup, for any number of instances and operators: what   *)
(* goose records is in effect, the SQL of an adopted version is not run    *)
(* again, an `up` that ends well is complete, and a flag provider's map    *)
(* neither goes back nor changes after a Shutdown.                         *)
(*                                                                         *)
(* The migration half rests on one inductive invariant.  A rollback runs   *)
(* alone (Alone), so the list of pending versions that an `up` has read    *)
(* misses only versions that are recorded by now (Working); and recorded   *)
(* versions begin with 001 (Records), so a process that finds nothing      *)
(* recorded knows that no rollback has removed a version that              *)
(* schema_migrations names, unless it removed 001 itself.  The advisory    *)
(* lock is not needed for any of this: recording a version twice is        *)
(* recording it once.                                                      *)
(***************************************************************************)
EXTENDS Startup, TLAPS

\* The versions the hand-written runner brought in and nobody has rolled back.
Adopted == legacy.names \ undone

\* What a process is doing tells which command it runs; only operators roll back.
Doing(p) ==
  /\ Busy(p) => proc[p].cmd # "none"
  /\ proc[p].pc \in {"list", "apply"} => proc[p].cmd = "up"
  /\ proc[p].pc \in {"current", "undo"} => proc[p].cmd = "down"
  /\ proc[p].pc = "report" => proc[p].cmd = "status"
  /\ Busy(p) /\ proc[p].cmd = "down" => p \in Operators

\* While a rollback runs nobody else migrates.
Alone == \A p, q \in Procs : Busy(p) /\ proc[p].cmd = "down" /\ Busy(q) => p = q

\* The version table, schema_migrations and the schema agree.
Records ==
  /\ ~ legacy.exists => legacy.names = {}
  /\ legacy.names # {} => 1 \in legacy.names
  /\ Adopted \subseteq schema
  /\ goose.applied # {} => goose.exists /\ 1 \in goose.applied /\ Adopted \subseteq goose.applied
  /\ undone # {} /\ 1 \notin undone => 1 \in goose.applied
  /\ RecordedInEffect

\* What a process has read is still good enough for what it is about to do.
Working(p) ==
  /\ proc[p].pc \in {"legacy", "users", "adopt"} => undone = {} \/ 1 \in undone
  /\ proc[p].pc = "users" => legacy.exists /\ legacy.names = {}
  /\ proc[p].pc = "adopt" =>
       /\ legacy.exists
       /\ proc[p].names = IF legacy.names = {} THEN Versions ELSE legacy.names
  /\ proc[p].pc \in {"list", "apply", "current", "undo", "report"} =>
       Adopted \subseteq goose.applied
  /\ proc[p].pc = "apply" =>
       /\ goose.exists /\ proc[p].todo # {}
       /\ Versions \ proc[p].todo \subseteq goose.applied
       /\ proc[p].todo \cap Adopted = {}
  /\ proc[p].pc = "undo" => goose.applied # {} /\ proc[p].todo = {Highest(goose.applied)}

Migrated ==
  /\ MigrationTypeOK
  /\ Alone
  /\ Records
  /\ \A p \in Procs : Doing(p) /\ Working(p)

\* A process that is down has no provider; a document in hand is not older than the
\* map it is to replace; Shutdown returns once the loop is closed.
Provided(i) ==
  /\ life[i] = "down" => provider[i] = F!NoProvider
  /\ provider[i].flags <= revision /\ provider[i].answer <= revision
  /\ provider[i].pc = "answered" => provider[i].flags <= provider[i].answer
  /\ provider[i].shutdown = "returned" => provider[i].pc = "closed"

Flagged ==
  /\ F!FlagsTypeOK
  /\ life \in [Instances -> {"down", "wired", "serving"}]
  /\ \A i \in Readers : Provided(i)
-----------------------------------------------------------------------------

LEMMA LowestInside ==
  ASSUME NEW S \in SUBSET Versions, S # {}
  PROVE  Lowest(S) \in S /\ \A w \in S : Lowest(S) <= w
<1>1. \E v \in S : \A w \in S : v <= w
  <2> SUFFICES ASSUME \A v \in S : \E w \in S : ~ (v <= w) PROVE FALSE
    OBVIOUS
  <2>1. \A v \in S : v \in 1 .. 9
    BY DEF Versions
  <2>2. 1 \notin S /\ 2 \notin S /\ 3 \notin S
    BY <2>1
  <2>3. 4 \notin S /\ 5 \notin S /\ 6 \notin S
    BY <2>1, <2>2
  <2> QED
    BY <2>1, <2>2, <2>3
<1> QED
  BY <1>1 DEF Lowest

LEMMA HighestInside ==
  ASSUME NEW S \in SUBSET Versions, S # {}
  PROVE  Highest(S) \in S /\ \A w \in S : w <= Highest(S)
<1>1. \E v \in S : \A w \in S : w <= v
  <2> SUFFICES ASSUME \A v \in S : \E w \in S : ~ (w <= v) PROVE FALSE
    OBVIOUS
  <2>1. \A v \in S : v \in 1 .. 9
    BY DEF Versions
  <2>2. 9 \notin S /\ 8 \notin S /\ 7 \notin S
    BY <2>1
  <2>3. 6 \notin S /\ 5 \notin S /\ 4 \notin S
    BY <2>1, <2>2
  <2> QED
    BY <2>1, <2>2, <2>3
<1> QED
  BY <1>1 DEF Highest

Processes == [Procs -> [cmd : {"none", "up", "down", "status", "version"}, pc : Pcs,
                        seen : BOOLEAN, names : SUBSET Versions, todo : SUBSET Versions]]
-----------------------------------------------------------------------------
(***************************************************************************)
(* A step of a process that is running and that rolls nothing back leaves  *)
(* the others as they are: a process about to undo a version would be the  *)
(* only one, and to every other process more recorded versions are welcome.*)
(***************************************************************************)
Progress(p) ==
  /\ \A q \in Procs \ {p} : proc'[q] = proc[q]
  /\ Busy(p)
  /\ Busy(p)' /\ proc'[p].cmd = "down" => proc[p].cmd = "down"
  /\ UNCHANGED <<legacy, undone>>
  /\ goose.applied \subseteq goose'.applied
  /\ goose.exists => goose'.exists

LEMMA OthersKept ==
  ASSUME Migrated, NEW p \in Procs, Progress(p), Doing(p)', Working(p)'
  PROVE  Alone' /\ \A q \in Procs : Doing(q)' /\ Working(q)'
<1>1. Alone'
  BY DEF Migrated, Alone, Progress, Busy
<1>2. ASSUME NEW q \in Procs, q # p PROVE Doing(q)'
  BY <1>2 DEF Migrated, Doing, Progress, Busy
<1>3. ASSUME NEW q \in Procs, q # p PROVE Working(q)'
  <2>1. proc'[q] = proc[q] /\ Working(q) /\ Doing(q)
    BY <1>3 DEF Migrated, Progress
  <2>2. proc[q].pc # "undo"
    BY <1>3, <2>1 DEF Migrated, Alone, Doing, Busy, Progress
  <2> QED
    BY <2>1, <2>2 DEF Working, Adopted, Progress
<1> QED
  BY <1>1, <1>2, <1>3

\* A command that returns leaves nothing to be said about its process.
LEMMA Finished ==
  ASSUME Migrated, NEW p \in Procs, Busy(p), NEW s \in {"done", "failed"}, Finish(p, s),
         UNCHANGED <<legacy, undone>>, goose.applied \subseteq goose'.applied,
         goose.exists => goose'.exists
  PROVE  proc' \in Processes /\ Alone' /\ \A q \in Procs : Doing(q)' /\ Working(q)'
<1>1. proc \in Processes
  BY DEF Migrated, MigrationTypeOK, Processes
<1>2. proc' \in Processes /\ proc'[p].pc = s /\ \A q \in Procs \ {p} : proc'[q] = proc[q]
  BY <1>1 DEF Finish, Idle, Processes, Pcs
<1>3. Progress(p)
  BY <1>2 DEF Progress, Busy
<1>4. Doing(p)' /\ Working(p)'
  BY <1>2 DEF Doing, Working, Busy
<1> QED
  BY <1>2, <1>3, <1>4, OthersKept

\* The end of adoptLegacy: what schema_migrations names is recorded.
LEMMA Committed ==
  ASSUME Migrated, NEW p \in Procs, Busy(p), CommitAdoption(p),
         UNCHANGED <<legacy, undone>>, goose.applied \subseteq goose'.applied,
         goose.exists => goose'.exists, Adopted \subseteq goose'.applied
  PROVE  proc' \in Processes /\ Alone' /\ \A q \in Procs : Doing(q)' /\ Working(q)'
<1> DEFINE c == proc[p].cmd
           d == IF c = "version" THEN "none" ELSE c
<1>1. proc \in Processes /\ c \in {"up", "down", "status", "version"} /\ Doing(p)
  BY DEF Migrated, MigrationTypeOK, Processes, Doing
<1>2. AfterAdoption(c) \in {"list", "current", "report", "done"}
  BY <1>1 DEF AfterAdoption
<1>3. /\ proc' \in Processes /\ proc'[p].pc = AfterAdoption(c) /\ proc'[p].cmd = d
      /\ \A q \in Procs \ {p} : proc'[q] = proc[q]
  BY <1>1, <1>2 DEF CommitAdoption, Idle, Processes, Pcs
<1>4. Progress(p)
  BY <1>3 DEF Progress, Busy
<1>5. Doing(p)'
  BY <1>1, <1>3 DEF Doing, Busy, AfterAdoption
<1>6. Working(p)'
  BY <1>2, <1>3 DEF Working, Adopted
<1> QED
  BY <1>3, <1>4, <1>5, <1>6, OthersKept

\* Steps that record nothing and undo nothing.
LEMMA RecordsKept ==
  ASSUME Migrated, UNCHANGED <<schema, legacy, undone>>, goose'.applied = goose.applied,
         goose.exists => goose'.exists
  PROVE  Records'
BY DEF Migrated, Records, Adopted, RecordedInEffect, Tracked
-----------------------------------------------------------------------------
LEMMA MigratedInit == MigrationInit => Migrated
<1> SUFFICES ASSUME MigrationInit PROVE Migrated
  OBVIOUS
<1>1. \A p \in Procs : proc[p] = Idle
  BY DEF MigrationInit
<1>2. Alone /\ \A p \in Procs : Doing(p) /\ Working(p)
  BY <1>1 DEF Alone, Doing, Working, Busy, Idle
<1>3. MigrationTypeOK
  <2>1. schema \subseteq Versions
    BY DEF MigrationInit, Prefixes, Versions
  <2>2. /\ goose \in [exists : BOOLEAN, applied : SUBSET Versions]
        /\ legacy \in [exists : BOOLEAN, names : SUBSET Versions]
    <3>1. PICK A \in {schema, {}} : goose \in [exists : BOOLEAN, applied : {A}]
      BY DEF MigrationInit
    <3>2. \/ legacy = [exists |-> FALSE, names |-> {}]
          \/ legacy = [exists |-> TRUE, names |-> schema]
          \/ legacy = [exists |-> TRUE, names |-> {}]
      BY DEF MigrationInit
    <3>3. A \in SUBSET Versions
      BY <2>1
    <3>4. goose \in [exists : BOOLEAN, applied : SUBSET Versions]
      BY <3>1, <3>3
    <3>5. legacy \in [exists : BOOLEAN, names : SUBSET Versions]
      <4>1. {} \in SUBSET Versions /\ schema \in SUBSET Versions
        BY <2>1
      <4>2. \A e \in BOOLEAN, N \in SUBSET Versions :
              [exists |-> e, names |-> N] \in [exists : BOOLEAN, names : SUBSET Versions]
        OBVIOUS
      <4> QED
        BY Zenon, <3>2, <4>1, <4>2
    <3> QED
      BY <3>4, <3>5
  <2>3. proc \in Processes
    BY DEF MigrationInit, Processes, Idle, Pcs
  <2> QED
    BY <2>1, <2>2, <2>3, BoundsAssumption DEF MigrationInit, MigrationTypeOK, Processes
<1>4. Records
  <2>1. CASE goose.applied = {}
    BY <2>1 DEF MigrationInit, Records, Adopted, RecordedInEffect
  <2>2. CASE goose.applied # {}
    <3>1. /\ schema \in Prefixes /\ goose.applied = schema
          /\ goose.exists /\ legacy = [exists |-> FALSE, names |-> {}]
      BY <2>2 DEF MigrationInit
    <3>2. 1 \in schema
      BY <2>2, <3>1 DEF Prefixes
    <3> QED
      BY <3>1, <3>2 DEF MigrationInit, Records, Adopted, RecordedInEffect
  <2> QED
    BY <2>1, <2>2
<1> QED
  BY <1>2, <1>3, <1>4 DEF Migrated

\* Starting a process: a rollback starts when nobody migrates, and nobody starts then.
LEMMA LaunchKeeps ==
  ASSUME Migrated, NEW p \in Procs, NEW c \in {"up", "down", "status"}, Launch(p, c),
         ~ RollingBack, c = "down" => p \in Operators /\ \A q \in Procs : ~ Busy(q),
         UNCHANGED <<schema, goose, legacy, lock, faults, undone>>,
         commands' \in 0 .. MaxCommands
  PROVE  Migrated'
<1>1. proc \in Processes
  BY DEF Migrated, MigrationTypeOK, Processes
<1>2. /\ proc' \in Processes /\ proc'[p].pc = "lock" /\ proc'[p].cmd = c
      /\ \A q \in Procs \ {p} : proc'[q] = proc[q]
  BY <1>1 DEF Launch, Idle, Processes, Pcs
<1>3. MigrationTypeOK'
  BY <1>2 DEF Migrated, MigrationTypeOK, Processes
<1>4. Alone'
  <2>1. \A q \in Procs : Busy(q) => proc[q].cmd # "down"
    BY DEF Migrated, Doing, RollingBack
  <2> QED
    BY <1>2, <2>1 DEF Alone, Busy
<1>5. Records'
  BY RecordsKept
<1>6. Doing(p)' /\ Working(p)'
  BY <1>2 DEF Doing, Working, Busy
<1>7. ASSUME NEW q \in Procs, q # p PROVE Doing(q)' /\ Working(q)'
  BY <1>2, <1>7 DEF Migrated, Doing, Working, Adopted, Busy
<1> QED
  BY <1>3, <1>4, <1>5, <1>6, <1>7 DEF Migrated

LEMMA TypesKept ==
  ASSUME Migrated, proc' \in Processes, UNCHANGED <<legacy, commands>>,
         lock' \in Procs \cup {NoProc}, faults' \in 0 .. MaxFaults,
         schema' \subseteq Versions, undone' \subseteq Versions,
         goose' \in [exists : BOOLEAN, applied : SUBSET Versions]
  PROVE  MigrationTypeOK'
BY DEF Migrated, MigrationTypeOK, Processes

\* What holds of the state whenever a process takes a step.
LEMMA Situation ==
  ASSUME Migrated, NEW p \in Procs
  PROVE  /\ proc \in Processes /\ Doing(p) /\ Working(p) /\ Records
         /\ schema \subseteq Versions /\ undone \subseteq Versions
         /\ goose \in [exists : BOOLEAN, applied : SUBSET Versions]
         /\ legacy \in [exists : BOOLEAN, names : SUBSET Versions]
         /\ lock \in Procs \cup {NoProc} /\ faults \in 0 .. MaxFaults
BY DEF Migrated, MigrationTypeOK, Processes

\* adoptLegacy, from the lock to the rows it records.
LEMMA AdoptionKeeps ==
  ASSUME Migrated, NEW p \in Procs,
         LockAdoption(p) \/ InspectGoose(p) \/ ReadLegacy(p) \/ CheckUsers(p)
  PROVE  Migrated'
<1>1. /\ proc \in Processes /\ Doing(p) /\ Working(p) /\ Records /\ Busy(p)
      /\ schema \subseteq Versions /\ undone \subseteq Versions
      /\ goose \in [exists : BOOLEAN, applied : SUBSET Versions]
      /\ legacy \in [exists : BOOLEAN, names : SUBSET Versions]
      /\ lock \in Procs \cup {NoProc} /\ faults \in 0 .. MaxFaults
  BY Situation DEF Busy, LockAdoption, InspectGoose, ReadLegacy, CheckUsers
<1>2. UNCHANGED <<schema, goose, legacy, commands, faults, undone>>
  BY DEF LockAdoption, InspectGoose, ReadLegacy, CheckUsers
<1>3. Records'
  BY <1>2, RecordsKept
<1>4. CASE CommitAdoption(p) /\ ~ LockAdoption(p)
  <2>0. proc'[p].pc \in {"list", "current", "report", "done"}
    BY <1>1, <1>4 DEF CommitAdoption, AfterAdoption, Doing, Idle, Processes
  <2>1. Adopted \subseteq goose.applied
    <3>1. CASE InspectGoose(p)
      BY <1>1, <2>0, <3>1 DEF InspectGoose, Records, Processes
    <3>2. CASE ReadLegacy(p)
      BY <1>1, <2>0, <3>2 DEF ReadLegacy, Records, Adopted, Processes
    <3>3. CASE CheckUsers(p)
      BY <1>1, <3>3 DEF CheckUsers, Working, Adopted
    <3> QED
      BY <1>4, <3>1, <3>2, <3>3
  <2>2. lock' \in Procs \cup {NoProc}
    BY <1>4 DEF CommitAdoption
  <2>3. proc' \in Processes /\ Alone' /\ \A q \in Procs : Doing(q)' /\ Working(q)'
    BY <1>1, <1>2, <1>4, <2>1, Committed
  <2> QED
    BY <1>1, <1>2, <1>3, <2>2, <2>3, TypesKept DEF Migrated
<1>5. CASE ~ (CommitAdoption(p) /\ ~ LockAdoption(p))
  <2>1. /\ proc' \in Processes /\ proc'[p].cmd = proc[p].cmd /\ lock' \in Procs \cup {NoProc}
        /\ \A q \in Procs \ {p} : proc'[q] = proc[q]
    <3>1. CASE LockAdoption(p)
      BY <1>1, <3>1 DEF LockAdoption, Goto, Processes, Pcs
    <3>2. CASE InspectGoose(p)
      BY <1>1, <1>5, <3>2 DEF InspectGoose, LockAdoption, Processes, Pcs
    <3>3. CASE ReadLegacy(p)
      BY <1>1, <1>5, <3>3 DEF ReadLegacy, LockAdoption, Processes, Pcs
    <3>4. CASE CheckUsers(p)
      BY <1>1, <1>5, <3>4 DEF CheckUsers, LockAdoption, Processes, Pcs
    <3> QED
      BY <3>1, <3>2, <3>3, <3>4
  <2>2. Progress(p)
    BY <1>1, <1>2, <2>1 DEF Progress, Busy
  <2>3. Doing(p)' /\ Working(p)'
    <3>1. CASE LockAdoption(p)
      <4>1. proc'[p].pc = "inspect" /\ proc'[p].cmd # "none"
        BY <1>1, <2>1, <3>1 DEF LockAdoption, Goto, Processes, Doing
      <4> QED
        BY <1>1, <2>1, <4>1 DEF Doing, Working, Busy
    <3>2. CASE InspectGoose(p) /\ ~ LockAdoption(p)
      <4>1. proc'[p].pc = "legacy" /\ goose.applied = {}
        BY <1>1, <1>5, <3>2 DEF InspectGoose, Processes, Records
      <4> QED
        BY <1>1, <1>2, <2>1, <4>1 DEF Doing, Working, Busy, Records
    <3>3. CASE ReadLegacy(p) /\ ~ LockAdoption(p)
      <4>1. /\ proc'[p].pc = IF legacy.names = {} THEN "users" ELSE "adopt"
            /\ proc'[p].names = legacy.names /\ legacy.exists /\ proc[p].pc = "legacy"
        BY <1>1, <1>5, <3>3 DEF ReadLegacy, Processes
      <4> QED
        BY <1>1, <1>2, <2>1, <4>1 DEF Doing, Working, Busy
    <3>4. CASE CheckUsers(p) /\ ~ LockAdoption(p)
      <4>1. /\ proc'[p].pc = "adopt" /\ proc'[p].names = Versions /\ proc[p].pc = "users"
            /\ legacy.exists
        BY <1>1, <1>5, <3>4 DEF CheckUsers, Processes, Working
      <4> QED
        BY <1>1, <1>2, <2>1, <4>1 DEF Doing, Working, Busy
    <3> QED
      BY <3>1, <3>2, <3>3, <3>4
  <2>4. Alone' /\ \A q \in Procs : Doing(q)' /\ Working(q)'
    BY <2>2, <2>3, OthersKept
  <2> QED
    BY <1>1, <1>2, <1>3, <2>1, <2>4, TypesKept DEF Migrated
<1> QED
  BY <1>4, <1>5

LEMMA RecordAdoptedKeeps ==
  ASSUME Migrated, NEW p \in Procs, RecordAdopted(p) PROVE Migrated'
<1>1. Busy(p) /\ UNCHANGED <<schema, legacy, commands, faults, undone>>
  BY DEF RecordAdopted, Busy
<1>2. lock' \in Procs \cup {NoProc}
  BY DEF RecordAdopted, CommitAdoption
<1>3. CASE Finish(p, "failed") /\ UNCHANGED goose
  <2>1. proc' \in Processes /\ Alone' /\ \A q \in Procs : Doing(q)' /\ Working(q)'
    BY <1>1, <1>3, Finished
  <2>2. Records'
    BY <1>1, <1>3, RecordsKept
  <2> QED
    BY <1>1, <1>2, <1>3, <2>1, <2>2, Situation, TypesKept DEF Migrated
<1>4. CASE /\ goose' = [exists |-> TRUE, applied |-> goose.applied \cup proc[p].names]
           /\ CommitAdoption(p)
  <2> DEFINE N == proc[p].names
  <2>1. /\ N \subseteq Versions /\ 1 \in N /\ legacy.names \subseteq N
        /\ Tracked => N \subseteq schema
    BY Situation DEF RecordAdopted, Working, Records, Adopted, Tracked, Versions
  <2>2. goose' \in [exists : BOOLEAN, applied : SUBSET Versions]
    BY <1>4, <2>1, Situation
  <2>3. /\ goose.applied \subseteq goose'.applied /\ Adopted \subseteq goose'.applied
        /\ goose'.exists
    BY <1>4, <2>1 DEF Adopted
  <2>4. proc' \in Processes /\ Alone' /\ \A q \in Procs : Doing(q)' /\ Working(q)'
    BY <1>1, <1>4, <2>3, Committed
  <2>5. Records'
    BY <1>1, <1>4, <2>1, <2>3, Situation DEF Records, Adopted, RecordedInEffect, Tracked
  <2> QED
    BY <1>1, <1>2, <2>2, <2>4, <2>5, Situation, TypesKept DEF Migrated
<1> QED
  BY <1>3, <1>4 DEF RecordAdopted

LEMMA ListPendingKeeps ==
  ASSUME Migrated, NEW p \in Procs, ListPending(p) PROVE Migrated'
<1>1. /\ Busy(p) /\ UNCHANGED <<schema, legacy, lock, commands, faults, undone>>
      /\ proc[p].pc = "list"
  BY DEF ListPending, Busy
<1>2. /\ goose' \in [exists : BOOLEAN, applied : SUBSET Versions]
      /\ goose'.applied = goose.applied /\ goose'.exists
  BY Situation DEF ListPending
<1>3. Records'
  BY <1>1, <1>2, RecordsKept
<1>4. CASE OutOfOrder \/ Pending = {}
  <2>1. proc' \in Processes /\ Alone' /\ \A q \in Procs : Doing(q)' /\ Working(q)'
    BY <1>1, <1>2, <1>4, Finished DEF ListPending
  <2> QED
    BY <1>1, <1>2, <1>3, <2>1, Situation, TypesKept DEF Migrated
<1>5. CASE ~ (OutOfOrder \/ Pending = {})
  <2>1. /\ proc' \in Processes /\ proc'[p].cmd = proc[p].cmd /\ proc'[p].pc = "apply"
        /\ proc'[p].todo = Pending
        /\ \A q \in Procs \ {p} : proc'[q] = proc[q]
    BY <1>5, Situation DEF ListPending, Processes, Pcs, Pending
  <2>2. Progress(p)
    BY <1>1, <1>2, <2>1 DEF Progress
  <2>3. Doing(p)'
    BY <1>1, <2>1, Situation DEF Doing, Busy
  <2>4. Working(p)'
    BY <1>1, <1>2, <1>5, <2>1, Situation DEF Working, Adopted, Pending
  <2>5. Alone' /\ \A q \in Procs : Doing(q)' /\ Working(q)'
    BY <2>2, <2>3, <2>4, OthersKept
  <2> QED
    BY <1>1, <1>2, <1>3, <2>1, <2>5, Situation, TypesKept DEF Migrated
<1> QED
  BY <1>4, <1>5

\* A version below the pending ones of this process is recorded, so the first version
\* that is ever recorded is 001.
LEMMA ApplyNextKeeps ==
  ASSUME Migrated, NEW p \in Procs, ApplyNext(p) PROVE Migrated'
<1> DEFINE v == Lowest(proc[p].todo)
<1>1. /\ Busy(p) /\ UNCHANGED <<legacy, lock, commands, faults, undone>>
      /\ proc[p].pc = "apply"
  BY DEF ApplyNext, Busy
<1>2. proc[p].todo \in SUBSET Versions /\ proc[p].todo # {}
  BY <1>1, Situation DEF Processes, Working
<1>3. v \in proc[p].todo /\ v \in Versions /\ \A w \in proc[p].todo : v <= w
  BY <1>2, LowestInside
<1>4. CASE Finish(p, "failed") /\ UNCHANGED <<schema, goose>>
  <2>1. proc' \in Processes /\ Alone' /\ \A q \in Procs : Doing(q)' /\ Working(q)'
    BY <1>1, <1>4, Finished
  <2>2. Records'
    BY <1>1, <1>4, RecordsKept
  <2> QED
    BY <1>1, <1>4, <2>1, <2>2, Situation, TypesKept DEF Migrated
<1>5. CASE /\ schema' = schema \cup {v}
           /\ goose' = [goose EXCEPT !.applied = @ \cup {v}]
           /\ IF proc[p].todo = {v} THEN Finish(p, "done")
                                    ELSE proc' = [proc EXCEPT ![p].todo = @ \ {v}]
  <2>1. /\ goose' \in [exists : BOOLEAN, applied : SUBSET Versions]
        /\ goose'.applied = goose.applied \cup {v} /\ goose'.exists = goose.exists
        /\ schema' \subseteq Versions
    BY <1>3, <1>5, Situation
  <2>2. Records'
    <3>1. 1 \in goose'.applied
      <4>1. 1 \in proc[p].todo \/ 1 \in goose.applied
        BY <1>1, Situation DEF Working, Versions
      <4>2. 1 \in proc[p].todo => v = 1
        BY <1>3 DEF Versions
      <4> QED
        BY <2>1, <4>1, <4>2
    <3>2. Adopted \subseteq goose.applied
      BY <1>1, Situation DEF Working
    <3>3. goose.exists
      BY <1>1, Situation DEF Working
    <3> QED
      BY <1>1, <1>5, <2>1, <3>1, <3>2, <3>3, Situation DEF Records, Adopted, RecordedInEffect, Tracked
  <2>3. CASE proc[p].todo = {v}
    <3>1. proc' \in Processes /\ Alone' /\ \A q \in Procs : Doing(q)' /\ Working(q)'
      BY <1>1, <1>5, <2>1, <2>3, Finished
    <3> QED
      BY <1>1, <2>1, <2>2, <3>1, Situation, TypesKept DEF Migrated
  <2>4. CASE proc[p].todo # {v}
    <3>1. /\ proc' \in Processes /\ proc'[p].cmd = proc[p].cmd /\ proc'[p].pc = "apply"
          /\ proc'[p].todo = proc[p].todo \ {v}
          /\ \A q \in Procs \ {p} : proc'[q] = proc[q]
      BY <1>1, <1>5, <2>4, Situation DEF Processes
    <3>2. Progress(p)
      BY <1>1, <2>1, <3>1 DEF Progress
    <3>3. Doing(p)'
      BY <1>1, <3>1, Situation DEF Doing, Busy
    <3>4. Working(p)'
      BY <1>1, <1>3, <2>1, <2>4, <3>1, Situation DEF Working, Adopted
    <3>5. Alone' /\ \A q \in Procs : Doing(q)' /\ Working(q)'
      BY <3>2, <3>3, <3>4, OthersKept
    <3> QED
      BY <1>1, <2>1, <2>2, <3>1, <3>5, Situation, TypesKept DEF Migrated
  <2> QED
    BY <2>3, <2>4
<1> QED
  BY <1>4, <1>5 DEF ApplyNext

LEMMA ReadCurrentKeeps ==
  ASSUME Migrated, NEW p \in Procs, ReadCurrent(p) PROVE Migrated'
<1>1. /\ Busy(p) /\ UNCHANGED <<schema, legacy, lock, commands, faults, undone>>
      /\ proc[p].pc = "current"
  BY DEF ReadCurrent, Busy
<1>2. /\ goose' \in [exists : BOOLEAN, applied : SUBSET Versions]
      /\ goose'.applied = goose.applied /\ goose'.exists
  BY Situation DEF ReadCurrent
<1>3. Records'
  BY <1>1, <1>2, RecordsKept
<1>4. CASE goose.applied = {}
  <2>1. proc' \in Processes /\ Alone' /\ \A q \in Procs : Doing(q)' /\ Working(q)'
    BY <1>1, <1>2, <1>4, Finished DEF ReadCurrent
  <2> QED
    BY <1>1, <1>2, <1>3, <2>1, Situation, TypesKept DEF Migrated
<1>5. CASE goose.applied # {}
  <2>1. Highest(goose.applied) \in Versions
    BY <1>5, Situation, HighestInside
  <2>2. /\ proc' \in Processes /\ proc'[p].cmd = proc[p].cmd /\ proc'[p].pc = "undo"
        /\ proc'[p].todo = {Highest(goose.applied)}
        /\ \A q \in Procs \ {p} : proc'[q] = proc[q]
    BY <1>5, <2>1, Situation DEF ReadCurrent, Processes, Pcs
  <2>3. Progress(p)
    BY <1>1, <1>2, <2>2 DEF Progress
  <2>4. Doing(p)'
    BY <1>1, <2>2, Situation DEF Doing, Busy
  <2>5. Working(p)'
    BY <1>1, <1>2, <1>5, <2>2, Situation DEF Working, Adopted
  <2>6. Alone' /\ \A q \in Procs : Doing(q)' /\ Working(q)'
    BY <2>3, <2>4, <2>5, OthersKept
  <2> QED
    BY <1>1, <1>2, <1>3, <2>2, <2>6, Situation, TypesKept DEF Migrated
<1> QED
  BY <1>4, <1>5

\* A rollback removes the highest version: 001 stays recorded unless it is the one that
\* goes.  Nobody else is migrating.
LEMMA UndoLastKeeps ==
  ASSUME Migrated, NEW p \in Procs, UndoLast(p) PROVE Migrated'
<1> DEFINE v == Lowest(proc[p].todo)
<1>1. /\ Busy(p) /\ UNCHANGED <<legacy, lock, commands, faults>>
      /\ proc[p].pc = "undo" /\ goose.applied # {}
      /\ proc[p].todo = {Highest(goose.applied)}
  BY Situation DEF UndoLast, Busy, Working
<1>2. v = Highest(goose.applied)
  BY <1>1 DEF Lowest
<1>3. v \in goose.applied /\ v \in Versions /\ \A w \in goose.applied : w <= v
  BY SMTT(60), ZenonT(30), SMTT(30), <1>1, <1>2, Situation, HighestInside
<1>4. CASE Finish(p, "failed") /\ UNCHANGED <<schema, goose, undone>>
  <2>1. proc' \in Processes /\ Alone' /\ \A q \in Procs : Doing(q)' /\ Working(q)'
    BY <1>1, <1>4, Finished
  <2>2. Records'
    BY <1>1, <1>4, RecordsKept
  <2> QED
    BY <1>1, <1>4, <2>1, <2>2, Situation, TypesKept DEF Migrated
<1>5. CASE /\ schema' = schema \ {v}
           /\ goose' = [goose EXCEPT !.applied = @ \ {v}]
           /\ undone' = undone \cup {v}
           /\ Finish(p, "done")
  <2>1. /\ goose' \in [exists : BOOLEAN, applied : SUBSET Versions]
        /\ goose'.applied = goose.applied \ {v} /\ goose'.exists = goose.exists
        /\ schema' \subseteq Versions /\ undone' \subseteq Versions
    BY <1>3, <1>5, Situation
  <2>2. Records'
    <3>1. 1 \in goose.applied
      BY <1>1, Situation DEF Records
    <3>2. goose'.applied # {} => 1 \in goose'.applied
      <4> SUFFICES ASSUME NEW w \in goose.applied, w # v, v = 1 PROVE FALSE
        BY <2>1, <3>1
      <4> QED
        BY <1>3, Situation DEF Versions
    <3>3. 1 \notin undone' => 1 \in goose'.applied
      BY <1>5, <2>1, <3>1
    <3> QED
      BY <1>1, <1>5, <2>1, <3>2, <3>3, Situation DEF Records, Adopted, RecordedInEffect, Tracked
  <2>3. /\ proc' \in Processes /\ proc'[p].pc = "done"
        /\ \A q \in Procs \ {p} : proc'[q] = proc[q]
    BY <1>5, Situation DEF Finish, Idle, Processes, Pcs
  <2>4. \A q \in Procs \ {p} : ~ Busy(q)
    BY <1>1, Situation DEF Migrated, Alone, Doing
  <2>5. \A q \in Procs : ~ Busy(q)'
    BY <2>3, <2>4 DEF Busy
  <2>6. Alone' /\ \A q \in Procs : Doing(q)' /\ Working(q)'
    BY SMTT(60), ZenonT(30), SMTT(30), <2>5 DEF Alone, Doing, Working, Busy
  <2> QED
    BY <1>1, <2>1, <2>2, <2>3, <2>6, Situation, TypesKept DEF Migrated
<1> QED
  BY <1>4, <1>5 DEF UndoLast

LEMMA ReportKeeps ==
  ASSUME Migrated, NEW p \in Procs, Report(p) PROVE Migrated'
<1>1. Busy(p) /\ UNCHANGED <<schema, legacy, lock, commands, faults, undone>>
  BY DEF Report, Busy
<1>2. /\ goose' \in [exists : BOOLEAN, applied : SUBSET Versions]
      /\ goose'.applied = goose.applied /\ goose'.exists
  BY Situation DEF Report
<1>3. /\ proc' \in Processes /\ proc'[p].cmd = "version" /\ proc'[p].pc = "lock"
      /\ \A q \in Procs \ {p} : proc'[q] = proc[q]
  BY Situation DEF Report, Processes, Pcs
<1>4. Progress(p) /\ Doing(p)' /\ Working(p)'
  BY <1>1, <1>2, <1>3 DEF Progress, Doing, Working, Busy
<1> QED
  BY SMTT(60), ZenonT(30), SMTT(30), <1>1, <1>2, <1>3, <1>4, OthersKept, RecordsKept, Situation, TypesKept DEF Migrated

\* A process fails or dies, in the middle of a migration (Abort) or later (Crash).
LEMMA FailureKeeps ==
  ASSUME Migrated, NEW p \in Procs, Finish(p, "failed"), lock' \in Procs \cup {NoProc},
         faults < MaxFaults, faults' = faults + 1,
         UNCHANGED <<schema, goose, legacy, commands, undone>>
  PROVE  Migrated'
<1>1. /\ proc' \in Processes /\ proc'[p].pc = "failed"
      /\ \A q \in Procs \ {p} : proc'[q] = proc[q]
  BY Situation DEF Finish, Idle, Processes, Pcs
<1>2. faults' \in 0 .. MaxFaults
  BY Situation, BoundsAssumption
<1>3. Alone'
  BY <1>1 DEF Migrated, Alone, Busy
<1>4. ASSUME NEW q \in Procs PROVE Doing(q)' /\ Working(q)'
  BY <1>1 DEF Migrated, Doing, Working, Adopted, Busy
<1> QED
  BY SMTT(60), ZenonT(30), SMTT(30), <1>1, <1>2, <1>3, <1>4, RecordsKept, Situation, TypesKept DEF Migrated

LEMMA MigratedNext == ASSUME Migrated, MigrationNext PROVE Migrated'
<1>1. PICK p \in Procs : \/ Boot(p) \/ (\E c \in {"up", "down", "status"} : runMigrate(p, c))
                         \/ Work(p) \/ Abort(p)
  BY Zenon DEF MigrationNext
<1>2. CASE Boot(p)
  BY <1>2, LaunchKeeps DEF Boot, Migrated, MigrationTypeOK
<1>3. ASSUME NEW c \in {"up", "down", "status"}, runMigrate(p, c) PROVE Migrated'
  <2>1. commands' \in 0 .. MaxCommands
    BY <1>3, BoundsAssumption DEF runMigrate, Migrated, MigrationTypeOK
  <2> QED
    BY <1>3, <2>1, LaunchKeeps DEF runMigrate
<1>4. CASE Work(p)
  BY <1>4, AdoptionKeeps, RecordAdoptedKeeps, ListPendingKeeps, ApplyNextKeeps,
     ReadCurrentKeeps, UndoLastKeeps, ReportKeeps DEF Work
<1>5. CASE Abort(p)
  <2>1. lock' \in Procs \cup {NoProc}
    BY <1>5, Situation DEF Abort
  <2> QED
    BY <1>5, <2>1, FailureKeeps DEF Abort
<1> QED
  BY <1>1, <1>2, <1>3, <1>4, <1>5
-----------------------------------------------------------------------------
(***************************************************************************)
(* The providers.                                                          *)
(***************************************************************************)
Providers == [pc : {"off", "registered", "sending", "answered", "waiting", "closed"},
              flags : 0 .. MaxRevision, answer : 0 .. MaxRevision, cancelled : BOOLEAN,
              shutdown : {"no", "noop", "called", "returned"}]

LEMMA ProviderTypes ==
  ASSUME NEW r \in Providers, NEW a \in 0 .. MaxRevision, NEW f \in 0 .. MaxRevision,
         NEW s \in {"off", "answered", "waiting"}
  PROVE  /\ [r EXCEPT !.pc = s] \in Providers
         /\ [r EXCEPT !.pc = s, !.answer = a] \in Providers
         /\ [r EXCEPT !.pc = s, !.answer = a, !.flags = f] \in Providers
BY DEF Providers

LEMMA FixedProviders ==
  /\ F!NoProvider \in Providers /\ F!NewProvider \in Providers
  /\ F!NoProvider.pc = "off" /\ F!NoProvider.flags = 0 /\ F!NoProvider.answer = 0
  /\ F!NoProvider.shutdown = "no"
  /\ F!NewProvider.pc = "registered" /\ F!NewProvider.flags = 0 /\ F!NewProvider.answer = 0
  /\ F!NewProvider.shutdown = "no"
<1>1. 0 \in 0 .. MaxRevision
  BY RevisionAssumption
<1>2. F!NewProvider \in Providers
  BY <1>1 DEF Providers, F!NewProvider
<1>3. F!NoProvider \in Providers
  BY SMTT(60), ZenonT(30), SMTT(30), <1>1, <1>2, ProviderTypes DEF F!NoProvider
<1> QED
  BY <1>2, <1>3 DEF F!NoProvider, F!NewProvider

\* What one step of a provider may do with the map.
Quiet(i) == /\ provider'[i].pc # "off" => provider'[i].flags >= provider[i].flags
            /\ provider[i].shutdown = "returned" /\ provider'[i].pc # "off"
                 => provider'[i].flags = provider[i].flags

\* A step of the provider of i leaves the others alone.
Replaced(i) ==
  /\ provider' \in [Readers -> Providers]
  /\ \A j \in Readers \ {i} : provider'[j] = provider[j]
  /\ UNCHANGED revision

LEMMA OneProvider ==
  ASSUME Flagged, NEW i \in Readers, Replaced(i), UNCHANGED life,
         provider[i].pc # "off",
         provider'[i].flags \in provider[i].flags .. revision, provider'[i].answer <= revision,
         provider'[i].pc = "answered" => provider'[i].flags <= provider'[i].answer,
         provider'[i].shutdown = "returned" => provider'[i].pc = "closed",
         provider[i].shutdown = "returned" => provider'[i].flags = provider[i].flags
  PROVE  Flagged' /\ \A j \in Readers : Quiet(j)
<1>1. provider \in [Readers -> Providers] /\ \A j \in Readers : Provided(j)
  BY DEF Flagged, F!FlagsTypeOK, Providers
<1>2. ASSUME NEW j \in Readers PROVE Provided(j)' /\ Quiet(j)
  <2>1. CASE j = i
    BY <1>1, <2>1, FixedProviders DEF Provided, Quiet, Providers, Replaced
  <2>2. CASE j # i
    BY <1>1, <2>2 DEF Provided, Quiet, Providers, Replaced
  <2> QED
    BY <2>1, <2>2
<1> QED
  BY <1>2 DEF Flagged, F!FlagsTypeOK, Providers, Replaced

LEMMA ProviderKeeps ==
  ASSUME Flagged, NEW i \in Readers, F!ProviderNext(i), UNCHANGED life
  PROVE  Flagged' /\ \A j \in Readers : Quiet(j)
<1>1. /\ provider \in [Readers -> Providers] /\ provider[i] \in Providers
      /\ revision \in 1 .. MaxRevision /\ Provided(i)
  BY DEF Flagged, F!FlagsTypeOK, Providers
<1>2. MaxRevision \in Nat
  BY RevisionAssumption
<1>3. /\ 0 \in 0 .. MaxRevision /\ revision \in 0 .. MaxRevision
      /\ provider[i].answer \in 0 .. MaxRevision
  BY <1>1, <1>2 DEF Providers
<1>4. CASE F!InitProvider(i)
  <2>1. Replaced(i)
    BY <1>1, <1>2, <1>4 DEF Replaced, Providers, F!InitProvider
  <2> QED
    BY <1>1, <1>2, <1>4, <2>1, OneProvider DEF Provided, Providers, F!InitProvider
<1>5. CASE F!ServeFlags(i)
  <2>1. Replaced(i)
    <3>1. provider' = [provider EXCEPT ![i] = [provider[i] EXCEPT !.pc = "answered", !.answer = revision]]
      BY <1>1, <1>5 DEF F!ServeFlags
    <3>2. [provider[i] EXCEPT !.pc = "answered", !.answer = revision] \in Providers
      BY Zenon, <1>1, <1>3, ProviderTypes
    <3> QED
      BY <1>1, <1>5, <3>1, <3>2 DEF Replaced, F!ServeFlags
  <2> QED
    BY <1>1, <1>2, <1>5, <2>1, OneProvider DEF Provided, Providers, F!ServeFlags
<1>6. CASE F!RefreshFails(i)
  <2>1. Replaced(i)
    <3>1. provider' = [provider EXCEPT ![i] = [provider[i] EXCEPT !.pc = "waiting", !.answer = 0]]
      BY <1>1, <1>6 DEF F!RefreshFails
    <3>2. [provider[i] EXCEPT !.pc = "waiting", !.answer = 0] \in Providers
      BY Zenon, <1>1, <1>3, ProviderTypes
    <3> QED
      BY <1>1, <1>6, <3>1, <3>2 DEF Replaced, F!RefreshFails
  <2> QED
    BY <1>1, <1>2, <1>6, <2>1, OneProvider DEF Provided, Providers, F!RefreshFails
<1>7. CASE F!ReplaceFlags(i)
  <2>1. Replaced(i)
    <3>1. provider' = [provider EXCEPT ![i] = [provider[i] EXCEPT !.pc = "waiting", !.answer = 0,
                                                      !.flags = provider[i].answer]]
      BY <1>1, <1>7 DEF F!ReplaceFlags
    <3>2. [provider[i] EXCEPT !.pc = "waiting", !.answer = 0,
                                                      !.flags = provider[i].answer] \in Providers
      BY Zenon, <1>1, <1>3, ProviderTypes
    <3> QED
      BY <1>1, <1>7, <3>1, <3>2 DEF Replaced, F!ReplaceFlags
  <2> QED
    BY <1>1, <1>2, <1>7, <2>1, OneProvider DEF Provided, Providers, F!ReplaceFlags
<1>8. CASE F!Tick(i)
  <2>1. Replaced(i)
    BY <1>1, <1>2, <1>8 DEF Replaced, Providers, F!Tick
  <2> QED
    BY <1>1, <1>2, <1>8, <2>1, OneProvider DEF Provided, Providers, F!Tick
<1>9. CASE F!LeaveLoop(i)
  <2>1. Replaced(i)
    BY <1>1, <1>2, <1>9 DEF Replaced, Providers, F!LeaveLoop
  <2> QED
    BY <1>1, <1>2, <1>9, <2>1, OneProvider DEF Provided, Providers, F!LeaveLoop
<1>10. CASE F!Shutdown(i)
  <2>1. Replaced(i)
    BY <1>1, <1>2, <1>10 DEF Replaced, Providers, F!Shutdown
  <2> QED
    BY <1>1, <1>2, <1>10, <2>1, OneProvider DEF Provided, Providers, F!Shutdown
<1>11. CASE F!ShutdownReturns(i)
  <2>1. Replaced(i)
    BY <1>1, <1>2, <1>11 DEF Replaced, Providers, F!ShutdownReturns
  <2> QED
    BY <1>1, <1>2, <1>11, <2>1, OneProvider DEF Provided, Providers, F!ShutdownReturns
<1> QED
  BY Zenon, <1>4, <1>5, <1>6, <1>7, <1>8, <1>9, <1>10, <1>11 DEF F!ProviderNext

LEMMA FlagsKeep ==
  ASSUME Flagged, F!FlagsNext, UNCHANGED life
  PROVE  Flagged' /\ \A i \in Readers : Quiet(i)
<1>1. CASE F!SetFlag
  <2>1. revision' \in 1 .. MaxRevision /\ revision' >= revision /\ UNCHANGED provider
    BY <1>1, RevisionAssumption DEF F!SetFlag, Flagged, F!FlagsTypeOK
  <2>2. \A i \in Readers : provider[i].flags \in Nat /\ provider[i].answer \in Nat
    BY DEF Flagged, F!FlagsTypeOK
  <2>3. ASSUME NEW i \in Readers PROVE Provided(i)' /\ Quiet(i)
    BY <2>1, <2>2, RevisionAssumption DEF Flagged, F!FlagsTypeOK, Provided, Quiet
  <2> QED
    BY <2>1, <2>3 DEF Flagged, F!FlagsTypeOK
<1> QED
  BY <1>1, ProviderKeeps DEF F!FlagsNext

LEMMA InstanceKeeps ==
  ASSUME Flagged, NEW i \in Instances, InstanceNext(i)
  PROVE  Flagged' /\ \A j \in Readers : Quiet(j)
<1>0. /\ provider \in [Readers -> Providers] /\ revision \in 1 .. MaxRevision
      /\ life \in [Instances -> {"down", "wired", "serving"}]
      /\ \A j \in Readers : j \in Instances /\ Provided(j)
  BY ReadersAssumption DEF Flagged, F!FlagsTypeOK, Providers
<1>1. CASE Wire(i)
  <2>1. /\ provider' \in [Readers -> Providers]
        /\ life' \in [Instances -> {"down", "wired", "serving"}] /\ life'[i] = "wired"
        /\ \A j \in Readers \ {i} : life'[j] = life[j] /\ provider'[j] = provider[j]
        /\ i \in Readers => provider'[i] = F!NewProvider /\ provider[i] = F!NoProvider
        /\ revision' = revision
    BY <1>0, <1>1, FixedProviders DEF Wire, Provided
  <2>2. ASSUME NEW j \in Readers PROVE Provided(j)' /\ Quiet(j)
    <3>1. CASE j = i
      BY <1>0, <2>1, <3>1, FixedProviders DEF Provided, Quiet
    <3>2. CASE j # i
      BY <1>0, <2>1, <3>2 DEF Provided, Quiet, Providers
    <3> QED
      BY <3>1, <3>2
  <2> QED
    BY <1>0, <2>1, <2>2 DEF Flagged, F!FlagsTypeOK, Providers
<1>2. CASE Listen(i)
  <2>1. /\ life' \in [Instances -> {"down", "wired", "serving"}] /\ life'[i] = "serving"
        /\ \A j \in Readers \ {i} : life'[j] = life[j]
        /\ UNCHANGED <<revision, provider>>
    BY <1>0, <1>2 DEF Listen
  <2>2. ASSUME NEW j \in Readers PROVE Provided(j)' /\ Quiet(j)
    BY <1>0, <2>1 DEF Provided, Quiet, Providers
  <2> QED
    BY <1>0, <2>1, <2>2 DEF Flagged, F!FlagsTypeOK, Providers
<1>3. CASE Crash(i)
  <2>1. /\ provider' \in [Readers -> Providers]
        /\ life' \in [Instances -> {"down", "wired", "serving"}] /\ life'[i] = "down"
        /\ \A j \in Readers \ {i} : life'[j] = life[j] /\ provider'[j] = provider[j]
        /\ i \in Readers => provider'[i] = F!NoProvider
        /\ revision' = revision
    BY <1>0, <1>3, FixedProviders DEF Crash
  <2>2. ASSUME NEW j \in Readers PROVE Provided(j)' /\ Quiet(j)
    <3>1. CASE j = i
      BY <1>0, <2>1, <3>1, FixedProviders DEF Provided, Quiet
    <3>2. CASE j # i
      BY <1>0, <2>1, <3>2 DEF Provided, Quiet, Providers
    <3> QED
      BY <3>1, <3>2
  <2> QED
    BY <1>0, <2>1, <2>2 DEF Flagged, F!FlagsTypeOK, Providers
<1> QED
  BY <1>1, <1>2, <1>3 DEF InstanceNext
-----------------------------------------------------------------------------
LEMMA StepKeeps ==
  ASSUME Migrated, Flagged, [Next]_startupVars
  PROVE  Migrated' /\ Flagged' /\ \A i \in Readers : Quiet(i)
<1>0. \A i \in Readers : provider[i].flags \in Int
  BY DEF Flagged, F!FlagsTypeOK
<1>1. ASSUME UNCHANGED migrationVars PROVE Migrated'
  BY <1>1 DEF migrationVars, Migrated, MigrationTypeOK, Alone, Records, RecordedInEffect,
              Tracked, Adopted, Doing, Working, Busy
<1>2. ASSUME UNCHANGED <<life, revision, provider>>
      PROVE  Flagged' /\ \A i \in Readers : Quiet(i)
  BY <1>0, <1>2 DEF Flagged, Provided, Quiet, F!FlagsTypeOK
<1>3. CASE MigrationNext /\ UNCHANGED <<life, revision, provider>>
  BY <1>2, <1>3, MigratedNext
<1>4. ASSUME NEW i \in Instances, InstanceNext(i)
      PROVE  Migrated' /\ Flagged' /\ \A j \in Readers : Quiet(j)
  <2>1. CASE Wire(i) \/ Listen(i)
    BY <1>1, <1>4, <2>1, InstanceKeeps DEF Wire, Listen
  <2>2. CASE Crash(i)
    <3>1. i \in Procs /\ lock' \in Procs \cup {NoProc}
      BY <2>2 DEF Crash, Procs, Migrated, MigrationTypeOK
    <3>2. Migrated'
      BY <2>2, <3>1, FailureKeeps DEF Crash, Finish
    <3> QED
      BY <1>4, <3>2, InstanceKeeps
  <2> QED
    BY <1>4, <2>1, <2>2 DEF InstanceNext
<1>5. CASE F!FlagsNext /\ UNCHANGED <<migrationVars, life>>
  BY <1>1, <1>5, FlagsKeep
<1>6. CASE UNCHANGED startupVars
  BY <1>1, <1>2, <1>6 DEF startupVars, migrationVars
<1> QED
  BY <1>3, <1>4, <1>5, <1>6 DEF Next

LEMMA StartupAlways == Spec => [](Migrated /\ Flagged)
<1>1. Init => Migrated /\ Flagged
  <2> SUFFICES ASSUME Init PROVE Flagged
    BY MigratedInit DEF Init
  <2>1. revision = 1 /\ provider = [i \in Readers |-> F!NoProvider]
    BY DEF Init, F!FlagsInit
  <2>2. provider \in [Readers -> Providers] /\ revision \in 1 .. MaxRevision
    BY <2>1, FixedProviders, RevisionAssumption
  <2>3. \A i \in Readers : Provided(i)
    BY <2>1, FixedProviders DEF Provided
  <2> QED
    BY <2>2, <2>3 DEF Init, Flagged, F!FlagsTypeOK, Providers
<1>2. Migrated /\ Flagged /\ [Next]_startupVars => (Migrated /\ Flagged)'
  BY StepKeeps
<1> QED
  BY <1>1, <1>2, PTL DEF Spec

\* Every variable of the start-up keeps its type: main and the runner leave no process
\* without a command or with a version that is not embedded.
THEOREM StartupTypeCorrect == Spec => []TypeOK
<1>1. Migrated /\ Flagged => TypeOK
  BY DEF Migrated, Flagged, TypeOK
<1> QED
  BY <1>1, StartupAlways, PTL

\* What goose records is in effect, for any number of instances and operators that adopt
\* a legacy schema, migrate, roll back or die between two statements.
THEOREM RecordsHold == Spec => []RecordedInEffect
<1>1. Migrated => RecordedInEffect
  BY DEF Migrated, Records
<1> QED
  BY <1>1, StartupAlways, PTL

\* goose never runs the SQL of a version that adoptLegacy has to record: every entry point
\* adopts first, and a rollback runs alone.
THEOREM LegacyRecordedFirst == Spec => []LegacyNotRerun
<1>1. ASSUME Migrated, NEW p \in Procs, proc[p].pc = "apply"
      PROVE  Lowest(proc[p].todo) \notin legacy.names \ undone
  <2>1. /\ proc[p].todo \in SUBSET Versions /\ proc[p].todo # {}
        /\ proc[p].todo \cap Adopted = {}
    BY <1>1, Situation DEF Processes, Working
  <2> QED
    BY <2>1, LowestInside DEF Adopted
<1>2. Migrated => LegacyNotRerun
  BY <1>1 DEF LegacyNotRerun
<1> QED
  BY <1>2, StartupAlways, PTL

\* Only goose ends an `up` well: adoption goes on to list the pending versions.
LEMMA UpEnds ==
  ASSUME Migrated, Next, NEW p \in Procs,
         proc[p].cmd = "up", proc[p].pc # "done", proc'[p].pc = "done"
  PROVE  ListPending(p) \/ ApplyNext(p)
<1>1. proc \in Processes /\ \A q \in Procs : Doing(q)
  BY Situation DEF Migrated
<1>2. ASSUME NEW i \in Instances, InstanceNext(i) PROVE FALSE
  BY <1>1, <1>2 DEF InstanceNext, Wire, Listen, Crash, migrationVars, Idle, Processes
<1>3. PICK q \in Procs : \/ Boot(q) \/ (\E c \in {"up", "down", "status"} : runMigrate(q, c))
                         \/ Work(q) \/ Abort(q)
  BY <1>2 DEF Next, MigrationNext, migrationVars
<1>4. ASSUME Boot(q) \/ Abort(q) \/ \E c \in {"up", "down", "status"} : runMigrate(q, c)
      PROVE  FALSE
  BY <1>1, <1>4 DEF Boot, runMigrate, Abort, Launch, Finish, Idle, Processes
<1>5. ASSUME CommitAdoption(q) PROVE FALSE
  BY <1>1, <1>5 DEF CommitAdoption, AfterAdoption, Idle, Processes
<1>6. ASSUME LockAdoption(q) \/ InspectGoose(q) \/ ReadLegacy(q) \/ CheckUsers(q) PROVE FALSE
  BY <1>1, <1>5, <1>6 DEF LockAdoption, InspectGoose, ReadLegacy, CheckUsers, Goto, Processes
<1>7. ASSUME RecordAdopted(q) PROVE FALSE
  BY <1>1, <1>5, <1>7 DEF RecordAdopted, Finish, Idle, Processes
<1>8. ASSUME ReadCurrent(q) \/ UndoLast(q) PROVE FALSE
  <2>1. p # q
    BY <1>1, <1>8 DEF ReadCurrent, UndoLast, Doing
  <2> QED
    BY <1>1, <1>8, <2>1 DEF ReadCurrent, UndoLast, Finish, Processes
<1>9. ASSUME Report(q) PROVE FALSE
  BY <1>1, <1>9 DEF Report, Processes
<1>10. ASSUME ListPending(q) \/ ApplyNext(q) PROVE p = q
  BY <1>1, <1>10 DEF ListPending, ApplyNext, Finish, Processes
<1> QED
  BY <1>3, <1>4, <1>6, <1>7, <1>8, <1>9, <1>10 DEF Work

\* An `up` that reports success leaves every embedded version recorded and in effect,
\* although the list of pending versions it works from may be out of date.
THEOREM UpCompletes == Spec => UpIsComplete
<1>1. ASSUME Migrated, Flagged, Next, NEW p \in Procs, Tracked,
             proc[p].cmd = "up", proc[p].pc # "done", proc'[p].pc = "done"
      PROVE  goose'.applied = Versions /\ schema' = Versions
  <2>1. Migrated'
    BY <1>1, StepKeeps
  <2>2. ListPending(p) \/ ApplyNext(p)
    BY <1>1, UpEnds
  <2>3. UNCHANGED <<legacy, undone>> /\ proc \in Processes /\ Working(p)
        /\ goose \in [exists : BOOLEAN, applied : SUBSET Versions]
    BY <1>1, <2>2, Situation DEF ListPending, ApplyNext
  <2>4. goose'.applied = Versions
    <3>1. CASE ListPending(p)
      <4>1. Pending = {}
        BY <1>1, <2>3, <3>1 DEF ListPending, Finish, Idle, Processes
      <4>2. goose'.applied = goose.applied
        BY <2>3, <3>1 DEF ListPending
      <4> QED
        BY <2>3, <4>1, <4>2 DEF Pending
    <3>2. CASE ApplyNext(p)
      <4>1. /\ proc[p].todo = {Lowest(proc[p].todo)}
            /\ goose' = [goose EXCEPT !.applied = @ \cup {Lowest(proc[p].todo)}]
        BY <1>1, <2>3, <3>2 DEF ApplyNext, Finish, Idle, Processes
      <4>2. Versions \ proc[p].todo \subseteq goose.applied /\ goose.applied \subseteq Versions
        BY <2>3, <3>2 DEF ApplyNext, Working
      <4>3. goose'.applied = goose.applied \cup proc[p].todo /\ proc[p].todo \subseteq Versions
        BY <2>3, <4>1 DEF Processes
      <4> QED
        BY <4>2, <4>3
    <3> QED
      BY <2>2, <3>1, <3>2
  <2> QED
    BY <1>1, <2>1, <2>3, <2>4 DEF Migrated, MigrationTypeOK, Records, RecordedInEffect, Tracked
<1>2. Migrated /\ Flagged /\ [Next]_startupVars
        => [\A p \in Procs :
              Tracked /\ proc[p].cmd = "up" /\ proc[p].pc # "done" /\ proc'[p].pc = "done"
                => goose'.applied = Versions /\ schema' = Versions]_startupVars
  BY <1>1
<1> QED
  BY <1>2, StartupAlways, PTL DEF Spec, UpIsComplete

\* No fetch, failure or restart of the loop takes a provider's map back.
THEOREM FlagsMonotone == Spec => FlagsNeverGoBack
<1>1. Migrated /\ Flagged /\ [Next]_startupVars
        => [\A i \in Readers : provider'[i].pc # "off"
                                 => provider'[i].flags >= provider[i].flags]_startupVars
  BY StepKeeps DEF Quiet
<1> QED
  BY <1>1, StartupAlways, PTL DEF Spec, FlagsNeverGoBack

\* Once Shutdown has returned the loop is closed, and nothing replaces the map.
THEOREM ShutdownQuiet == Spec => QuietAfterShutdown
<1>1. Migrated /\ Flagged /\ [Next]_startupVars
        => [\A i \in Readers : provider[i].shutdown = "returned" /\ provider'[i].pc # "off"
                                 => provider'[i].flags = provider[i].flags]_startupVars
  BY StepKeeps DEF Quiet
<1> QED
  BY <1>1, StartupAlways, PTL DEF Spec, QuietAfterShutdown
=============================================================================
