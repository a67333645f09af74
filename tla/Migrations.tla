----------------------------- MODULE Migrations -----------------------------
(***************************************************************************)
(* The migration runner: internal/infrastructure/postgres/migrations and   *)
(* the commands of cmd/auth/main.go that call it.  Several instances of    *)
(* the service migrate at start-up while operators run the migrate         *)
(* subcommand.  Every process takes one step per SQL statement or          *)
(* transaction that another process can see.                               *)
(*                                                                         *)
(* The versions are the nine embedded files.  What goose does inside       *)
(* Provider.Up, Down and Status is external and modelled from how the      *)
(* code uses it: the provider is built without a session locker, so two    *)
(* processes may both find the same version pending.                       *)
(***************************************************************************)
EXTENDS Integers, FiniteSets

CONSTANTS Instances,    \* replicas of the service, each migrating on start
          Operators,    \* people running `auth migrate ...`
          MaxCommands,  \* bound on the operators' commands
          MaxFaults,    \* bound on crashes and failed statements
          NoProc        \* the advisory lock is free

ASSUME BoundsAssumption == MaxCommands \in Nat /\ MaxFaults \in Nat

VARIABLES
  schema,    \* the versions whose SQL is in effect
  goose,     \* goose_db_version: does it exist, which versions are applied
  legacy,    \* schema_migrations: does it exist, which versions it names
  lock,      \* holder of the advisory lock of adoptLegacy
  proc,      \* the migration process of every instance and operator
  commands,  \* operator commands so far
  faults,    \* crashes and failed statements so far
  undone     \* history: the versions a rollback has removed

migrationVars == <<schema, goose, legacy, lock, proc, commands, faults, undone>>

Procs == Instances \cup Operators

(***************************************************************************)
(* The embedded files.  002 renames a column and 008 creates its table     *)
(* unconditionally: running them again fails, every other Up section is    *)
(* guarded by IF NOT EXISTS or ON CONFLICT.  Needs are the versions whose  *)
(* tables the Up section mentions; Undoable says whether the Down section  *)
(* finds the tables it alters or drops, and no table still refers to one   *)
(* it drops.                                                               *)
(***************************************************************************)
Versions == 1 .. 9

RunsOnce == {2, 8}

Needs == [v \in Versions |->
            CASE v \in {1, 8, 9}    -> {}
              [] v \in {2, 3, 4, 5} -> {1}
              [] v = 6              -> {1, 4}
              [] v = 7              -> {1}]

UpSucceeds(v) == Needs[v] \subseteq schema /\ ~ (v \in RunsOnce /\ v \in schema)

Undoable(v) ==
  /\ v \in {2, 3, 5, 7} => 1 \in schema
  /\ v \in {2, 8, 9} => v \in schema
  /\ v = 1 => schema \cap {3, 4, 6} = {}
  /\ v = 4 => 6 \notin schema

Pcs == {"idle", "lock", "inspect", "legacy", "users", "adopt",
        "list", "apply", "current", "undo", "report", "done", "failed"}

Idle == [cmd |-> "none", pc |-> "idle", seen |-> FALSE, names |-> {}, todo |-> {}]

MigrationTypeOK ==
  /\ schema \subseteq Versions
  /\ goose \in [exists : BOOLEAN, applied : SUBSET Versions]
  /\ legacy \in [exists : BOOLEAN, names : SUBSET Versions]
  /\ lock \in Procs \cup {NoProc}
  /\ proc \in [Procs -> [cmd : {"none", "up", "down", "status", "version"}, pc : Pcs,
                         seen : BOOLEAN, names : SUBSET Versions,
                         todo : SUBSET Versions]]
  /\ commands \in 0 .. MaxCommands
  /\ faults \in 0 .. MaxFaults
  /\ undone \subseteq Versions

(***************************************************************************)
(* The databases a release may meet: an empty one, one goose has brought   *)
(* to some version, one the hand-written runner has brought to version 1,  *)
(* 2 or 3, and one whose schema_migrations is empty, because that runner   *)
(* died before its first file or because somebody else made the schema.    *)
(***************************************************************************)
Prefixes == {1 .. n : n \in 0 .. 9}

MigrationInit ==
  /\ \/ /\ schema \in Prefixes
        /\ goose \in [exists : BOOLEAN, applied : {schema}]
        /\ goose.exists \/ schema = {}
        /\ legacy = [exists |-> FALSE, names |-> {}]
     \/ /\ schema \in {1 .. n : n \in 1 .. 3}
        /\ goose \in [exists : BOOLEAN, applied : {{}}]
        /\ legacy = [exists |-> TRUE, names |-> schema]
     \/ /\ schema \in {{}, Versions}
        /\ goose \in [exists : BOOLEAN, applied : {{}}]
        /\ legacy = [exists |-> TRUE, names |-> {}]
  /\ lock = NoProc
  /\ proc = [p \in Procs |-> Idle]
  /\ commands = 0
  /\ faults = 0
  /\ undone = {}
-----------------------------------------------------------------------------
(***************************************************************************)
(* Starting a process.  main migrates with `up` before it opens the pool;  *)
(* an instance that failed is started again.  runMigrate runs one command. *)
(* A rollback is run on its own, as docs/migrations.md presents it: nobody *)
(* else is migrating when it starts and nobody starts before it ends.      *)
(***************************************************************************)
Busy(p) == proc[p].pc \notin {"idle", "done", "failed"}

RollingBack == \E p \in Operators : Busy(p) /\ proc[p].cmd = "down"

Launch(p, c) == proc' = [proc EXCEPT ![p] = [Idle EXCEPT !.cmd = c, !.pc = "lock"]]

Boot(p) ==
  /\ p \in Instances
  /\ proc[p].pc \in {"idle", "failed"}
  /\ ~ RollingBack
  /\ Launch(p, "up")
  /\ UNCHANGED <<schema, goose, legacy, lock, commands, faults, undone>>

runMigrate(p, c) ==
  /\ p \in Operators
  /\ ~ Busy(p)
  /\ commands < MaxCommands
  /\ ~ RollingBack
  /\ c = "down" => \A q \in Procs : ~ Busy(q)
  /\ Launch(p, c)
  /\ commands' = commands + 1
  /\ UNCHANGED <<schema, goose, legacy, lock, faults, undone>>
-----------------------------------------------------------------------------
(***************************************************************************)
(* adoptLegacy: one transaction under an advisory lock, run by every       *)
(* command before it calls goose.                                          *)
(***************************************************************************)
\* Where a command goes once adoption has committed.
AfterAdoption(c) == CASE c = "up"      -> "list"
                      [] c = "down"    -> "current"
                      [] c = "status"  -> "report"
                      [] c = "version" -> "done"

Goto(p, pc) == proc' = [proc EXCEPT ![p].pc = pc]

\* The command returns: nil, or an error on which main exits.
Finish(p, pc) == proc' = [proc EXCEPT ![p] = [Idle EXCEPT !.pc = pc]]

\* The bug of a lock that outlives the transaction.
CommitAdoptionKeepsLock(p) ==
  LET c == proc[p].cmd IN
  /\ proc' = [proc EXCEPT ![p] = [Idle EXCEPT !.cmd = IF c = "version" THEN "none" ELSE c,
                                              !.pc = AfterAdoption(c)]]
  /\ UNCHANGED lock

\* tx.Commit: the advisory lock and the locals go with the transaction.
CommitAdoption(p) ==
  LET c == proc[p].cmd IN
  /\ proc' = [proc EXCEPT ![p] = [Idle EXCEPT !.cmd = IF c = "version" THEN "none" ELSE c,
                                              !.pc = AfterAdoption(c)]]
  /\ lock' = NoProc

LockAdoption(p) ==
  /\ proc[p].pc = "lock"
  /\ lock = NoProc
  /\ lock' = p
  /\ Goto(p, "inspect")
  /\ UNCHANGED <<schema, goose, legacy, commands, faults, undone>>

\* The bug of trusting the mere existence of the version table.
InspectGooseByTable(p) ==
  /\ proc[p].pc = "inspect"
  /\ \/ goose.exists /\ CommitAdoption(p)
     \/ /\ ~ goose.exists
        /\ proc' = [proc EXCEPT ![p].pc = "legacy", ![p].seen = goose.exists]
        /\ UNCHANGED lock
  /\ UNCHANGED <<schema, goose, legacy, commands, faults, undone>>

\* An applied version means a goose database, or that adoption already ran.
InspectGoose(p) ==
  /\ proc[p].pc = "inspect"
  /\ \/ /\ goose.exists /\ goose.applied # {}
        /\ CommitAdoption(p)
     \/ /\ ~ (goose.exists /\ goose.applied # {})
        /\ proc' = [proc EXCEPT ![p].pc = "legacy", ![p].seen = goose.exists]
        /\ UNCHANGED lock
  /\ UNCHANGED <<schema, goose, legacy, commands, faults, undone>>

ReadLegacy(p) ==
  /\ proc[p].pc = "legacy"
  /\ \/ ~ legacy.exists /\ CommitAdoption(p)
     \/ /\ legacy.exists
        /\ proc' = [proc EXCEPT ![p].names = legacy.names,
                                ![p].pc = IF legacy.names = {} THEN "users" ELSE "adopt"]
        /\ UNCHANGED lock
  /\ UNCHANGED <<schema, goose, legacy, commands, faults, undone>>

\* schema_migrations is empty: a users table (migration 001) means that every
\* embedded version is to be recorded.
CheckUsers(p) ==
  /\ proc[p].pc = "users"
  /\ \/ 1 \notin schema /\ CommitAdoption(p)
     \/ /\ 1 \in schema
        /\ proc' = [proc EXCEPT ![p].names = Versions, ![p].pc = "adopt"]
        /\ UNCHANGED lock
  /\ UNCHANGED <<schema, goose, legacy, commands, faults, undone>>

\* The bug of recording every embedded version, whatever the legacy table names.
RecordAllAdopted(p) ==
  /\ proc[p].pc = "adopt"
  /\ goose' = [exists |-> TRUE, applied |-> Versions]
  /\ CommitAdoption(p)
  /\ UNCHANGED <<schema, legacy, commands, faults, undone>>

\* CREATE TABLE fails when another process has created the version table since
\* it was looked up; insertVersion skips what is already recorded.
RecordAdopted(p) ==
  /\ proc[p].pc = "adopt"
  /\ \/ /\ ~ (~ proc[p].seen /\ goose.exists)
        /\ goose' = [exists |-> TRUE, applied |-> goose.applied \cup proc[p].names]
        /\ CommitAdoption(p)
     \/ /\ ~ proc[p].seen /\ goose.exists
        /\ Finish(p, "failed") /\ lock' = NoProc
        /\ UNCHANGED goose
  /\ UNCHANGED <<schema, legacy, commands, faults, undone>>
-----------------------------------------------------------------------------
(***************************************************************************)
(* goose (external).  Up lists the pending versions once and runs them in  *)
(* order, each in a transaction with the row that records it; a version    *)
(* missing below an applied one is refused.  Down rolls the highest        *)
(* applied version back.  Each of them creates the version table.          *)
(***************************************************************************)
Pending == Versions \ goose.applied

OutOfOrder == \E v \in Pending : \E w \in goose.applied : v < w

ListPending(p) ==
  /\ proc[p].pc = "list"
  /\ goose' = [goose EXCEPT !.exists = TRUE]
  /\ IF OutOfOrder \/ Pending = {}
     THEN Finish(p, IF OutOfOrder THEN "failed" ELSE "done")
     ELSE proc' = [proc EXCEPT ![p].todo = Pending, ![p].pc = "apply"]
  /\ UNCHANGED <<schema, legacy, lock, commands, faults, undone>>

Lowest(S) == CHOOSE v \in S : \A w \in S : v <= w
Highest(S) == CHOOSE v \in S : \A w \in S : w <= v

\* The bug of taking a failed migration for one that another process has run.
ApplyNextTolerant(p) ==
  /\ proc[p].pc = "apply"
  /\ LET v == Lowest(proc[p].todo) IN
       /\ schema' = IF UpSucceeds(v) THEN schema \cup {v} ELSE schema
       /\ goose' = [goose EXCEPT !.applied = IF UpSucceeds(v) THEN @ \cup {v} ELSE @]
       /\ IF proc[p].todo = {v} \/ ~ UpSucceeds(v)
          THEN Finish(p, "done")
          ELSE proc' = [proc EXCEPT ![p].todo = @ \ {v}]
  /\ UNCHANGED <<legacy, lock, commands, faults, undone>>

\* runMigrations: the next pending version, re-read by nobody.
ApplyNext(p) ==
  /\ proc[p].pc = "apply"
  /\ LET v == Lowest(proc[p].todo) IN
       \/ /\ UpSucceeds(v)
          /\ schema' = schema \cup {v}
          /\ goose' = [goose EXCEPT !.applied = @ \cup {v}]
          /\ IF proc[p].todo = {v} THEN Finish(p, "done")
                                   ELSE proc' = [proc EXCEPT ![p].todo = @ \ {v}]
       \/ /\ ~ UpSucceeds(v)
          /\ Finish(p, "failed")
          /\ UNCHANGED <<schema, goose>>
  /\ UNCHANGED <<legacy, lock, commands, faults, undone>>

ReadCurrent(p) ==
  /\ proc[p].pc = "current"
  /\ goose' = [goose EXCEPT !.exists = TRUE]
  /\ IF goose.applied = {}
     THEN Finish(p, "failed")
     ELSE proc' = [proc EXCEPT ![p].pc = "undo", ![p].todo = {Highest(goose.applied)}]
  /\ UNCHANGED <<schema, legacy, lock, commands, faults, undone>>

\* The bug of recording the version below the one that was removed.
UndoLastRecordsBelow(p) ==
  /\ proc[p].pc = "undo"
  /\ LET v == Lowest(proc[p].todo) IN
       /\ Undoable(v)
       /\ schema' = schema \ {v}
       /\ goose' = [goose EXCEPT !.applied = (@ \ {v}) \cup {v - 1}]
       /\ undone' = undone \cup {v}
       /\ Finish(p, "done")
  /\ UNCHANGED <<legacy, lock, commands, faults>>

UndoLast(p) ==
  /\ proc[p].pc = "undo"
  /\ LET v == Lowest(proc[p].todo) IN
       \/ /\ Undoable(v)
          /\ schema' = schema \ {v}
          /\ goose' = [goose EXCEPT !.applied = @ \ {v}]
          /\ undone' = undone \cup {v}
          /\ Finish(p, "done")
       \/ /\ ~ Undoable(v)
          /\ Finish(p, "failed")
          /\ UNCHANGED <<schema, goose, undone>>
  /\ UNCHANGED <<legacy, lock, commands, faults>>

\* migrateStatus: Status, then Version, which looks for a legacy schema again.
Report(p) ==
  /\ proc[p].pc = "report"
  /\ goose' = [goose EXCEPT !.exists = TRUE]
  /\ proc' = [proc EXCEPT ![p].cmd = "version", ![p].pc = "lock"]
  /\ UNCHANGED <<schema, legacy, lock, commands, faults, undone>>

\* A statement fails or the process dies: the open transaction is rolled back.
Abort(p) ==
  /\ Busy(p)
  /\ faults < MaxFaults
  /\ Finish(p, "failed")
  /\ lock' = IF lock = p THEN NoProc ELSE lock
  /\ faults' = faults + 1
  /\ UNCHANGED <<schema, goose, legacy, commands, undone>>

\* The steps a running process takes by itself.
Work(p) ==
  \/ LockAdoption(p) \/ InspectGoose(p) \/ ReadLegacy(p) \/ CheckUsers(p)
  \/ RecordAdopted(p) \/ ListPending(p) \/ ApplyNext(p) \/ ReadCurrent(p)
  \/ UndoLast(p) \/ Report(p)

MigrationNext ==
  \E p \in Procs :
    \/ Boot(p)
    \/ \E c \in {"up", "down", "status"} : runMigrate(p, c)
    \/ Work(p)
    \/ Abort(p)

MigrationSpec == MigrationInit /\ [][MigrationNext]_migrationVars
=============================================================================
