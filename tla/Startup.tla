------------------------------- MODULE Startup -------------------------------
(***************************************************************************)
(* How an instance of the service comes up (main in cmd/auth/main.go): it  *)
(* migrates the database, registers the feature-flag provider, whose first *)
(* fetch runs in a goroutine, and only later listens on the HTTP port the  *)
(* provider fetches from.  The composition of Migrations and Flags: the    *)
(* flag table is what migration 009 creates.                               *)
(***************************************************************************)
EXTENDS Migrations

CONSTANTS Readers, MaxRevision

VARIABLES
  life,      \* how far main has come: down, wired, serving
  revision,  \* of the flag table
  provider   \* the flag provider of every reader

F == INSTANCE Flags WITH listening <- {i \in Instances : life[i] = "serving"},
                         table <- 9 \in schema

startupVars == <<schema, goose, legacy, lock, proc, commands, faults, undone,
                 life, revision, provider>>

ASSUME ReadersAssumption == Readers \subseteq Instances
ASSUME RevisionAssumption == MaxRevision \in Nat \ {0}

TypeOK ==
  /\ MigrationTypeOK
  /\ F!FlagsTypeOK
  /\ life \in [Instances -> {"down", "wired", "serving"}]

Init ==
  /\ MigrationInit
  /\ F!FlagsInit
  /\ life = [i \in Instances |-> "down"]
-----------------------------------------------------------------------------
\* NewFromEnv: the provider is registered, the SDK initialises it on its own.
Wire(i) ==
  /\ life[i] = "down"
  /\ proc[i].pc = "done"
  /\ life' = [life EXCEPT ![i] = "wired"]
  /\ provider' = IF i \in Readers THEN [provider EXCEPT ![i] = F!NewProvider]
                                  ELSE provider
  /\ UNCHANGED <<migrationVars, revision>>

\* The HTTP server's goroutine starts to listen.
Listen(i) ==
  /\ life[i] = "wired"
  /\ life' = [life EXCEPT ![i] = "serving"]
  /\ UNCHANGED <<migrationVars, revision, provider>>

\* The process dies after its migration, or exits because main cannot connect,
\* sign, seed or listen.
Crash(i) ==
  /\ life[i] # "down" \/ proc[i].pc = "done"
  /\ faults < MaxFaults
  /\ faults' = faults + 1
  /\ life' = [life EXCEPT ![i] = "down"]
  /\ proc' = [proc EXCEPT ![i] = [Idle EXCEPT !.pc = "failed"]]
  /\ provider' = IF i \in Readers THEN [provider EXCEPT ![i] = F!NoProvider]
                                  ELSE provider
  /\ UNCHANGED <<schema, goose, legacy, lock, commands, undone, revision>>

InstanceNext(i) == Wire(i) \/ Listen(i) \/ Crash(i)

Next ==
  \/ MigrationNext /\ UNCHANGED <<life, revision, provider>>
  \/ \E i \in Instances : InstanceNext(i)
  \/ F!FlagsNext /\ UNCHANGED <<migrationVars, life>>

Spec == Init /\ [][Next]_startupVars

(***************************************************************************)
(* The processes run, and an instance that exited is started again.        *)
(***************************************************************************)
Fairness ==
  /\ \A p \in Procs : WF_migrationVars(Work(p))
  /\ \A i \in Instances : /\ WF_migrationVars(Boot(i))
                          /\ WF_startupVars(Wire(i))
                          /\ WF_startupVars(Listen(i))
  /\ \A i \in Readers : F!ProviderFairness(i)

FairSpec == Spec /\ Fairness
-----------------------------------------------------------------------------
(***************************************************************************)
(* A database whose records can be trusted: no rollback has removed the    *)
(* first version, and schema_migrations is not there or names versions.    *)
(***************************************************************************)
Tracked == 1 \notin undone /\ (legacy.exists => legacy.names # {})

\* What goose records as applied is in effect, also while several processes
\* adopt a legacy schema, migrate, roll back or die between two statements.
RecordedInEffect == Tracked => goose.applied \subseteq schema

\* A process whose `up` ends well leaves every embedded version recorded and in
\* effect, although another process may have run half of them.
UpIsComplete ==
  [][\A p \in Procs :
       Tracked /\ proc[p].cmd = "up" /\ proc[p].pc # "done" /\ proc'[p].pc = "done"
         => goose'.applied = Versions /\ schema' = Versions]_startupVars

\* The SQL of a version that schema_migrations names is never run again, unless
\* a rollback has removed the version: adoptLegacy comes before goose on every
\* entry point.
LegacyNotRerun ==
  \A p \in Procs :
    proc[p].pc = "apply" => Lowest(proc[p].todo) \notin legacy.names \ undone

\* Every instance comes to serve in the end: one that lost the race for a
\* version that cannot be run twice exits and finds nothing pending next time.
InstancesServe == \A i \in Instances : <>[](life[i] = "serving" \/ ~ Tracked)

\* A provider's map never goes back to an earlier document nor to the empty
\* map, whatever fetches fail (while its process lives).
FlagsNeverGoBack ==
  [][\A i \in Readers :
       provider'[i].pc # "off" => provider'[i].flags >= provider[i].flags]_startupVars

\* Once a Shutdown that found the refresh loop has returned, nothing replaces
\* the map any more.
QuietAfterShutdown ==
  [][\A i \in Readers :
       provider[i].shutdown = "returned" /\ provider'[i].pc # "off"
         => provider'[i].flags = provider[i].flags]_startupVars

\* Shutdown does not wait for ever on a loop that is inside a request or that
\* Init has still to start.
ShutdownEnds ==
  \A i \in Readers :
    provider[i].shutdown = "called" ~> provider[i].shutdown # "called"

\* The copy catches up with the flag table once the table rests: the first
\* fetch, which the instance's own HTTP server may be too late to answer, is not
\* the last.
FlagsCatchUp ==
  \A i \in Readers :
    <>[](\/ provider[i].flags = revision
         \/ provider[i].shutdown \notin {"no", "noop"}
         \/ ~ Tracked \/ 9 \notin schema)

\* docs/migrations.md calls the adoption of schema_migrations one-time: once a
\* version that it brought in has been rolled back, adoption records nothing.
AdoptionIsOneTime ==
  [][\A p \in Procs : proc[p].pc = "adopt" /\ undone # {}
                        => goose'.applied = goose.applied]_startupVars
=============================================================================
