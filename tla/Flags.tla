-------------------------------- MODULE Flags --------------------------------
(***************************************************************************)
(* Platform feature flags: the PlatformProvider of                         *)
(* internal/infrastructure/featureflags, which copies the flag document    *)
(* that the instance itself serves on GET /v1/flags (httpapi, application  *)
(* and postgres/flags.go).                                                 *)
(*                                                                         *)
(* A flag document is its revision: how often the table had changed when   *)
(* it was read.  Revision 0 stands for the empty map a provider starts     *)
(* with, on which every evaluation returns the caller's default.           *)
(***************************************************************************)
EXTENDS Integers

CONSTANTS Readers,     \* instances whose FLAGS_URL is not "off" or "disabled"
          MaxRevision  \* bound on the changes of the flag table

VARIABLES
  listening,  \* the instances whose HTTP server is up
  table,      \* does feature_flags exist
  revision,   \* of the flag table
  provider    \* the provider of every reader

flagVars == <<revision, provider>>

(***************************************************************************)
(* pc: off (no process), registered (SetProvider called, Init still to     *)
(* run), sending (inside refresh), answered (the response is in hand),     *)
(* waiting (refreshLoop at its select), closed (refreshLoop returned).     *)
(* shutdown: has Shutdown been called, did it find a loop to stop, has it  *)
(* returned.                                                               *)
(***************************************************************************)
NewProvider == [pc |-> "registered", flags |-> 0, answer |-> 0,
                cancelled |-> FALSE, shutdown |-> "no"]

NoProvider == [NewProvider EXCEPT !.pc = "off"]

FlagsTypeOK ==
  /\ revision \in 1 .. MaxRevision
  /\ provider \in [Readers ->
       [pc : {"off", "registered", "sending", "answered", "waiting", "closed"},
        flags : 0 .. MaxRevision, answer : 0 .. MaxRevision, cancelled : BOOLEAN,
        shutdown : {"no", "noop", "called", "returned"}]]

FlagsInit == revision = 1 /\ provider = [i \in Readers |-> NoProvider]

\* Somebody changes a flag.
SetFlag ==
  /\ table
  /\ revision < MaxRevision
  /\ revision' = revision + 1
  /\ UNCHANGED provider
-----------------------------------------------------------------------------
\* Init: cancel and done are in place, the first refresh begins.
InitProvider(i) ==
  /\ provider[i].pc = "registered"
  /\ provider' = [provider EXCEPT ![i].pc = "sending"]
  /\ UNCHANGED revision

\* The server's side of a refresh: listFlags and ListFeatureFlags read the table.
ServeFlags(i) ==
  /\ provider[i].pc = "sending"
  /\ i \in listening /\ table /\ ~ provider[i].cancelled
  /\ provider' = [provider EXCEPT ![i].pc = "answered", ![i].answer = revision]
  /\ UNCHANGED revision

\* The bug of falling back to an empty map when a fetch fails.
RefreshFailsEmpty(i) ==
  /\ provider[i].pc \in {"sending", "answered"}
  /\ provider' = [provider EXCEPT ![i].pc = "waiting", ![i].answer = 0, ![i].flags = 0]
  /\ UNCHANGED revision

\* refresh returns an error: the server is not up yet, answers 503, times out
\* or is cut off, or the context is cancelled.  The map stays as it is.
RefreshFails(i) ==
  /\ provider[i].pc \in {"sending", "answered"}
  /\ provider' = [provider EXCEPT ![i].pc = "waiting", ![i].answer = 0]
  /\ UNCHANGED revision

\* refresh decodes the document and replaces the map.
ReplaceFlags(i) ==
  /\ provider[i].pc = "answered"
  /\ provider' = [provider EXCEPT ![i].pc = "waiting", ![i].answer = 0,
                                  ![i].flags = provider[i].answer]
  /\ UNCHANGED revision

\* The bug of a loop that ends at its first tick.
TickEnds(i) ==
  /\ provider[i].pc = "waiting"
  /\ provider' = [provider EXCEPT ![i].pc = "closed"]
  /\ UNCHANGED revision

\* The ticker fires.  The select may take it although the context is cancelled.
Tick(i) ==
  /\ provider[i].pc = "waiting"
  /\ provider' = [provider EXCEPT ![i].pc = "sending"]
  /\ UNCHANGED revision

\* The select takes ctx.Done: the loop closes done and returns.
LeaveLoop(i) ==
  /\ provider[i].pc = "waiting"
  /\ provider[i].cancelled
  /\ provider' = [provider EXCEPT ![i].pc = "closed"]
  /\ UNCHANGED revision

\* The bug of waiting for a loop that nobody cancels.
ShutdownWithoutCancel(i) ==
  /\ provider[i].pc # "off"
  /\ provider[i].shutdown = "no"
  /\ provider' = [provider EXCEPT ![i].shutdown =
                    IF provider[i].pc = "registered" THEN "noop" ELSE "called"]
  /\ UNCHANGED revision

\* Shutdown takes cancel and done, which Init may not have set yet.
Shutdown(i) ==
  /\ provider[i].pc # "off"
  /\ provider[i].shutdown = "no"
  /\ provider' = IF provider[i].pc = "registered"
                 THEN [provider EXCEPT ![i].shutdown = "noop"]
                 ELSE [provider EXCEPT ![i].shutdown = "called", ![i].cancelled = TRUE]
  /\ UNCHANGED revision

\* The bug of not waiting for the loop.
ShutdownReturnsEarly(i) ==
  /\ provider[i].shutdown = "called"
  /\ provider' = [provider EXCEPT ![i].shutdown = "returned"]
  /\ UNCHANGED revision

\* Shutdown has received from done.
ShutdownReturns(i) ==
  /\ provider[i].shutdown = "called"
  /\ provider[i].pc = "closed"
  /\ provider' = [provider EXCEPT ![i].shutdown = "returned"]
  /\ UNCHANGED revision

ProviderNext(i) ==
  \/ InitProvider(i) \/ ServeFlags(i) \/ RefreshFails(i) \/ ReplaceFlags(i)
  \/ Tick(i) \/ LeaveLoop(i) \/ Shutdown(i) \/ ShutdownReturns(i)

FlagsNext == SetFlag \/ \E i \in Readers : ProviderNext(i)

(***************************************************************************)
(* Goroutines run, the ticker fires, a select that may infinitely often    *)
(* take ctx.Done takes it, and a fetch that can infinitely often succeed   *)
(* does.                                                                   *)
(***************************************************************************)
ProviderFairness(i) ==
  /\ WF_flagVars(InitProvider(i))
  /\ WF_flagVars(RefreshFails(i) \/ ReplaceFlags(i))
  /\ WF_flagVars(Tick(i) \/ LeaveLoop(i))
  /\ WF_flagVars(ShutdownReturns(i))
  /\ SF_flagVars(ServeFlags(i))
  /\ SF_flagVars(ReplaceFlags(i))
  /\ SF_flagVars(LeaveLoop(i))
=============================================================================
