-------------------------------- MODULE Relay --------------------------------
(***************************************************************************)
(* The transactional outbox and the relay that empties it:                 *)
(* postgres/events.go writes the events of a change in the change's own    *)
(* transaction, and runEventRelay in cmd/auth/main.go, one goroutine per   *)
(* instance of the service, publishes the pending rows until the instance  *)
(* shuts down.                                                             *)
(*                                                                         *)
(* What outbox.Relay.RunOnce does is external and modelled from its use:   *)
(* it reads the pending rows, publishes each and marks it, and returns how *)
(* many it published or an error.  Rows are taken in any order, nothing    *)
(* keeps two relays from reading the same row, and a pass may fail at any  *)
(* point.                                                                  *)
(***************************************************************************)
EXTENDS Integers, FiniteSets

CONSTANTS Changes,     \* transactions that change a user or an organization
          Events,      \* lifecycle events (envelopes)
          EventsOf,    \* the events each change emits
          Instances,   \* replicas of the service
          MinBackoff,  \* minBackoff of runEventRelay
          MaxBackoff,  \* maxBackoff
          MaxStops     \* bound on crashes and shutdowns

ASSUME EventsAssumption ==
  /\ EventsOf \in [Changes -> SUBSET Events]
  /\ UNION {EventsOf[c] : c \in Changes} = Events
  /\ \A c, d \in Changes : c # d => EventsOf[c] \cap EventsOf[d] = {}

ASSUME BackoffAssumption ==
  MinBackoff \in Nat \ {0} /\ MaxBackoff \in Nat /\ MinBackoff <= MaxBackoff

ASSUME StopsAssumption == MaxStops \in Nat

VARIABLES
  tx,        \* the transaction of every change
  outbox,    \* outbox_events
  received,  \* the events the bus has accepted for the consumers
  life,      \* every instance: down, up, draining, closed (see Drain)
  hurried,   \* did the shutdown deadline pass before the relay was done
  relay,     \* the relay goroutine of every instance
  stops      \* crashes and shutdowns so far

vars == <<tx, outbox, received, life, hurried, relay, stops>>

(***************************************************************************)
(* The relay's pc: off (no process), run (about to call RunOnce), publish  *)
(* (inside RunOnce, batch read), mark (the bus has accepted `sent`, its    *)
(* published_at is not set yet), wait (at the select), done (returned).    *)
(***************************************************************************)
NoRelay == [pc |-> "off", batch |-> {}, sent |-> {}, backoff |-> MinBackoff]

TypeOK ==
  /\ tx \in [Changes -> [pc : {"new", "open", "committed", "aborted"},
                         staged : SUBSET Events]]
  /\ outbox \in [Events -> {"absent", "pending", "published"}]
  /\ received \subseteq Events
  /\ life \in [Instances -> {"down", "up", "draining", "closed"}]
  /\ hurried \in [Instances -> BOOLEAN]
  /\ relay \in [Instances -> [pc : {"off", "run", "publish", "mark", "wait", "done"},
                              batch : SUBSET Events, sent : SUBSET Events,
                              backoff : MinBackoff .. MaxBackoff]]
  /\ stops \in 0 .. MaxStops

Init ==
  /\ tx = [c \in Changes |-> [pc |-> "new", staged |-> {}]]
  /\ outbox = [e \in Events |-> "absent"]
  /\ received = {}
  /\ life = [i \in Instances |-> "down"]
  /\ hurried = [i \in Instances |-> FALSE]
  /\ relay = [i \in Instances |-> NoRelay]
  /\ stops = 0
-----------------------------------------------------------------------------
(***************************************************************************)
(* A change: its transaction emits its events one by one (emitEvents) and  *)
(* commits; an error of any statement rolls everything back.               *)
(***************************************************************************)
Begin(c) ==
  /\ tx[c].pc = "new"
  /\ tx' = [tx EXCEPT ![c].pc = "open"]
  /\ UNCHANGED <<outbox, received, life, hurried, relay, stops>>

Emit(c) ==
  /\ tx[c].pc = "open"
  /\ \E e \in EventsOf[c] \ tx[c].staged :
       tx' = [tx EXCEPT ![c].staged = @ \cup {e}]
  /\ UNCHANGED <<outbox, received, life, hurried, relay, stops>>

\* The bug of ignoring an event that could not be written.
CommitPartial(c) ==
  /\ tx[c].pc = "open"
  /\ tx' = [tx EXCEPT ![c].pc = "committed"]
  /\ outbox' = [e \in Events |-> IF e \in tx[c].staged THEN "pending" ELSE outbox[e]]
  /\ UNCHANGED <<received, life, hurried, relay, stops>>

Commit(c) ==
  /\ tx[c].pc = "open"
  /\ tx[c].staged = EventsOf[c]
  /\ tx' = [tx EXCEPT ![c].pc = "committed"]
  /\ outbox' = [e \in Events |-> IF e \in tx[c].staged THEN "pending" ELSE outbox[e]]
  /\ UNCHANGED <<received, life, hurried, relay, stops>>

Rollback(c) ==
  /\ tx[c].pc = "open"
  /\ tx' = [tx EXCEPT ![c] = [pc |-> "aborted", staged |-> {}]]
  /\ UNCHANGED <<outbox, received, life, hurried, relay, stops>>
-----------------------------------------------------------------------------
(***************************************************************************)
(* One pass of the relay (external RunOnce).                               *)
(***************************************************************************)
PendingRows == {e \in Events : outbox[e] = "pending"}

Cancelled(i) == life[i] \in {"draining", "closed"}

\* runEventRelay's pc after RunOnce has returned: it leaves when the context is
\* cancelled, calls again at once when something was published, and otherwise
\* waits.  A failure waits for backoff, which doubles up to maxBackoff; a pass
\* without failure resets it.
Doubled(b) == IF 2 * b > MaxBackoff THEN MaxBackoff ELSE 2 * b

\* The bug of not looking at the context after a failed pass.
AfterFailureWaits(i) ==
  [NoRelay EXCEPT !.pc = "wait", !.backoff = Doubled(relay[i].backoff)]

AfterFailure(i) ==
  [NoRelay EXCEPT !.pc = IF Cancelled(i) THEN "done" ELSE "wait",
                  !.backoff = Doubled(relay[i].backoff)]

AfterSuccess(i, published) ==
  [NoRelay EXCEPT !.pc = IF Cancelled(i) THEN "done"
                         ELSE IF published THEN "run" ELSE "wait"]

ReadPending(i) ==
  /\ relay[i].pc = "run"
  /\ ~ Cancelled(i)
  /\ relay' = [relay EXCEPT ![i] =
                 IF PendingRows = {} THEN AfterSuccess(i, FALSE)
                 ELSE [relay[i] EXCEPT !.pc = "publish", !.batch = PendingRows]]
  /\ UNCHANGED <<tx, outbox, received, life, hurried, stops>>

\* The bus accepts an event; a closed bus accepts nothing.
Publish(i) ==
  /\ relay[i].pc = "publish"
  /\ life[i] # "closed"
  /\ \E e \in relay[i].batch :
       /\ received' = received \cup {e}
       /\ relay' = [relay EXCEPT ![i].pc = "mark", ![i].sent = {e}]
  /\ UNCHANGED <<tx, outbox, life, hurried, stops>>

MarkPublished(i) ==
  /\ relay[i].pc = "mark"
  /\ outbox' = [e \in Events |-> IF e \in relay[i].sent THEN "published" ELSE outbox[e]]
  /\ LET rest == relay[i].batch \ relay[i].sent IN
       relay' = [relay EXCEPT ![i] =
                   IF rest = {} THEN AfterSuccess(i, TRUE)
                   ELSE [relay[i] EXCEPT !.pc = "publish", !.sent = {}, !.batch = rest]]
  /\ UNCHANGED <<tx, received, life, hurried, stops>>

\* The bug of a relay that gives up at the first error.
RunFailsForGood(i) ==
  /\ relay[i].pc \in {"run", "publish", "mark"}
  /\ relay' = [relay EXCEPT ![i] = [NoRelay EXCEPT !.pc = "done"]]
  /\ UNCHANGED <<tx, outbox, received, life, hurried, stops>>

\* RunOnce fails: the database, the bus or a cancelled context.  A row that the
\* bus has accepted stays pending.
RunFails(i) ==
  /\ relay[i].pc \in {"run", "publish", "mark"}
  /\ relay' = [relay EXCEPT ![i] = AfterFailure(i)]
  /\ UNCHANGED <<tx, outbox, received, life, hurried, stops>>

\* The timer fires; the select may prefer it to a cancelled context.
Wake(i) ==
  /\ relay[i].pc = "wait"
  /\ relay' = [relay EXCEPT ![i].pc = "run"]
  /\ UNCHANGED <<tx, outbox, received, life, hurried, stops>>

LeaveWait(i) ==
  /\ relay[i].pc = "wait"
  /\ Cancelled(i)
  /\ relay' = [relay EXCEPT ![i] = [NoRelay EXCEPT !.pc = "done"]]
  /\ UNCHANGED <<tx, outbox, received, life, hurried, stops>>
-----------------------------------------------------------------------------
(***************************************************************************)
(* The instance.  Shutdown runs its hooks in order: stop the relay and     *)
(* wait for it or for the deadline, close the bus, then the HTTP server    *)
(* and the pool, and the process ends.                                     *)
(***************************************************************************)
Start(i) ==
  /\ life[i] = "down"
  /\ life' = [life EXCEPT ![i] = "up"]
  /\ hurried' = [hurried EXCEPT ![i] = FALSE]
  /\ relay' = [relay EXCEPT ![i] = [NoRelay EXCEPT !.pc = "run"]]
  /\ UNCHANGED <<tx, outbox, received, stops>>

StopRelay(i) ==
  /\ life[i] = "up"
  /\ stops < MaxStops
  /\ stops' = stops + 1
  /\ life' = [life EXCEPT ![i] = "draining"]
  /\ UNCHANGED <<tx, outbox, received, hurried, relay>>

\* The bug of closing the bus without waiting for the relay.
CloseBusAtOnce(i) ==
  /\ life[i] = "draining"
  /\ life' = [life EXCEPT ![i] = "closed"]
  /\ UNCHANGED <<tx, outbox, received, hurried, relay, stops>>

CloseBus(i) ==
  /\ life[i] = "draining"
  /\ relay[i].pc = "done"
  /\ life' = [life EXCEPT ![i] = "closed"]
  /\ UNCHANGED <<tx, outbox, received, hurried, relay, stops>>

\* ctx.Done of the shutdown: the bus is closed under a relay that still runs.
CloseBusLate(i) ==
  /\ life[i] = "draining"
  /\ relay[i].pc # "done"
  /\ life' = [life EXCEPT ![i] = "closed"]
  /\ hurried' = [hurried EXCEPT ![i] = TRUE]
  /\ UNCHANGED <<tx, outbox, received, relay, stops>>

Exit(i) ==
  /\ life[i] = "closed"
  /\ life' = [life EXCEPT ![i] = "down"]
  /\ relay' = [relay EXCEPT ![i] = NoRelay]
  /\ UNCHANGED <<tx, outbox, received, hurried, stops>>

Crash(i) ==
  /\ life[i] # "down"
  /\ stops < MaxStops
  /\ stops' = stops + 1
  /\ life' = [life EXCEPT ![i] = "down"]
  /\ relay' = [relay EXCEPT ![i] = NoRelay]
  /\ UNCHANGED <<tx, outbox, received, hurried>>

ChangeNext(c) == Begin(c) \/ Emit(c) \/ Commit(c) \/ Rollback(c)

RelayNext(i) ==
  \/ ReadPending(i) \/ Publish(i) \/ MarkPublished(i) \/ RunFails(i)
  \/ Wake(i) \/ LeaveWait(i)

InstanceNext(i) ==
  \/ Start(i) \/ StopRelay(i) \/ CloseBus(i) \/ CloseBusLate(i) \/ Exit(i) \/ Crash(i)

Next ==
  \/ \E c \in Changes : ChangeNext(c)
  \/ \E i \in Instances : RelayNext(i) \/ InstanceNext(i)

Spec == Init /\ [][Next]_vars

(***************************************************************************)
(* The goroutine runs, its timer fires and a process that ended is started *)
(* again.  The database and the bus may fail over and over, but not for    *)
(* ever: a pass that can infinitely often read, publish or mark does.      *)
(***************************************************************************)
Fairness ==
  \A i \in Instances :
    /\ WF_vars(RelayNext(i))
    /\ SF_vars(ReadPending(i))
    /\ SF_vars(Publish(i))
    /\ SF_vars(MarkPublished(i))
    /\ WF_vars(Start(i) \/ CloseBus(i) \/ Exit(i))

FairSpec == Spec /\ Fairness
-----------------------------------------------------------------------------
\* A change and its events commit together: there is a row for each event of a
\* committed change, and none for a change that was rolled back or is open.
OutboxFollowsChanges ==
  \A c \in Changes : \A e \in EventsOf[c] :
    outbox[e] # "absent" <=> tx[c].pc = "committed"

\* A row is marked only after the bus has accepted its event, so a crash between
\* the two repeats an event and never loses one.
MarkedWasReceived == \A e \in Events : outbox[e] = "published" => e \in received

\* The bus is closed under a running relay only when the shutdown deadline has
\* passed.
BusOutlivesRelay ==
  \A i \in Instances : life[i] = "closed" /\ ~ hurried[i] => relay[i].pc = "done"

\* A relay that was told to stop stops, inside a pass or at its wait: shutdown
\* goes on without the help of its deadline.
DrainEnds == \A i \in Instances : life[i] = "draining" ~> life[i] # "draining"

\* The outbox and its relays implement at-least-once delivery: consumers hear of
\* committed changes only, and of each of them in the end.
D == INSTANCE Delivery WITH done <- {c \in Changes : tx[c].pc = "committed"},
                            delivered <- received

\* The promise without its liveness part.
DeliversCommitted == D!SafeSpec

\* The whole promise.
DeliversAll == D!Spec
=============================================================================
