----------------------------- MODULE RelayProofs -----------------------------
(***************************************************************************)
(* Proofs about Relay, for any changes, events, instances, backoffs and    *)
(* number of crashes.                                                      *)
(***************************************************************************)
EXTENDS Relay, TLAPS

Relays == [pc : {"off", "run", "publish", "mark", "wait", "done"},
           batch : SUBSET Events, sent : SUBSET Events,
           backoff : MinBackoff .. MaxBackoff]

\* The records that runEventRelay is left with are records of a relay: the
\* doubled backoff stays within its limit.
LEMMA RelayRecords ==
  ASSUME TypeOK, NEW i \in Instances
  PROVE  /\ NoRelay \in Relays
         /\ AfterFailure(i) \in Relays
         /\ \A p \in BOOLEAN : AfterSuccess(i, p) \in Relays
         /\ \A pc \in {"off", "run", "publish", "mark", "wait", "done"} :
              [NoRelay EXCEPT !.pc = pc] \in Relays
<1> DEFINE b == relay[i].backoff
<1>1. b \in MinBackoff .. MaxBackoff
  BY DEF TypeOK
<1>2. MinBackoff \in MinBackoff .. MaxBackoff
  BY BackoffAssumption
<1>3. Doubled(b) \in MinBackoff .. MaxBackoff
  <2> HIDE DEF b
  <2> QED  BY <1>1, BackoffAssumption DEF Doubled
<1>4. NoRelay \in Relays
  BY <1>2 DEF NoRelay, Relays
<1>5. \A pc \in {"off", "run", "publish", "mark", "wait", "done"} :
        [NoRelay EXCEPT !.pc = pc] \in Relays
  BY <1>2 DEF NoRelay, Relays
<1>6. AfterFailure(i) \in Relays
  BY <1>3 DEF AfterFailure, NoRelay, Relays
<1>7. \A p \in BOOLEAN : AfterSuccess(i, p) \in Relays
  BY <1>2 DEF AfterSuccess, NoRelay, Relays
<1> QED  BY <1>4, <1>5, <1>6, <1>7

LEMMA RelayStep ==
  ASSUME TypeOK, NEW i \in Instances, RelayNext(i)
  PROVE  TypeOK'
<1>1. relay[i] \in Relays
  BY DEF Relays, TypeOK
<1>2. ASSUME relay' \in [Instances -> Relays], UNCHANGED <<tx, life, hurried, stops>>,
             outbox' \in [Events -> {"absent", "pending", "published"}],
             received' \subseteq Events
      PROVE  TypeOK'
  BY <1>2 DEF Relays, TypeOK
<1>3. /\ relay \in [Instances -> Relays]
      /\ outbox \in [Events -> {"absent", "pending", "published"}]
      /\ received \subseteq Events
  BY DEF Relays, TypeOK
<1>4. CASE ReadPending(i)
  <2>1. PendingRows \in SUBSET Events
    BY DEF PendingRows
  <2>2. [relay[i] EXCEPT !.pc = "publish", !.batch = PendingRows] \in Relays
    BY <1>1, <2>1 DEF Relays
  <2>3. AfterSuccess(i, FALSE) \in Relays
    BY RelayRecords
  <2> QED  BY <1>2, <1>3, <1>4, <2>2, <2>3 DEF ReadPending
<1>5. CASE Publish(i)
  <2>1. PICK e \in relay[i].batch :
          /\ received' = received \cup {e}
          /\ relay' = [relay EXCEPT ![i].pc = "mark", ![i].sent = {e}]
    BY <1>5 DEF Publish
  <2>2. e \in Events
    BY <1>1 DEF Relays
  <2>3. [relay[i] EXCEPT !.pc = "mark", !.sent = {e}] \in Relays
    BY <1>1, <2>2 DEF Relays
  <2>4. relay' = [relay EXCEPT ![i] = [relay[i] EXCEPT !.pc = "mark", !.sent = {e}]]
    BY <1>1, <2>1 DEF Relays
  <2>5. relay' \in [Instances -> Relays]
    BY <1>3, <2>3, <2>4
  <2> QED  BY <1>2, <1>3, <1>5, <2>1, <2>2, <2>5 DEF Publish
<1>6. CASE MarkPublished(i)
  <2> DEFINE rest == relay[i].batch \ relay[i].sent
  <2>1. [relay[i] EXCEPT !.pc = "publish", !.sent = {}, !.batch = rest] \in Relays
    BY <1>1 DEF Relays
  <2>2. AfterSuccess(i, TRUE) \in Relays
    BY RelayRecords
  <2>3. relay' \in [Instances -> Relays]
    <3> DEFINE r1 == [relay[i] EXCEPT !.pc = "publish", !.sent = {}, !.batch = rest]
    <3>1. relay' = [relay EXCEPT ![i] = IF rest = {} THEN AfterSuccess(i, TRUE) ELSE r1]
      BY <1>6 DEF MarkPublished
    <3> HIDE DEF r1, rest
    <3> QED  BY <1>3, <2>1, <2>2, <3>1 DEF r1
  <2>4. outbox' \in [Events -> {"absent", "pending", "published"}]
    BY <1>3, <1>6 DEF MarkPublished
  <2> QED  BY <1>2, <1>3, <1>6, <2>3, <2>4 DEF MarkPublished
<1>7. CASE RunFails(i)
  BY <1>2, <1>3, <1>7, RelayRecords DEF RunFails
<1>8. CASE Wake(i)
  <2>1. [relay[i] EXCEPT !.pc = "run"] \in Relays
    BY <1>1 DEF Relays
  <2> QED  BY <1>2, <1>3, <1>8, <2>1 DEF Wake
<1>9. CASE LeaveWait(i)
  BY <1>2, <1>3, <1>9, RelayRecords DEF LeaveWait
<1> QED  BY <1>4, <1>5, <1>6, <1>7, <1>8, <1>9 DEF RelayNext

LEMMA InstanceStep ==
  ASSUME TypeOK, NEW i \in Instances, InstanceNext(i)
  PROVE  TypeOK'
<1>1. ASSUME relay' \in [Instances -> Relays],
             life' \in [Instances -> {"down", "up", "draining", "closed"}],
             hurried' \in [Instances -> BOOLEAN], stops' \in 0 .. MaxStops,
             UNCHANGED <<tx, outbox, received>>
      PROVE  TypeOK'
  BY <1>1 DEF TypeOK, Relays
<1>2. /\ relay \in [Instances -> Relays]
      /\ life \in [Instances -> {"down", "up", "draining", "closed"}]
      /\ hurried \in [Instances -> BOOLEAN]
      /\ stops \in 0 .. MaxStops
  BY DEF TypeOK, Relays
<1>3. NoRelay \in Relays /\ [NoRelay EXCEPT !.pc = "run"] \in Relays
  BY RelayRecords
<1>4. CASE Start(i)
  BY <1>1, <1>2, <1>3, <1>4 DEF Start
<1>5. CASE StopRelay(i)
  BY <1>1, <1>2, <1>5, StopsAssumption DEF StopRelay
<1>6. CASE CloseBus(i)
  BY <1>1, <1>2, <1>6 DEF CloseBus
<1>7. CASE CloseBusLate(i)
  BY <1>1, <1>2, <1>7 DEF CloseBusLate
<1>8. CASE Exit(i)
  BY <1>1, <1>2, <1>3, <1>8 DEF Exit
<1>9. CASE Crash(i)
  BY <1>1, <1>2, <1>3, <1>9, StopsAssumption DEF Crash
<1> QED  BY <1>4, <1>5, <1>6, <1>7, <1>8, <1>9 DEF InstanceNext

LEMMA ChangeStep ==
  ASSUME TypeOK, NEW c \in Changes, ChangeNext(c)
  PROVE  TypeOK'
<1> DEFINE Txs == [pc : {"new", "open", "committed", "aborted"}, staged : SUBSET Events]
<1>1. ASSUME tx' \in [Changes -> Txs],
             outbox' \in [Events -> {"absent", "pending", "published"}],
             UNCHANGED <<received, life, hurried, relay, stops>>
      PROVE  TypeOK'
  BY <1>1 DEF TypeOK
<1>2. /\ tx \in [Changes -> Txs]
      /\ outbox \in [Events -> {"absent", "pending", "published"}]
      /\ EventsOf[c] \subseteq Events
  BY EventsAssumption DEF TypeOK
<1>3. CASE Begin(c)
  BY <1>1, <1>2, <1>3 DEF Begin
<1>4. CASE Emit(c)
  BY <1>1, <1>2, <1>4 DEF Emit
<1>5. CASE Commit(c)
  BY <1>1, <1>2, <1>5 DEF Commit
<1>6. CASE Rollback(c)
  BY <1>1, <1>2, <1>6 DEF Rollback
<1> QED  BY <1>3, <1>4, <1>5, <1>6 DEF ChangeNext

LEMMA InitTyped == Init => TypeOK
<1> SUFFICES ASSUME Init PROVE TypeOK
  OBVIOUS
<1>1. NoRelay \in Relays
  BY BackoffAssumption DEF NoRelay, Relays
<1> QED  BY <1>1, StopsAssumption DEF Init, TypeOK, Relays

LEMMA TypeKept == TypeOK /\ [Next]_vars => TypeOK'
<1> SUFFICES ASSUME TypeOK, [Next]_vars PROVE TypeOK'
  OBVIOUS
<1>1. CASE UNCHANGED vars
  BY <1>1 DEF TypeOK, vars
<1> QED  BY <1>1, ChangeStep, RelayStep, InstanceStep DEF Next

\* The transactions, the outbox, the instances and their relays keep to their
\* values: in particular the backoff of runEventRelay never leaves its limits,
\* however many passes fail.
THEOREM TypeCorrect == Spec => []TypeOK
  BY InitTyped, TypeKept, PTL DEF Spec
-----------------------------------------------------------------------------
(***************************************************************************)
(* The rows, the passes under way and the bus.  The first two conjuncts    *)
(* are the invariants to prove; they need that a relay handles rows of     *)
(* committed changes only, and marks what the bus has accepted.            *)
(***************************************************************************)
PassesFollowOutbox ==
  /\ \A i \in Instances : /\ \A e \in relay[i].batch : outbox[e] # "absent"
                          /\ relay[i].sent \subseteq received
  /\ \A e \in received : outbox[e] # "absent"

OutboxInv == TypeOK /\ OutboxFollowsChanges /\ MarkedWasReceived /\ PassesFollowOutbox

\* The steps of a change: only Commit adds rows, and those of its own events.
LEMMA OutboxOfChange ==
  ASSUME OutboxInv, NEW c \in Changes, ChangeNext(c)
  PROVE  (OutboxFollowsChanges /\ MarkedWasReceived /\ PassesFollowOutbox)'
<1> USE DEF OutboxInv
<1>1. /\ DOMAIN tx = Changes /\ DOMAIN outbox = Events
      /\ \A d \in Changes : /\ DOMAIN tx[d] = {"pc", "staged"}
                            /\ EventsOf[d] \subseteq Events
      /\ \A d, f \in Changes : d # f => EventsOf[d] \cap EventsOf[f] = {}
      /\ received \subseteq Events
      /\ \A i \in Instances : relay[i].batch \subseteq Events
  BY EventsAssumption DEF TypeOK
<1>2. UNCHANGED <<received, relay>>
  BY DEF ChangeNext, Begin, Emit, Commit, Rollback
<1>3. CASE Commit(c)
  <2>1. \A e \in Events : outbox'[e] = IF e \in EventsOf[c] THEN "pending" ELSE outbox[e]
    BY <1>3 DEF Commit
  <2>2. \A d \in Changes : tx'[d].pc = IF d = c THEN "committed" ELSE tx[d].pc
    BY <1>1, <1>3 DEF Commit
  <2>3. OutboxFollowsChanges'
    BY <1>1, <2>1, <2>2 DEF OutboxFollowsChanges
  <2>4. MarkedWasReceived'
    BY <1>2, <2>1 DEF MarkedWasReceived
  <2>5. PassesFollowOutbox'
    BY <1>1, <1>2, <2>1 DEF PassesFollowOutbox
  <2> QED  BY <2>3, <2>4, <2>5
<1>4. CASE Begin(c) \/ Emit(c) \/ Rollback(c)
  <2>1. UNCHANGED outbox
    BY <1>4 DEF Begin, Emit, Rollback
  <2>2. \A d \in Changes : tx'[d].pc = "committed" <=> tx[d].pc = "committed"
    BY <1>1, <1>4 DEF Begin, Emit, Rollback
  <2> QED  BY <1>2, <2>1, <2>2 DEF OutboxFollowsChanges, MarkedWasReceived, PassesFollowOutbox
<1> QED  BY <1>3, <1>4 DEF ChangeNext

\* A pass reads committed rows, hands them to the bus and then marks them.
LEMMA OutboxOfRelay ==
  ASSUME OutboxInv, NEW i \in Instances, RelayNext(i)
  PROVE  (OutboxFollowsChanges /\ MarkedWasReceived /\ PassesFollowOutbox)'
<1> USE DEF OutboxInv
<1>1. /\ relay \in [Instances -> Relays]
      /\ DOMAIN outbox = Events
      /\ \A d \in Changes : EventsOf[d] \subseteq Events
      /\ received \subseteq Events
  BY EventsAssumption DEF TypeOK, Relays
<1>0. /\ \A j \in Instances : /\ \A e \in relay[j].batch : outbox[e] # "absent"
                              /\ \A e \in relay[j].sent : e \in received
      /\ \A e \in received : outbox[e] # "absent"
  BY DEF PassesFollowOutbox
<1>2. UNCHANGED tx
  BY DEF RelayNext, ReadPending, Publish, MarkPublished, RunFails, Wake, LeaveWait
<1>3. ASSUME UNCHANGED <<outbox, received>>,
             \A j \in Instances : /\ \A e \in relay'[j].batch : outbox[e] # "absent"
                                  /\ relay'[j].sent \subseteq received
      PROVE  (OutboxFollowsChanges /\ MarkedWasReceived /\ PassesFollowOutbox)'
  BY <1>2, <1>3 DEF OutboxFollowsChanges, MarkedWasReceived, PassesFollowOutbox
<1>4. \A p \in BOOLEAN : AfterSuccess(i, p).batch = {} /\ AfterSuccess(i, p).sent = {}
  BY DEF AfterSuccess, NoRelay
<1>5. AfterFailure(i).batch = {} /\ AfterFailure(i).sent = {}
  BY DEF AfterFailure, NoRelay
<1>6. CASE ReadPending(i)
  <2>1. \A e \in PendingRows : outbox[e] # "absent"
    BY DEF PendingRows
  <2> DEFINE r == [relay[i] EXCEPT !.pc = "publish", !.batch = PendingRows]
             after == IF PendingRows = {} THEN AfterSuccess(i, FALSE) ELSE r
  <2>2. r.batch = PendingRows /\ r.sent = relay[i].sent
    BY <1>1 DEF Relays
  <2>3. relay' = [relay EXCEPT ![i] = after]
    BY <1>6 DEF ReadPending
  <2> HIDE DEF r
  <2>4. /\ \A e \in after.batch : outbox[e] # "absent"
        /\ after.sent \subseteq received
    BY <1>4, <1>0, <2>1, <2>2
  <2> HIDE DEF after
  <2>5. \A j \in Instances : /\ \A e \in relay'[j].batch : outbox[e] # "absent"
                             /\ relay'[j].sent \subseteq received
    BY <1>1, <1>0, <2>3, <2>4
  <2> QED  BY <1>3, <1>6, <2>5 DEF ReadPending
<1>7. CASE Publish(i)
  <2>1. PICK e \in relay[i].batch :
          /\ received' = received \cup {e}
          /\ relay' = [relay EXCEPT ![i].pc = "mark", ![i].sent = {e}]
    BY <1>7 DEF Publish
  <2>2. UNCHANGED outbox
    BY <1>7 DEF Publish
  <2>3. \A j \in Instances : /\ relay'[j].batch = relay[j].batch
                             /\ relay'[j].sent = IF j = i THEN {e} ELSE relay[j].sent
    BY <1>1, <2>1 DEF Relays
  <2>4. PassesFollowOutbox'
    BY <2>1, <2>2, <2>3 DEF PassesFollowOutbox
  <2> QED  BY <1>2, <2>1, <2>2, <2>4 DEF OutboxFollowsChanges, MarkedWasReceived
<1>8. CASE MarkPublished(i)
  <2> DEFINE rest == relay[i].batch \ relay[i].sent
             r == [relay[i] EXCEPT !.pc = "publish", !.sent = {}, !.batch = rest]
             after == IF rest = {} THEN AfterSuccess(i, TRUE) ELSE r
  <2>1. \A e \in Events :
          outbox'[e] = IF e \in relay[i].sent THEN "published" ELSE outbox[e]
    BY <1>8 DEF MarkPublished
  <2>2. UNCHANGED received /\ relay' = [relay EXCEPT ![i] = after]
    BY <1>8 DEF MarkPublished
  <2>3. r.batch = rest /\ r.sent = {}
    BY <1>1 DEF Relays
  <2>4. rest \subseteq relay[i].batch
    OBVIOUS
  <2> HIDE DEF r, rest
  <2>5. after.batch \subseteq relay[i].batch /\ after.sent = {}
    BY <1>4, <2>3, <2>4
  <2> HIDE DEF after
  <2>6. \A j \in Instances : /\ relay'[j].batch \subseteq relay[j].batch
                             /\ relay'[j].sent \subseteq relay[j].sent
    BY <1>1, <2>2, <2>5
  <2>7. \A e \in relay[i].sent : e \in received /\ outbox[e] # "absent"
    BY <1>0
  <2>8. OutboxFollowsChanges'
    BY <1>1, <1>2, <2>1, <2>7 DEF OutboxFollowsChanges
  <2>9. MarkedWasReceived'
    BY <2>1, <2>2, <2>7 DEF MarkedWasReceived
  <2>10. \A j \in Instances : relay[j].batch \subseteq Events
    BY <1>1 DEF Relays
  <2>11. PassesFollowOutbox'
    BY <1>1, <2>1, <2>2, <2>6, <2>7, <2>10 DEF PassesFollowOutbox
  <2> QED  BY <2>8, <2>9, <2>11
<1>9. CASE RunFails(i)
  <2>1. \A j \in Instances : relay'[j].batch \subseteq relay[j].batch
                             /\ relay'[j].sent \subseteq relay[j].sent
    BY <1>1, <1>5, <1>9 DEF RunFails
  <2> QED  BY <1>3, <1>9, <1>0, <2>1 DEF RunFails
<1>10. CASE Wake(i)
  <2>1. \A j \in Instances : relay'[j].batch = relay[j].batch
                             /\ relay'[j].sent = relay[j].sent
    BY <1>1, <1>10 DEF Wake, Relays
  <2> QED  BY <1>3, <1>10, <1>0, <2>1 DEF Wake
<1>11. CASE LeaveWait(i)
  <2>1. \A j \in Instances : relay'[j].batch \subseteq relay[j].batch
                             /\ relay'[j].sent \subseteq relay[j].sent
    BY <1>1, <1>11 DEF LeaveWait, NoRelay
  <2> QED  BY <1>3, <1>11, <1>0, <2>1 DEF LeaveWait
<1> QED  BY <1>6, <1>7, <1>8, <1>9, <1>10, <1>11 DEF RelayNext

\* A stop, a crash or a start at most forgets the pass of a relay.
LEMMA OutboxOfInstance ==
  ASSUME OutboxInv, NEW i \in Instances, InstanceNext(i)
  PROVE  (OutboxFollowsChanges /\ MarkedWasReceived /\ PassesFollowOutbox)'
<1> USE DEF OutboxInv
<1>1. relay \in [Instances -> Relays]
  BY DEF TypeOK, Relays
<1>2. UNCHANGED <<tx, outbox, received>>
  BY DEF InstanceNext, Start, StopRelay, CloseBus, CloseBusLate, Exit, Crash
<1>3. \A j \in Instances : /\ relay'[j].batch \subseteq relay[j].batch
                           /\ relay'[j].sent \subseteq relay[j].sent
  BY <1>1 DEF InstanceNext, Start, StopRelay, CloseBus, CloseBusLate, Exit, Crash, NoRelay
<1> QED
  BY <1>2, <1>3 DEF OutboxFollowsChanges, MarkedWasReceived, PassesFollowOutbox

\* The outbox, the passes of the relays and the bus stay consistent over every
\* interleaving of changes, passes, failures, crashes and shutdowns.
THEOREM OutboxInvariant == Spec => []OutboxInv
<1>1. Init => OutboxInv
  <2> SUFFICES ASSUME Init PROVE OutboxFollowsChanges /\ MarkedWasReceived /\ PassesFollowOutbox
    BY InitTyped DEF OutboxInv
  <2>1. \A d \in Changes : EventsOf[d] \subseteq Events
    BY EventsAssumption
  <2> QED
    BY <2>1 DEF Init, NoRelay, OutboxFollowsChanges, MarkedWasReceived, PassesFollowOutbox
<1>2. OutboxInv /\ [Next]_vars => OutboxInv'
  <2> SUFFICES ASSUME OutboxInv, [Next]_vars PROVE OutboxInv'
    OBVIOUS
  <2>1. CASE UNCHANGED vars
    BY <2>1 DEF OutboxInv, TypeOK, OutboxFollowsChanges, MarkedWasReceived,
                PassesFollowOutbox, vars
  <2>2. CASE Next
    <3>1. (OutboxFollowsChanges /\ MarkedWasReceived /\ PassesFollowOutbox)'
      BY <2>2, OutboxOfChange, OutboxOfRelay, OutboxOfInstance DEF Next
    <3> QED  BY <2>2, <3>1, TypeKept DEF OutboxInv
  <2> QED  BY <2>1, <2>2
<1> QED  BY <1>1, <1>2, PTL DEF Spec

\* A change and its lifecycle events commit together (emitEvents inside the
\* transaction of the change), for any number of changes and events.
THEOREM EventsCommitWithChanges == Spec => []OutboxFollowsChanges
<1>1. OutboxInv => OutboxFollowsChanges
  BY DEF OutboxInv
<1> QED  BY <1>1, OutboxInvariant, PTL

\* The relay never marks a row whose event the bus has not accepted, with any
\* number of relays reading the same rows and crashing at any point.
THEOREM NoEventLost == Spec => []MarkedWasReceived
<1>1. OutboxInv => MarkedWasReceived
  BY DEF OutboxInv
<1> QED  BY <1>1, OutboxInvariant, PTL

\* The shutdown hooks of newApp close the bus under a running relay only when
\* the shutdown deadline has passed.
THEOREM BusClosesLast == Spec => []BusOutlivesRelay
<1>1. Init => BusOutlivesRelay
  BY DEF Init, BusOutlivesRelay
<1>2. TypeOK /\ BusOutlivesRelay /\ [Next]_vars => BusOutlivesRelay'
  <2> SUFFICES ASSUME TypeOK, BusOutlivesRelay, [Next]_vars, NEW j \in Instances,
                      life'[j] = "closed", ~ hurried'[j]
               PROVE  relay'[j].pc = "done"
    BY DEF BusOutlivesRelay
  <2>1. /\ relay \in [Instances -> Relays]
        /\ life \in [Instances -> {"down", "up", "draining", "closed"}]
        /\ hurried \in [Instances -> BOOLEAN]
        /\ life[j] = "closed" /\ ~ hurried[j] => relay[j].pc = "done"
    BY DEF TypeOK, Relays, BusOutlivesRelay
  <2>2. CASE UNCHANGED vars
    BY <2>1, <2>2 DEF vars
  <2>3. ASSUME NEW c \in Changes, ChangeNext(c)
        PROVE  relay'[j].pc = "done"
    BY <2>1, <2>3 DEF ChangeNext, Begin, Emit, Commit, Rollback
  <2>4. ASSUME NEW i \in Instances, RelayNext(i)
        PROVE  relay'[j].pc = "done"
    <3>1. UNCHANGED <<life, hurried>> /\ relay[i].pc # "done"
      BY <2>4 DEF RelayNext, ReadPending, Publish, MarkPublished, RunFails, Wake, LeaveWait
    <3>2. j # i
      BY <2>1, <3>1
    <3>3. relay'[j] = relay[j]
      BY <2>1, <2>4, <3>2
         DEF RelayNext, ReadPending, Publish, MarkPublished, RunFails, Wake, LeaveWait
    <3> QED  BY <2>1, <3>1, <3>3
  <2>5. ASSUME NEW i \in Instances, InstanceNext(i)
        PROVE  relay'[j].pc = "done"
    BY <2>1, <2>5 DEF InstanceNext, Start, StopRelay, CloseBus, CloseBusLate, Exit, Crash
  <2> QED  BY <2>2, <2>3, <2>4, <2>5 DEF Next
<1> QED  BY <1>1, <1>2, TypeCorrect, PTL DEF Spec
-----------------------------------------------------------------------------
Committed == {c \in Changes : tx[c].pc = "committed"}

\* Every step of the outbox and its relays is a step of Delivery or changes
\* nothing that Delivery sees: Commit is Change, Publish is Deliver.
LEMMA StepsDeliver ==
  ASSUME OutboxInv, [Next]_vars
  PROVE  [D!Next]_(D!deliveryVars)
<1>1. /\ DOMAIN tx = Changes
      /\ \A c \in Changes : DOMAIN tx[c] = {"pc", "staged"}
  BY DEF OutboxInv, TypeOK
<1>2. ASSUME Committed' = Committed, received' = received
      PROVE  [D!Next]_(D!deliveryVars)
  BY <1>2 DEF D!deliveryVars, Committed
<1>3. CASE UNCHANGED vars
  BY <1>2, <1>3 DEF vars, Committed
<1>4. ASSUME NEW c \in Changes, ChangeNext(c)
      PROVE  [D!Next]_(D!deliveryVars)
  <2>1. received' = received
    BY <1>4 DEF ChangeNext, Begin, Emit, Commit, Rollback
  <2>2. CASE Commit(c)
    <3>1. \A d \in Changes : tx'[d].pc = IF d = c THEN "committed" ELSE tx[d].pc
      BY <1>1, <2>2 DEF Commit
    <3>2. c \in Changes \ Committed /\ Committed' = Committed \cup {c}
      BY <2>2, <3>1 DEF Committed, Commit
    <3>3. D!Change(c)
      BY <2>1, <3>2 DEF D!Change, Committed
    <3> QED  BY <3>3 DEF D!Next
  <2>3. CASE Begin(c) \/ Emit(c) \/ Rollback(c)
    <3>1. \A d \in Changes : tx'[d].pc = "committed" <=> tx[d].pc = "committed"
      BY <1>1, <2>3 DEF Begin, Emit, Rollback
    <3> QED  BY <1>2, <2>1, <3>1 DEF Committed
  <2> QED  BY <1>4, <2>2, <2>3 DEF ChangeNext
<1>5. ASSUME NEW i \in Instances, RelayNext(i)
      PROVE  [D!Next]_(D!deliveryVars)
  <2>1. Committed' = Committed
    BY <1>5 DEF RelayNext, ReadPending, Publish, MarkPublished, RunFails, Wake, LeaveWait,
                Committed
  <2>2. CASE Publish(i)
    <3>1. PICK e \in relay[i].batch : received' = received \cup {e}
      BY <2>2 DEF Publish
    <3>2. e \in Events /\ outbox[e] # "absent"
      BY DEF OutboxInv, TypeOK, PassesFollowOutbox
    <3>3. PICK c \in Changes : e \in EventsOf[c]
      BY <3>2, EventsAssumption
    <3>4. c \in Committed
      BY <3>2, <3>3 DEF OutboxInv, OutboxFollowsChanges, Committed
    <3>5. D!Deliver(e)
      BY <2>1, <3>1, <3>3, <3>4 DEF D!Deliver, Committed
    <3>6. e \in D!Promised
      BY <3>3 DEF D!Promised
    <3> QED  BY <3>5, <3>6 DEF D!Next
  <2>3. CASE ~ Publish(i)
    <3>1. received' = received
      BY <1>5, <2>3 DEF RelayNext, ReadPending, MarkPublished, RunFails, Wake, LeaveWait
    <3> QED  BY <1>2, <2>1, <3>1
  <2> QED  BY <2>2, <2>3
<1>6. ASSUME NEW i \in Instances, InstanceNext(i)
      PROVE  [D!Next]_(D!deliveryVars)
  <2>1. Committed' = Committed /\ received' = received
    BY <1>6 DEF InstanceNext, Start, StopRelay, CloseBus, CloseBusLate, Exit, Crash, Committed
  <2> QED  BY <1>2, <2>1
<1> QED  BY <1>3, <1>4, <1>5, <1>6 DEF Next

\* The outbox and its relays implement the safety part of at-least-once
\* delivery: consumers hear of committed changes only.
THEOREM ImplementsDelivery == Spec => DeliversCommitted
<1>1. Init => D!Init
  BY DEF Init, D!Init
<1>2. OutboxInv /\ [Next]_vars => [D!Next]_(D!deliveryVars)
  BY StepsDeliver
<1> QED  BY <1>1, <1>2, OutboxInvariant, PTL DEF Spec, DeliversCommitted, D!SafeSpec
=============================================================================
