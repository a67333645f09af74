------------------------------ MODULE Delivery ------------------------------
(***************************************************************************)
(* What the lifecycle events promise to a consumer (README.md, Events),    *)
(* with nothing of how: a change takes effect, and each of its events      *)
(* reaches the consumers afterwards.  A consumer is idempotent on the      *)
(* envelope id, so an event that arrives again changes nothing.            *)
(***************************************************************************)
CONSTANTS Changes,  \* transactions that change a user or an organization
          EventsOf  \* the lifecycle events of each change

VARIABLES done,      \* the changes that have taken effect
          delivered  \* the events the consumers have received

deliveryVars == <<done, delivered>>

Init == done = {} /\ delivered = {}

Change(c) ==
  /\ c \in Changes \ done
  /\ done' = done \cup {c}
  /\ UNCHANGED delivered

Deliver(e) ==
  /\ \E c \in done : e \in EventsOf[c]
  /\ delivered' = delivered \cup {e}
  /\ UNCHANGED done

Promised == UNION {EventsOf[c] : c \in Changes}

Next == (\E c \in Changes : Change(c)) \/ (\E e \in Promised : Deliver(e))

SafeSpec == Init /\ [][Next]_deliveryVars

Spec == SafeSpec /\ \A e \in Promised : WF_deliveryVars(Deliver(e))
=============================================================================
