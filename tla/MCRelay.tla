------------------------------- MODULE MCRelay -------------------------------
(* A model-checking instance of Relay: a change that emits two events      *)
(* (CreateOrg: auth.org.created and auth.membership.added).                 *)
EXTENDS Relay

MCEventsOf == [c \in Changes |-> {"org_created", "owner_added"}]
MCEvents == UNION {MCEventsOf[c] : c \in Changes}
=============================================================================
