------------------------------ MODULE ApiTokens ------------------------------
(***************************************************************************)
(* API tokens: CreateApiToken, ListApiTokens, RevokeApiToken and           *)
(* ValidateApiToken, on the table api_tokens.                              *)
(*                                                                         *)
(* A secret is a pair of the prefix that the table stores in clear and the *)
(* rest.  No two secrets are equal, but two may share the prefix (8 of 43  *)
(* characters).  The stored hash stands for its secret; bcrypt compares    *)
(* the whole of it.                                                        *)
(***************************************************************************)
EXTENDS Integers, FiniteSets

CONSTANTS Users, Tokens,
          Prefixes,
          Callers,      \* requests to validate a token
          NoToken,
          MaxClock      \* bound on time

ASSUME NoTokenAssumption == NoToken \notin Tokens
ASSUME ClockAssumption == MaxClock \in Nat

VARIABLES
  clock,
  table,      \* the rows of api_tokens, by token id
  call,       \* the calls of ValidateApiToken under way
  verdict     \* history: the answer that the last step returned, if it did, and the
              \* unrevoked token it was found by

tokenVars == <<clock, table, call, verdict>>

\* The row of token t; its id and its secret are drawn together, so t names the
\* secret as well.
NoRow == [owner |-> {}, prefix |-> {}, expires |-> 0, revoked |-> FALSE, created |-> 0]
NoCall == [pc |-> "none", token |-> NoToken, found |-> NoToken, row |-> NoRow, live |-> FALSE]
NoVerdict == [result |-> "none", token |-> NoToken, user |-> {}, live |-> FALSE,
              by |-> {}]

\* expires_at is NULL: later than every time.
NoExpiry == MaxClock + 1

Stored == {t \in Tokens : table[t] # NoRow}
Live == {t \in Stored : ~ table[t].revoked}

Rows == [owner : Users, prefix : Prefixes, expires : 0 .. NoExpiry, revoked : BOOLEAN,
         created : 0 .. MaxClock]

\* The rows are whole, and a call that holds a row has found a stored token.
TokenTypeOK ==
  /\ clock \in 0 .. MaxClock
  /\ \A t \in Tokens : table[t] \in Rows \cup {NoRow}
  /\ \A c \in Callers : call[c].pc \in {"none", "find", "compare"}
  /\ \A c \in Callers : call[c].pc = "compare" =>
       /\ call[c].found \in Stored
       /\ call[c].row = [table[call[c].found] EXCEPT !.revoked = call[c].row.revoked]

TokenInit ==
  /\ clock = 0
  /\ table = [t \in Tokens |-> NoRow]
  /\ call = [c \in Callers |-> NoCall]
  /\ verdict = NoVerdict

Tick ==
  /\ clock < MaxClock
  /\ clock' = clock + 1
  /\ verdict' = NoVerdict
  /\ UNCHANGED <<table, call>>

\* CreateApiToken draws an id and a secret; expires_at may be in the past.
CreateApiToken(u, t, prefix, expires) ==
  /\ table[t] = NoRow
  /\ table' = [table EXCEPT ![t] = [owner |-> u, prefix |-> prefix, expires |-> expires,
                                    revoked |-> FALSE, created |-> clock]]
  /\ verdict' = NoVerdict
  /\ UNCHANGED <<clock, call>>

\* ListApiTokens returns expired tokens too.
ListApiTokens(u) == {t \in Live : table[t].owner = u}

\* RevokeApiToken changes nothing for another user's or a revoked token, and
\* says so to nobody.
RevokeApiToken(u, t) ==
  /\ t \in Live /\ table[t].owner = u
  /\ table' = [table EXCEPT ![t].revoked = TRUE]
  /\ verdict' = NoVerdict
  /\ UNCHANGED <<clock, call>>
-----------------------------------------------------------------------------
(***************************************************************************)
(* ValidateApiToken of a secret with the documented format.                *)
(***************************************************************************)
Validate(c, t) ==
  /\ call[c] = NoCall
  /\ t \in Stored
  /\ call' = [call EXCEPT ![c] = [NoCall EXCEPT !.pc = "find", !.token = t, !.live = t \in Live]]
  /\ verdict' = NoVerdict
  /\ UNCHANGED <<clock, table>>

Return(c, result, user) ==
  /\ call' = [call EXCEPT ![c] = NoCall]
  /\ verdict' = [result |-> result, token |-> call[c].token, user |-> user,
                 live |-> call[c].live,
                 by |-> IF call[c].row.revoked THEN {} ELSE {call[c].found} \cap Tokens]

\* The bug of looking among the revoked rows as well.
NewestWithRevoked(prefix) ==
  LET same == {t \in Stored : table[t].prefix = prefix}
  IN {t \in same : \A s \in same : table[s].created <= table[t].created}

\* The row that FindByPrefix can return: rows of one instant have no order.
Newest(prefix) ==
  LET same == {t \in Live : table[t].prefix = prefix}
  IN {t \in same : \A s \in same : table[s].created <= table[t].created}

FindByPrefix(c) ==
  /\ call[c].pc = "find"
  /\ LET newest == Newest(table[call[c].token].prefix)
     IN \/ \E t \in newest :
             /\ call' = [call EXCEPT ![c].pc = "compare", ![c].found = t, ![c].row = table[t]]
             /\ verdict' = NoVerdict
        \/ newest = {} /\ Return(c, "invalid", {})
  /\ UNCHANGED <<clock, table>>

\* The bug of a prefix that is proof enough.
CompareHashPrefix(c) ==
  /\ call[c].pc = "compare"
  /\ IF clock > call[c].row.expires
     THEN Return(c, "invalid", {})
     ELSE Return(c, "valid", call[c].row.owner)
  /\ UNCHANGED <<clock, table>>

\* The row as it was found is examined, with the time now, and its hash compared.
CompareHash(c) ==
  /\ call[c].pc = "compare"
  /\ IF call[c].row.revoked \/ clock > call[c].row.expires \/ call[c].found # call[c].token
     THEN Return(c, "invalid", {})
     ELSE Return(c, "valid", call[c].row.owner)
  /\ UNCHANGED <<clock, table>>

TokenNext ==
  \/ Tick
  \/ \E u \in Users, t \in Tokens :
       \/ \E prefix \in Prefixes, expires \in 0 .. NoExpiry : CreateApiToken(u, t, prefix, expires)
       \/ RevokeApiToken(u, t)
  \/ \E c \in Callers :
       \/ \E t \in Tokens : Validate(c, t)
       \/ FindByPrefix(c) \/ CompareHash(c)

TokenSpec == TokenInit /\ [][TokenNext]_tokenVars
-----------------------------------------------------------------------------
\* A secret is accepted for the user who created it and for nobody else, also
\* when two users' tokens share a prefix; never after it was revoked, other than
\* by a call that had begun before; never after it expired.
AcceptedIsOwners ==
  verdict.result = "valid" =>
    /\ verdict.user = table[verdict.token].owner
    /\ verdict.live /\ clock <= table[verdict.token].expires

\* A token that its owner sees on the list is refused only because it expired, or
\* because a live token with its prefix was created at the same time or later:
\* the one way for a good token to stop working, of which its owner is not told.
RefusedHasReason ==
  verdict.result = "invalid" =>
    LET row == table[verdict.token]
    IN verdict.token \in ListApiTokens(row.owner) =>
         \/ clock > row.expires
         \/ \E t \in verdict.by \ {verdict.token} :
              table[t].prefix = row.prefix /\ table[t].created >= row.created
=============================================================================
