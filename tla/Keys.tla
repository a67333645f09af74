-------------------------------- MODULE Keys --------------------------------
(***************************************************************************)
(* The access-token verifier of the products: RemoteVerifier in            *)
(* token/access.go, a cache of the JWKS document with a lifetime, a limit  *)
(* on how stale it may be used, and two throttles on its refreshes.        *)
(*                                                                         *)
(* The document is the set of key ids that an endpoint serves.  Keys are   *)
(* published and removed at any time, the endpoint may fail or answer with *)
(* a document that JWKSet.KeySet refuses, and time passes while a request  *)
(* is under way.                                                           *)
(***************************************************************************)
EXTENDS Integers, FiniteSets

CONSTANTS Callers,    \* goroutines calling ParseAccessToken
          Kids,       \* key ids
          Throttle,   \* 15 s between two refreshes of a kind
          Lifetime,   \* cacheLifetime
          MaxStale,   \* maxStale
          Timeout,    \* of the HTTP client: how long a fetch may take
          MaxClock,   \* bound on time
          NoKid       \* the key id of no call

ASSUME TimesAssumption ==
  /\ Throttle \in Nat \ {0} /\ Lifetime \in Nat \ {0} /\ MaxStale \in Nat
  /\ Timeout \in Nat /\ MaxClock \in Nat

ASSUME NoKidAssumption == NoKid \notin Kids

VARIABLES
  clock,     \* the time
  served,    \* the key ids of the served document
  since,     \* when each key id was last published or removed
  cache,     \* the fields of the RemoteVerifier
  caller,    \* the call each goroutine is in
  mu,        \* the goroutine inside refreshLocked, which holds the mutex
  fetch,     \* its request: when it was sent, the document in the answer
  verdict,   \* history: the answer that the last step returned, if it did
  failedAt,  \* history: when the last failed refresh was started
  previous   \* history: the refresh attempt before lastRefreshAttempt

vars == <<clock, served, since, cache, caller, mu, fetch, verdict, failedAt, previous>>

Results == {"accepted", "unknown", "stale", "failed"}

\* The zero time.Time: long enough ago for every throttle.
Never == - Throttle - Timeout

Times == Never .. MaxClock

NoCall == [pc |-> "idle", kid |-> NoKid]
NoFetch == [at |-> 0, doc |-> {}]
NoVerdict == [result |-> "none", kid |-> NoKid, now |-> 0]

\* Every value of the state is one the verifier can hold; one goroutine at most
\* is inside the mutex across a request.
TypeOK ==
  /\ clock \in 0 .. MaxClock
  /\ served \subseteq Kids
  /\ since \in [Kids -> Times]
  /\ cache \in [keys : SUBSET Kids, fetchedAt : 0 .. MaxClock,
                lastRefreshAttempt : Times, lastUnknownRefresh : Times]
  /\ caller \in [Callers -> [pc : {"idle", "locking", "fetching", "answered"},
                             kid : Kids \cup {NoKid}]]
  /\ mu = {c \in Callers : caller[c].pc \in {"fetching", "answered"}}
  /\ \A c, d \in mu : c = d
  /\ fetch \in [at : 0 .. MaxClock, doc : SUBSET Kids]
  /\ verdict \in [result : Results \cup {"none"}, kid : Kids \cup {NoKid}, now : 0 .. MaxClock]
  /\ failedAt \in Times
  /\ previous \in Times

\* NewRemoteVerifier has returned with the document of time 0.
Init ==
  /\ clock = 0
  /\ served \in SUBSET Kids \ {{}}
  /\ since = [k \in Kids |-> Never]
  /\ cache = [keys |-> served, fetchedAt |-> 0,
              lastRefreshAttempt |-> Never, lastUnknownRefresh |-> Never]
  /\ caller = [c \in Callers |-> NoCall]
  /\ mu = {}
  /\ fetch = NoFetch
  /\ verdict = NoVerdict
  /\ failedAt = Never
  /\ previous = Never
-----------------------------------------------------------------------------
(***************************************************************************)
(* The environment.                                                        *)
(***************************************************************************)
\* Time passes; a request does not outlast the client's timeout.
Tick ==
  /\ clock < MaxClock
  /\ mu # {} => clock - fetch.at < Timeout
  /\ clock' = clock + 1
  /\ verdict' = NoVerdict
  /\ UNCHANGED <<served, since, cache, caller, mu, fetch, failedAt, previous>>

\* The endpoint's key directory gains or loses a key.
Rotate(k) ==
  /\ served' = IF k \in served THEN served \ {k} ELSE served \cup {k}
  /\ since' = [since EXCEPT ![k] = clock]
  /\ verdict' = NoVerdict
  /\ UNCHANGED <<clock, cache, caller, mu, fetch, failedAt, previous>>
-----------------------------------------------------------------------------
(***************************************************************************)
(* RemoteVerifier.ParseAccessToken for a token whose header names kid k.   *)
(***************************************************************************)
Call(c, k) ==
  /\ caller[c] = NoCall
  /\ caller' = [caller EXCEPT ![c] = [pc |-> "locking", kid |-> k]]
  /\ verdict' = NoVerdict
  /\ UNCHANGED <<clock, served, since, cache, mu, fetch, failedAt, previous>>

Expired(now) == now > cache.fetchedAt + Lifetime
Unknown(k) == k \notin cache.keys

\* The bug of a refresh only once the cache has expired.
MayRefreshWhenExpired(k, now) ==
  Expired(now) /\ now - cache.lastRefreshAttempt >= Throttle

\* An expired cache and an unknown key id have a throttle each.
MayRefresh(k, now) ==
  \/ Expired(now) /\ now - cache.lastRefreshAttempt >= Throttle
  \/ Unknown(k) /\ now - cache.lastUnknownRefresh >= Throttle

\* The bug of a cache that is good for as long as it holds the key.
TooStaleNever(now) == FALSE

TooStale(now) == now - cache.fetchedAt > MaxStale

Return(c, result, now) ==
  /\ caller' = [caller EXCEPT ![c] = NoCall]
  /\ verdict' = [result |-> result, kid |-> caller[c].kid, now |-> now]

\* The mutex is taken, the clock read, and the call answers from the cache.
AnswerFromCache(c) ==
  /\ caller[c].pc = "locking" /\ mu = {}
  /\ ~ MayRefresh(caller[c].kid, clock)
  /\ Return(c, IF Unknown(caller[c].kid) THEN "unknown"
               ELSE IF TooStale(clock) THEN "stale" ELSE "accepted", clock)
  /\ UNCHANGED <<clock, served, since, cache, mu, fetch, failedAt, previous>>

\* The bug of not noting that an unknown key id was the reason.
BeginRefreshUnmarked(c) ==
  /\ caller[c].pc = "locking" /\ mu = {}
  /\ MayRefresh(caller[c].kid, clock)
  /\ mu' = {c}
  /\ cache' = [cache EXCEPT !.lastRefreshAttempt = clock]
  /\ previous' = cache.lastRefreshAttempt
  /\ caller' = [caller EXCEPT ![c].pc = "fetching"]
  /\ fetch' = [NoFetch EXCEPT !.at = clock]
  /\ verdict' = NoVerdict
  /\ UNCHANGED <<clock, served, since, failedAt>>

\* Or it refreshes, holding the mutex.
BeginRefresh(c) ==
  /\ caller[c].pc = "locking" /\ mu = {}
  /\ MayRefresh(caller[c].kid, clock)
  /\ mu' = {c}
  /\ cache' = [cache EXCEPT !.lastRefreshAttempt = clock,
                            !.lastUnknownRefresh = IF Unknown(caller[c].kid) THEN clock
                                                   ELSE @]
  /\ previous' = cache.lastRefreshAttempt
  /\ caller' = [caller EXCEPT ![c].pc = "fetching"]
  /\ fetch' = [NoFetch EXCEPT !.at = clock]
  /\ verdict' = NoVerdict
  /\ UNCHANGED <<clock, served, since, failedAt>>

\* The endpoint's side of the request.
ServeDocument(c) ==
  /\ caller[c].pc = "fetching"
  /\ caller' = [caller EXCEPT ![c].pc = "answered"]
  /\ fetch' = [fetch EXCEPT !.doc = served]
  /\ verdict' = NoVerdict
  /\ UNCHANGED <<clock, served, since, cache, mu, failedAt, previous>>

\* The bug of adding what was fetched to the keys that are there.
RefreshedAdds(c) ==
  /\ caller[c].pc = "answered"
  /\ fetch.doc # {}
  /\ cache' = [cache EXCEPT !.keys = @ \cup fetch.doc, !.fetchedAt = clock]
  /\ Return(c, IF caller[c].kid \in cache.keys \cup fetch.doc THEN "accepted" ELSE "unknown",
            fetch.at)
  /\ mu' = {}
  /\ fetch' = NoFetch
  /\ UNCHANGED <<clock, served, since, failedAt, previous>>

\* refreshLocked succeeds: the keys are replaced as a whole, their age starts.
\* KeySet refuses the empty document.
Refreshed(c) ==
  /\ caller[c].pc = "answered"
  /\ fetch.doc # {}
  /\ cache' = [cache EXCEPT !.keys = fetch.doc, !.fetchedAt = clock]
  /\ Return(c, IF caller[c].kid \in fetch.doc THEN "accepted" ELSE "unknown", fetch.at)
  /\ mu' = {}
  /\ fetch' = NoFetch
  /\ UNCHANGED <<clock, served, since, failedAt, previous>>

\* refreshLocked fails, from a refused connection to a refused document.  The
\* cache stays; a known key that is not too stale is still good.
RefreshFailed(c) ==
  /\ caller[c].pc \in {"fetching", "answered"}
  /\ Return(c, IF Unknown(caller[c].kid) \/ TooStale(fetch.at) THEN "failed" ELSE "accepted",
            fetch.at)
  /\ failedAt' = fetch.at
  /\ mu' = {}
  /\ fetch' = NoFetch
  /\ UNCHANGED <<clock, served, since, cache, previous>>

CallerNext(c) ==
  \/ \E k \in Kids : Call(c, k)
  \/ AnswerFromCache(c) \/ BeginRefresh(c) \/ ServeDocument(c)
  \/ Refreshed(c) \/ RefreshFailed(c)

Next ==
  \/ Tick
  \/ \E k \in Kids : Rotate(k)
  \/ \E c \in Callers : CallerNext(c)

Spec == Init /\ [][Next]_vars
-----------------------------------------------------------------------------
\* A token is accepted only with a key that the endpoint served at most maxStale
\* ago (and the time of a fetch), however long the endpoint is out.
AcceptedWasServed ==
  verdict.result = "accepted" =>
    \/ verdict.kid \in served
    \/ verdict.now - since[verdict.kid] <= MaxStale + Timeout

\* While refreshes succeed, a key that was removed is accepted no longer than
\* the cache lifetime or the throttle, and the time of a fetch.
RemovedIsForgotten ==
  verdict.result = "accepted" =>
    \/ verdict.kid \in served
    \/ failedAt >= since[verdict.kid]
    \/ verdict.now - since[verdict.kid] <= Lifetime + Timeout
    \/ verdict.now - since[verdict.kid] < Throttle + Timeout

\* A key that the endpoint has served for the length of the throttle is unknown
\* to no call, unless a refresh has just failed: tokens with other key ids that
\* use up the throttle delay a new key, and for no longer than that.
PublishedIsKnown ==
  verdict.result = "unknown" =>
    \/ verdict.kid \notin served
    \/ verdict.now - since[verdict.kid] < Throttle
    \/ verdict.now - failedAt < Throttle

\* The two throttles together let at most two refreshes start in any period of
\* the throttle's length, whichever keys the calls name.
RefreshesAreThrottled ==
  [][mu = {} /\ mu' # {} => clock - previous >= Throttle]_vars
=============================================================================
