----------------------------- MODULE KeysProofs -----------------------------
(***************************************************************************)
(* Proofs about Keys, for any callers, key ids, throttle, lifetime, limit  *)
(* on staleness and timeout, and over any length of time.                  *)
(***************************************************************************)
EXTENDS Keys, TLAPS

Caches == [keys : SUBSET Kids, fetchedAt : 0 .. MaxClock,
           lastRefreshAttempt : Times, lastUnknownRefresh : Times]
Calls == [pc : {"idle", "locking", "fetching", "answered"}, kid : Kids \cup {NoKid}]
Fetches == [at : 0 .. MaxClock, doc : SUBSET Kids]
Verdicts == [result : Results \cup {"none"}, kid : Kids \cup {NoKid}, now : 0 .. MaxClock]

\* The times are integers, with the zero time below the others.
LEMMA TimeFacts ==
  /\ Never \in Int /\ Never <= 0
  /\ 0 .. MaxClock \subseteq Times
  /\ Times \subseteq Int
  /\ Never \in Times
  BY TimesAssumption DEF Never, Times

LEMMA EmptyRecords == NoCall \in Calls /\ NoFetch \in Fetches /\ NoVerdict \in Verdicts
  BY TimesAssumption DEF NoCall, NoFetch, NoVerdict, Calls, Fetches, Verdicts

\* Returning from a call leaves one caller fewer in the mutex.
LEMMA ReturnTyped ==
  ASSUME TypeOK, NEW c \in Callers, NEW result \in Results, NEW now \in 0 .. MaxClock,
         Return(c, result, now)
  PROVE  /\ caller' \in [Callers -> Calls]
         /\ verdict' \in Verdicts
         /\ {d \in Callers : caller'[d].pc \in {"fetching", "answered"}} = mu \ {c}
<1>1. caller \in [Callers -> Calls] /\ NoCall \in Calls
  BY EmptyRecords DEF TypeOK, Calls
<1>2. caller[c].kid \in Kids \cup {NoKid}
  BY <1>1 DEF Calls
<1>3. verdict' \in Verdicts
  BY <1>2 DEF Return, Verdicts
<1>4. mu = {d \in Callers : caller[d].pc \in {"fetching", "answered"}}
  BY DEF TypeOK
<1>5. NoCall.pc \notin {"fetching", "answered"}
  BY DEF NoCall
<1>6. caller' = [caller EXCEPT ![c] = NoCall]
  BY DEF Return
<1>7. {d \in Callers : caller'[d].pc \in {"fetching", "answered"}} = mu \ {c}
  BY <1>1, <1>4, <1>5, <1>6
<1> QED  BY <1>1, <1>3, <1>6, <1>7

\* The typing of a step, part by part.
LEMMA TypedStep ==
  ASSUME clock' \in 0 .. MaxClock, served' \subseteq Kids, since' \in [Kids -> Times],
         cache' \in Caches, caller' \in [Callers -> Calls], fetch' \in Fetches,
         verdict' \in Verdicts, failedAt' \in Times, previous' \in Times,
         mu' = {c \in Callers : caller'[c].pc \in {"fetching", "answered"}},
         \A c, d \in mu' : c = d
  PROVE  TypeOK'
  BY DEF TypeOK, Caches, Calls, Fetches, Verdicts

LEMMA Parts ==
  ASSUME TypeOK
  PROVE  /\ clock \in 0 .. MaxClock /\ served \subseteq Kids /\ since \in [Kids -> Times]
         /\ cache \in Caches /\ caller \in [Callers -> Calls] /\ fetch \in Fetches
         /\ verdict \in Verdicts /\ failedAt \in Times /\ previous \in Times
         /\ mu = {c \in Callers : caller[c].pc \in {"fetching", "answered"}}
         /\ \A c, d \in mu : c = d
  BY DEF TypeOK, Caches, Calls, Fetches, Verdicts

LEMMA TypedCaller ==
  ASSUME TypeOK, NEW c \in Callers, CallerNext(c)
  PROVE  TypeOK'
<1> DEFINE Inside(f) == {d \in Callers : f[d].pc \in {"fetching", "answered"}}
<1>1. clock \in Times /\ fetch.at \in 0 .. MaxClock /\ fetch.at \in Times
  BY Parts, TimeFacts DEF Fetches
<1>2. caller[c] \in Calls
  BY Parts
<1>3. ASSUME NEW k \in Kids, Call(c, k)
      PROVE  TypeOK'
  <2>1. [pc |-> "locking", kid |-> k] \in Calls
    BY DEF Calls
  <2>2. caller[c].pc \notin {"fetching", "answered"}
    BY <1>3 DEF Call, NoCall
  <2>3. caller' \in [Callers -> Calls] /\ Inside(caller') = Inside(caller)
    BY <1>3, <2>1, <2>2, Parts DEF Call
  <2> QED  BY <1>3, <2>3, Parts, TypedStep, EmptyRecords DEF Call
<1>4. CASE AnswerFromCache(c)
  <2>1. PICK result \in Results : Return(c, result, clock)
    BY <1>4 DEF AnswerFromCache, Results
  <2>2. /\ caller' \in [Callers -> Calls] /\ verdict' \in Verdicts
        /\ Inside(caller') = mu \ {c}
    BY <2>1, ReturnTyped, Parts
  <2>3. mu = {} /\ UNCHANGED <<clock, served, since, cache, mu, fetch, failedAt, previous>>
    BY <1>4 DEF AnswerFromCache
  <2> QED  BY <2>2, <2>3, Parts, TypedStep
<1>5. CASE BeginRefresh(c)
  <2>1. cache' \in Caches
    BY <1>1, <1>5, Parts DEF BeginRefresh, Caches
  <2>2. [caller[c] EXCEPT !.pc = "fetching"] \in Calls
    BY <1>2 DEF Calls
  <2>3. [caller[c] EXCEPT !.pc = "fetching"].pc = "fetching"
    BY <1>2 DEF Calls
  <2>4. caller' \in [Callers -> Calls] /\ Inside(caller') = {c}
    BY <1>5, <2>2, <2>3, Parts DEF BeginRefresh
  <2>5. fetch' \in Fetches
    BY <1>5, Parts, TimesAssumption DEF BeginRefresh, NoFetch, Fetches
  <2>6. cache.lastRefreshAttempt \in Times
    BY Parts DEF Caches
  <2> QED  BY <1>5, <2>1, <2>4, <2>5, <2>6, Parts, TypedStep, EmptyRecords DEF BeginRefresh
<1>6. CASE ServeDocument(c)
  <2>1. [caller[c] EXCEPT !.pc = "answered"] \in Calls
        /\ [caller[c] EXCEPT !.pc = "answered"].pc = "answered"
    BY <1>2 DEF Calls
  <2>2. caller' \in [Callers -> Calls] /\ Inside(caller') = Inside(caller)
    BY <1>6, <2>1, Parts DEF ServeDocument
  <2>3. fetch' \in Fetches
    BY <1>6, Parts DEF ServeDocument, Fetches
  <2> QED  BY <1>6, <2>2, <2>3, Parts, TypedStep, EmptyRecords DEF ServeDocument
<1>7. CASE Refreshed(c) \/ RefreshFailed(c)
  <2>1. PICK result \in Results : Return(c, result, fetch.at)
    BY <1>7 DEF Refreshed, RefreshFailed, Results
  <2>2. /\ caller' \in [Callers -> Calls] /\ verdict' \in Verdicts
        /\ Inside(caller') = mu \ {c}
    BY <1>1, <2>1, ReturnTyped
  <2>3. mu \ {c} = {} /\ mu' = {}
    BY <1>7, Parts DEF Refreshed, RefreshFailed
  <2>4. cache' \in Caches
    BY <1>7, Parts DEF Refreshed, RefreshFailed, Caches, Fetches
  <2>5. fetch' \in Fetches /\ failedAt' \in Times
    BY <1>1, <1>7, Parts, EmptyRecords DEF Refreshed, RefreshFailed
  <2>6. UNCHANGED <<clock, served, since, previous>>
    BY <1>7 DEF Refreshed, RefreshFailed
  <2> QED  BY <2>2, <2>3, <2>4, <2>5, <2>6, Parts, TypedStep
<1> QED  BY <1>3, <1>4, <1>5, <1>6, <1>7 DEF CallerNext

LEMMA TypedInit == Init => TypeOK
<1> SUFFICES ASSUME Init PROVE TypeOK
  OBVIOUS
<1>1. 0 \in 0 .. MaxClock
  BY TimesAssumption
<1>2. cache \in Caches
  BY <1>1, TimeFacts DEF Init, Caches
<1>3. mu = {c \in Callers : caller[c].pc \in {"fetching", "answered"}}
  BY DEF Init, NoCall
<1> QED
  BY <1>1, <1>2, <1>3, TimeFacts, EmptyRecords
     DEF Init, TypeOK, Caches, Calls, Fetches, Verdicts

LEMMA TypeKept == TypeOK /\ [Next]_vars => TypeOK'
<1> SUFFICES ASSUME TypeOK, [Next]_vars PROVE TypeOK'
  OBVIOUS
<1>1. CASE UNCHANGED vars
  BY <1>1 DEF TypeOK, vars
<1>2. CASE Tick
  BY <1>2, Parts, TypedStep, EmptyRecords, TimesAssumption DEF Tick
<1>3. ASSUME NEW k \in Kids, Rotate(k)
      PROVE  TypeOK'
  BY <1>3, Parts, TypedStep, EmptyRecords, TimeFacts DEF Rotate
<1> QED  BY <1>1, <1>2, <1>3, TypedCaller DEF Next

\* The verifier, its callers and the requests under way keep to their values;
\* in particular the mutex is held by one goroutine at most across a request.
THEOREM TypeCorrect == Spec => []TypeOK
  BY TypedInit, TypeKept, PTL DEF Spec
-----------------------------------------------------------------------------
(***************************************************************************)
(* The invariant behind the answers.  A caller who is answered now relies  *)
(* on what was true when the document was served: so the invariant relates *)
(* the keys of the cache, and of a document on its way, to the time when   *)
(* each key was last published or removed.                                 *)
(***************************************************************************)
Ordered ==
  /\ cache.lastUnknownRefresh <= cache.lastRefreshAttempt
  /\ cache.lastRefreshAttempt <= clock
  /\ previous <= cache.lastRefreshAttempt
  /\ cache.fetchedAt <= clock
  /\ mu # {} => fetch.at = cache.lastRefreshAttempt /\ clock - fetch.at <= Timeout

\* Two refreshes in a row are a throttle apart, or the second one was for an
\* unknown key id and so uses up that throttle.
Spaced ==
  \/ previous <= cache.lastUnknownRefresh
  \/ cache.lastRefreshAttempt - previous >= Throttle

\* A key that is cached or on its way and is no longer served was removed after
\* the document was requested.
RemovedLate ==
  /\ \A k \in cache.keys \ served : since[k] >= cache.fetchedAt - Timeout
  /\ \A k \in fetch.doc \ served : since[k] >= fetch.at
  /\ mu = {} => fetch.doc = {}

\* A key that an answer lacks and that is served was published after the request;
\* one that was published before the last refresh for an unknown key is cached,
\* or that refresh or a later one has failed.
PublishedLate ==
  /\ \A c \in Callers : caller[c].pc = "answered" =>
       \A k \in served \ fetch.doc : since[k] >= fetch.at
  /\ mu = {} =>
       \A k \in served : since[k] < cache.lastUnknownRefresh =>
         k \in cache.keys \/ failedAt >= cache.lastUnknownRefresh

\* The last refresh has succeeded or failed.
Attempted ==
  mu = {} => \/ cache.fetchedAt >= cache.lastRefreshAttempt
             \/ failedAt = cache.lastRefreshAttempt

KeysInv == TypeOK /\ Ordered /\ Spaced /\ RemovedLate /\ PublishedLate /\ Attempted

LEMMA Numbers ==
  ASSUME TypeOK
  PROVE  /\ clock \in Int /\ fetch.at \in Int /\ failedAt \in Int /\ previous \in Int
         /\ cache.fetchedAt \in Int /\ cache.lastRefreshAttempt \in Int
         /\ cache.lastUnknownRefresh \in Int
         /\ \A k \in Kids : since[k] \in Int
         /\ cache.keys \subseteq Kids /\ fetch.doc \subseteq Kids /\ served \subseteq Kids
         /\ Throttle \in Nat /\ Throttle > 0 /\ Lifetime \in Nat /\ MaxStale \in Nat
         /\ Timeout \in Nat
<1>1. /\ clock \in 0 .. MaxClock /\ cache.fetchedAt \in 0 .. MaxClock
      /\ fetch.at \in 0 .. MaxClock
      /\ cache.keys \subseteq Kids /\ fetch.doc \subseteq Kids /\ served \subseteq Kids
  BY Parts DEF Caches, Fetches
<1>2. /\ failedAt \in Times /\ previous \in Times
      /\ cache.lastRefreshAttempt \in Times /\ cache.lastUnknownRefresh \in Times
      /\ \A k \in Kids : since[k] \in Times
  BY Parts DEF Caches
<1>3. failedAt \in Int /\ previous \in Int /\ cache.lastRefreshAttempt \in Int
      /\ cache.lastUnknownRefresh \in Int /\ \A k \in Kids : since[k] \in Int
  BY <1>2, TimeFacts
<1> QED  BY <1>1, <1>3, TimesAssumption

LEMMA InvInit == Init => KeysInv
<1> SUFFICES ASSUME Init PROVE KeysInv
  OBVIOUS
<1>1. TypeOK
  BY TypedInit
<1>2. /\ clock = 0 /\ mu = {} /\ fetch.doc = {} /\ cache.keys = served
      /\ cache.fetchedAt = 0 /\ cache.lastRefreshAttempt = Never
      /\ cache.lastUnknownRefresh = Never /\ previous = Never
      /\ \A k \in Kids : since[k] = Never
      /\ \A c \in Callers : caller[c].pc = "idle"
  BY DEF Init, NoFetch, NoCall
<1>3. Ordered /\ Spaced /\ Attempted
  BY <1>2, TimeFacts DEF Ordered, Spaced, Attempted
<1>4. RemovedLate
  BY <1>2 DEF RemovedLate
<1>5. PublishedLate
  BY <1>1, <1>2, Numbers DEF PublishedLate
<1> QED  BY <1>1, <1>3, <1>4, <1>5 DEF KeysInv

\* Time passes within a request's timeout.
LEMMA InvTick ==
  ASSUME KeysInv, Tick
  PROVE  (Ordered /\ Spaced /\ RemovedLate /\ PublishedLate /\ Attempted)'
<1>1. TypeOK /\ Ordered /\ Spaced /\ RemovedLate /\ PublishedLate /\ Attempted
  BY DEF KeysInv
<1>2. /\ clock' = clock + 1
      /\ mu # {} => clock - fetch.at < Timeout
      /\ UNCHANGED <<served, since, cache, caller, mu, fetch, failedAt, previous>>
  BY DEF Tick
<1>3. Ordered'
  BY <1>1, <1>2, Numbers DEF Ordered
<1> QED  BY <1>1, <1>2, <1>3 DEF Spaced, RemovedLate, PublishedLate, Attempted

\* A key is published or removed now, which is not before anything else.
LEMMA InvRotate ==
  ASSUME KeysInv, NEW k \in Kids, Rotate(k)
  PROVE  (Ordered /\ Spaced /\ RemovedLate /\ PublishedLate /\ Attempted)'
<1>1. TypeOK /\ Ordered /\ Spaced /\ RemovedLate /\ PublishedLate /\ Attempted
  BY DEF KeysInv
<1>2. /\ served' = IF k \in served THEN served \ {k} ELSE served \cup {k}
      /\ UNCHANGED <<clock, cache, caller, mu, fetch, failedAt, previous>>
  BY DEF Rotate
<1>3. \A j \in Kids : since'[j] = IF j = k THEN clock ELSE since[j]
  BY <1>1, Parts DEF Rotate
<1>4. Ordered' /\ Spaced' /\ Attempted'
  BY <1>1, <1>2 DEF Ordered, Spaced, Attempted
<1>5. mu # {} => clock >= fetch.at
  BY <1>1, Numbers DEF Ordered
<1>6. mu = {} => fetch.doc = {}
  BY <1>1 DEF RemovedLate
<1>7. RemovedLate'
  BY <1>1, <1>2, <1>3, <1>5, <1>6, Numbers DEF RemovedLate, Ordered
<1>8. PublishedLate'
  <2>1. \A c \in Callers : caller[c].pc = "answered" => mu # {}
    BY <1>1, Parts
  <2> QED  BY <1>1, <1>2, <1>3, <1>5, <2>1, Numbers DEF PublishedLate, Ordered
<1> QED  BY <1>4, <1>7, <1>8

\* A call that begins, or is answered from the cache, changes nothing of this.
LEMMA InvQuiet ==
  ASSUME KeysInv, NEW c \in Callers,
         (\E k \in Kids : Call(c, k)) \/ AnswerFromCache(c)
  PROVE  (Ordered /\ Spaced /\ RemovedLate /\ PublishedLate /\ Attempted)'
<1>1. TypeOK /\ Ordered /\ Spaced /\ RemovedLate /\ PublishedLate /\ Attempted
  BY DEF KeysInv
<1>2. UNCHANGED <<clock, served, since, cache, mu, fetch, failedAt, previous>>
  BY DEF Call, AnswerFromCache
<1>3. \A d \in Callers : caller'[d].pc = "answered" => caller[d].pc = "answered"
  BY <1>1, Parts DEF Call, AnswerFromCache, Return, NoCall
<1> QED
  BY <1>1, <1>2, <1>3 DEF Ordered, Spaced, RemovedLate, PublishedLate, Attempted

\* A refresh begins: the throttle that let it through is the one that the next
\* refreshes are measured by.
LEMMA InvBegin ==
  ASSUME KeysInv, NEW c \in Callers, BeginRefresh(c)
  PROVE  (Ordered /\ Spaced /\ RemovedLate /\ PublishedLate /\ Attempted)'
<1>1. TypeOK /\ Ordered /\ Spaced /\ RemovedLate /\ PublishedLate /\ Attempted
  BY DEF KeysInv
<1> DEFINE unknown == Unknown(caller[c].kid)
<1>2. /\ cache'.keys = cache.keys
      /\ cache'.fetchedAt = cache.fetchedAt
      /\ cache'.lastRefreshAttempt = clock
      /\ cache'.lastUnknownRefresh = IF unknown THEN clock ELSE cache.lastUnknownRefresh
  BY <1>1, Parts DEF BeginRefresh, Caches
<1>3. /\ mu' # {} /\ previous' = cache.lastRefreshAttempt
      /\ fetch'.at = clock /\ fetch'.doc = {}
      /\ UNCHANGED <<clock, served, since, failedAt>>
  BY DEF BeginRefresh, NoFetch
<1>4. \A d \in Callers : caller'[d].pc # "answered"
  <2>1. \A d \in Callers : caller[d].pc # "answered"
    BY <1>1, Parts DEF BeginRefresh
  <2> QED  BY <1>1, <2>1, Parts DEF BeginRefresh, Calls
<1>5. unknown \/ clock - cache.lastRefreshAttempt >= Throttle
  BY DEF BeginRefresh, MayRefresh
<1> HIDE DEF unknown
<1>6. Ordered'
  BY <1>1, <1>2, <1>3, Numbers DEF Ordered
<1>7. Spaced'
  BY <1>1, <1>2, <1>3, <1>5, Numbers DEF Ordered, Spaced
<1>8. RemovedLate'
  BY <1>1, <1>2, <1>3 DEF RemovedLate
<1>9. PublishedLate' /\ Attempted'
  BY <1>3, <1>4 DEF PublishedLate, Attempted
<1> QED  BY <1>6, <1>7, <1>8, <1>9

LEMMA InvServe ==
  ASSUME KeysInv, NEW c \in Callers, ServeDocument(c)
  PROVE  (Ordered /\ Spaced /\ RemovedLate /\ PublishedLate /\ Attempted)'
<1>1. TypeOK /\ Ordered /\ Spaced /\ RemovedLate /\ PublishedLate /\ Attempted
  BY DEF KeysInv
<1>2. fetch'.at = fetch.at /\ fetch'.doc = served
  BY <1>1, Parts DEF ServeDocument, Fetches
<1>3. /\ mu # {}
      /\ UNCHANGED <<clock, served, since, cache, mu, failedAt, previous>>
  BY <1>1, Parts DEF ServeDocument
<1> QED
  BY <1>1, <1>2, <1>3 DEF Ordered, Spaced, RemovedLate, PublishedLate, Attempted

\* A refresh ends: the new keys are as old as the request, and a failure is noted
\* for the refresh that it ends.
LEMMA InvEnd ==
  ASSUME KeysInv, NEW c \in Callers, Refreshed(c) \/ RefreshFailed(c)
  PROVE  (Ordered /\ Spaced /\ RemovedLate /\ PublishedLate /\ Attempted)'
<1>1. TypeOK /\ Ordered /\ Spaced /\ RemovedLate /\ PublishedLate /\ Attempted
  BY DEF KeysInv
<1>2. /\ mu' = {} /\ fetch'.doc = {}
      /\ UNCHANGED <<clock, served, since, previous>>
  BY DEF Refreshed, RefreshFailed, NoFetch
<1>3. mu # {}
  BY <1>1, Parts DEF Refreshed, RefreshFailed
<1>4. \A d \in Callers : caller'[d].pc # "answered"
  <2>1. \A d \in Callers : caller[d].pc = "answered" => d = c
    BY <1>1, Parts DEF Refreshed, RefreshFailed
  <2> QED  BY <1>1, <2>1, Parts DEF Refreshed, RefreshFailed, Return, NoCall
<1>5. /\ cache'.lastRefreshAttempt = cache.lastRefreshAttempt
      /\ cache'.lastUnknownRefresh = cache.lastUnknownRefresh
  BY <1>1, Parts DEF Refreshed, RefreshFailed, Caches
<1>6. CASE Refreshed(c)
  <2>1. cache'.keys = fetch.doc /\ cache'.fetchedAt = clock /\ UNCHANGED failedAt
    BY <1>1, <1>6, Parts DEF Refreshed, Caches
  <2>2. \A k \in served \ fetch.doc : since[k] >= fetch.at
    BY <1>1, <1>6 DEF Refreshed, PublishedLate
  <2>3. Ordered' /\ Attempted'
    BY <1>1, <1>2, <1>5, <2>1, Numbers DEF Ordered, Attempted
  <2>4. Spaced'
    BY <1>1, <1>2, <1>5 DEF Spaced
  <2>5. RemovedLate'
    BY <1>1, <1>2, <1>3, <2>1, Numbers DEF RemovedLate, Ordered
  <2>6. PublishedLate'
    BY <1>1, <1>2, <1>3, <1>4, <1>5, <2>1, <2>2, Numbers DEF PublishedLate, Ordered
  <2> QED  BY <2>3, <2>4, <2>5, <2>6
<1>7. CASE RefreshFailed(c)
  <2>1. UNCHANGED cache /\ failedAt' = fetch.at
    BY <1>7 DEF RefreshFailed
  <2>2. Ordered' /\ Attempted' /\ Spaced' /\ RemovedLate'
    BY <1>1, <1>2, <1>3, <2>1 DEF Ordered, Attempted, Spaced, RemovedLate
  <2>3. PublishedLate'
    BY <1>1, <1>2, <1>3, <1>4, <2>1, Numbers DEF PublishedLate, Ordered
  <2> QED  BY <2>2, <2>3
<1> QED  BY <1>6, <1>7

LEMMA InvKept == KeysInv /\ [Next]_vars => KeysInv'
<1> SUFFICES ASSUME KeysInv, [Next]_vars PROVE KeysInv'
  OBVIOUS
<1>1. TypeOK'
  BY TypeKept DEF KeysInv
<1>2. CASE UNCHANGED vars
  BY <1>1, <1>2 DEF KeysInv, Ordered, Spaced, RemovedLate, PublishedLate, Attempted, vars
<1>3. CASE Next
  <2>1. (Ordered /\ Spaced /\ RemovedLate /\ PublishedLate /\ Attempted)'
    BY <1>3, InvTick, InvRotate, InvQuiet, InvBegin, InvServe, InvEnd DEF Next, CallerNext
  <2> QED  BY <1>1, <2>1 DEF KeysInv
<1> QED  BY <1>2, <1>3

\* The cache and the requests under way are as old as the verifier takes them to
\* be, whatever the endpoint publishes, removes or fails to answer.
THEOREM KeysInvariant == Spec => []KeysInv
  BY InvInit, InvKept, PTL DEF Spec
-----------------------------------------------------------------------------
Answers == AcceptedWasServed /\ RemovedIsForgotten /\ PublishedIsKnown

\* A call that returns: the cases of ParseAccessToken.
LEMMA AnswersKept ==
  ASSUME KeysInv, Answers, [Next]_vars
  PROVE  Answers'
<1>1. TypeOK /\ Ordered /\ Spaced /\ RemovedLate /\ PublishedLate /\ Attempted
  BY DEF KeysInv
<1>2. CASE UNCHANGED vars
  BY <1>2 DEF vars, Answers, AcceptedWasServed, RemovedIsForgotten, PublishedIsKnown
<1>3. CASE verdict' = NoVerdict
  BY <1>3 DEF NoVerdict, Answers, AcceptedWasServed, RemovedIsForgotten, PublishedIsKnown
<1>4. ASSUME NEW c \in Callers, AnswerFromCache(c)
      PROVE  Answers'
  <2> DEFINE k == caller[c].kid
  <2>1. /\ verdict'.kid = k /\ verdict'.now = clock
        /\ verdict'.result = IF Unknown(k) THEN "unknown"
                             ELSE IF TooStale(clock) THEN "stale" ELSE "accepted"
        /\ UNCHANGED <<served, since, failedAt>>
        /\ mu = {} /\ ~ MayRefresh(k, clock)
    BY <1>4 DEF AnswerFromCache, Return
  <2> HIDE DEF k
  <2>2. CASE verdict'.result = "accepted"
    <3>1. k \in cache.keys /\ clock - cache.fetchedAt <= MaxStale
      BY <1>1, <2>1, <2>2, Numbers DEF Unknown, TooStale
    <3>2. k \notin served => since[k] >= cache.fetchedAt - Timeout
      BY <1>1, <3>1 DEF RemovedLate
    <3>3. \/ clock <= cache.fetchedAt + Lifetime
          \/ clock - cache.lastRefreshAttempt < Throttle
      BY <1>1, <2>1, Numbers DEF MayRefresh, Expired
    <3>4. \/ cache.fetchedAt >= cache.lastRefreshAttempt
          \/ failedAt = cache.lastRefreshAttempt
      BY <1>1, <2>1 DEF Attempted
    <3>5. since[k] \in Int
      BY <1>1, <3>1, Numbers
    <3>6. AcceptedWasServed'
      BY <1>1, <2>1, <3>1, <3>2, <3>5, Numbers DEF AcceptedWasServed
    <3>7. RemovedIsForgotten'
      BY <1>1, <2>1, <3>2, <3>3, <3>4, <3>5, Numbers DEF RemovedIsForgotten
    <3> QED  BY <2>2, <3>6, <3>7 DEF Answers, PublishedIsKnown
  <2>3. CASE verdict'.result = "unknown"
    <3>1. k \notin cache.keys
      BY <2>1, <2>3 DEF Unknown
    <3>2. clock - cache.lastUnknownRefresh < Throttle
      BY <1>1, <2>1, <3>1, Numbers DEF MayRefresh, Unknown
    <3>3. k \in served /\ since[k] < cache.lastUnknownRefresh
            => failedAt >= cache.lastUnknownRefresh
      BY <1>1, <2>1, <3>1 DEF PublishedLate
    <3>4. k \in served => since[k] \in Int
      BY <1>1, Numbers
    <3>5. PublishedIsKnown'
      BY <1>1, <2>1, <3>2, <3>3, <3>4, Numbers DEF PublishedIsKnown
    <3> QED  BY <2>3, <3>5 DEF Answers, AcceptedWasServed, RemovedIsForgotten
  <2>4. CASE verdict'.result = "stale"
    BY <2>4 DEF Answers, AcceptedWasServed, RemovedIsForgotten, PublishedIsKnown
  <2> QED  BY <2>1, <2>2, <2>3, <2>4
<1>5. ASSUME NEW c \in Callers, Refreshed(c)
      PROVE  Answers'
  <2> DEFINE k == caller[c].kid
  <2>1. /\ verdict'.kid = k /\ verdict'.now = fetch.at
        /\ verdict'.result = IF k \in fetch.doc THEN "accepted" ELSE "unknown"
        /\ UNCHANGED <<served, since, failedAt>>
    BY <1>5 DEF Refreshed, Return
  <2> HIDE DEF k
  <2>2. k \in fetch.doc \ served => since[k] >= fetch.at
    BY <1>1 DEF RemovedLate
  <2>3. k \in served \ fetch.doc => since[k] >= fetch.at
    BY <1>1, <1>5 DEF Refreshed, PublishedLate
  <2>4. k \in Kids => since[k] \in Int
    BY <1>1, Numbers
  <2>5. AcceptedWasServed' /\ RemovedIsForgotten'
    BY <1>1, <2>1, <2>2, <2>4, Numbers DEF AcceptedWasServed, RemovedIsForgotten
  <2>6. PublishedIsKnown'
    BY <1>1, <2>1, <2>3, <2>4, Numbers DEF PublishedIsKnown
  <2> QED  BY <2>5, <2>6 DEF Answers
<1>6. ASSUME NEW c \in Callers, RefreshFailed(c)
      PROVE  Answers'
  <2> DEFINE k == caller[c].kid
  <2>1. /\ verdict'.kid = k /\ verdict'.now = fetch.at
        /\ verdict'.result = IF Unknown(k) \/ TooStale(fetch.at) THEN "failed" ELSE "accepted"
        /\ UNCHANGED <<served, since>> /\ failedAt' = fetch.at
    BY <1>6 DEF RefreshFailed, Return
  <2> HIDE DEF k
  <2>2. CASE verdict'.result = "accepted"
    <3>1. k \in cache.keys /\ fetch.at - cache.fetchedAt <= MaxStale
      BY <1>1, <2>1, <2>2, Numbers DEF Unknown, TooStale
    <3>2. k \notin served => since[k] >= cache.fetchedAt - Timeout
      BY <1>1, <3>1 DEF RemovedLate
    <3>3. since[k] \in Int
      BY <1>1, <3>1, Numbers
    <3>4. AcceptedWasServed' /\ RemovedIsForgotten'
      BY <1>1, <2>1, <3>1, <3>2, <3>3, Numbers DEF AcceptedWasServed, RemovedIsForgotten
    <3> QED  BY <2>2, <3>4 DEF Answers, PublishedIsKnown
  <2>3. CASE verdict'.result = "failed"
    BY <2>3 DEF Answers, AcceptedWasServed, RemovedIsForgotten, PublishedIsKnown
  <2> QED  BY <2>1, <2>2, <2>3
<1>7. Next => \/ verdict' = NoVerdict
              \/ \E c \in Callers : AnswerFromCache(c) \/ Refreshed(c) \/ RefreshFailed(c)
  BY DEF Next, Tick, Rotate, CallerNext, Call, BeginRefresh, ServeDocument
<1> QED  BY <1>2, <1>3, <1>4, <1>5, <1>6, <1>7

LEMMA AnswersAlways == Spec => []Answers
<1>1. Init => Answers
  BY DEF Init, NoVerdict, Answers, AcceptedWasServed, RemovedIsForgotten, PublishedIsKnown
<1> QED  BY <1>1, AnswersKept, KeysInvariant, PTL DEF Spec

\* ParseAccessToken accepts a key at most maxStale and the time of a fetch after
\* it was removed, however long the endpoint is out and whoever calls.
THEOREM StalenessBounded == Spec => []AcceptedWasServed
<1>1. Answers => AcceptedWasServed
  BY DEF Answers
<1> QED  BY <1>1, AnswersAlways, PTL

\* While refreshes succeed, a removed key is accepted for the cache lifetime or
\* the throttle, and the time of a fetch, and no longer.
THEOREM RemovalTakesEffect == Spec => []RemovedIsForgotten
<1>1. Answers => RemovedIsForgotten
  BY DEF Answers
<1> QED  BY <1>1, AnswersAlways, PTL

\* A key that has been served for the length of the throttle is unknown to no
\* call unless a refresh has just failed, whatever key ids other calls name.
THEOREM PublicationTakesEffect == Spec => []PublishedIsKnown
<1>1. Answers => PublishedIsKnown
  BY DEF Answers
<1> QED  BY <1>1, AnswersAlways, PTL

\* The two throttles together let at most two refreshes start in any period of
\* the throttle's length.
THEOREM Throttled == Spec => RefreshesAreThrottled
<1>1. KeysInv /\ [Next]_vars => [mu = {} /\ mu' # {} => clock - previous >= Throttle]_vars
  <2> SUFFICES ASSUME KeysInv, Next, mu = {}, mu' # {}
               PROVE  clock - previous >= Throttle
    OBVIOUS
  <2>1. PICK c \in Callers : BeginRefresh(c)
    BY DEF Next, Tick, Rotate, CallerNext, Call, AnswerFromCache, ServeDocument, Refreshed,
           RefreshFailed
  <2>2. \/ clock - cache.lastRefreshAttempt >= Throttle
        \/ clock - cache.lastUnknownRefresh >= Throttle
    BY <2>1 DEF BeginRefresh, MayRefresh
  <2> QED  BY <2>2, Numbers DEF KeysInv, Ordered, Spaced
<1> QED  BY <1>1, KeysInvariant, PTL DEF Spec, RefreshesAreThrottled
=============================================================================
