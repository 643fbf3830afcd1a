---------------------------- MODULE AnalysisProofs ----------------------------
(***************************************************************************)
(* For any number of handlers, keys and rotations: a withdrawn key is used *)
(* for a bounded time, and a rotation is followed.  The requests of        *)
(* AnalysisRequests use the key cache as KeyCache says, so that this holds *)
(* of them; no image leaves without consent, and none is forgotten by a    *)
(* handler that goes on.  Then the limits: how many requests pass, and     *)
(* what the answer to a refused one is worth.                              *)
(***************************************************************************)
EXTENDS AnalysisRequests, FiniteSetTheorems, SequenceTheorems, WellFoundedInduction, TLAPS

-----------------------------------------------------------------------------
(* The key cache *)

\* A refresh in progress began not longer ago than its requests may take.
BegunBound ==
    \A h \in Requests : Asking(h) =>
        lookups[h].begun <= clock /\ clock <= lookups[h].begun + FetchTime

\* An answer on its way lists keys that were published after it was asked for.
BodyBound ==
    \A h \in Requests : lookups[h].pc = "body" =>
        \A k \in lookups[h].body : k \in published \/ lookups[h].begun <= withdrawn[k]

\* A cached key is published, or was until shortly before it was fetched.
CacheBound ==
    \A k \in keys : k \in published \/ expiresAt <= withdrawn[k] + CacheTime + FetchTime

TimesBound ==
    /\ expiresAt <= clock + CacheTime
    /\ \A k \in Kids : withdrawn[k] <= clock

\* A lookup whose key is not published, or not in the answer, is excused.
AbsenceNoted ==
    \A h \in Requests :
        /\ (lookups[h].pc # "none" /\ lookups[h].kid \notin published) => h \in excused
        /\ (lookups[h].pc = "body" /\ lookups[h].kid \notin lookups[h].body) => h \in excused

KidGiven ==
    \A h \in Requests : lookups[h].pc # "none" => lookups[h].kid \in Kids

KeyInv ==
    /\ KeyTypeOK /\ KidGiven
    /\ BegunBound /\ BodyBound /\ CacheBound /\ TimesBound
    /\ AbsenceNoted
    /\ RevocationBounded /\ RotationFollowed

LEMMA InitInv == KeyInit => KeyInv
  BY KeyCacheAssumption
  DEF KeyInit, KeyInv, KeyTypeOK, KidGiven, BegunBound, BodyBound, CacheBound, TimesBound,
      AbsenceNoted, RevocationBounded, RotationFollowed, Asking, NoLookup, Lookup

LEMMA StartInv ==
  ASSUME KeyInv, NEW h \in Requests, NEW kid \in Kids, StartLookup(h, kid)
  PROVE  KeyInv'
  BY KeyCacheAssumption
  DEF StartLookup, KeyInv, KeyTypeOK, KidGiven, BegunBound, BodyBound, CacheBound,
      TimesBound, AbsenceNoted, RevocationBounded, RotationFollowed, Asking, NoLookup,
      Lookup, cacheVars

LEMMA EndInv ==
  ASSUME KeyInv, NEW h \in Requests, EndLookup(h)
  PROVE  KeyInv'
  BY KeyCacheAssumption
  DEF EndLookup, KeyInv, KeyTypeOK, KidGiven, BegunBound, BodyBound, CacheBound,
      TimesBound, AbsenceNoted, RevocationBounded, RotationFollowed, Asking, NoLookup,
      Lookup, cacheVars

\* Starting a refresh: the handler's register and the lock change, and only a
\* refresh that has just ended leaves another cache behind.
LEMMA AskLookups ==
  ASSUME KeyInv, NEW h \in Requests, NEW why \in {"stale", "unknown"},
         lookups[h].pc \in {"lock", "body"},
         lookups' = AskProvider(h, why),
         UNCHANGED <<clock, published, withdrawn, excused>>
  PROVE  /\ lookups' \in [Requests -> Lookup]
         /\ KidGiven' /\ AbsenceNoted' /\ RotationFollowed' /\ RevocationBounded'
         /\ BegunBound' /\ BodyBound'
<1>1. PICK pc \in {"fetch", "discover"} :
        lookups' = [lookups EXCEPT ![h] =
                      [lookups[h] EXCEPT !.pc = pc, !.why = why, !.begun = clock]]
  BY DEF AskProvider, KeyInv, KeyTypeOK, Lookup
<1>2. lookups' \in [Requests -> Lookup]
  BY <1>1, ZenonT(30) DEF KeyInv, KeyTypeOK, Lookup
<1>3. KidGiven' /\ AbsenceNoted' /\ RotationFollowed' /\ RevocationBounded'
  BY <1>1
  DEF KeyInv, KeyTypeOK, Lookup, KidGiven, AbsenceNoted, RotationFollowed, RevocationBounded
<1>4. BegunBound' /\ BodyBound'
  BY <1>1, KeyCacheAssumption
  DEF KeyInv, KeyTypeOK, Lookup, BegunBound, BodyBound, Asking
<1> QED  BY <1>2, <1>3, <1>4

LEMMA EnterCachedInv ==
  ASSUME KeyInv, NEW h \in Requests, EnterCached(h)
  PROVE  KeyInv'
<1>1. CASE lookups[h].kid \in keys
  <2>1. /\ lookups' = [lookups EXCEPT ![h] =
                        [lookups[h] EXCEPT !.pc = "found", !.age = Age(lookups[h].kid)]]
        /\ lock' = None
        /\ UNCHANGED <<clock, published, rotations, keys, expiresAt, uriKnown,
                       withdrawn, excused>>
    BY <1>1 DEF EnterCached, Found, KeyInv, KeyTypeOK, Lookup
  <2>2. Age(lookups[h].kid) \in Nat /\ Age(lookups[h].kid) <= CacheTime + FetchTime
    BY <1>1, KeyCacheAssumption
    DEF EnterCached, Age, KeyInv, KeyTypeOK, CacheBound, TimesBound
  <2>3. lookups[h].pc = "lock"  BY DEF EnterCached
  <2>4. KeyTypeOK'
    BY <2>1, <2>2, KeyCacheAssumption, ZenonT(30) DEF KeyInv, KeyTypeOK, Lookup
  <2>5. KidGiven' /\ AbsenceNoted' /\ RotationFollowed'
    BY <2>1, <2>3 DEF KeyInv, KeyTypeOK, Lookup, KidGiven, AbsenceNoted, RotationFollowed
  <2>6. BegunBound' /\ BodyBound'
    BY <2>1, <2>3 DEF KeyInv, KeyTypeOK, Lookup, BegunBound, BodyBound, Asking
  <2>7. CacheBound' /\ TimesBound'
    BY <2>1 DEF KeyInv, CacheBound, TimesBound
  <2>8. RevocationBounded'
    BY <2>1, <2>2 DEF KeyInv, KeyTypeOK, Lookup, RevocationBounded
  <2> QED  BY <2>4, <2>5, <2>6, <2>7, <2>8 DEF KeyInv
<1>2. CASE lookups[h].kid \notin keys
  <2>1. /\ lookups[h].pc = "lock"
        /\ lookups' = AskProvider(h, "unknown")
        /\ lock' = h
        /\ UNCHANGED <<clock, published, rotations, keys, expiresAt, uriKnown,
                       withdrawn, excused>>
    BY <1>2 DEF EnterCached
  <2>2. CacheBound' /\ TimesBound'
    BY <2>1 DEF KeyInv, CacheBound, TimesBound
  <2>3. KeyTypeOK'
    BY <2>1, AskLookups DEF KeyInv, KeyTypeOK
  <2> QED  BY <2>1, <2>2, <2>3, AskLookups DEF KeyInv
<1> QED  BY <1>1, <1>2

LEMMA EnterExpiredInv ==
  ASSUME KeyInv, NEW h \in Requests, EnterExpired(h)
  PROVE  KeyInv'
<1>1. /\ lookups[h].pc = "lock"
      /\ lookups' = AskProvider(h, "stale")
      /\ lock' = h
      /\ UNCHANGED <<clock, published, rotations, keys, expiresAt, uriKnown,
                     withdrawn, excused>>
  BY DEF EnterExpired
<1>2. CacheBound' /\ TimesBound'
  BY <1>1 DEF KeyInv, CacheBound, TimesBound
<1>3. KeyTypeOK'
  BY <1>1, AskLookups DEF KeyInv, KeyTypeOK
<1> QED  BY <1>1, <1>2, <1>3, AskLookups DEF KeyInv

LEMMA DiscoverInv ==
  ASSUME KeyInv, NEW h \in Requests, Discover(h)
  PROVE  KeyInv'
  BY KeyCacheAssumption
  DEF Discover, KeyInv, KeyTypeOK, KidGiven, BegunBound, BodyBound, CacheBound,
      TimesBound, AbsenceNoted, RevocationBounded, RotationFollowed, Asking, Lookup

LEMMA AnswerInv ==
  ASSUME KeyInv, NEW h \in Requests, ProviderAnswers(h)
  PROVE  KeyInv'
<1>1. /\ lookups[h].pc = "fetch"
      /\ lookups' = [lookups EXCEPT ![h] =
                        [lookups[h] EXCEPT !.pc = "body", !.body = published]]
      /\ UNCHANGED <<clock, published, rotations, keys, expiresAt, uriKnown, lock,
                     withdrawn, excused>>
  BY DEF ProviderAnswers, KeyInv, KeyTypeOK, Lookup, cacheVars
<1>2. KeyTypeOK'
  BY <1>1, ZenonT(30) DEF KeyInv, KeyTypeOK, Lookup
<1>3. KidGiven' /\ RevocationBounded' /\ RotationFollowed'
  BY <1>1 DEF KeyInv, KeyTypeOK, Lookup, KidGiven, RevocationBounded, RotationFollowed
<1>4. BegunBound'
  BY <1>1 DEF KeyInv, KeyTypeOK, Lookup, BegunBound, Asking
<1>5. BodyBound'
  BY <1>1 DEF KeyInv, KeyTypeOK, Lookup, BodyBound
<1>6. AbsenceNoted'
  BY <1>1 DEF KeyInv, KeyTypeOK, Lookup, AbsenceNoted
<1>7. CacheBound' /\ TimesBound'
  BY <1>1 DEF KeyInv, CacheBound, TimesBound
<1> QED  BY <1>2, <1>3, <1>4, <1>5, <1>6, <1>7 DEF KeyInv

\* The new cache: its keys were published when the refresh began, or later.
LEMMA RefreshCache ==
  ASSUME KeyInv, NEW h \in Requests, Refresh(h)
  PROVE  CacheBound' /\ TimesBound'
<1>1. /\ lookups[h].pc = "body"
      /\ keys' = lookups[h].body
      /\ expiresAt' = clock + CacheTime
      /\ UNCHANGED <<clock, published, withdrawn>>
  BY DEF Refresh
<1>2. lookups[h].begun \in Nat /\ clock \in Nat /\ clock <= lookups[h].begun + FetchTime
  BY <1>1 DEF KeyInv, KeyTypeOK, Lookup, BegunBound, Asking
<1>3. ASSUME NEW k \in lookups[h].body
      PROVE  k \in published \/ clock + CacheTime <= withdrawn[k] + CacheTime + FetchTime
  <2>1. k \in Kids /\ withdrawn[k] \in Nat
    BY DEF KeyInv, KeyTypeOK, Lookup
  <2>2. k \in published \/ lookups[h].begun <= withdrawn[k]
    BY <1>1 DEF KeyInv, BodyBound
  <2> QED  BY <1>2, <2>1, <2>2, KeyCacheAssumption
<1>4. CacheBound'  BY <1>1, <1>3 DEF CacheBound
<1>5. TimesBound'
  BY <1>1, <1>2, KeyCacheAssumption DEF TimesBound, KeyInv
<1> QED  BY <1>4, <1>5

LEMMA RefreshInv ==
  ASSUME KeyInv, NEW h \in Requests, Refresh(h)
  PROVE  KeyInv'
<1>1. /\ lookups[h].pc = "body"
      /\ lookups[h] \in Lookup
      /\ lookups[h].kid \in Kids
      /\ keys' = lookups[h].body
      /\ expiresAt' = clock + CacheTime
      /\ lock' \in {None, lock}
      /\ UNCHANGED <<clock, published, rotations, uriKnown, withdrawn, excused>>
  BY DEF Refresh, KeyInv, KeyTypeOK, KidGiven
<1>2. ASSUME lookups' \in [Requests -> Lookup]  PROVE  KeyTypeOK'
  BY <1>1, <1>2, KeyCacheAssumption DEF KeyInv, KeyTypeOK, Lookup
<1>3. CASE lookups[h].kid \in lookups[h].body
  <2>1. lookups' = [lookups EXCEPT ![h] =
                      [lookups[h] EXCEPT !.pc = "found", !.age = Age(lookups[h].kid)]]
    BY <1>1, <1>3 DEF Refresh, Found, KeyInv, KeyTypeOK, Lookup
  <2>2. Age(lookups[h].kid) \in Nat /\ Age(lookups[h].kid) <= CacheTime + FetchTime
    BY <1>1, <1>3, KeyCacheAssumption
    DEF Age, KeyInv, KeyTypeOK, Lookup, BegunBound, BodyBound, TimesBound, Asking
  <2>3. lookups' \in [Requests -> Lookup]
    BY <2>1, <2>2, ZenonT(30) DEF KeyInv, KeyTypeOK, Lookup
  <2>4. KidGiven' /\ AbsenceNoted' /\ RotationFollowed'
    BY <1>1, <2>1 DEF KeyInv, KeyTypeOK, Lookup, KidGiven, AbsenceNoted, RotationFollowed
  <2>5. BegunBound' /\ BodyBound'
    BY <1>1, <2>1 DEF KeyInv, KeyTypeOK, Lookup, BegunBound, BodyBound, Asking
  <2>6. RevocationBounded'
    BY <1>1, <2>1, <2>2 DEF KeyInv, KeyTypeOK, Lookup, RevocationBounded
  <2> QED  BY <1>2, <2>3, <2>4, <2>5, <2>6, RefreshCache DEF KeyInv
<1>4. CASE lookups[h].kid \notin lookups[h].body /\ lookups[h].why = "stale"
  <2>1. lookups' = AskProvider(h, "unknown")
    BY <1>1, <1>4 DEF Refresh
  <2> QED  BY <1>1, <1>2, <2>1, AskLookups, RefreshCache DEF KeyInv
<1>5. CASE lookups[h].kid \notin lookups[h].body /\ lookups[h].why = "unknown"
  <2>1. lookups' = [lookups EXCEPT ![h] = [lookups[h] EXCEPT !.pc = "refused"]]
    BY <1>1, <1>5 DEF Refresh, KeyInv, KeyTypeOK, Lookup
  <2>2. h \in excused
    BY <1>1, <1>5 DEF KeyInv, AbsenceNoted
  <2>3. lookups' \in [Requests -> Lookup]
    BY <2>1 DEF KeyInv, KeyTypeOK, Lookup
  <2>4. KidGiven' /\ AbsenceNoted' /\ RotationFollowed' /\ RevocationBounded'
    BY <1>1, <2>1, <2>2
    DEF KeyInv, KeyTypeOK, Lookup, KidGiven, AbsenceNoted, RotationFollowed, RevocationBounded
  <2>5. BegunBound' /\ BodyBound'
    BY <1>1, <2>1 DEF KeyInv, KeyTypeOK, Lookup, BegunBound, BodyBound, Asking
  <2> QED  BY <1>2, <2>3, <2>4, <2>5, RefreshCache DEF KeyInv
<1> QED  BY <1>3, <1>4, <1>5 DEF Refresh

LEMMA RefreshFailsInv ==
  ASSUME KeyInv, NEW h \in Requests, RefreshFails(h)
  PROVE  KeyInv'
  BY KeyCacheAssumption
  DEF RefreshFails, KeyInv, KeyTypeOK, KidGiven, BegunBound, BodyBound, CacheBound,
      TimesBound, AbsenceNoted, RevocationBounded, RotationFollowed, Asking, Lookup

LEMMA RotateInv ==
  ASSUME KeyInv, NEW kids \in SUBSET Kids, Rotate(kids)
  PROVE  KeyInv'
  BY KeyCacheAssumption
  DEF Rotate, KeyInv, KeyTypeOK, KidGiven, BegunBound, BodyBound, CacheBound,
      TimesBound, AbsenceNoted, RevocationBounded, RotationFollowed, Asking, Lookup,
      cacheVars

LEMMA TickInv ==
  ASSUME KeyInv, TickKeys
  PROVE  KeyInv'
  BY KeyCacheAssumption
  DEF TickKeys, KeyInv, KeyTypeOK, KidGiven, BegunBound, BodyBound, CacheBound,
      TimesBound, AbsenceNoted, RevocationBounded, RotationFollowed, Asking, Lookup,
      cacheVars

LEMMA RestartInv ==
  ASSUME KeyInv, RestartCache
  PROVE  KeyInv'
  BY KeyCacheAssumption
  DEF RestartCache, KeyInv, KeyTypeOK, KidGiven, BegunBound, BodyBound, CacheBound,
      TimesBound, AbsenceNoted, RevocationBounded, RotationFollowed, Asking, NoLookup,
      Lookup

LEMMA StutterInv == KeyInv /\ UNCHANGED keyVars => KeyInv'
  BY DEF KeyInv, KeyTypeOK, KidGiven, BegunBound, BodyBound, CacheBound, TimesBound,
         AbsenceNoted, RevocationBounded, RotationFollowed, Asking, keyVars, cacheVars

LEMMA Inductive == KeyInv /\ [KeyNext]_keyVars => KeyInv'
<1> SUFFICES ASSUME KeyInv, KeyNext PROVE KeyInv'
  BY StutterInv
<1>1. CASE \E h \in Requests : KeyStep(h)
  BY <1>1, EnterCachedInv, EnterExpiredInv, DiscoverInv, AnswerInv, RefreshInv,
     RefreshFailsInv DEF KeyStep
<1>2. CASE \E h \in Requests : EndLookup(h)
  BY <1>2, EndInv
<1>3. CASE \E h \in Requests, k \in Kids : StartLookup(h, k)
  BY <1>3, StartInv
<1>4. CASE \E kids \in SUBSET Kids : Rotate(kids)
  BY <1>4, RotateInv
<1>5. CASE TickKeys
  BY <1>5, TickInv
<1>6. CASE RestartCache
  BY <1>6, RestartInv
<1> QED  BY <1>1, <1>2, <1>3, <1>4, <1>5, <1>6 DEF KeyNext

LEMMA AlwaysKeyInv == KeySpec => []KeyInv
  BY InitInv, Inductive, PTL DEF KeySpec

\* However handlers, refreshes, rotations and crashes interleave, a key that the
\* provider withdrew is used at most cache_seconds and one refresh longer.
THEOREM WithdrawnKeysExpire == KeySpec => []RevocationBounded
<1>1. KeyInv => RevocationBounded  BY DEF KeyInv
<1> QED  BY <1>1, AlwaysKeyInv, PTL

\* A lookup is refused only when its key was missing at the provider at some
\* moment of the lookup, or a refresh failed.
THEOREM RotationsAreFollowed == KeySpec => []RotationFollowed
<1>1. KeyInv => RotationFollowed  BY DEF KeyInv
<1> QED  BY <1>1, AlwaysKeyInv, PTL

-----------------------------------------------------------------------------
(* The requests *)

USE DEF handlerVars, observers, rateObservers

\* Steps of a request that leave the cache, the provider and time alone.
LocalStep(h) ==
    \/ ReadClock(h) \/ MemoryCheck(h) \/ RedisCheck(h) \/ RedisCheckFails(h)
    \/ AnalyzeRefused(h) \/ ContentChanged(h) \/ SendImage(h)
    \/ ProviderReturns(h) \/ ProviderFails(h) \/ CallRaises(h) \/ RecordEvent(h)

LEMMA NextCases ==
  ASSUME Next
  PROVE  \/ \E h \in Requests, c \in Calls : ArriveOidc(h, c) \/ ArriveHs256(h, c)
         \/ \E h \in Requests : LookupKey(h) \/ Authenticate(h) \/ LocalStep(h)
         \/ Crash
         \/ Environment
  BY DEF Next, LocalStep

LEMMA LocalStepKeys ==
  ASSUME NEW h \in Requests, LocalStep(h)
  PROVE  UNCHANGED keyVars
  BY DEF LocalStep, ReadClock, MemoryCheck, RedisCheck, RedisCheckFails, AnalyzeRefused,
         ContentChanged, SendImage, ProviderReturns, ProviderFails, CallRaises, RecordEvent

LEMMA KeySteps ==
  ASSUME [Next]_vars
  PROVE  [KeyNext]_keyVars
<1>1. CASE UNCHANGED vars
  BY <1>1 DEF vars
<1>2. CASE Next
  <2>1. ASSUME NEW h \in Requests, NEW c \in Calls, ArriveOidc(h, c)
        PROVE  KeyNext
    BY <2>1, LimitAssumption DEF ArriveOidc, KeyNext
  <2>2. ASSUME NEW h \in Requests, NEW c \in Calls, ArriveHs256(h, c)
        PROVE  UNCHANGED keyVars
    BY <2>2 DEF ArriveHs256
  <2>3. ASSUME NEW h \in Requests, LookupKey(h) \/ Authenticate(h)
        PROVE  KeyNext
    BY <2>3 DEF LookupKey, Authenticate, KeyNext
  <2>4. CASE Environment
    BY <2>4 DEF Environment, KeyNext
  <2>5. CASE Crash
    BY <2>5 DEF Crash, KeyNext
  <2> QED
    BY <1>2, <2>1, <2>2, <2>3, <2>4, <2>5, NextCases, LocalStepKeys
<1> QED  BY <1>1, <1>2

\* The API's requests, with whatever limiter and provider, are users of the key
\* cache: every step of theirs is one of KeyCache or leaves the cache alone.
THEOREM RequestsUseKeyCache == Spec => KeySpec
<1>1. Init => KeyInit  BY DEF Init
<1> QED  BY <1>1, KeySteps, PTL DEF Spec, KeySpec

\* Hence a request is authenticated by a withdrawn key for a bounded time only,
\* and refused for an unknown key only with a reason.
THEOREM RequestsAreAuthenticatedFreshly == Spec => [](RevocationBounded /\ RotationFollowed)
  BY RequestsUseKeyCache, WithdrawnKeysExpire, RotationsAreFollowed, PTL

-----------------------------------------------------------------------------
(* What a request's place says about its token, and about its image *)

Granted(call, since) == call.signed /\ call.trusted /\ since < call.exp

Good(image) == image.call.consent /\ Granted(image.call, image.since)

\* A request is past request_identity, and what it may do next.
PlaceOK(r) ==
    /\ r.pc # "idle" => r.call \in Calls
    /\ r.pc \in {"limit", "check", "analyze", "called", "audit"} => Granted(r.call, r.since)
    /\ r.pc = "called" => r.call.consent
    /\ r.now <= clock

PlaceInv ==
    /\ reqs \in [Requests -> Request]
    /\ \A h \in Requests : PlaceOK(reqs[h])
    /\ egress \subseteq Image /\ abandoned \subseteq Image
    /\ \A image \in egress \cup abandoned : Good(image)
    /\ \A image \in egress :
          reqs[image.by].pc \in {"called", "audit"} /\ ImageOf(image.by) = image

LEMMA InitPlaces == Init => PlaceInv
  BY DEF Init, KeyInit, PlaceInv, PlaceOK, Idle, Request

LEMMA PlacesUnchanged ==
  ASSUME PlaceInv, UNCHANGED <<reqs, egress, abandoned>>, KeyTypeOK,
         clock' \in Nat, clock' >= clock
  PROVE  PlaceInv'
<1>1. \A h \in Requests : reqs[h].now \in Nat
  BY DEF PlaceInv, Request
<1>2. \A h \in Requests : PlaceOK(reqs[h])'
  BY <1>1 DEF PlaceInv, PlaceOK, KeyTypeOK
<1> QED  BY <1>2 DEF PlaceInv, ImageOf

\* A step of one request.  Its images are still as it says, and what it sent
\* and does not hold any more is abandoned or was recorded.
LEMMA PlacesStep ==
  ASSUME PlaceInv, NEW h \in Requests, NEW r \in Request, clock' = clock,
         reqs' = [reqs EXCEPT ![h] = r], PlaceOK(r),
         \A image \in egress' :
            image \in egress \/ (image \in Image /\ image.by = h /\ Good(image)),
         abandoned' \subseteq abandoned \cup egress,
         \A image \in egress' : image.by = h =>
            r.pc \in {"called", "audit"} /\ image = [by |-> h, call |-> r.call, since |-> r.since]
  PROVE  PlaceInv'
<1>1. reqs' \in [Requests -> Request] /\ reqs'[h] = r
      /\ \A g \in Requests : g # h => reqs'[g] = reqs[g]
  BY DEF PlaceInv
<1>2. \A g \in Requests : PlaceOK(reqs[g])'
  BY <1>1 DEF PlaceInv, PlaceOK
<1>3. egress' \subseteq Image /\ abandoned' \subseteq Image
  BY DEF PlaceInv
<1>4. \A image \in egress' \cup abandoned' : Good(image)
  BY DEF PlaceInv
<1>5. ASSUME NEW image \in egress'
      PROVE  reqs'[image.by].pc \in {"called", "audit"} /\ ImageOf(image.by)' = image
  <2>1. image.by \in Requests
    BY <1>3 DEF Image
  <2>2. CASE image.by = h
    BY <1>1, <2>2 DEF ImageOf
  <2>3. CASE image.by # h
    <3>1. image \in egress /\ reqs'[image.by] = reqs[image.by]
      BY <1>1, <2>1, <2>3
    <3> QED  BY <3>1 DEF PlaceInv, ImageOf
  <2> QED  BY <2>2, <2>3
<1> QED  BY <1>1, <1>2, <1>3, <1>4, <1>5 DEF PlaceInv

\* A step that sends nothing.
LEMMA PlacesKept ==
  ASSUME PlaceInv, NEW h \in Requests, NEW r \in Request, clock' = clock,
         reqs' = [reqs EXCEPT ![h] = r], PlaceOK(r),
         egress' \subseteq egress, abandoned' \subseteq abandoned \cup egress,
         \/ \A image \in egress' : image.by # h
         \/ /\ r.pc \in {"called", "audit"}
            /\ r.call = reqs[h].call /\ r.since = reqs[h].since
  PROVE  PlaceInv'
<1>1. ASSUME NEW image \in egress', image.by = h
      PROVE  r.pc \in {"called", "audit"} /\ image = [by |-> h, call |-> r.call, since |-> r.since]
  BY <1>1 DEF PlaceInv, ImageOf
<1> QED  BY <1>1, PlacesStep

LEMMA PlacesAnswered ==
  ASSUME PlaceInv, KeyTypeOK, NEW h \in Requests, clock' = clock,
         reqs' = [reqs EXCEPT ![h] = Idle],
         egress' \subseteq egress, \A image \in egress' : image.by # h,
         abandoned' \subseteq abandoned \cup egress
  PROVE  PlaceInv'
<1>1. Idle \in Request /\ PlaceOK(Idle)
  BY DEF Idle, Request, PlaceOK, KeyTypeOK
<1> QED  BY <1>1, PlacesKept

\* The image of a request that is recorded or abandoned.
LEMMA ImageGone ==
  ASSUME PlaceInv, NEW h \in Requests, egress' = egress \ {ImageOf(h)}
  PROVE  \A image \in egress' : image.by # h
  BY DEF PlaceInv

LEMMA NoImage ==
  ASSUME PlaceInv, NEW h \in Requests, reqs[h].pc \notin {"called", "audit"}
  PROVE  \A image \in egress : image.by # h
  BY DEF PlaceInv

LEMMA ReadPlaces ==
  ASSUME PlaceInv, KeyTypeOK, NEW h \in Requests, ReadClock(h)
  PROVE  PlaceInv'
<1> DEFINE r == [reqs[h] EXCEPT !.pc = "check", !.now = clock]
<1>1. /\ reqs[h] \in Request /\ reqs[h].pc = "limit" /\ PlaceOK(reqs[h])
      /\ clock' = clock /\ egress' = egress /\ abandoned' = abandoned
  BY DEF ReadClock, PlaceInv, keyVars
<1>2. /\ r \in Request /\ r.pc = "check" /\ r.now = clock
      /\ r.call = reqs[h].call /\ r.since = reqs[h].since
  BY <1>1 DEF Request, KeyTypeOK
<1>3. reqs' = [reqs EXCEPT ![h] = r]
  BY <1>1 DEF ReadClock, PlaceInv, Request
<1> HIDE DEF r
<1>4. PlaceOK(r)
  BY <1>1, <1>2 DEF PlaceOK, KeyTypeOK
<1> QED  BY <1>1, <1>2, <1>3, <1>4, NoImage, PlacesKept

LEMMA CheckPlaces ==
  ASSUME PlaceInv, KeyTypeOK, NEW h \in Requests, reqs[h].pc \in {"limit", "check"},
         \/ reqs' = [reqs EXCEPT ![h] = Idle]
         \/ reqs' = [reqs EXCEPT ![h].pc = "analyze", ![h].now = 0],
         clock' = clock, egress' = egress, abandoned' = abandoned
  PROVE  PlaceInv'
<1>1. /\ reqs[h] \in Request /\ PlaceOK(reqs[h])
      /\ \A image \in egress : image.by # h
  BY NoImage DEF PlaceInv
<1>2. CASE reqs' = [reqs EXCEPT ![h] = Idle]
  BY <1>1, <1>2, PlacesAnswered
<1>3. CASE reqs' = [reqs EXCEPT ![h].pc = "analyze", ![h].now = 0]
  <2> DEFINE r == [reqs[h] EXCEPT !.pc = "analyze", !.now = 0]
  <2>1. /\ r \in Request /\ r.pc = "analyze" /\ r.now = 0
        /\ r.call = reqs[h].call /\ r.since = reqs[h].since
    BY <1>1 DEF Request
  <2>2. reqs' = [reqs EXCEPT ![h] = r]
    BY <1>1, <1>3 DEF PlaceInv, Request
  <2> HIDE DEF r
  <2>3. PlaceOK(r)
    BY <1>1, <2>1 DEF PlaceOK, KeyTypeOK
  <2> QED  BY <1>1, <2>1, <2>2, <2>3, PlacesKept
<1> QED  BY <1>2, <1>3

\* The request goes on to the provider, or from there to its audit event.
LEMMA CallPlaces ==
  ASSUME PlaceInv, KeyTypeOK, NEW h \in Requests, reqs[h].pc \in {"analyze", "called"},
         NEW pc \in {"called", "audit"}, NEW e \in {"none", "analyzed", "analysis_failed"},
         GoTo(h, pc, e), reqs[h].call.consent, clock' = clock, abandoned' = abandoned,
         egress' \in {egress, egress \cup {ImageOf(h)}}
  PROVE  PlaceInv'
<1> DEFINE r == [reqs[h] EXCEPT !.pc = pc, !.event = e]
<1>1. reqs[h] \in Request /\ PlaceOK(reqs[h])
  BY DEF PlaceInv
<1>2. /\ r \in Request /\ r.pc = pc /\ r.now = reqs[h].now
      /\ r.call = reqs[h].call /\ r.since = reqs[h].since
  BY <1>1 DEF Request
<1>3. reqs' = [reqs EXCEPT ![h] = r]
  BY <1>1 DEF GoTo, PlaceInv, Request
<1> HIDE DEF r
<1>4. PlaceOK(r)
  BY <1>1, <1>2 DEF PlaceOK
<1>5. ImageOf(h) \in Image /\ ImageOf(h).by = h /\ Good(ImageOf(h))
  BY <1>1 DEF ImageOf, Image, Good, PlaceOK, Request
<1>6. ASSUME NEW image \in egress', image.by = h
      PROVE  image = ImageOf(h)
  BY <1>5, <1>6 DEF PlaceInv
<1>7. ImageOf(h) = [by |-> h, call |-> r.call, since |-> r.since]
  BY <1>2 DEF ImageOf
<1>8. \A image \in egress' :
         image \in egress \/ (image \in Image /\ image.by = h /\ Good(image))
  BY <1>5
<1>9. abandoned' \subseteq abandoned \cup egress
  OBVIOUS
<1>10. r.pc \in {"called", "audit"}
  BY <1>2
<1> QED  BY <1>2, <1>3, <1>4, <1>6, <1>7, <1>8, <1>9, <1>10, PlacesStep

LEMMA LocalPlaces ==
  ASSUME PlaceInv, KeyTypeOK, NEW h \in Requests, LocalStep(h)
  PROVE  PlaceInv'
<1>0. clock' = clock
  BY LocalStepKeys DEF keyVars
<1>1. CASE MemoryCheck(h) \/ RedisCheck(h) \/ RedisCheckFails(h)
  BY <1>0, <1>1, CheckPlaces
  DEF MemoryCheck, RedisCheck, RedisCheckFails, Admit, Deny
<1>2. CASE AnalyzeRefused(h)
  BY <1>0, <1>2, NoImage, PlacesAnswered DEF AnalyzeRefused, Respond
<1>3. CASE RecordEvent(h) \/ CallRaises(h)
  <2>1. /\ reqs' = [reqs EXCEPT ![h] = Idle] /\ egress' = egress \ {ImageOf(h)}
        /\ abandoned' = abandoned \/ (CallRaises(h) /\ abandoned' = abandoned \cup {ImageOf(h)})
    BY <1>3 DEF RecordEvent, CallRaises, Respond
  <2>2. CASE abandoned' \subseteq abandoned \cup egress
    BY <1>0, <2>1, <2>2, ImageGone, PlacesAnswered
  <2>3. CASE CallRaises(h) /\ abandoned' = abandoned \cup {ImageOf(h)} /\ ImageOf(h) \notin egress
    <3>1. reqs[h] \in Request /\ PlaceOK(reqs[h]) /\ reqs[h].pc = "called"
      BY <2>3 DEF PlaceInv, CallRaises
    <3>2. ImageOf(h) \in Image /\ Good(ImageOf(h))
      BY <3>1 DEF ImageOf, Image, Good, PlaceOK, Request
    <3>3. ASSUME NEW g \in Requests PROVE PlaceOK(reqs[g])'
      BY <1>0, <2>1 DEF PlaceInv, PlaceOK, Idle, KeyTypeOK
    <3>4. reqs' \in [Requests -> Request]
      BY <2>1 DEF PlaceInv, Idle, Request
    <3>5. \A image \in egress' : reqs'[image.by] = reqs[image.by] /\ image \in egress
      BY <2>1, ImageGone DEF PlaceInv, Image
    <3> QED  BY <2>1, <2>3, <3>2, <3>3, <3>4, <3>5 DEF PlaceInv, ImageOf
  <2> QED  BY <2>1, <2>2, <2>3
<1>4. CASE ContentChanged(h)
  BY <1>0, <1>4, CallPlaces DEF ContentChanged, MaySend
<1>5. CASE SendImage(h)
  BY <1>0, <1>5, CallPlaces DEF SendImage, MaySend
<1>6. CASE ProviderReturns(h) \/ ProviderFails(h)
  BY <1>0, <1>6, CallPlaces DEF ProviderReturns, ProviderFails, PlaceInv, PlaceOK
<1> QED
  BY <1>1, <1>2, <1>3, <1>4, <1>5, <1>6, ReadPlaces DEF LocalStep

LEMMA StepPlaces ==
  ASSUME PlaceInv, KeyInv, [Next]_vars
  PROVE  PlaceInv'
<1>0. KeyTypeOK /\ clock \in Nat
  BY DEF KeyInv, KeyTypeOK
<1>1. CASE UNCHANGED vars
  BY <1>0, <1>1, PlacesUnchanged DEF vars, keyVars
<1>2. ASSUME NEW h \in Requests, NEW c \in Calls, ArriveOidc(h, c)
      PROVE  PlaceInv'
  <2> DEFINE r == [Idle EXCEPT !.pc = "auth", !.call = c]
  <2>1. r \in Request /\ r.pc = "auth" /\ r.call = c /\ r.now = 0
    BY DEF Idle, Request
  <2>2. /\ reqs' = [reqs EXCEPT ![h] = r] /\ reqs[h].pc = "idle"
        /\ UNCHANGED <<clock, egress, abandoned>>
    BY <1>2 DEF ArriveOidc, Arrive, StartLookup, Idle
  <2> HIDE DEF r
  <2>3. PlaceOK(r)
    BY <1>0, <2>1 DEF PlaceOK
  <2> QED  BY <2>1, <2>2, <2>3, NoImage, PlacesKept
<1>3. ASSUME NEW h \in Requests, NEW c \in Calls, ArriveHs256(h, c)
      PROVE  PlaceInv'
  <2> DEFINE r == [Idle EXCEPT !.pc = "limit", !.call = c, !.since = clock]
  <2>1. c.signed /\ c.trusted /\ clock < c.exp
    BY <1>3 DEF ArriveHs256, Accepts
  <2>2. r \in Request /\ r.pc = "limit" /\ r.call = c /\ r.since = clock /\ r.now = 0
    BY <1>0 DEF Idle, Request
  <2>3. /\ reqs' = [reqs EXCEPT ![h] = r] /\ reqs[h].pc = "idle"
        /\ UNCHANGED <<clock, egress, abandoned>>
    BY <1>3 DEF ArriveHs256, Arrive, Idle, keyVars
  <2> HIDE DEF r
  <2>4. PlaceOK(r)
    BY <1>0, <2>1, <2>2 DEF PlaceOK, Granted
  <2> QED  BY <2>2, <2>3, <2>4, NoImage, PlacesKept
<1>4. ASSUME NEW h \in Requests, LookupKey(h)
      PROVE  PlaceInv'
  <2>1. UNCHANGED <<clock, reqs, egress, abandoned>>
    BY <1>4 DEF LookupKey, KeyStep, EnterCached, EnterExpired, Discover,
           ProviderAnswers, Refresh, RefreshFails
  <2> QED  BY <1>0, <2>1, PlacesUnchanged
<1>5. ASSUME NEW h \in Requests, Authenticate(h)
      PROVE  PlaceInv'
  <2>1. /\ reqs[h] \in Request /\ reqs[h].pc = "auth" /\ PlaceOK(reqs[h])
        /\ UNCHANGED <<clock, egress, abandoned>>
    BY <1>5 DEF Authenticate, EndLookup, PlaceInv
  <2>2. CASE lookups[h].pc = "found" /\ Accepts(reqs[h].call) /\ reqs[h].call \in Calls
    <3> DEFINE r == [reqs[h] EXCEPT !.pc = "limit", !.since = clock]
    <3>1. reqs' = [reqs EXCEPT ![h] = r]
      BY <1>5, <2>2 DEF Authenticate, PlaceInv
    <3>2. /\ r \in Request /\ r.pc = "limit" /\ r.since = clock /\ r.now = reqs[h].now
          /\ r.call = reqs[h].call
      BY <1>0, <2>1 DEF Request
    <3> HIDE DEF r
    <3>3. PlaceOK(r)
      BY <2>1, <2>2, <3>2 DEF Accepts, PlaceOK, Granted
    <3> QED  BY <2>1, <3>1, <3>2, <3>3, NoImage, PlacesKept
  <2>3. CASE ~(lookups[h].pc = "found" /\ Accepts(reqs[h].call))
    <3>1. reqs' = [reqs EXCEPT ![h] = Idle]
      BY <1>5, <2>3 DEF Authenticate, PlaceInv
    <3> QED  BY <1>0, <2>1, <3>1, NoImage, PlacesAnswered
  <2> QED  BY <2>1, <2>2, <2>3 DEF PlaceOK
<1>6. CASE Environment
  <2>1. UNCHANGED <<reqs, egress, abandoned>> /\ clock' \in Nat /\ clock' >= clock
    BY <1>0, <1>6 DEF Environment, Rotate, TickKeys
  <2> QED  BY <1>0, <2>1, PlacesUnchanged
<1>7. CASE Crash
  <2>1. /\ reqs' = [h \in Requests |-> Idle] /\ egress' = {} /\ clock' = clock
        /\ abandoned' = abandoned \cup egress
    BY <1>7 DEF Crash, RestartCache
  <2>2. Idle \in Request /\ Idle.pc = "idle" /\ Idle.now = 0
    BY DEF Idle, Request
  <2> QED  BY <1>0, <2>1, <2>2 DEF PlaceInv, PlaceOK
<1> QED
  BY <1>0, <1>1, <1>2, <1>3, <1>4, <1>5, <1>6, <1>7, LocalPlaces, NextCases

LEMMA AlwaysPlaces == Spec => []PlaceInv
<1>1. PlaceInv /\ KeyInv /\ [Next]_vars => PlaceInv'  BY StepPlaces
<1> QED
  BY <1>1, InitPlaces, RequestsUseKeyCache, AlwaysKeyInv, PTL DEF Spec

\* An image is sent only for a caller who consented, with a token that was
\* signed, trusted and not expired when it was looked at, for any limiter, any
\* number of requests, failures and crashes.  A handler that sent one holds it
\* until it tries to record it, unless the process ends or the call raises what
\* nothing converts.
THEOREM ImagesAreGoverned == Spec => []EgressGoverned
<1>1. PlaceInv => EgressGoverned
  BY DEF PlaceInv, EgressGoverned, Good, Granted
<1> QED  BY <1>1, AlwaysPlaces, PTL

-----------------------------------------------------------------------------
(***************************************************************************)
(* The rate limit.  Of two admissions that are Spread places apart, the    *)
(* first read the clock a window before the second was decided.  In memory *)
(* the log holds the times that the latest admissions read, and what is    *)
(* not in it any more is a window old.  With Redis, of the admissions      *)
(* before those of the counter's window the latest MaxEvents - 1 may be    *)
(* recent: the one before them opened the window before, or came earlier.  *)
(*                                                                         *)
(* What a refused caller was told lies at most a rounding before the time  *)
(* at which the first event is a window old, or the counter expires.       *)
(***************************************************************************)
Spread == IF deployed.limiter = "memory" THEN MaxEvents ELSE 2 * MaxEvents - 1

Admission == [read : Nat, at : Nat]

AdmissionsInv ==
    /\ admitted \in Seq(Admission)
    /\ \A i \in 1..Len(admitted) : admitted[i].read <= admitted[i].at /\ admitted[i].at <= clock
    /\ \A i, j \in 1..Len(admitted) :
          i + Spread <= j => admitted[i].read + Window <= admitted[j].at

LogInv ==
    /\ Len(events) <= Len(admitted)
    /\ \A i \in 1..Len(events) : events[i] = admitted[Len(admitted) - Len(events) + i].read
    /\ \A i \in 1..Len(admitted) - Len(events) : admitted[i].read + Window <= clock
    /\ promise # None => /\ Len(events) = MaxEvents
                         /\ events[1] + Window < promise + Thousandth

\* Admissions that the counter's window may hold.
Counted == IF counter.count < MaxEvents THEN counter.count ELSE MaxEvents

CounterInv ==
    /\ counter = None => admitted = <<>>
    /\ counter # None =>
          /\ counter.count > 0 /\ counter.until <= clock + Window
          /\ \A i \in 1..Len(admitted) :
                /\ i <= Len(admitted) - Counted + 1 => admitted[i].at + Window <= counter.until
                /\ i <= Len(admitted) - Counted - MaxEvents + 1 =>
                      admitted[i].at + 2 * Window <= counter.until
          /\ promise # None => counter.until < promise + Half

RateInv ==
    /\ TypeOK
    /\ AdmissionsInv
    /\ deployed.limiter = "memory" => LogInv
    /\ deployed.limiter = "redis" => CounterInv

-----------------------------------------------------------------------------
(* Numbers and sequences *)

LEMMA Quotient ==
  ASSUME NEW a \in Nat, NEW b \in Nat \ {0}
  PROVE  a \div b \in Nat /\ a < (a \div b) * b + b
<1>1. a \div b \in Int /\ a % b \in 0..b - 1 /\ a = (a \div b) * b + (a % b)
  BY SMTT(60)
<1>2. a \div b >= 0
  BY SMTT(60)
<1> QED  BY <1>1, <1>2

LEMMA Halves == Half \in Nat \ {0} /\ Second = 2 * Half
<1>1. Second \in Nat \ {0} /\ Second % 2 = 0
  BY LimitAssumption
<1> QED  BY <1>1 DEF Half

\* A number of seconds that lacks less than c.
LEMMA Rounded ==
  ASSUME NEW x \in Nat, NEW c \in 1..Second
  PROVE  LET wait == AtLeastOne((x + Second - c) \div Second)
         IN  wait \in Nat /\ x < wait + c
<1>1. Second \in Nat \ {0}
  BY LimitAssumption
<1>2. PICK y \in Nat : y = x + Second - c
  BY <1>1
<1>3. PICK q \in Nat : q = y \div Second /\ y < q * Second + Second
  BY <1>1, Quotient
<1>4. PICK p \in Nat : p = q * Second
  BY <1>1
<1>5. x < p + c
  BY <1>1, <1>2, <1>3, <1>4
<1>6. CASE q < 1
  <2>1. p = 0
    BY <1>1, <1>4, <1>6
  <2>2. AtLeastOne(q) = Second
    BY <1>6 DEF AtLeastOne
  <2> QED  BY <1>1, <1>2, <1>3, <1>5, <2>1, <2>2
<1>7. CASE ~(q < 1)
  <2>1. AtLeastOne(q) = p
    BY <1>4, <1>7 DEF AtLeastOne
  <2> QED  BY <1>2, <1>3, <1>5, <2>1
<1> QED  BY <1>6, <1>7

LEMMA Least ==
  ASSUME NEW S, S \subseteq Nat, S # {}
  PROVE  \E x \in S : \A y \in S : x <= y
<1> DEFINE Less == {ss \in Nat \X Nat : ss[1] < ss[2]}
<1>1. IsWellFoundedOn(Less, Nat)
  BY NatLessThanWellFounded DEF OpToRel
<1>2. PICK x \in S : \A y \in S : ~(<<y, x>> \in Less)
  BY <1>1, WFMin
<1>3. ASSUME NEW y \in S, y < x PROVE FALSE
  <2>1. <<y, x>> \in Nat \X Nat /\ <<y, x>>[1] = y /\ <<y, x>>[2] = x
    OBVIOUS
  <2> QED  BY <1>2, <1>3, <2>1
<1> QED  BY <1>2, <1>3

\* The loop that drops old admissions ends at one that is not old.
LEMMA DroppedIs ==
  ASSUME events \in Seq(Nat), NEW now \in Nat
  PROVE  /\ Dropped(now) \in 0..Len(events)
         /\ \A i \in 1..Dropped(now) : events[i] + Window <= now
         /\ Dropped(now) < Len(events) => events[Dropped(now) + 1] + Window > now
<1> DEFINE S == {n \in 0..Len(events) : n < Len(events) => events[n + 1] + Window > now}
<1>1. Len(events) \in S /\ S \subseteq Nat
  BY DEF S
<1>2. PICK n \in S : \A m \in S : n <= m
  BY <1>1, Least
<1>3. \A i \in 1..n : events[i] + Window <= now
  <2> SUFFICES ASSUME NEW i \in 1..n PROVE events[i] + Window <= now
    OBVIOUS
  <2>0. n \in 0..Len(events) /\ Len(events) \in Nat
    BY <1>2
  <2>1. i - 1 \in 0..Len(events) /\ i - 1 \notin S /\ (i - 1) + 1 = i
    <3>1. i - 1 \in 0..Len(events) /\ (i - 1) + 1 = i /\ ~(n <= i - 1)
      BY <2>0
    <3> HIDE DEF S
    <3> QED  BY <1>2, <3>1
  <2>2. ~(i - 1 < Len(events) => events[(i - 1) + 1] + Window > now)
    BY <2>1
  <2>3. events[i] \in Nat /\ ~(events[i] + Window > now)
    BY <1>2, <2>1, <2>2
  <2> QED  BY <2>3, LimitAssumption
<1>4. \E m \in 0..Len(events) :
         /\ \A i \in 1..m : events[i] + Window <= now
         /\ m < Len(events) => events[m + 1] + Window > now
  BY <1>2, <1>3
<1> QED  BY <1>4 DEF Dropped

LEMMA RecentIs ==
  ASSUME events \in Seq(Nat), NEW now \in Nat
  PROVE  /\ Recent(now) \in Seq(Nat)
         /\ Len(Recent(now)) = Len(events) - Dropped(now)
         /\ \A i \in 1..Len(Recent(now)) : Recent(now)[i] = events[Dropped(now) + i]
<1>1. PICK n \in 0..Len(events) : n = Dropped(now)
  BY DroppedIs
<1>2. Recent(now) = SubSeq(events, n + 1, Len(events))
  BY <1>1 DEF Recent
<1> DEFINE rec == SubSeq(events, n + 1, Len(events))
<1>3. /\ rec \in Seq(Nat)
      /\ Len(rec) = Len(events) - n
      /\ \A i \in 1..Len(rec) : rec[i] = events[n + i]
  <2>1. PICK l \in Nat : l = Len(events) /\ n <= l
    BY <1>1
  <2>2. \A i \in n + 1..l : events[i] \in Nat
    BY <2>1
  <2>3. /\ rec \in Seq(Nat)
        /\ Len(rec) = IF n + 1 <= l THEN l - (n + 1) + 1 ELSE 0
        /\ \A i \in 1..l - (n + 1) + 1 : rec[i] = events[n + 1 + i - 1]
    <3>1. n + 1 \in Int /\ l \in Int
      BY <1>1
    <3> QED  BY <2>1, <2>2, <3>1, SubSeqProperties
  <2> HIDE DEF rec
  <2> QED  BY <2>1, <2>3
<1> HIDE DEF rec
<1> QED  BY <1>1, <1>2, <1>3 DEF rec

LEMMA Appended ==
  ASSUME NEW S, NEW s \in Seq(S), NEW x \in S
  PROVE  /\ Append(s, x) \in Seq(S) /\ Len(Append(s, x)) = Len(s) + 1
         /\ Append(s, x)[Len(s) + 1] = x
         /\ \A i \in 1..Len(s) : Append(s, x)[i] = s[i]
  OBVIOUS

-----------------------------------------------------------------------------
(* The types of the handlers' state *)

LEMMA InitTypes == Init => TypeOK
  BY InitInv, LimitAssumption
  DEF Init, KeyInv, TypeOK, Idle, Request, KeyInit, NoLookup

\* A request is in request_identity while its lookup lasts.
InAuth == \A h \in Requests : reqs[h].pc = "auth" <=> lookups[h].pc # "none"

LEMMA KeepAuth ==
  ASSUME InAuth, reqs \in [Requests -> Request], lookups' = lookups,
         NEW h \in Requests, NEW r, r.pc # "auth", reqs[h].pc # "auth",
         reqs' = [reqs EXCEPT ![h] = r]
  PROVE  InAuth'
  BY DEF InAuth

LEMMA StepAuth ==
  ASSUME TypeOK, PlaceInv, [Next]_vars
  PROVE  InAuth'
<1>0. /\ reqs \in [Requests -> Request] /\ lookups \in [Requests -> Lookup]
      /\ InAuth
  BY DEF TypeOK, KeyTypeOK, InAuth
<1>1. ASSUME UNCHANGED <<reqs, lookups>> PROVE InAuth'
  BY <1>0, <1>1 DEF InAuth
<1>2. ASSUME NEW h \in Requests, NEW c \in Calls, ArriveOidc(h, c) PROVE InAuth'
  BY <1>0, <1>2 DEF ArriveOidc, Arrive, StartLookup, Idle, NoLookup, InAuth
<1>3. ASSUME NEW h \in Requests, NEW c \in Calls, ArriveHs256(h, c) PROVE InAuth'
  <2> DEFINE r == [Idle EXCEPT !.pc = "limit", !.call = c, !.since = clock]
  <2>1. r.pc # "auth"
    BY DEF Idle
  <2>2. reqs[h].pc # "auth" /\ reqs' = [reqs EXCEPT ![h] = r] /\ lookups' = lookups
    BY <1>3 DEF ArriveHs256, Arrive, Idle, keyVars
  <2> HIDE DEF r
  <2> QED  BY <1>0, <2>1, <2>2, KeepAuth
<1>4. ASSUME NEW h \in Requests, LookupKey(h) PROVE InAuth'
  BY <1>0, <1>4, SMTT(30)
  DEF LookupKey, KeyStep, EnterCached, EnterExpired, Discover, ProviderAnswers,
      Refresh, RefreshFails, Found, AskProvider, InAuth, Lookup
<1>5. ASSUME NEW h \in Requests, Authenticate(h) PROVE InAuth'
  BY <1>0, <1>5 DEF Authenticate, EndLookup, NoLookup, InAuth, Idle, Request
<1>6. ASSUME NEW h \in Requests, LocalStep(h) PROVE InAuth'
  <2>1. lookups' = lookups
    BY <1>6, LocalStepKeys DEF keyVars
  <2>2. reqs[h].pc # "auth" /\ reqs[h] \in Request
    BY <1>0, <1>6
    DEF LocalStep, ReadClock, MemoryCheck, RedisCheck, RedisCheckFails, AnalyzeRefused,
        ContentChanged, SendImage, ProviderReturns, ProviderFails, CallRaises, RecordEvent
  <2>3. \E r : r.pc # "auth" /\ reqs' = [reqs EXCEPT ![h] = r]
    <3>1. CASE reqs' = [reqs EXCEPT ![h] = Idle]
      BY <3>1 DEF Idle
    <3>2. ASSUME NEW pc \in {"check", "analyze"}, NEW now,
                 reqs' = [reqs EXCEPT ![h].pc = pc, ![h].now = now]
          PROVE  \E r : r.pc # "auth" /\ reqs' = [reqs EXCEPT ![h] = r]
      <4>1. [reqs[h] EXCEPT !.pc = pc, !.now = now].pc = pc
        BY <2>2 DEF Request
      <4>2. reqs' = [reqs EXCEPT ![h] = [reqs[h] EXCEPT !.pc = pc, !.now = now]]
        BY <1>0, <2>2, <3>2 DEF Request
      <4> QED  BY <4>1, <4>2
    <3>3. ASSUME NEW pc \in {"called", "audit"}, NEW e, GoTo(h, pc, e)
          PROVE  \E r : r.pc # "auth" /\ reqs' = [reqs EXCEPT ![h] = r]
      <4>1. [reqs[h] EXCEPT !.pc = pc, !.event = e].pc = pc
        BY <2>2 DEF Request
      <4>2. reqs' = [reqs EXCEPT ![h] = [reqs[h] EXCEPT !.pc = pc, !.event = e]]
        BY <1>0, <2>2, <3>3 DEF GoTo, Request
      <4> QED  BY <4>1, <4>2
    <3> QED
      BY <1>6, <3>1, <3>2, <3>3
      DEF LocalStep, ReadClock, MemoryCheck, RedisCheck, RedisCheckFails, Admit, Deny,
          AnalyzeRefused, ContentChanged, SendImage, ProviderReturns, ProviderFails,
          CallRaises, RecordEvent, Respond
  <2> QED  BY <1>0, <2>1, <2>2, <2>3, KeepAuth
<1>7. CASE Environment
  BY <1>1, <1>7 DEF Environment, Rotate, TickKeys
<1>8. CASE UNCHANGED vars
  BY <1>1, <1>8 DEF vars, keyVars
<1>9. CASE Crash
  BY <1>9 DEF Crash, RestartCache, InAuth, Idle, NoLookup
<1> QED
  BY <1>2, <1>3, <1>4, <1>5, <1>6, <1>7, <1>8, <1>9, NextCases

-----------------------------------------------------------------------------
(* Admissions *)

\* An admission is decided a window after the clock was read for those that are
\* Spread places before it.
LEMMA AdmissionsGrow ==
  ASSUME AdmissionsInv, clock \in Nat, NEW now \in Nat, now <= clock,
         admitted' = Append(admitted, [read |-> now, at |-> clock]),
         UNCHANGED <<clock, deployed>>,
         \A i \in 1..Len(admitted) :
            i + Spread <= Len(admitted) + 1 => admitted[i].read + Window <= clock
  PROVE  AdmissionsInv'
<1> DEFINE new == [read |-> now, at |-> clock]
<1>0. new \in Admission /\ new.read = now /\ new.at = clock
  BY DEF Admission
<1> HIDE DEF new
<1>1. PICK n \in Nat : n = Len(admitted)
  BY DEF AdmissionsInv
<1>2. /\ admitted' \in Seq(Admission) /\ Len(admitted') = n + 1 /\ admitted'[n + 1] = new
      /\ \A i \in 1..n : admitted'[i] = admitted[i]
  BY <1>0, <1>1, Appended DEF AdmissionsInv, new
<1>3. Spread \in Nat \ {0} /\ Spread' = Spread
  BY LimitAssumption DEF Spread
<1>4. ASSUME NEW i \in 1..n + 1
      PROVE  admitted'[i].read <= admitted'[i].at /\ admitted'[i].at <= clock
  BY <1>0, <1>1, <1>2 DEF AdmissionsInv
<1>5. ASSUME NEW i \in 1..n + 1, NEW j \in 1..n + 1, i + Spread <= j
      PROVE  admitted'[i].read + Window <= admitted'[j].at
  <2>1. i \in 1..n /\ admitted'[i] = admitted[i]
    BY <1>2, <1>3, <1>5
  <2>2. CASE j = n + 1
    BY <1>0, <1>1, <1>2, <1>5, <2>1, <2>2
  <2>3. CASE j # n + 1
    <3>1. j \in 1..n /\ admitted'[j] = admitted[j]
      BY <1>2, <2>3
    <3>2. admitted[i].read + Window <= admitted[j].at
      BY <1>1, <1>5, <2>1, <3>1 DEF AdmissionsInv
    <3> QED  BY <2>1, <3>1, <3>2
  <2> QED  BY <2>2, <2>3
<1> QED  BY <1>2, <1>3, <1>4, <1>5 DEF AdmissionsInv

\* Time passes, or nothing happens to the limiter.
LEMMA RateUnchanged ==
  ASSUME AdmissionsInv, TypeOK, clock' \in Nat, clock' >= clock,
         deployed.limiter = "memory" => LogInv,
         deployed.limiter = "redis" => CounterInv,
         UNCHANGED <<deployed, events, counter, admitted, promise>>
  PROVE  /\ AdmissionsInv'
         /\ (deployed.limiter = "memory" => LogInv)'
         /\ (deployed.limiter = "redis" => CounterInv)'
<1>0. /\ clock \in Nat
      /\ \A i \in 1..Len(admitted) : admitted[i].read \in Nat /\ admitted[i].at \in Nat
  <2>1. clock \in Nat
    BY DEF TypeOK, KeyTypeOK
  <2>2. \A i \in 1..Len(admitted) : admitted[i] \in Admission
    BY DEF AdmissionsInv
  <2> QED  BY <2>1, <2>2 DEF Admission
<1>1. AdmissionsInv'
  BY <1>0 DEF AdmissionsInv, Spread
<1>2. (deployed.limiter = "memory" => LogInv)'
  <2> SUFFICES ASSUME deployed.limiter = "memory" PROVE LogInv'
    OBVIOUS
  <2>1. \A i \in 1..Len(admitted) - Len(events) : i \in 1..Len(admitted)
    BY DEF TypeOK, AdmissionsInv
  <2> QED  BY <1>0, <2>1, LimitAssumption DEF LogInv
<1>3. (deployed.limiter = "redis" => CounterInv)'
  <2> SUFFICES ASSUME deployed.limiter = "redis" PROVE CounterInv'
    OBVIOUS
  <2>1. counter # None => counter.until \in Nat
    BY DEF TypeOK
  <2>2. Window \in Nat /\ Counted' = Counted
    BY LimitAssumption DEF Counted
  <2>3. counter # None => counter.until <= clock' + Window
    BY <1>0, <2>1, <2>2 DEF CounterInv
  <2> QED  BY <2>2, <2>3 DEF CounterInv
<1> QED  BY <1>1, <1>2, <1>3

\* check drops what is a window old for the time that it read.
LEMMA LogPruned ==
  ASSUME TypeOK, AdmissionsInv, LogInv, NEW now \in Nat, now <= clock
  PROVE  LET rec == Recent(now)
         IN  /\ rec \in Seq(Nat) /\ Len(rec) <= Len(events) /\ Len(rec) <= Len(admitted)
             /\ \A i \in 1..Len(rec) : rec[i] = admitted[Len(admitted) - Len(rec) + i].read
             /\ \A i \in 1..Len(admitted) - Len(rec) : admitted[i].read + Window <= clock
             /\ Len(rec) > 0 => rec[1] + Window > now
             /\ Len(rec) = Len(events) /\ Len(events) > 0 => rec[1] = events[1]
<1>1. events \in Seq(Nat) /\ clock \in Nat /\ admitted \in Seq(Admission)
  BY DEF TypeOK, KeyTypeOK, AdmissionsInv
<1>2. PICK d \in 0..Len(events) : d = Dropped(now)
  BY <1>1, DroppedIs
<1>3. PICK rec \in Seq(Nat) :
         /\ rec = Recent(now) /\ Len(rec) = Len(events) - d
         /\ \A i \in 1..Len(rec) : rec[i] = events[d + i]
  BY <1>1, <1>2, RecentIs
<1>4. /\ \A i \in 1..d : events[i] + Window <= now
      /\ d < Len(events) => events[d + 1] + Window > now
  BY <1>1, <1>2, DroppedIs
<1>5. PICK n \in Nat, e \in Nat : n = Len(admitted) /\ e = Len(events) /\ e <= n
  BY <1>1 DEF LogInv
<1>6. \A i \in 1..e : events[i] = admitted[n - e + i].read
  BY <1>5 DEF LogInv
<1>7. ASSUME NEW i \in 1..Len(rec) PROVE rec[i] = admitted[n - Len(rec) + i].read
  <2>1. d + i \in 1..e /\ n - e + (d + i) = n - Len(rec) + i
    BY <1>3, <1>5
  <2> QED  BY <1>3, <1>6, <2>1
<1>8. ASSUME NEW i \in 1..n - Len(rec) PROVE admitted[i].read + Window <= clock
  <2>1. CASE i <= n - e
    BY <1>5, <2>1 DEF LogInv
  <2>2. CASE i > n - e
    <3>1. i - (n - e) \in 1..d /\ i - (n - e) \in 1..e /\ n - e + (i - (n - e)) = i
      BY <1>3, <1>5, <2>2
    <3>2. events[i - (n - e)] = admitted[i].read /\ events[i - (n - e)] + Window <= now
      BY <1>4, <1>6, <3>1
    <3>3. events[i - (n - e)] \in Nat
      BY <1>1, <1>5, <3>1
    <3>4. Window \in Nat
      BY LimitAssumption
    <3>5. PICK read \in Nat : read = admitted[i].read /\ read + Window <= now
      BY <3>2, <3>3
    <3>6. read + Window <= clock
      <4>1. clock \in Nat /\ now <= clock
        BY <1>1
      <4> QED  BY ONLY now \in Nat, read \in Nat, <3>4, <3>5, <4>1
    <3> QED  BY <3>5, <3>6
  <2> QED  BY <1>5, <2>1, <2>2
<1>9. Len(rec) > 0 => rec[1] + Window > now
  BY <1>3, <1>4
<1>10. Len(rec) = Len(events) /\ Len(events) > 0 => rec[1] = events[1]
  BY <1>3, <1>5
<1> QED  BY <1>3, <1>5, <1>7, <1>8, <1>9, <1>10, SMTT(30)

\* What a refused request is told, in memory.
LEMMA MemoryPromise ==
  ASSUME NEW first \in Nat, NEW now \in Nat, now < first + Window, clock \in Nat, now <= clock
  PROVE  LET wait == AtLeastOne((first + Window - now + Second - Thousandth) \div Second)
         IN  wait \in Nat /\ first + Window < clock + wait + Thousandth
<1>0. Window \in Nat /\ Second \in Nat \ {0} /\ Thousandth \in 1..Second
  BY LimitAssumption
<1>1. PICK x \in Nat : x = first + Window - now
  BY <1>0
<1>2. PICK wait \in Nat :
         wait = AtLeastOne((x + Second - Thousandth) \div Second) /\ x < wait + Thousandth
  BY <1>0, Rounded
<1> QED  BY <1>0, <1>1, <1>2

LEMMA MemoryStep ==
  ASSUME RateInv, PlaceInv, NEW h \in Requests, MemoryCheck(h)
  PROVE  /\ AdmissionsInv' /\ LogInv'
         /\ events' \in Seq(Nat) /\ Len(events') <= MaxEvents
         /\ promise' \in Nat \cup {None}
         /\ (promise # None /\ reqs'[h] = Idle) => reqs[h].now < promise + Thousandth
<1>0. /\ TypeOK /\ AdmissionsInv /\ LogInv /\ clock \in Nat /\ events \in Seq(Nat)
      /\ Len(events) <= MaxEvents /\ admitted \in Seq(Admission)
      /\ UNCHANGED <<clock, deployed>> /\ deployed.limiter = "memory"
      /\ MaxEvents \in Nat \ {0} /\ Window \in Nat \ {0} /\ Thousandth \in Nat \ {0}
      /\ promise \in Nat \cup {None} /\ None \notin Nat
  BY LimitAssumption DEF RateInv, MemoryCheck, TypeOK, KeyTypeOK, AdmissionsInv, keyVars
<1>a. PICK now \in Nat : now = reqs[h].now /\ now <= clock
  BY DEF PlaceInv, PlaceOK, Request
<1>1. PICK rec \in Seq(Nat), r \in Nat, n \in Nat :
         rec = Recent(now) /\ r = Len(rec) /\ n = Len(admitted) /\ r <= n
  <2>1. Recent(now) \in Seq(Nat) /\ Len(Recent(now)) <= Len(admitted)
    BY <1>0, <1>a, LogPruned
  <2>2. Len(Recent(now)) \in Nat /\ Len(admitted) \in Nat
    BY <1>0, <2>1
  <2> QED  BY <2>1, <2>2
<1>2. /\ r <= Len(events)
      /\ \A i \in 1..r : rec[i] = admitted[n - r + i].read
      /\ \A i \in 1..n - r : admitted[i].read + Window <= clock
      /\ r > 0 => rec[1] + Window > now
      /\ r = Len(events) /\ r > 0 => rec[1] = events[1]
  BY <1>0, <1>a, <1>1, LogPruned
<1>3. CASE r >= MaxEvents /\ Deny(h, RetryAfter(now)) /\ events' = rec
  <2>1. r = MaxEvents /\ Len(events) = MaxEvents
    BY <1>0, <1>1, <1>2, <1>3
  <2>2. PICK first \in Nat : first = rec[1] /\ first = Head(rec) /\ first = events[1]
                             /\ now < first + Window
    BY <1>0, <1>1, <1>2, <2>1
  <2>3. Left(now) = first + Window - now
    BY <1>1, <2>2 DEF Left
  <2>4. PICK wait \in Nat : wait = RetryAfter(now) /\ first + Window < clock + wait + Thousandth
    BY <1>0, <1>a, <2>2, <2>3, MemoryPromise DEF RetryAfter
  <2>5. /\ admitted' = admitted
        /\ promise' = IF promise = None \/ clock + wait < promise THEN clock + wait ELSE promise
    BY <1>3, <2>4 DEF Deny
  <2>6. promise # None => first + Window < promise + Thousandth
    BY <1>0, <2>1, <2>2 DEF LogInv
  <2>7. promise' \in Nat /\ first + Window < promise' + Thousandth
    BY <1>0, <2>4, <2>5, <2>6
  <2>8. AdmissionsInv'
    BY <1>0, <2>5 DEF AdmissionsInv, Spread
  <2>9. LogInv'
    BY <1>0, <1>1, <1>2, <1>3, <2>1, <2>2, <2>5, <2>7 DEF LogInv
  <2>10. promise # None => now < promise + Thousandth
    BY <1>0, <2>2, <2>6
  <2> QED  BY <1>a, <1>1, <1>3, <2>1, <2>7, <2>8, <2>9, <2>10, <1>0
<1>4. CASE r < MaxEvents /\ Admit(h, now) /\ events' = Append(rec, now)
  <2> DEFINE new == [read |-> now, at |-> clock]
  <2>0. new \in Admission /\ new.read = now /\ new.at = clock
    BY <1>0 DEF Admission
  <2>1. admitted' = Append(admitted, new) /\ promise' = None
        /\ reqs' = [reqs EXCEPT ![h].pc = "analyze", ![h].now = 0]
    BY <1>4 DEF Admit
  <2>2. AdmissionsInv'
    <3>1. \A i \in 1..n : i + MaxEvents <= n + 1 => i \in 1..n - r
      BY <1>0, <1>4
    <3> QED  BY <1>0, <1>a, <1>1, <1>2, <2>1, <3>1, AdmissionsGrow DEF Spread
  <2> HIDE DEF new
  <2>3. /\ Len(admitted') = n + 1 /\ admitted'[n + 1] = new
        /\ \A i \in 1..n : admitted'[i] = admitted[i]
    BY <1>0, <1>1, <2>0, <2>1, Appended
  <2>4. /\ events' \in Seq(Nat) /\ Len(events') = r + 1 /\ events'[r + 1] = now
        /\ \A i \in 1..r : events'[i] = rec[i]
    BY <1>1, <1>4, Appended
  <2>5. ASSUME NEW i \in 1..r + 1 PROVE events'[i] = admitted'[(n + 1) - (r + 1) + i].read
    <3>1. CASE i = r + 1
      BY <1>1, <2>0, <2>3, <2>4, <3>1
    <3>2. CASE i # r + 1
      <4>1. i \in 1..r /\ n - r + i \in 1..n /\ (n + 1) - (r + 1) + i = n - r + i
        BY <1>1, <3>2
      <4> QED  BY <1>2, <2>3, <2>4, <4>1
    <3> QED  BY <3>1, <3>2
  <2>6. ASSUME NEW i \in 1..(n + 1) - (r + 1) PROVE admitted'[i].read + Window <= clock
    <3>1. i \in 1..n - r /\ i \in 1..n
      BY <1>1
    <3> QED  BY <1>2, <2>3, <3>1
  <2>7. LogInv'
    <3>1. r + 1 <= n + 1
      BY <1>1
    <3>2. \A i \in 1..Len(events') : events'[i] = admitted'[Len(admitted') - Len(events') + i].read
      BY <2>3, <2>4, <2>5
    <3>3. \A i \in 1..Len(admitted') - Len(events') : admitted'[i].read + Window <= clock'
      BY <1>0, <2>3, <2>4, <2>6
    <3> QED  BY <2>1, <2>3, <2>4, <3>1, <3>2, <3>3 DEF LogInv
  <2>8. reqs'[h] # Idle
    <3>1. reqs'[h].pc = "analyze"
      BY <2>1 DEF PlaceInv, Request
    <3> QED  BY <3>1 DEF Idle
  <2>9. r + 1 <= MaxEvents
    BY <1>0, <1>4
  <2> QED  BY <2>1, <2>2, <2>4, <2>7, <2>8, <2>9
<1> QED  BY <1>a, <1>1, <1>3, <1>4 DEF MemoryCheck

\* INCR, with or without the admission: what the counter's window holds.
LEMMA CounterGrows ==
  ASSUME TypeOK, AdmissionsInv, CounterInv, deployed.limiter = "redis",
         counter' = Incremented, UNCHANGED <<clock, deployed>>,
         \/ UNCHANGED admitted
         \/ Incremented.count <= MaxEvents
            /\ admitted' = Append(admitted, [read |-> clock, at |-> clock]),
         promise' # None => Incremented.until < promise' + Half
  PROVE  /\ AdmissionsInv' /\ CounterInv' /\ counter' \in [count : Nat, until : Nat]
         /\ counter' # None
<1>0. /\ clock \in Nat /\ admitted \in Seq(Admission)
      /\ MaxEvents \in Nat \ {0} /\ Window \in Nat \ {0}
      /\ None \notin [count : Nat, until : Nat]
      /\ counter # None => counter.count \in Nat \ {0} /\ counter.until \in Nat
  BY LimitAssumption DEF TypeOK, KeyTypeOK, AdmissionsInv, CounterInv
<1>1. PICK n \in Nat : n = Len(admitted)
  BY <1>0
<1>2. \A i \in 1..n : /\ admitted[i].read \in Nat /\ admitted[i].at \in Nat
                     /\ admitted[i].read <= admitted[i].at /\ admitted[i].at <= clock
  <2>1. \A i \in 1..n : admitted[i] \in Admission
    BY <1>0, <1>1
  <2> QED  BY <1>1, <2>1 DEF AdmissionsInv, Admission
<1>3. PICK count \in Nat \ {0}, until \in Nat :
         counter' = [count |-> count, until |-> until] /\ Incremented = counter'
         /\ \/ (counter = None \/ counter.until <= clock) /\ count = 1 /\ until = clock + Window
            \/ /\ counter # None /\ clock < counter.until
               /\ count = counter.count + 1 /\ until = counter.until
  <2>1. CASE counter = None \/ counter.until <= clock
    <3>1. clock + Window \in Nat /\ Incremented = [count |-> 1, until |-> clock + Window]
      BY <1>0, <2>1 DEF Incremented
    <3> QED  BY <2>1, <3>1
  <2>2. CASE ~(counter = None \/ counter.until <= clock)
    <3>1. counter \in [count : Nat, until : Nat]
      BY <2>2 DEF TypeOK
    <3>2. Incremented = [count |-> counter.count + 1, until |-> counter.until]
      BY <2>2, <3>1 DEF Incremented
    <3>3. counter.count + 1 \in Nat \ {0} /\ counter.until \in Nat /\ clock < counter.until
      BY <1>0, <2>2
    <3> QED  BY <2>2, <3>2, <3>3
  <2> QED  BY <2>1, <2>2
<1>4. counter' \in [count : Nat, until : Nat] /\ counter' # None
      /\ counter'.count = count /\ counter'.until = until /\ until <= clock + Window
  BY <1>0, <1>3 DEF CounterInv
<1>5. PICK m \in Nat : m = IF count < MaxEvents THEN count ELSE MaxEvents
  BY <1>0
<1>6. Counted' = m /\ 1 <= m /\ m <= MaxEvents
  BY <1>0, <1>4, <1>5 DEF Counted
<1> DEFINE adm == [read |-> clock, at |-> clock]
<1>a. adm \in Admission /\ adm.at = clock
  BY <1>0 DEF Admission
<1>7. PICK new \in {n, n + 1} :
         /\ Len(admitted') = new /\ \A i \in 1..n : admitted'[i] = admitted[i]
         /\ new = n + 1 => admitted'[n + 1].at = clock /\ count <= MaxEvents
                           /\ admitted' = Append(admitted, adm)
         /\ new = n => admitted' = admitted
  <2>1. CASE UNCHANGED admitted
    BY <1>1, <2>1
  <2>2. CASE Incremented.count <= MaxEvents /\ admitted' = Append(admitted, adm)
    <3> HIDE DEF adm
    <3> QED  BY <1>0, <1>a, <1>1, <1>3, <1>4, <2>2, Appended
  <2> QED  BY <2>1, <2>2
\* The window is open from until - Window on; before it, what it does not hold.
<1>8. ASSUME NEW i \in 1..n
      PROVE  /\ i <= new - m + 1 => admitted[i].at + Window <= until
             /\ i <= new - m - MaxEvents + 1 => admitted[i].at + 2 * Window <= until
  <2>1. CASE counter = None
    BY <1>1, <2>1 DEF CounterInv
  <2>2. CASE counter # None /\ counter.until <= clock
    <3>1. until = clock + Window /\ m = 1
      BY <1>0, <1>3, <1>5, <2>2
    <3>2. Counted \in Nat /\ Counted <= MaxEvents
      BY <1>0, <2>2 DEF Counted
    <3>3. i <= n - Counted + 1 => admitted[i].at + Window <= counter.until
      BY <1>1, <2>2 DEF CounterInv
    <3>4. i <= new - m - MaxEvents + 1 => i <= n - Counted + 1
      BY <1>0, <1>7, <3>1, <3>2
    <3>5. PICK at \in Nat : at = admitted[i].at /\ at <= clock
      BY <1>2
    <3>6. at + Window <= counter.until => at + 2 * Window <= until
      BY <1>0, <2>2, <3>1
    <3> QED  BY <1>0, <3>1, <3>3, <3>4, <3>5, <3>6
  <2>3. CASE counter # None /\ clock < counter.until
    <3>1. until = counter.until /\ count = counter.count + 1
      BY <1>0, <1>3, <2>3
    <3>2. Counted \in Nat /\ new - m <= n - Counted
      BY <1>0, <1>5, <1>7, <2>3, <3>1, SMTT(30) DEF Counted
    <3>3. /\ i <= n - Counted + 1 => admitted[i].at + Window <= counter.until
          /\ i <= n - Counted - MaxEvents + 1 => admitted[i].at + 2 * Window <= counter.until
      BY <1>1, <2>3 DEF CounterInv
    <3> QED  BY <1>0, <1>6, <1>7, <3>1, <3>2, <3>3
  <2> QED  BY <1>0, <2>1, <2>2, <2>3
<1>9. AdmissionsInv'
  <2>1. CASE new = n
    BY <1>7, <2>1 DEF AdmissionsInv, Spread
  <2>2. CASE new = n + 1
    <3>1. ASSUME NEW i \in 1..n, i + Spread <= n + 1
          PROVE  admitted[i].read + Window <= clock
      <4>1. Spread = 2 * MaxEvents - 1
        BY DEF Spread
      <4>2. i <= new - m - MaxEvents + 1
        BY <1>0, <1>6, <2>2, <3>1, <4>1
      <4>3. PICK at \in Nat : at = admitted[i].at /\ at + 2 * Window <= until
        BY <1>2, <1>8, <4>2
      <4>4. at + Window <= clock
        BY <1>0, <1>4, <4>3
      <4>5. PICK read \in Nat : read = admitted[i].read /\ read <= at
        BY <1>2, <4>3
      <4>6. read + Window <= clock
        <5>1. clock \in Nat /\ Window \in Nat
          BY <1>0
        <5>2. read \in Nat /\ at \in Nat /\ read <= at /\ at + Window <= clock
          BY <4>4, <4>5
        <5> QED  BY ONLY <5>1, <5>2
      <4> QED  BY <4>5, <4>6
    <3> QED  BY <1>0, <1>1, <1>7, <2>2, <3>1, AdmissionsGrow
  <2> QED  BY <1>7, <2>1, <2>2
<1>10. CounterInv'
  <2>1. ASSUME NEW i \in 1..new
        PROVE  /\ i <= new - m + 1 => admitted'[i].at + Window <= until
               /\ i <= new - m - MaxEvents + 1 => admitted'[i].at + 2 * Window <= until
    <3>1. CASE i \in 1..n
      BY <1>7, <1>8, <3>1
    <3>2. CASE i \notin 1..n
      <4>1. new = n + 1 /\ i = n + 1 /\ admitted'[i].at = clock /\ count <= MaxEvents
        BY <1>7, <3>2
      <4>2. i <= new - m + 1 => count = 1
        BY <1>0, <1>5, <1>6, <4>1
      <4>3. count = 1 => until = clock + Window
        BY <1>0, <1>3
      <4>4. ~(i <= new - m - MaxEvents + 1)
        BY <1>0, <1>6, <4>1
      <4> QED  BY <1>0, <4>1, <4>2, <4>3, <4>4
    <3> QED  BY <3>1, <3>2
  <2> QED  BY <1>0, <1>3, <1>4, <1>6, <1>7, <2>1 DEF CounterInv
<1> QED  BY <1>4, <1>9, <1>10

\* An outage.
LEMMA RedisFails ==
  ASSUME RateInv, NEW h \in Requests, RedisCheckFails(h)
  PROVE  /\ AdmissionsInv' /\ CounterInv'
         /\ counter' \in [count : Nat, until : Nat] \cup {None}
         /\ promise' \in Nat \cup {None}
<1>0. /\ TypeOK /\ AdmissionsInv /\ CounterInv /\ clock \in Nat
      /\ UNCHANGED <<clock, deployed>> /\ deployed.limiter = "redis"
      /\ MaxEvents \in Nat \ {0} /\ Window \in Nat \ {0}
      /\ promise \in Nat \cup {None} /\ None \notin Nat
  BY LimitAssumption
  DEF RateInv, RedisCheckFails, TypeOK, KeyTypeOK, keyVars
<1>1. /\ counter # None => counter.until \in Nat /\ counter.count \in Nat
      /\ counter \in [count : Nat, until : Nat] \cup {None}
  BY <1>0 DEF TypeOK
<1>2. Incremented.until \in Nat /\ Incremented.count \in Nat
  BY <1>0, <1>1 DEF Incremented
<1>3. Half \in Nat \ {0} /\ Second = 2 * Half
  BY Halves
<1>4. promise' = clock + Window /\ promise' \in Nat /\ admitted' = admitted
  BY <1>0 DEF RedisCheckFails
<1>5. /\ counter # None => counter.until <= clock + Window
      /\ Incremented.until <= clock + Window
  BY <1>0, <1>1 DEF Incremented, CounterInv
<1>6. CASE counter' = counter
  <2>1. AdmissionsInv'
    BY <1>0, <1>4 DEF AdmissionsInv, Spread
  <2>2. counter # None => counter.until < promise' + Half
    BY <1>0, <1>1, <1>3, <1>4, <1>5
  <2>3. CounterInv'
    BY <1>0, <1>4, <1>6, <2>2 DEF CounterInv, Counted
  <2> QED  BY <1>1, <1>4, <1>6, <2>1, <2>3
<1>7. CASE counter' = Incremented
  <2>1. Incremented.until < promise' + Half
    BY <1>0, <1>2, <1>3, <1>4, <1>5
  <2> QED  BY <1>0, <1>4, <1>7, <2>1, CounterGrows
<1> QED  BY <1>6, <1>7 DEF RedisCheckFails

LEMMA RedisStep ==
  ASSUME RateInv, PlaceInv, NEW h \in Requests, RedisCheck(h)
  PROVE  /\ AdmissionsInv' /\ CounterInv'
         /\ counter' \in [count : Nat, until : Nat] \cup {None}
         /\ promise' \in Nat \cup {None}
         /\ (promise # None /\ reqs'[h] = Idle) => clock < promise + Half
<1>0. /\ TypeOK /\ AdmissionsInv /\ CounterInv /\ clock \in Nat
      /\ UNCHANGED <<clock, deployed>> /\ deployed.limiter = "redis"
      /\ MaxEvents \in Nat \ {0} /\ Window \in Nat \ {0}
      /\ promise \in Nat \cup {None} /\ None \notin Nat
  BY LimitAssumption
  DEF RateInv, RedisCheck, TypeOK, KeyTypeOK, keyVars
<1>1. /\ counter # None => counter.until \in Nat /\ counter.count \in Nat
      /\ counter \in [count : Nat, until : Nat] \cup {None}
  BY <1>0 DEF TypeOK
<1>2. Incremented.until \in Nat /\ Incremented.count \in Nat
  BY <1>0, <1>1 DEF Incremented
<1>3. Half \in Nat \ {0} /\ Second = 2 * Half
  BY Halves
<1>4. CASE Incremented.count <= MaxEvents /\ Admit(h, clock)
  <2>1. promise' = None /\ admitted' = Append(admitted, [read |-> clock, at |-> clock])
        /\ counter' = Incremented
        /\ reqs' = [reqs EXCEPT ![h].pc = "analyze", ![h].now = 0]
    BY <1>4 DEF RedisCheck, Admit
  <2>2. reqs'[h] # Idle
    <3>1. reqs'[h].pc = "analyze"
      BY <2>1 DEF PlaceInv, Request
    <3> QED  BY <3>1 DEF Idle
  <2> QED  BY <1>0, <1>4, <2>1, <2>2, CounterGrows
<1>5. CASE Incremented.count > MaxEvents /\ Deny(h, AtLeastOne(Ttl))
  <2>1. counter # None /\ clock < counter.until /\ Incremented.until = counter.until
    BY <1>0, <1>1, <1>5 DEF Incremented
  <2>2. PICK x \in Nat : x = Incremented.until - clock
    BY <1>0, <1>1, <2>1
  <2>3. x + Half = x + Second - Half /\ Half \in 1..Second
    BY <1>3, <2>2
  <2>4. PICK wait \in Nat : wait = AtLeastOne(Ttl) /\ x < wait + Half
    BY <2>2, <2>3, Rounded DEF Ttl
  <2>5. /\ admitted' = admitted /\ counter' = Incremented
        /\ promise' = IF promise = None \/ clock + wait < promise THEN clock + wait ELSE promise
    BY <1>5, <2>4 DEF RedisCheck, Deny
  <2>6. promise # None => counter.until < promise + Half
    BY <1>0, <2>1 DEF CounterInv
  <2>7. promise' \in Nat /\ Incremented.until < promise' + Half
    BY <1>0, <1>2, <1>3, <2>1, <2>2, <2>4, <2>5, <2>6
  <2>8. promise # None => clock < promise + Half
    BY <1>0, <1>1, <1>3, <2>1, <2>6
  <2> QED  BY <1>0, <2>5, <2>7, <2>8, CounterGrows
<1> QED  BY <1>4, <1>5 DEF RedisCheck

LEMMA InitRate == Init => RateInv
<1> SUFFICES ASSUME Init PROVE RateInv
  OBVIOUS
<1>1. /\ admitted = <<>> /\ events = <<>> /\ counter = None /\ promise = None
      /\ TypeOK
  BY InitTypes DEF Init
<1> QED  BY <1>1 DEF RateInv, AdmissionsInv, LogInv, CounterInv

\* Every step but a check of the limiter and a crash leaves the limiter alone.
LEMMA CheckOrNot ==
  ASSUME KeyInv, [Next]_vars
  PROVE  \/ \E h \in Requests : MemoryCheck(h)
         \/ \E h \in Requests : RedisCheck(h)
         \/ \E h \in Requests : RedisCheckFails(h)
         \/ Crash
         \/ /\ UNCHANGED <<deployed, events, counter, admitted, promise>>
            /\ clock' \in Nat /\ clock' >= clock
<1>0. clock \in Nat
  BY DEF KeyInv, KeyTypeOK
<1>1. ASSUME NEW h \in Requests, NEW c \in Calls, ArriveOidc(h, c) \/ ArriveHs256(h, c)
      PROVE  UNCHANGED <<clock, deployed, events, counter, admitted, promise>>
  BY <1>1 DEF ArriveOidc, ArriveHs256, Arrive, StartLookup, keyVars, rateObservers
<1>2. ASSUME NEW h \in Requests, LookupKey(h)
      PROVE  UNCHANGED <<clock, deployed, events, counter, admitted, promise>>
  BY <1>2 DEF LookupKey, KeyStep, EnterCached, EnterExpired, Discover,
         ProviderAnswers, Refresh, RefreshFails, handlerVars, observers, rateObservers
<1>3. ASSUME NEW h \in Requests, Authenticate(h)
      PROVE  UNCHANGED <<clock, deployed, events, counter, admitted, promise>>
  BY <1>3 DEF Authenticate, EndLookup, observers, rateObservers
<1>4. ASSUME NEW h \in Requests, LocalStep(h)
      PROVE  \/ MemoryCheck(h) \/ RedisCheck(h) \/ RedisCheckFails(h)
             \/ UNCHANGED <<clock, deployed, events, counter, admitted, promise>>
  BY <1>4 DEF LocalStep, ReadClock, AnalyzeRefused, ContentChanged, SendImage,
         ProviderReturns, ProviderFails, CallRaises, RecordEvent, keyVars, observers,
         rateObservers
<1>5. CASE Environment
  BY <1>0, <1>5 DEF Environment, Rotate, TickKeys, handlerVars, observers, rateObservers
<1>6. CASE UNCHANGED vars
  BY <1>0, <1>6 DEF vars, keyVars, handlerVars, observers, rateObservers
<1> QED  BY <1>0, <1>1, <1>2, <1>3, <1>4, <1>5, <1>6, NextCases

\* A crash empties the log in memory; the counter in Redis stays.
LEMMA CrashRate ==
  ASSUME RateInv, Crash
  PROVE  /\ AdmissionsInv'
         /\ (deployed.limiter = "memory" => LogInv)'
         /\ (deployed.limiter = "redis" => CounterInv)'
         /\ events' \in Seq(Nat) /\ Len(events') <= MaxEvents
         /\ promise' \in Nat \cup {None}
         /\ UNCHANGED <<deployed, counter>>
<1>0. /\ clock \in Nat /\ clock' = clock /\ UNCHANGED <<deployed, counter>>
      /\ MaxEvents \in Nat \ {0} /\ TypeOK
  BY LimitAssumption DEF RateInv, TypeOK, KeyTypeOK, Crash, RestartCache
<1>1. CASE deployed.limiter = "memory"
  <2>1. events' = <<>> /\ admitted' = <<>> /\ promise' = None
    BY <1>1 DEF Crash
  <2> QED  BY <1>0, <1>1, <2>1 DEF AdmissionsInv, LogInv
<1>2. CASE deployed.limiter # "memory"
  <2>1. UNCHANGED <<events, admitted, promise>>
    BY <1>2 DEF Crash, rateObservers
  <2>2. clock' \in Nat /\ clock' >= clock
    BY <1>0
  <2>3. events \in Seq(Nat) /\ Len(events) <= MaxEvents /\ promise \in Nat \cup {None}
    BY <1>0 DEF TypeOK
  <2> QED  BY <1>0, <2>1, <2>2, <2>3, RateUnchanged DEF RateInv
<1> QED  BY <1>1, <1>2

LEMMA StepRate ==
  ASSUME RateInv, KeyInv, PlaceInv, [Next]_vars, KeyInv', PlaceInv'
  PROVE  RateInv'
<1>1. InAuth'
  BY StepAuth DEF RateInv
<1>2. ASSUME /\ deployed' = deployed
             /\ events' \in Seq(Nat) /\ Len(events') <= MaxEvents
             /\ counter' \in [count : Nat, until : Nat] \cup {None}
             /\ AdmissionsInv'
             /\ promise' \in Nat \cup {None}
      PROVE  TypeOK'
  BY <1>1, <1>2 DEF RateInv, TypeOK, KeyInv, PlaceInv, InAuth, AdmissionsInv, Admission
<1>3. ASSUME NEW h \in Requests, MemoryCheck(h) PROVE RateInv'
  <2>1. UNCHANGED <<deployed, counter>> /\ deployed.limiter = "memory"
    BY <1>3 DEF MemoryCheck
  <2>2. TypeOK'
    BY <1>2, <1>3, <2>1, MemoryStep DEF RateInv, TypeOK
  <2> QED  BY <1>3, <2>1, <2>2, MemoryStep DEF RateInv
<1>4. ASSUME NEW h \in Requests, RedisCheck(h) PROVE RateInv'
  <2>1. UNCHANGED <<deployed, events>> /\ deployed.limiter = "redis"
    BY <1>4 DEF RedisCheck
  <2>2. TypeOK'
    BY <1>2, <1>4, <2>1, RedisStep DEF RateInv, TypeOK
  <2> QED  BY <1>4, <2>1, <2>2, RedisStep DEF RateInv
<1>5. ASSUME NEW h \in Requests, RedisCheckFails(h) PROVE RateInv'
  <2>1. UNCHANGED <<deployed, events>> /\ deployed.limiter = "redis"
    BY <1>5 DEF RedisCheckFails
  <2>2. TypeOK'
    BY <1>2, <1>5, <2>1, RedisFails DEF RateInv, TypeOK
  <2> QED  BY <1>5, <2>1, <2>2, RedisFails DEF RateInv
<1>6. CASE Crash
  <2>1. TypeOK'
    BY <1>2, <1>6, CrashRate DEF RateInv, TypeOK
  <2> QED  BY <1>6, <2>1, CrashRate DEF RateInv
<1>7. CASE /\ UNCHANGED <<deployed, events, counter, admitted, promise>>
           /\ clock' \in Nat /\ clock' >= clock
  <2>1. /\ AdmissionsInv'
        /\ (deployed.limiter = "memory" => LogInv)'
        /\ (deployed.limiter = "redis" => CounterInv)'
    BY <1>7, RateUnchanged DEF RateInv
  <2>2. TypeOK'
    BY <1>2, <1>7, <2>1 DEF RateInv, TypeOK
  <2> QED  BY <2>1, <2>2 DEF RateInv
<1> QED  BY <1>3, <1>4, <1>5, <1>6, <1>7, CheckOrNot

LEMMA AlwaysRate == Spec => [](RateInv /\ PlaceInv)
<1>1. RateInv /\ KeyInv /\ PlaceInv /\ [Next]_vars /\ KeyInv' /\ PlaceInv' => RateInv'
  BY StepRate
<1> QED
  BY <1>1, InitRate, AlwaysPlaces, RequestsUseKeyCache, AlwaysKeyInv, PTL DEF Spec

\* When the first of Spread + 1 admissions read the clock a window before the
\* last was decided, at most Spread of them lie in a window.
LEMMA FewInWindow ==
  ASSUME AdmissionsInv, NEW t \in Nat
  PROVE  Cardinality(AdmittedWithin(t)) <= Spread
<1> DEFINE S == AdmittedWithin(t)
<1>0. Spread \in Nat \ {0} /\ Window \in Nat \ {0}
  BY LimitAssumption DEF Spread
<1>1. /\ \A i \in S : /\ i \in 1..Len(admitted) /\ admitted[i].read \in Nat
                      /\ admitted[i].at \in Nat
                      /\ t <= admitted[i].read /\ admitted[i].at < t + Window
      /\ S \subseteq Nat
  <2>1. \A i \in 1..Len(admitted) : admitted[i] \in Admission
    BY DEF AdmissionsInv
  <2>2. DOMAIN admitted = 1..Len(admitted)
    BY DEF AdmissionsInv
  <2> QED  BY <2>1, <2>2 DEF AdmittedWithin, Admission
<1>2. CASE S = {}
  BY <1>0, <1>2, FS_EmptySet
<1>3. CASE S # {}
  <2> HIDE DEF S
  <2>1. PICK m \in S : \A i \in S : m <= i
    BY <1>1, <1>3, Least
  <2>2. m \in Nat /\ m + Spread - 1 \in Int
    BY <1>0, <1>1, <2>1
  <2>3. ASSUME NEW i \in S PROVE i \in m..(m + Spread - 1)
    <3>1. m <= i /\ i \in Nat
      BY <1>1, <2>1
    <3>2. m + Spread <= i => admitted[m].read + Window <= admitted[i].at
      BY <1>1, <2>1 DEF AdmissionsInv
    <3>3. ~(admitted[m].read + Window <= admitted[i].at)
      <4>1. /\ admitted[m].read \in Nat /\ admitted[i].at \in Nat
            /\ t <= admitted[m].read /\ admitted[i].at < t + Window
        BY <1>1, <2>1
      <4> QED  BY <1>0, <4>1
    <3> QED  BY <1>0, <2>2, <3>1, <3>2, <3>3
  <2>4. /\ IsFiniteSet(m..(m + Spread - 1))
        /\ Cardinality(m..(m + Spread - 1)) = Spread
    <3>1. Cardinality(m..(m + Spread - 1)) =
             IF m > m + Spread - 1 THEN 0 ELSE (m + Spread - 1) - m + 1
      BY <2>2, FS_Interval
    <3> QED  BY <1>0, <2>2, <3>1, FS_Interval
  <2> QED  BY <1>0, <2>3, <2>4, FS_Subset DEF S
<1> QED  BY <1>2, <1>3

\* For any limit, window, number of handlers and requests, and any outages of
\* Redis: of the checks that lie in a window, from the reading of the clock,
\* which comes before the lock, to the decision, the log in memory admits
\* max_events, and the fixed windows of the Redis counter fewer than twice as
\* many.  The log is that of one process: a crash begins another one.
THEOREM RatesAreBounded == Spec => []RateBounded
<1>1. RateInv => RateBounded
  <2> SUFFICES ASSUME RateInv PROVE RateBounded
    OBVIOUS
  <2>1. \A t \in 0..clock : t \in Nat
    BY DEF RateInv, TypeOK, KeyTypeOK
  <2>2. \A t \in 0..clock : Cardinality(AdmittedWithin(t)) <= Spread
    BY <2>1, FewInWindow DEF RateInv
  <2> QED  BY <2>2 DEF RateInv, RateBounded, Spread
<1> QED  BY <1>1, AlwaysRate, PTL

\* What a refused caller is told, rounded to seconds by int(x + 0.999) or by
\* Redis, is not enough, but lacks less than a thousandth or half of a second:
\* a caller who comes back then, and before whom nobody else was admitted, is
\* not refused by the limit again.
THEOREM RetryAfterIsEnough == Spec => RetryAfterHolds
<1>1. ASSUME RateInv, PlaceInv
      PROVE  [\A h \in Requests :
                (promise # None /\ (MemoryCheck(h) \/ RedisCheck(h)) /\ reqs'[h] = Idle)
                   => Moment(h) < promise + Lack]_vars
  <2> SUFFICES ASSUME NEW h \in Requests, promise # None, reqs'[h] = Idle,
                      MemoryCheck(h) \/ RedisCheck(h)
               PROVE  Moment(h) < promise + Lack
    OBVIOUS
  <2>1. CASE MemoryCheck(h)
    <3>1. reqs[h].now < promise + Thousandth
      BY <1>1, <2>1, MemoryStep
    <3> QED  BY <2>1, <3>1 DEF MemoryCheck, Moment, Lack
  <2>2. CASE RedisCheck(h)
    <3>1. clock < promise + Half
      BY <1>1, <2>2, RedisStep
    <3> QED  BY <2>2, <3>1 DEF RedisCheck, Moment, Lack
  <2> QED  BY <2>1, <2>2
<1> QED  BY <1>1, AlwaysRate, PTL DEF Spec, RetryAfterHolds

=============================================================================
