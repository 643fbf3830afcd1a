------------------------------- MODULE KeyCache -------------------------------
(***************************************************************************)
(* packages/agent_runtime/auth.py, JwtJwksAuthenticator: the signing keys  *)
(* of an OIDC provider, cached by the API and looked up by its handlers.   *)
(*                                                                         *)
(* A lookup holds the lock while it asks the provider, which answers some  *)
(* time after it was asked and before the caller has its answer.  The      *)
(* provider publishes and withdraws keys at any moment.                    *)
(***************************************************************************)
EXTENDS Naturals

CONSTANTS
    Requests,       \* handlers, each with at most one lookup
    Kids,           \* key ids
    CacheTime,      \* cache_seconds
    FetchTime,      \* how long the requests of one refresh may take (assumed)
    UriConfigured,  \* jwks_uri is given
    MaxClock,       \* a bound
    MaxRotations,   \* changes of the published keys (a bound)
    None

ASSUME KeyCacheAssumption ==
    /\ CacheTime \in Nat \ {0}
    /\ FetchTime \in Nat
    /\ UriConfigured \in BOOLEAN
    /\ MaxClock \in Nat
    /\ MaxRotations \in Nat
    /\ None \notin Requests

VARIABLES
    clock,
    published,  \* key ids in the provider's JWKS
    rotations,
    keys,       \* _keys
    expiresAt,  \* _cache_expires_at
    uriKnown,   \* _jwks_uri is configured or was discovered
    lock,       \* who holds _lock
    lookups,    \* _key_for of each handler
    \* observers
    withdrawn,  \* when a key was last published, if it is not now
    excused     \* lookups whose key was not always published, or that failed

cacheVars == <<keys, expiresAt, uriKnown, lock>>
keyVars == <<clock, published, rotations, cacheVars, lookups, withdrawn, excused>>

\* why: "stale" for the refresh of an expired cache, "unknown" for the one that
\* a new kid forces.  age: how long the key had been withdrawn when found.
Lookup == [pc : {"none", "lock", "discover", "fetch", "body", "found", "refused"},
           kid : Kids \cup {None}, why : {"none", "stale", "unknown"},
           begun : Nat, body : SUBSET Kids, age : Nat]

NoLookup == [pc |-> "none", kid |-> None, why |-> "none", begun |-> 0,
             body |-> {}, age |-> 0]

KeyTypeOK ==
    /\ clock \in Nat
    /\ published \subseteq Kids
    /\ rotations \in Nat
    /\ keys \subseteq Kids
    /\ expiresAt \in Nat
    /\ uriKnown \in BOOLEAN
    /\ lock \in Requests \cup {None}
    /\ lookups \in [Requests -> Lookup]
    /\ withdrawn \in [Kids -> Nat]
    /\ excused \subseteq Requests

KeyInit ==
    /\ clock = 0
    /\ published \in SUBSET Kids
    /\ rotations = 0
    /\ keys = {}
    /\ expiresAt = 0
    /\ uriKnown = UriConfigured
    /\ lock = None
    /\ lookups = [h \in Requests |-> NoLookup]
    /\ withdrawn = [k \in Kids |-> 0]
    /\ excused = {}

-----------------------------------------------------------------------------
(* _key_for and _refresh_keys *)

StartLookup(h, kid) ==
    /\ lookups[h].pc = "none"
    /\ lookups' = [lookups EXCEPT ![h] = [NoLookup EXCEPT !.pc = "lock", !.kid = kid]]
    /\ excused' = IF kid \in published THEN excused \ {h} ELSE excused \cup {h}
    /\ UNCHANGED <<clock, published, rotations, cacheVars, withdrawn>>

Age(k) == IF k \in published THEN 0 ELSE clock - withdrawn[k]

Found(h) == [lookups EXCEPT ![h].pc = "found", ![h].age = Age(lookups[h].kid)]

AskProvider(h, why) ==
    [lookups EXCEPT ![h].pc = IF uriKnown THEN "fetch" ELSE "discover",
                    ![h].why = why, ![h].begun = clock]

\* Faulty variant of EnterCached: a key that is not in the cache is refused.
EnterCachedOnly(h) ==
    /\ lookups[h].pc = "lock"
    /\ lock = None
    /\ clock < expiresAt
    /\ lookups' = IF lookups[h].kid \in keys THEN Found(h)
                  ELSE [lookups EXCEPT ![h].pc = "refused"]
    /\ UNCHANGED <<clock, published, rotations, cacheVars, withdrawn, excused>>

\* The lock is free and the cache has not expired.
EnterCached(h) ==
    /\ lookups[h].pc = "lock"
    /\ lock = None
    /\ clock < expiresAt
    /\ IF lookups[h].kid \in keys
       THEN lookups' = Found(h) /\ lock' = None
       ELSE lookups' = AskProvider(h, "unknown") /\ lock' = h
    /\ UNCHANGED <<clock, published, rotations, keys, expiresAt, uriKnown,
                   withdrawn, excused>>

EnterExpired(h) ==
    /\ lookups[h].pc = "lock"
    /\ lock = None
    /\ clock >= expiresAt
    /\ lookups' = AskProvider(h, "stale")
    /\ lock' = h
    /\ UNCHANGED <<clock, published, rotations, keys, expiresAt, uriKnown,
                   withdrawn, excused>>

\* The discovery document names the JWKS address, which is kept.
Discover(h) ==
    /\ lookups[h].pc = "discover"
    /\ uriKnown' = TRUE
    /\ lookups' = [lookups EXCEPT ![h].pc = "fetch"]
    /\ UNCHANGED <<clock, published, rotations, keys, expiresAt, lock, withdrawn, excused>>

ProviderAnswers(h) ==
    /\ lookups[h].pc = "fetch"
    /\ lookups' = [lookups EXCEPT ![h].pc = "body", ![h].body = published]
    /\ UNCHANGED <<clock, published, rotations, cacheVars, withdrawn, excused>>

\* _refresh_keys replaces the keys; a key that was unknown is looked up again,
\* and after the refresh of an expired cache one more refresh is tried.
Refresh(h) ==
    /\ lookups[h].pc = "body"
    /\ lookups[h].body # {}
    /\ keys' = lookups[h].body
    /\ expiresAt' = clock + CacheTime
    /\ \/ /\ lookups[h].kid \in lookups[h].body
          /\ lookups' = Found(h)
          /\ lock' = None
       \/ /\ lookups[h].kid \notin lookups[h].body
          /\ lookups[h].why = "stale"
          /\ lookups' = AskProvider(h, "unknown")
          /\ UNCHANGED lock
       \/ /\ lookups[h].kid \notin lookups[h].body
          /\ lookups[h].why = "unknown"
          /\ lookups' = [lookups EXCEPT ![h].pc = "refused"]
          /\ lock' = None
    /\ UNCHANGED <<clock, published, rotations, uriKnown, withdrawn, excused>>

\* Faulty variant of RefreshFails: the old keys get another term.
RefreshFailsExtended(h) ==
    /\ lookups[h].pc \in {"discover", "fetch", "body"}
    /\ expiresAt' = clock + CacheTime
    /\ lookups' = [lookups EXCEPT ![h].pc = "refused"]
    /\ lock' = None
    /\ excused' = excused \cup {h}
    /\ UNCHANGED <<clock, published, rotations, keys, uriKnown, withdrawn>>

\* A request fails, its answer is not as it must be, or it holds no key: the
\* lookup raises and the cache stays as it is.
RefreshFails(h) ==
    /\ lookups[h].pc \in {"discover", "fetch", "body"}
    /\ lookups' = [lookups EXCEPT ![h].pc = "refused"]
    /\ lock' = None
    /\ excused' = excused \cup {h}
    /\ UNCHANGED <<clock, published, rotations, keys, expiresAt, uriKnown, withdrawn>>

EndLookup(h) ==
    /\ lookups[h].pc \in {"found", "refused"}
    /\ lookups' = [lookups EXCEPT ![h] = NoLookup]
    /\ UNCHANGED <<clock, published, rotations, cacheVars, withdrawn, excused>>

-----------------------------------------------------------------------------
(* The provider and time *)

Rotate(kids) ==
    /\ kids # published
    /\ rotations < MaxRotations
    /\ rotations' = rotations + 1
    /\ published' = kids
    /\ withdrawn' = [k \in Kids |-> IF k \in published \ kids THEN clock ELSE withdrawn[k]]
    /\ excused' = excused \cup {h \in Requests : lookups[h].kid \notin kids}
    /\ UNCHANGED <<clock, cacheVars, lookups>>

Asking(h) == lookups[h].pc \in {"discover", "fetch", "body"}

\* That a refresh takes FetchTime at most is an assumption about the network
\* and the provider: timeout_seconds bounds each wait for the socket, and not
\* the whole of an answer that comes in small pieces.
TickKeys ==
    /\ clock < MaxClock
    /\ \A h \in Requests : Asking(h) => clock < lookups[h].begun + FetchTime
    /\ clock' = clock + 1
    /\ UNCHANGED <<published, rotations, cacheVars, lookups, withdrawn, excused>>

\* The process of the API ends and a new one starts, with an empty cache.
RestartCache ==
    /\ keys' = {}
    /\ expiresAt' = 0
    /\ uriKnown' = UriConfigured
    /\ lock' = None
    /\ lookups' = [h \in Requests |-> NoLookup]
    /\ UNCHANGED <<clock, published, rotations, withdrawn, excused>>

KeyStep(h) ==
    \/ EnterCached(h) \/ EnterExpired(h) \/ Discover(h)
    \/ ProviderAnswers(h) \/ Refresh(h) \/ RefreshFails(h)

KeyNext ==
    \/ \E h \in Requests : KeyStep(h) \/ EndLookup(h)
    \/ \E h \in Requests, k \in Kids : StartLookup(h, k)
    \/ \E kids \in SUBSET Kids : Rotate(kids)
    \/ TickKeys \/ RestartCache

KeySpec == KeyInit /\ [][KeyNext]_keyVars

-----------------------------------------------------------------------------
(* Properties *)

\* A key that the provider has withdrawn is used no longer than the cache lives
\* and a refresh takes.
RevocationBounded ==
    \A h \in Requests : lookups[h].pc = "found" => lookups[h].age <= CacheTime + FetchTime

\* A lookup is refused only if its key was not published all the time, or a
\* refresh failed: a rotation needs no restart and no waiting for the cache.
RotationFollowed ==
    \A h \in Requests : lookups[h].pc = "refused" => h \in excused
=============================================================================
