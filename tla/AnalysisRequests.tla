--------------------------- MODULE AnalysisRequests ---------------------------
(***************************************************************************)
(* The way of a request through the API to an external provider:           *)
(* request_identity with OIDC (KeyCache) or HS256 tokens, the rate limiter *)
(* (packages/agent_runtime/limits.py), the analyze_attachment handler      *)
(* (services/api/app.py), VisionService (packages/vision/service.py) and   *)
(* the audit event.  The stores of the attachment are module Attachments;  *)
(* here its content is there or not.  A step is one call that leaves the   *)
(* process, or the decisions between two of them; the limiter in memory    *)
(* reads the clock before it has its lock, which is a step of its own.     *)
(*                                                                         *)
(* Time is counted in ticks, several of them in a second, since both       *)
(* limiters answer with a rounded number of seconds.                       *)
(***************************************************************************)
EXTENDS KeyCache, Sequences, FiniteSets

CONSTANTS
    Calls,          \* bearer token (kid, signed, trusted, exp) and consent
    Second,         \* ticks of a second
    Thousandth,     \* what int(x + 0.999) may lose, in ticks
    Window,         \* window_seconds, in ticks
    MaxEvents,      \* max_events
    Deployments     \* auth_mode and limiter; and bounds: the calls that come, how
                    \* many, the ticks, rotations and ends of the process

ASSUME LimitAssumption ==
    /\ Second \in Nat \ {0} /\ Second % 2 = 0
    /\ Thousandth \in 1..Second
    /\ Window \in Nat \ {0} /\ Window % Second = 0
    /\ MaxEvents \in Nat \ {0}
    /\ \A d \in Deployments :
          /\ d.auth \in {"oidc_jwks", "jwt_hs256"}
          /\ d.limiter \in {"memory", "redis"}
          /\ d.calls \subseteq Calls
          /\ {d.requests, d.ticks, d.rotations, d.crashes} \subseteq Nat
    /\ \A call \in Calls : call.kid \in Kids /\ call.exp \in Nat
                            /\ {call.signed, call.trusted, call.consent} \subseteq BOOLEAN
    /\ None \notin Nat \cup [count : Nat, until : Nat]

VARIABLES
    deployed,   \* the deployment
    reqs,       \* what each handler works on
    events,     \* InMemoryRateLimiter: times of admissions, as they were appended
    counter,    \* RedisRateLimiter: [count, until], or None
    \* observers
    arrived,    \* requests so far
    crashes,
    admitted,   \* admissions: when the clock was read, and when it was decided
    promise,    \* the earliest time that a refused request was told to come
                \* back, since the last admission and the last outage, or None
    egress,     \* images sent whose audit event was not tried yet
    abandoned   \* images sent by handlers that an exception or a crash ended

handlerVars == <<deployed, reqs, events, counter>>
rateObservers == <<admitted, promise>>
observers == <<arrived, crashes, rateObservers, egress, abandoned>>
vars == <<keyVars, handlerVars, observers>>

Request == [pc : {"idle", "auth", "limit", "check", "analyze", "called", "audit"},
            call : Calls \cup {None}, since : Nat, now : Nat,
            event : {"none", "analyzed", "analysis_failed"}]

Idle == [pc |-> "idle", call |-> None, since |-> 0, now |-> 0, event |-> "none"]

Image == [by : Requests, call : Calls, since : Nat]

TypeOK ==
    /\ KeyTypeOK
    /\ deployed \in Deployments
    /\ reqs \in [Requests -> Request]
    /\ \A h \in Requests : reqs[h].pc = "auth" <=> lookups[h].pc # "none"
    /\ events \in Seq(Nat) /\ Len(events) <= MaxEvents
    /\ counter \in [count : Nat, until : Nat] \cup {None}
    /\ admitted \in Seq([read : Nat, at : Nat])
    /\ promise \in Nat \cup {None}
    /\ egress \cup abandoned \subseteq Image

Init ==
    /\ KeyInit
    /\ deployed \in Deployments
    /\ deployed.auth = "jwt_hs256" => published = {}
    /\ reqs = [h \in Requests |-> Idle]
    /\ events = <<>>
    /\ counter = None
    /\ arrived = 0
    /\ crashes = 0
    /\ admitted = <<>>
    /\ promise = None
    /\ egress = {}
    /\ abandoned = {}

-----------------------------------------------------------------------------
(* request_identity *)

Arrive(h, request) ==
    /\ reqs[h] = Idle
    /\ arrived < deployed.requests /\ request.call \in deployed.calls
    /\ arrived' = arrived + 1
    /\ reqs' = [reqs EXCEPT ![h] = request]
    /\ UNCHANGED <<deployed, events, counter, crashes, rateObservers, egress, abandoned>>

ArriveOidc(h, call) ==
    /\ deployed.auth = "oidc_jwks"
    /\ Arrive(h, [Idle EXCEPT !.pc = "auth", !.call = call])
    /\ StartLookup(h, call.kid)

LookupKey(h) ==
    /\ KeyStep(h)
    /\ UNCHANGED <<handlerVars, observers>>

\* _verify_signature and _identity_from_claims.
Accepts(call) == call.signed /\ call.trusted /\ clock < call.exp

Authenticate(h) ==
    /\ reqs[h].pc = "auth"
    /\ EndLookup(h)
    /\ reqs' = [reqs EXCEPT ![h] =
          IF lookups[h].pc = "found" /\ Accepts(@.call)
          THEN [@ EXCEPT !.pc = "limit", !.since = clock] ELSE Idle]
    /\ UNCHANGED <<deployed, events, counter, observers>>

\* The secret is at hand: one decision.
ArriveHs256(h, call) ==
    /\ deployed.auth = "jwt_hs256"
    /\ Accepts(call)
    /\ Arrive(h, [Idle EXCEPT !.pc = "limit", !.call = call, !.since = clock])
    /\ UNCHANGED keyVars

-----------------------------------------------------------------------------
(* The rate limit of the caller *)

\* max(1, seconds), in ticks.
AtLeastOne(seconds) == IF seconds < 1 THEN Second ELSE seconds * Second

Admit(h, read) ==
    /\ reqs' = [reqs EXCEPT ![h].pc = "analyze", ![h].now = 0]
    /\ admitted' = Append(admitted, [read |-> read, at |-> clock])
    /\ promise' = None

Deny(h, wait) ==
    /\ reqs' = [reqs EXCEPT ![h] = Idle]
    /\ promise' = IF promise = None \/ clock + wait < promise THEN clock + wait ELSE promise
    /\ UNCHANGED admitted

\* time.monotonic(), before the lock is taken.
ReadClock(h) ==
    /\ reqs[h].pc = "limit"
    /\ deployed.limiter = "memory"
    /\ reqs' = [reqs EXCEPT ![h].pc = "check", ![h].now = clock]
    /\ UNCHANGED <<keyVars, deployed, events, counter, observers>>

\* How many admissions a check drops: it drops the first while it is too old.
Dropped(now) ==
    CHOOSE n \in 0..Len(events) :
        /\ \A i \in 1..n : events[i] + Window <= now
        /\ n < Len(events) => events[n + 1] + Window > now

Recent(now) == SubSeq(events, Dropped(now) + 1, Len(events))

\* Until the first event is a window old.
Left(now) == Head(Recent(now)) + Window - now

\* Faulty variant of RetryAfter: int(x), without the 0.999.
RetryAfterFloor(now) == AtLeastOne(Left(now) \div Second)

\* max(1, int(x + 0.999)): less than the ceiling when x is less than a
\* thousandth over a whole number.
RetryAfter(now) == AtLeastOne((Left(now) + Second - Thousandth) \div Second)

\* Under the lock, with the time that was read before it.
MemoryCheck(h) ==
    /\ reqs[h].pc = "check"
    /\ deployed.limiter = "memory"
    /\ LET now == reqs[h].now
       IN  \/ /\ Len(Recent(now)) >= MaxEvents
              /\ Deny(h, RetryAfter(now))
              /\ events' = Recent(now)
           \/ /\ Len(Recent(now)) < MaxEvents
              /\ Admit(h, now)
              /\ events' = Append(Recent(now), now)
    /\ UNCHANGED <<keyVars, deployed, counter, arrived, crashes, egress, abandoned>>

\* INCR, and EXPIRE for the first event; the key is gone at its expiry.
Incremented ==
    IF counter = None \/ counter.until <= clock
    THEN [count |-> 1, until |-> clock + Window]
    ELSE [counter EXCEPT !.count = @ + 1]

Half == Second \div 2

\* Redis gives the seconds left to the nearest second.
Ttl == (Incremented.until - clock + Half) \div Second

RedisCheck(h) ==
    /\ reqs[h].pc = "limit"
    /\ deployed.limiter = "redis"
    /\ counter' = Incremented
    /\ \/ Incremented.count > MaxEvents /\ Deny(h, AtLeastOne(Ttl))
       \/ Incremented.count <= MaxEvents /\ Admit(h, clock)
    /\ UNCHANGED <<keyVars, deployed, events, arrived, crashes, egress, abandoned>>

\* Faulty variant of RedisCheckFails: an outage lets the request pass.
RedisCheckFailsOpen(h) ==
    /\ reqs[h].pc = "limit"
    /\ deployed.limiter = "redis"
    /\ Admit(h, clock)
    /\ UNCHANGED <<keyVars, deployed, events, counter, arrived, crashes, egress, abandoned>>

\* eval raises, after it was applied or not: the request is refused, and told
\* to come back after window_seconds.
RedisCheckFails(h) ==
    /\ reqs[h].pc = "limit"
    /\ deployed.limiter = "redis"
    /\ counter' \in {counter, Incremented}
    /\ reqs' = [reqs EXCEPT ![h] = Idle]
    /\ promise' = clock + Window
    /\ UNCHANGED <<keyVars, deployed, events, arrived, crashes, admitted, egress, abandoned>>

-----------------------------------------------------------------------------
(* analyze_attachment and VisionService.analyze *)

Respond(h) == reqs' = [reqs EXCEPT ![h] = Idle]

GoTo(h, pc, event) == reqs' = [reqs EXCEPT ![h].pc = pc, ![h].event = event]

\* requires_external_consent is set for the provider there is.
MaySend(h) == reqs[h].call.consent

\* The content is missing, no provider is configured, or the caller did not
\* consent: nothing is audited.
AnalyzeRefused(h) ==
    /\ reqs[h].pc = "analyze"
    /\ Respond(h)
    /\ UNCHANGED <<keyVars, deployed, events, counter, observers>>

\* The content is not as long as it was when it was validated.
ContentChanged(h) ==
    /\ reqs[h].pc = "analyze"
    /\ MaySend(h)
    /\ GoTo(h, "audit", "analysis_failed")
    /\ UNCHANGED <<keyVars, deployed, events, counter, observers>>

ImageOf(h) == [by |-> h, call |-> reqs[h].call, since |-> reqs[h].since]

SendImage(h) ==
    /\ reqs[h].pc = "analyze"
    /\ MaySend(h)
    /\ GoTo(h, "called", "none")
    /\ egress' = egress \cup {ImageOf(h)}
    /\ UNCHANGED <<keyVars, deployed, events, counter, arrived, crashes, rateObservers,
                   abandoned>>

ProviderReturns(h) ==
    /\ reqs[h].pc = "called"
    /\ GoTo(h, "audit", "analyzed")
    /\ UNCHANGED <<keyVars, deployed, events, counter, observers>>

\* Faulty variant of ProviderFails: the error is only answered.
ProviderFailsUnaudited(h) ==
    /\ reqs[h].pc = "called"
    /\ Respond(h)
    /\ UNCHANGED <<keyVars, deployed, events, counter, observers>>

\* A failing request, a redirect, or an answer without text.
ProviderFails(h) ==
    /\ reqs[h].pc = "called"
    /\ GoTo(h, "audit", "analysis_failed")
    /\ UNCHANGED <<keyVars, deployed, events, counter, observers>>

\* The append succeeds, or raises and the caller gets an error.
RecordEvent(h) ==
    /\ reqs[h].pc = "audit"
    /\ egress' = egress \ {ImageOf(h)}
    /\ Respond(h)
    /\ UNCHANGED <<keyVars, deployed, events, counter, arrived, crashes, rateObservers,
                   abandoned>>

-----------------------------------------------------------------------------
(* What ends a handler on its way *)

\* A malformed answer raises what neither the provider class nor the handler
\* converts (an HTTPException, which is no OSError): nothing is audited.
CallRaises(h) ==
    /\ reqs[h].pc = "called"
    /\ Respond(h)
    /\ egress' = egress \ {ImageOf(h)}
    /\ abandoned' = abandoned \cup {ImageOf(h)}
    /\ UNCHANGED <<keyVars, deployed, events, counter, arrived, crashes, rateObservers>>

\* The process ends.  The log in memory ends with it, and admissions and
\* promises are counted anew; the counter in Redis stays.
Crash ==
    /\ crashes < deployed.crashes
    /\ crashes' = crashes + 1
    /\ RestartCache
    /\ reqs' = [h \in Requests |-> Idle]
    /\ IF deployed.limiter = "memory"
       THEN events' = <<>> /\ admitted' = <<>> /\ promise' = None
       ELSE UNCHANGED <<events, rateObservers>>
    /\ egress' = {}
    /\ abandoned' = abandoned \cup egress
    /\ UNCHANGED <<deployed, counter, arrived>>

-----------------------------------------------------------------------------
Environment ==
    /\ \/ /\ rotations < deployed.rotations
          /\ \E kids \in SUBSET Kids : Rotate(kids)
       \/ /\ clock < deployed.ticks
          /\ TickKeys
    /\ UNCHANGED <<handlerVars, observers>>

Next ==
    \/ \E h \in Requests, call \in Calls :
          ArriveOidc(h, call) \/ ArriveHs256(h, call)
    \/ \E h \in Requests :
          \/ LookupKey(h) \/ Authenticate(h)
          \/ ReadClock(h) \/ MemoryCheck(h)
          \/ RedisCheck(h) \/ RedisCheckFails(h)
          \/ AnalyzeRefused(h) \/ ContentChanged(h) \/ SendImage(h)
          \/ ProviderReturns(h) \/ ProviderFails(h) \/ CallRaises(h)
          \/ RecordEvent(h)
    \/ Crash
    \/ Environment

Spec == Init /\ [][Next]_vars

-----------------------------------------------------------------------------
(* Properties *)

\* Admissions whose check, from the reading of the clock to the decision, lies
\* in the window that begins at t.
AdmittedWithin(t) ==
    {i \in DOMAIN admitted : t <= admitted[i].read /\ admitted[i].at < t + Window}

\* Of the checks that lie in a window, whichever it is, the log in memory admits
\* max_events at most, although handlers that wait for the lock come with times
\* that are old and out of order.  The Redis counter has fixed windows: around
\* the end of one it admits almost twice as many.  The states, the log within
\* its bound among them, are well typed.
RateBounded ==
    /\ TypeOK
    /\ \A t \in 0..clock :
          Cardinality(AdmittedWithin(t)) <=
              IF deployed.limiter = "memory" THEN MaxEvents ELSE 2 * MaxEvents - 1

\* What the rounding of the answer may lack.
Lack == IF deployed.limiter = "memory" THEN Thousandth ELSE Half

Moment(h) == IF deployed.limiter = "memory" THEN reqs[h].now ELSE clock

\* A caller who is told to come back, and since whom nobody was admitted and
\* Redis did not fail, is not refused by the limit again once the time has come
\* and what the rounding lacks is over: less than a thousandth of a second in
\* memory, less than half a second with Redis.
RetryAfterHolds ==
    [][\A h \in Requests :
          (promise # None /\ (MemoryCheck(h) \/ RedisCheck(h)) /\ reqs'[h] = Idle)
             => Moment(h) < promise + Lack]_vars

\* An image went to the provider only for a caller who consented to it, with a
\* token that was good, and of a key that was found, when it was looked at; and
\* the handler that sent it does not end without trying to record it, unless
\* the process ends or the call raises what nothing converts.
EgressGoverned ==
    /\ \A image \in egress \cup abandoned :
          LET call == image.call
          IN  call.consent /\ call.signed /\ call.trusted /\ image.since < call.exp
    /\ \A image \in egress :
          reqs[image.by].pc \in {"called", "audit"} /\ ImageOf(image.by) = image
=============================================================================
