---------------------------- MODULE SchedulerProofs ----------------------------
(***************************************************************************)
(* Proofs about the Scheduler object, for every set of definitions, zones, *)
(* calendars and callers: the slot of a trigger is the right one, and what *)
(* overlapping triggers do to the history and to the counters.             *)
(***************************************************************************)
EXTENDS SchedulerFacade, FiniteSetTheorems, WellFoundedInduction, TLAPS

-----------------------------------------------------------------------------
(* Arithmetic *)

LEMMA Division ==
    ASSUME NEW s \in Nat \ {0}, NEW a \in Int
    PROVE  /\ a % s \in 0..s - 1
           /\ a \div s \in Int
           /\ a = (a \div s) * s + (a % s)
BY SMTT(60)

LEMMA Multiple ==
    ASSUME NEW s \in Nat \ {0}, NEW q \in Int
    PROVE  (q * s) % s = 0
OBVIOUS

LEMMA Distributes ==
    ASSUME NEW s \in Int, NEW p \in Int, NEW q \in Int
    PROVE  /\ p * s + q * s = (p + q) * s
           /\ p * s - q * s = (p - q) * s
OBVIOUS

LEMMA MultiplesOrdered ==
    ASSUME NEW s \in Nat \ {0}, NEW p \in Int, NEW q \in Int
    PROVE  /\ p < q => p * s + s <= q * s
           /\ p * s < q * s => p < q
<1>1. ASSUME p < q PROVE p * s + s <= q * s
  <2>1. q - p - 1 \in Nat
    BY <1>1
  <2>2. (q - p - 1) * s >= 0
    BY <2>1
  <2>3. (q - p - 1) * s = q * s - p * s - s
    OBVIOUS
  <2> QED BY <2>2, <2>3
<1>2. ASSUME q < p PROVE q * s + s <= p * s
  <2>1. p - q - 1 \in Nat
    BY <1>2
  <2>2. (p - q - 1) * s >= 0
    BY <2>1
  <2>3. (p - q - 1) * s = p * s - q * s - s
    OBVIOUS
  <2> QED BY <2>2, <2>3
<1>3. p * s \in Int /\ q * s \in Int
  OBVIOUS
<1> QED BY <1>1, <1>2, <1>3

\* A multiple from first on is first and a number of steps.
LEMMA StepsFrom ==
    ASSUME NEW s \in Nat \ {0}, NEW first \in Int, NEW w \in Int,
           first % s = 0, w % s = 0, first <= w
    PROVE  \E k \in Nat : w = first + k * s
<1> DEFINE k == (w \div s) - (first \div s)
<1>1. /\ first = (first \div s) * s /\ w = (w \div s) * s
      /\ first \div s \in Int /\ w \div s \in Int
  BY Division
<1>2. k \in Int /\ w = first + k * s
  BY <1>1, Distributes
<1>3. k \in Nat
  BY <1>1, <1>2, MultiplesOrdered
<1> QED BY <1>2, <1>3

LEMMA StepsAreMultiples ==
    ASSUME NEW s \in Nat \ {0}, NEW first \in Int, NEW k \in Int, first % s = 0
    PROVE  (first + k * s) % s = 0
<1>1. first \div s \in Int /\ first = (first \div s) * s
  BY Division
<1>a. PICK q \in Int : first = q * s
  BY <1>1, Zenon
<1>2. q + k \in Int /\ first + k * s = (q + k) * s
  BY <1>a, Distributes
<1>3. ((q + k) * s) % s = 0
  BY <1>2, Multiple
<1> QED BY <1>2, <1>3

\* The search begins at the first full minute that has not begun before w.
LEMMA FirstCursorMinute ==
    ASSUME NEW w \in Int
    PROVE  /\ FirstCursor(w) \in Int
           /\ FirstCursor(w) % Minute = 0
           /\ w <= FirstCursor(w)
           /\ \A v \in Int : v % Minute = 0 /\ w <= v => FirstCursor(w) <= v
<1> USE TimeAssumption
<1>1. /\ (-w) % Minute \in 0..Minute - 1
      /\ (-w) \div Minute \in Int
      /\ -w = ((-w) \div Minute) * Minute + ((-w) % Minute)
  BY Division
<1> DEFINE q == -((-w) \div Minute)
<1>2. q \in Int /\ FirstCursor(w) = q * Minute
  BY <1>1 DEF FirstCursor
<1>3. FirstCursor(w) \in Int /\ w <= FirstCursor(w) /\ FirstCursor(w) < w + Minute
  BY <1>1 DEF FirstCursor
<1>4. ASSUME NEW v \in Int, v % Minute = 0, w <= v PROVE FirstCursor(w) <= v
  <2>1. v = (v \div Minute) * Minute /\ v \div Minute \in Int
    BY <1>4, Division
  <2>2. SUFFICES ASSUME v < FirstCursor(w) PROVE FALSE
    BY <1>3
  <2>3. (v \div Minute) * Minute + Minute <= q * Minute
    BY <1>2, <2>1, <2>2, MultiplesOrdered
  <2> QED BY <1>2, <1>3, <1>4, <2>1, <2>3
<1> QED BY <1>2, <1>3, <1>4, Multiple

LEMMA LargerOfTwo ==
    ASSUME NEW a \in Int, NEW b \in Int
    PROVE  Max({a, b}) = IF a >= b THEN a ELSE b
<1> DEFINE m == IF a >= b THEN a ELSE b
<1>1. m \in {a, b} /\ \A y \in {a, b} : m >= y
  OBVIOUS
<1>2. Max({a, b}) \in {a, b} /\ \A y \in {a, b} : Max({a, b}) >= y
  BY <1>1, Zenon DEF Max
<1> QED BY <1>1, <1>2

\* A set of naturals that is not empty has a least element, and Min is it.
LEMMA LeastElement ==
    ASSUME NEW S, S \subseteq Nat, S # {}
    PROVE  Min(S) \in S /\ \A y \in S : Min(S) <= y
<1> DEFINE Less == {ss \in Nat \X Nat : ss[1] < ss[2]}
<1>1. IsWellFoundedOn(Less, Nat)
  BY NatLessThanWellFounded DEF OpToRel
<1>2. PICK x \in S : \A y \in S : ~(<<y, x>> \in Less)
  BY <1>1, WFMin
<1>3. \A y \in S : x <= y
  <2> SUFFICES ASSUME NEW y \in S, y < x PROVE FALSE
    OBVIOUS
  <2>1. <<y, x>> \in Nat \X Nat /\ <<y, x>>[1] = y /\ <<y, x>>[2] = x
    OBVIOUS
  <2> QED BY <1>2, <2>1
<1> QED BY <1>2, <1>3, Zenon DEF Min

-----------------------------------------------------------------------------
(* The slot of a moment *)

Zone == [change : Int, before : Int, after : Int]

\* Wall and ToUtc with the comparison of the offsets spelled out.
LEMMA ZoneTimes ==
    ASSUME NEW z \in Zone, NEW t \in Int
    PROVE  /\ z.change \in Int /\ z.before \in Int /\ z.after \in Int
           /\ Wall(z, t) \in Int
           /\ t < z.change => Wall(z, t) = t + z.before
           /\ t >= z.change => Wall(z, t) = t + z.after
           /\ ToUtc(z, t) \in Int
           /\ ToUtc(z, t) = IF t < z.change + z.before \/ t < z.change + z.after
                            THEN t - z.before ELSE t - z.after
<1>1. z.change \in Int /\ z.before \in Int /\ z.after \in Int
  BY DEF Zone
<1>2. Max({z.before, z.after}) = IF z.before >= z.after THEN z.before ELSE z.after
  BY <1>1, LargerOfTwo
<1> QED BY <1>1, <1>2 DEF Wall, ToUtc

LEMMA IntervalRight ==
    ASSUME NEW d \in Definitions, d.kind = "interval", NEW t \in Nat
    PROVE  /\ ScheduledFor(d, t) \in Int
           /\ SlotOf(d, t, ScheduledFor(d, t))
<1>1. PICK s \in Nat \ {0} : s = d.seconds
  BY DefinitionsAssumption
<1>2. ScheduledFor(d, t) = t - (t % s)
  BY <1>1 DEF ScheduledFor, IntervalSlot
<1>3. t % s \in 0..s - 1 /\ t \div s \in Int /\ t = (t \div s) * s + (t % s)
  BY Division
<1>4. PICK q \in Int : t - (t % s) = q * s
  BY <1>3
<1>5. (t - (t % s)) % s = 0
  BY <1>4, Multiple
<1>6. PICK slot \in Int : slot = t - (t % s) /\ ScheduledFor(d, t) = slot
  BY <1>2, <1>3
<1>7. slot % s = 0 /\ slot <= t /\ t < slot + s
  BY <1>3, <1>5, <1>6
<1>8. d.kind # "one_shot" /\ d.kind # "cron"
  OBVIOUS
<1> QED BY <1>1, <1>6, <1>7, <1>8, Zenon DEF SlotOf

LEMMA OneShotRight ==
    ASSUME NEW d \in Definitions, d.kind = "one_shot", NEW t \in Int,
           ScheduledFor(d, t) # None
    PROVE  /\ ScheduledFor(d, t) \in Int
           /\ SlotOf(d, t, ScheduledFor(d, t))
           /\ ScheduledFor(d, ScheduledFor(d, t)) # None
<1>1. d.at \in Int /\ d.zone \in Zone
  BY DefinitionsAssumption DEF Zone
<1>2. \A u : ScheduledFor(d, u) = OneShotSlot(d, u)
  BY DEF ScheduledFor
<1>3. ASSUME NEW u,
             u <= t \/ (d.naive /\ Skipped(d.zone, d.at)),
             ~d.naive => u = d.at
      PROVE  SlotOf(d, t, u)
  <2>1. d.kind # "interval" /\ d.kind # "cron"
    OBVIOUS
  <2> QED BY <1>3, <2>1, Zenon DEF SlotOf
<1>4. CASE ~d.naive
  BY <1>1, <1>2, <1>3, <1>4, NoneAssumption DEF OneShotSlot
<1>5. CASE d.naive
  <2> DEFINE s == ToUtc(d.zone, d.at)
  <2>1. d.at <= Wall(d.zone, t) /\ ScheduledFor(d, t) = s
    BY <1>2, <1>5 DEF OneShotSlot
  <2>2. s \in Int
    BY <1>1, ZoneTimes
  <2>3. s <= t \/ Skipped(d.zone, d.at)
    BY <1>1, <2>1, ZoneTimes DEF Skipped
  <2>4. d.at <= Wall(d.zone, s)
    <3> HIDE DEF s
    <3>1. s = IF d.at < d.zone.change + d.zone.before
                   \/ d.at < d.zone.change + d.zone.after
              THEN d.at - d.zone.before ELSE d.at - d.zone.after
      BY <1>1, ZoneTimes DEF s
    <3>2. /\ d.zone.change \in Int /\ d.zone.before \in Int /\ d.zone.after \in Int
          /\ s < d.zone.change => Wall(d.zone, s) = s + d.zone.before
          /\ s >= d.zone.change => Wall(d.zone, s) = s + d.zone.after
      BY <1>1, <2>2, ZoneTimes
    <3> QED BY <1>1, <2>2, <3>1, <3>2
  <2>5. ScheduledFor(d, s) # None
    BY <1>2, <1>5, <2>2, <2>4, NoneAssumption DEF OneShotSlot
  <2> QED BY <1>3, <1>5, <2>1, <2>2, <2>3, <2>5
<1> QED BY <1>4, <1>5


\* What the search finds: the first minute from t's on, on the wall clock, that
\* the expression matches; it is t itself, or lies ahead and is converted.
LEMMA SearchFinds ==
    ASSUME NEW d \in Definitions, NEW t \in Int, CronSlot(d, t) # None
    PROVE  \E w \in Int :
             /\ Wall(d.zone, t) <= w /\ w % Minute = 0 /\ Matches(d.expr, w)
             /\ \A v \in Int : (v % Minute = 0 /\ Wall(d.zone, t) <= v /\ v < w)
                                => ~Matches(d.expr, v)
             /\ \/ w = Wall(d.zone, t) /\ CronSlot(d, t) = t
                \/ w > Wall(d.zone, t) /\ CronSlot(d, t) = ToUtc(d.zone, w)
<1> DEFINE now == Wall(d.zone, t)
           first == FirstCursor(now)
           hits == {k \in 0..Horizon - 1 : Matches(d.expr, first + k * Minute)}
<1>1. d.zone \in Zone /\ now \in Int
  BY DefinitionsAssumption, ZoneTimes DEF Zone
<1>2. /\ first \in Int /\ first % Minute = 0 /\ now <= first
      /\ \A v \in Int : v % Minute = 0 /\ now <= v => first <= v
  BY <1>1, FirstCursorMinute
<1>3. CronSlot(d, t) = CASE hits = {} -> None
                         [] hits # {} /\ Min(hits) = 0 /\ first = now -> t
                         [] OTHER -> ToUtc(d.zone, first + Min(hits) * Minute)
  BY Zenon DEF CronSlot
<1>4. hits # {}
  BY <1>3, Zenon
<1>5. hits \subseteq Nat
  BY TimeAssumption
<1>6. Min(hits) \in hits /\ \A y \in hits : Min(hits) <= y
  <2> HIDE DEF hits
  <2> QED BY <1>4, <1>5, LeastElement
<1>7. PICK k \in Nat : k = Min(hits)
  BY <1>5, <1>6, Zenon
<1>8. /\ k \in 0..Horizon - 1 /\ Matches(d.expr, first + k * Minute)
      /\ \A y \in 0..Horizon - 1 : Matches(d.expr, first + y * Minute) => k <= y
  BY <1>6, <1>7, Zenon
<1>9. \/ k = 0 /\ first = now /\ CronSlot(d, t) = t
      \/ (k # 0 \/ first # now) /\ CronSlot(d, t) = ToUtc(d.zone, first + k * Minute)
  BY <1>3, <1>4, <1>7, Zenon
<1> HIDE DEF now, first, hits
<1>10. PICK w \in Int : w = first + k * Minute
  BY <1>2, TimeAssumption
<1>11. w % Minute = 0
  <2>1. k \in Int
    OBVIOUS
  <2>2. (first + k * Minute) % Minute = 0
    BY <1>2, <2>1, StepsAreMultiples, TimeAssumption, Zenon
  <2> QED BY <1>10, <2>2
<1>12. /\ k = 0 => w = first
       /\ k # 0 => w > first
  <2>1. 0 < k => 0 * Minute + Minute <= k * Minute
    BY TimeAssumption, MultiplesOrdered
  <2> QED BY <1>2, <1>10, <2>1, TimeAssumption
<1>13. ASSUME NEW v \in Int, v % Minute = 0, now <= v, v < w
       PROVE  ~Matches(d.expr, v)
  <2>1. PICK j \in Nat : v = first + j * Minute
    BY <1>2, <1>13, StepsFrom, TimeAssumption
  <2>2. j * Minute < k * Minute /\ j * Minute \in Int /\ k * Minute \in Int
    BY <1>2, <1>10, <1>13, <2>1, TimeAssumption
  <2>3. j < k
    BY <2>2, MultiplesOrdered, TimeAssumption
  <2>4. j \in 0..Horizon - 1
    BY <1>8, <2>3, TimeAssumption
  <2> QED BY <1>8, <2>1, <2>3, <2>4
<1>14. now <= w
  BY <1>1, <1>2, <1>12
<1>15. Matches(d.expr, w)
  BY <1>8, <1>10
<1>16. \/ w = now /\ CronSlot(d, t) = t
       \/ w > now /\ CronSlot(d, t) = ToUtc(d.zone, w)
  BY <1>1, <1>2, <1>9, <1>10, <1>12
<1> QED BY <1>11, <1>13, <1>14, <1>15, <1>16 DEF now

LEMMA CronRight ==
    ASSUME NEW d \in Definitions, d.kind = "cron", NEW t \in Int,
           CronSlot(d, t) # None
    PROVE  CronSlot(d, t) \in Int /\ SlotOf(d, t, CronSlot(d, t))
<1> DEFINE z == d.zone
<1>1. PICK w \in Int :
          /\ Wall(z, t) <= w /\ w % Minute = 0 /\ Matches(d.expr, w)
          /\ \A v \in Int : (v % Minute = 0 /\ Wall(z, t) <= v /\ v < w)
                             => ~Matches(d.expr, v)
          /\ \/ w = Wall(z, t) /\ CronSlot(d, t) = t
             \/ w > Wall(z, t) /\ CronSlot(d, t) = ToUtc(z, w)
  BY SearchFinds
<1>2. z \in Zone /\ z.change \in Int /\ z.before \in Int /\ z.after \in Int
  BY DefinitionsAssumption DEF Zone
<1>3. \A u \in Int : /\ Wall(z, u) \in Int
                     /\ u < z.change => Wall(z, u) = u + z.before
                     /\ u >= z.change => Wall(z, u) = u + z.after
  BY <1>2, ZoneTimes
<1>4. /\ ToUtc(z, w) \in Int
      /\ ToUtc(z, w) = IF w < z.change + z.before \/ w < z.change + z.after
                       THEN w - z.before ELSE w - z.after
  BY <1>2, ZoneTimes
<1>5. PICK slot \in Int : slot = CronSlot(d, t)
  BY <1>1, <1>4
<1> HIDE DEF z
<1>6. Wall(z, slot) = w \/ (slot + z.before = w /\ Skipped(z, w))
  BY <1>1, <1>2, <1>3, <1>4, <1>5 DEF Skipped
<1>7. slot < t => Repeated(z, t)
  BY <1>1, <1>2, <1>3, <1>4, <1>5 DEF Repeated
<1>8. ASSUME NEW u \in t..slot - 1, Wall(z, u) % Minute = 0,
             Matches(d.expr, Wall(z, u)), ~Repeated(z, u)
      PROVE  z.change <= u /\ slot + z.before = w /\ Skipped(z, w)
  <2>1. u \in Int /\ t <= u /\ u < slot /\ Wall(z, u) \in Int
    BY <1>3
  <2>2. Wall(z, u) < Wall(z, t) \/ w <= Wall(z, u)
    BY <1>1, <1>3, <1>8, <2>1
  <2>3. w # Wall(z, t) /\ slot = ToUtc(z, w)
    BY <1>1, <1>5, <2>1
  <2> QED BY <1>2, <1>3, <1>4, <1>8, <2>1, <2>2, <2>3 DEF Skipped, Repeated
<1>9. Occurs(d, slot) \/ Displaced(d, slot)
  BY <1>1, <1>6 DEF Occurs, Displaced, z
<1>10. ASSUME NEW u \in t..slot - 1, Occurs(d, u)
       PROVE  Repeated(z, u) \/ (Displaced(d, slot) /\ z.change <= u)
  BY <1>1, <1>8, <1>10 DEF Occurs, Displaced, z
<1>11. d.kind # "interval" /\ d.kind # "one_shot"
  OBVIOUS
<1>12. SlotOf(d, t, slot)
  BY <1>7, <1>9, <1>10, <1>11, Zenon DEF SlotOf, z
<1> QED BY <1>5, <1>12

\* The slot of a trigger, if there is one, is the right one.
LEMMA ScheduledForRight ==
    ASSUME NEW d \in Definitions, NEW t \in Nat, ScheduledFor(d, t) # None
    PROVE  /\ ScheduledFor(d, t) \in Int
           /\ SlotOf(d, t, ScheduledFor(d, t))
<1>1. CASE d.kind = "interval"
  BY <1>1, IntervalRight
<1>2. CASE d.kind = "one_shot"
  BY <1>2, OneShotRight
<1>3. CASE d.kind = "cron"
  <2>1. ScheduledFor(d, t) = CronSlot(d, t)
    BY <1>3 DEF ScheduledFor
  <2> QED BY <1>3, <2>1, CronRight
<1> QED BY <1>1, <1>2, <1>3, DefinitionsAssumption


-----------------------------------------------------------------------------
(***************************************************************************)
(* The inductive invariant: a call has the definition that is registered   *)
(* and the slot of its time; the counters are exact; a success is in the   *)
(* history, under a slot that is still due at its own instant, so that a   *)
(* trigger there is never "not due"; and a call of a schedule without      *)
(* concurrency that has not succeeded knows that nobody else has.          *)
(***************************************************************************)
Runs == [status : Statuses, attempts : Nat, notified : {"no", "sent", "error"}]

Call == [pc : {"executing", "sending"}, def : Definitions, slot : Int, t : Times,
         attempts : Nat, finding : BOOLEAN, run : Runs \cup {None}]

CallOK(call) ==
    /\ call.def.id \in DOMAIN definitions
    /\ definitions[call.def.id] = call.def
    /\ call.attempts \in 1..call.def.retries + 1
    /\ call.slot = ScheduledFor(call.def, call.t)
    /\ call.pc = "sending" => call.run \in Runs

CallsOK ==
    /\ calls \in [Callers -> {Idle} \cup Call]
    /\ \A c \in Callers : calls[c] # Idle => CallOK(calls[c])

Accepted == \A id \in DOMAIN definitions : definitions[id].retries >= 0

CounterOK ==
    \A id \in Ids :
        /\ Count(active, id) = Cardinality(AtWork(id))
        /\ id \in DOMAIN definitions => Count(active, id) <= definitions[id].limit

Due(d, s) == d.kind # "cron" => ScheduledFor(d, s) # None

EffectOK(k) ==
    /\ k \in DOMAIN history
    /\ k[1] \in DOMAIN definitions
    /\ Due(definitions[k[1]], k[2])
    /\ definitions[k[1]].limit = 1 =>
          /\ effects[k] = 1
          /\ history[k].status \in {"succeeded", "paused", "blocked", "expired"}

Unsuccessful(call) == call.pc = "executing" \/ call.run.status # "succeeded"

SuccessOK ==
    /\ \A k \in DOMAIN effects : EffectOK(k)
    /\ \A c \in Callers :
          calls[c] # Idle /\ calls[c].def.limit = 1 /\ Unsuccessful(calls[c])
             => Key(calls[c]) \notin DOMAIN effects

FacadeInv == TypeOK /\ Accepted /\ CallsOK /\ CounterOK /\ SuccessOK

-----------------------------------------------------------------------------
(* Lemmas about the state *)

LEMMA WithIs ==
    ASSUME NEW f, NEW k, NEW v
    PROVE  /\ DOMAIN With(f, k, v) = DOMAIN f \cup {k}
           /\ With(f, k, v)[k] = v
           /\ \A x \in DOMAIN f : x # k => With(f, k, v)[x] = f[x]
BY DEF With

LEMMA BusyCall ==
    ASSUME CallsOK, NEW c \in Callers, calls[c] # Idle
    PROVE  /\ calls[c] \in Call /\ CallOK(calls[c])
           /\ calls[c].pc \in {"executing", "sending"}
           /\ calls[c].def \in Definitions /\ calls[c].def.id \in Ids
           /\ calls[c].slot \in Int /\ Key(calls[c]) \in Ids \X Int
BY DEF CallsOK, Call, Ids, Key

LEMMA IdleNeverBusy ==
    ASSUME NEW call, call.pc # "idle" PROVE call # Idle
BY DEF Idle

LEMMA AtWorkFinite ==
    ASSUME NEW id
    PROVE  IsFiniteSet(AtWork(id)) /\ Cardinality(AtWork(id)) \in Nat
<1>1. AtWork(id) \subseteq Callers
  BY DEF AtWork
<1> QED BY <1>1, CallersAssumption, FS_Subset, FS_CardinalityType

\* Under max_concurrency 1 the call at work is alone.
LEMMA OneAtWork ==
    ASSUME CallsOK, CounterOK, NEW b \in Callers, NEW c \in Callers,
           calls[b] # Idle, calls[c] # Idle, calls[b].def.id = calls[c].def.id,
           calls[c].def.limit = 1
    PROVE  b = c
<1> DEFINE id == calls[c].def.id
<1>1. id \in Ids /\ id \in DOMAIN definitions /\ definitions[id].limit = 1
  BY BusyCall DEF CallOK
<1>2. Cardinality(AtWork(id)) <= 1
  BY <1>1 DEF CounterOK
<1>3. {b, c} \subseteq AtWork(id)
  BY DEF AtWork
<1>4. SUFFICES ASSUME b # c PROVE FALSE
  OBVIOUS
<1>5. Cardinality({b, c}) = 2
  <2>1. IsFiniteSet({b}) /\ Cardinality({b}) = 1
    BY FS_Singleton
  <2>2. {b} \cup {c} = {b, c} /\ c \notin {b}
    BY <1>4
  <2> QED BY <2>1, <2>2, FS_AddElement
<1>6. Cardinality({b, c}) <= Cardinality(AtWork(id))
  BY <1>3, AtWorkFinite, FS_Subset
<1> QED BY <1>2, <1>5, <1>6, AtWorkFinite

\* What _record does to the history.
LEMMA RecordIs ==
    ASSUME NEW id, NEW instant, NEW r, RecordRun(id, instant, r)
    PROVE  /\ DOMAIN history' = DOMAIN history \cup {<<id, instant>>}
           /\ history'[<<id, instant>>] = r
           /\ \A k \in DOMAIN history : k # <<id, instant>> => history'[k] = history[k]
BY DEF RecordRun, With

LEMMA RecordType ==
    ASSUME TypeOK, NEW id \in Ids, NEW instant \in Int, NEW r \in Runs,
           RecordRun(id, instant, r)
    PROVE  /\ DOMAIN history' \subseteq Ids \X Int
           /\ \A k \in DOMAIN history' : history'[k] \in Runs
<1>1. \A k \in DOMAIN history : history[k] \in Runs /\ k \in Ids \X Int
  BY DEF TypeOK, Runs
<1>2. <<id, instant>> \in Ids \X Int
  OBVIOUS
<1>3. ASSUME NEW k \in DOMAIN history' PROVE k \in Ids \X Int /\ history'[k] \in Runs
  <2>1. CASE k = <<id, instant>>
    BY <1>2, <2>1, RecordIs
  <2>2. CASE k # <<id, instant>>
    <3>1. k \in DOMAIN history /\ history'[k] = history[k]
      BY <2>2 DEF RecordRun, With
    <3> QED BY <1>1, <3>1
  <2> QED BY <2>1, <2>2
<1> QED BY <1>3

-----------------------------------------------------------------------------
(* The counters *)

\* No call comes or goes: each stays idle, or at work on its schedule.
LEMMA KeepCounts ==
    ASSUME CounterOK, UNCHANGED <<active, definitions>>,
           \A c \in Callers : /\ calls'[c] = Idle <=> calls[c] = Idle
                              /\ calls[c] # Idle => calls'[c].def = calls[c].def
    PROVE  CounterOK'
<1>1. \A id \in Ids : AtWork(id)' = AtWork(id)
  BY DEF AtWork
<1> QED BY <1>1 DEF CounterOK, Count

LEMMA BeginCounts ==
    ASSUME CounterOK, NEW c \in Callers, calls[c] = Idle, UNCHANGED definitions,
           NEW d \in Definitions, definitions[d.id] = d, ~Full(d),
           calls'[c] # Idle, calls'[c].def = d,
           \A b \in Callers \ {c} : calls'[b] = calls[b],
           active' = With(active, d.id, Count(active, d.id) + 1)
    PROVE  CounterOK'
<1>0. d.id \in Ids /\ d.limit \in Int
  BY DefinitionsAssumption DEF Ids
<1>1. \A id : Count(active, id)' = IF id = d.id THEN Count(active, id) + 1
                                             ELSE Count(active, id)
  BY DEF Count, With
<1>2. \A id : id # d.id => AtWork(id)' = AtWork(id)
  BY DEF AtWork
<1>3. AtWork(d.id)' = AtWork(d.id) \cup {c} /\ c \notin AtWork(d.id)
  BY DEF AtWork
<1>4. Cardinality(AtWork(d.id))' = Cardinality(AtWork(d.id)) + 1
  BY <1>3, AtWorkFinite, FS_AddElement
<1>5. Count(active, d.id) < d.limit
  BY <1>0, AtWorkFinite DEF Full, CounterOK
<1> QED BY <1>0, <1>1, <1>2, <1>4, <1>5, AtWorkFinite DEF CounterOK

LEMMA LeaveCounts ==
    ASSUME TypeOK, CallsOK, CounterOK, NEW c \in Callers, calls[c] # Idle,
           Leave(c), UNCHANGED definitions
    PROVE  /\ CounterOK'
           /\ DOMAIN active' \subseteq DOMAIN active
           /\ \A id \in DOMAIN active' : active[id] > 0 => active'[id] > 0
<1>0. PICK own \in Ids : own = calls[c].def.id
  BY BusyCall
<1>1. AtWork(own)' = AtWork(own) \ {c} /\ c \in AtWork(own)
  BY <1>0 DEF AtWork, Leave, CallsOK
<1>2. \A id : id # own => AtWork(id)' = AtWork(id)
  BY <1>0 DEF AtWork, Leave, CallsOK
<1>3. Cardinality(AtWork(own))' = Cardinality(AtWork(own)) - 1
  BY <1>1, AtWorkFinite, FS_RemoveElement
<1>4. /\ Count(active, own) = Cardinality(AtWork(own))
      /\ Cardinality(AtWork(own)) \in Nat /\ Cardinality(AtWork(own)) # 0
  BY <1>0, <1>1, AtWorkFinite, FS_EmptySet DEF CounterOK
<1>5. own \in DOMAIN active /\ active[own] \in Nat \ {0}
  BY <1>4 DEF Count
<1>6. /\ \A id : id # own => Count(active, id)' = Count(active, id)
      /\ Count(active, own)' = Count(active, own) - 1
      /\ DOMAIN active' \subseteq DOMAIN active
      /\ \A id \in DOMAIN active' : active[id] > 0 => active'[id] > 0
  <2>1. CASE active[own] = 1
    <3>1. active' = [x \in DOMAIN active \ {own} |-> active[x]]
      BY <1>0, <2>1 DEF Leave, Restrict
    <3> QED BY <1>5, <2>1, <3>1 DEF Count
  <2>2. CASE active[own] # 1
    <3>1. active' = [active EXCEPT ![own] = @ - 1]
      BY <1>0, <2>2 DEF Leave
    <3> QED BY <1>5, <2>2, <3>1 DEF Count
  <2> QED BY <2>1, <2>2
<1>7. ASSUME NEW id \in Ids
      PROVE  /\ Count(active', id) = Cardinality(AtWork(id)')
             /\ id \in DOMAIN definitions' =>
                   Cardinality(AtWork(id)') <= definitions'[id].limit
  <2>1. CASE id = own
    BY <1>3, <1>4, <1>6, <2>1, DefinitionsAssumption DEF CounterOK, TypeOK
  <2>2. CASE id # own
    BY <1>2, <1>6, <2>2 DEF CounterOK
  <2> QED BY <2>1, <2>2
<1> QED BY <1>6, <1>7 DEF CounterOK


-----------------------------------------------------------------------------
(* Steps that leave the calls alone *)

\* A slot is due at its own instant.
LEMMA SlotIsDue ==
    ASSUME NEW d \in Definitions, NEW t \in Nat, ScheduledFor(d, t) # None
    PROVE  Due(d, ScheduledFor(d, t))
<1>1. CASE d.kind = "interval"
  <2>1. PICK s \in Nat \ {0} : s = d.seconds
    BY <1>1, DefinitionsAssumption
  <2>2. \A u : ScheduledFor(d, u) = u - (u % s)
    BY <1>1, <2>1, Zenon DEF ScheduledFor, IntervalSlot
  <2>3. PICK slot \in Int : slot = ScheduledFor(d, t)
    BY <1>1, IntervalRight
  <2>4. slot - (slot % s) \in Int
    BY Division
  <2> QED BY <2>2, <2>3, <2>4, NoneAssumption DEF Due
<1>2. CASE d.kind = "one_shot"
  BY <1>2, OneShotRight DEF Due
<1>3. CASE d.kind = "cron"
  BY <1>3 DEF Due
<1> QED BY <1>1, <1>2, <1>3, DefinitionsAssumption

LEMMA InitFacadeInv == Init => FacadeInv
<1> SUFFICES ASSUME Init PROVE FacadeInv
  OBVIOUS
<1>1. calls = [c \in Callers |-> Idle] /\ \A c \in Callers : calls[c].pc = "idle"
  BY DEF Init, Idle
<1>2. TypeOK
  BY <1>1, CallsAssumption DEF Init, TypeOK
<1>3. CallsOK
  BY <1>1 DEF CallsOK
<1>4. \A id : AtWork(id) = {}
  BY <1>1 DEF AtWork
<1>5. CounterOK
  BY <1>4, FS_EmptySet DEF Init, CounterOK, Count
<1>6. SuccessOK
  BY <1>1 DEF Init, SuccessOK
<1>7. Accepted
  BY DEF Init, Accepted
<1> QED BY <1>2, <1>3, <1>5, <1>6, <1>7 DEF FacadeInv

\* What a schedule is does not change: its version names it.
LEMMA RegisterStep ==
    ASSUME FacadeInv, NEW d \in Definitions, Register(d)
    PROVE  FacadeInv'
<1> USE DEF FacadeInv
<1>1. /\ DOMAIN definitions' = DOMAIN definitions \cup {d.id}
      /\ definitions'[d.id] = d /\ d.id \in Ids
      /\ \A id \in DOMAIN definitions : definitions'[id] = definitions[id]
  BY VersionsAssumption DEF Register, With, TypeOK, Ids
<1>2. /\ UNCHANGED <<history, paused, cancelled, active, calls, triggers, effects>>
      /\ d.limit > 0 /\ d.retries >= 0
  BY DEF Register
<1>3. TypeOK'
  BY <1>1, <1>2 DEF TypeOK
<1>4. CallsOK'
  BY <1>1, <1>2 DEF CallsOK, CallOK
<1>5. CounterOK'
  <2>1. \A id : AtWork(id)' = AtWork(id) /\ Count(active, id)' = Count(active, id)
    BY <1>2 DEF AtWork, Count
  <2>2. ASSUME d.id \notin DOMAIN definitions PROVE Count(active, d.id) <= d.limit
    <3>1. AtWork(d.id) = {}
      BY <2>2, BusyCall DEF AtWork, CallOK
    <3> QED BY <1>1, <1>2, <3>1, FS_EmptySet, DefinitionsAssumption DEF CounterOK
  <2> QED BY <1>1, <2>1, <2>2 DEF CounterOK
<1>6. SuccessOK'
  BY <1>1, <1>2 DEF SuccessOK, EffectOK, Unsuccessful, Key
<1>7. Accepted'
  BY <1>1, <1>2 DEF Accepted
<1> QED BY <1>3, <1>4, <1>5, <1>6, <1>7

\* pause, resume and cancel.
LEMMA MarkStep ==
    ASSUME FacadeInv, paused' \subseteq Ids, cancelled' \subseteq Ids \X Int,
           UNCHANGED <<definitions, history, active, calls, triggers, effects>>
    PROVE  FacadeInv'
<1> USE DEF FacadeInv
<1>1. TypeOK'
  BY DEF TypeOK
<1>2. CallsOK'
  BY DEF CallsOK, CallOK
<1>3. CounterOK'
  BY KeepCounts
<1>4. SuccessOK'
  BY DEF SuccessOK, EffectOK, Unsuccessful, Key
<1> QED BY <1>1, <1>2, <1>3, <1>4 DEF Accepted

\* A call that ends at once, and hides a success only behind a refusal.
LEMMA RecordStep ==
    ASSUME FacadeInv, NEW id \in Ids, NEW instant \in Int, NEW r \in Runs,
           RecordRun(id, instant, r), triggers' \in 0..MaxCalls,
           <<id, instant>> \in DOMAIN effects =>
              r.status \in {"paused", "blocked", "expired"},
           UNCHANGED <<definitions, paused, cancelled, active, calls, effects>>
    PROVE  FacadeInv'
<1> USE DEF FacadeInv
<1>1. TypeOK'
  BY RecordType DEF TypeOK, Runs
<1>2. CallsOK'
  BY DEF CallsOK, CallOK
<1>3. CounterOK'
  BY KeepCounts
<1>4. ASSUME NEW k \in DOMAIN effects PROVE EffectOK(k)'
  <2>1. EffectOK(k)
    BY DEF SuccessOK
  <2>2. CASE k = <<id, instant>>
    BY <2>1, <2>2 DEF EffectOK, RecordRun, With
  <2>3. CASE k # <<id, instant>>
    BY <2>1, <2>3 DEF EffectOK, RecordRun, With
  <2> QED BY <2>2, <2>3
<1>5. SuccessOK'
  BY <1>4 DEF SuccessOK, Unsuccessful, Key
<1> QED BY <1>1, <1>2, <1>3, <1>5 DEF Accepted

\* A refused trigger is recorded under its own instant.  It is "not due" there
\* only if no slot lies there.
LEMMA RefusedStep ==
    ASSUME FacadeInv, NEW c \in Callers, NEW id \in DOMAIN definitions,
           NEW t \in Times, NEW approved \in BOOLEAN,
           TriggerRefused(c, id, t, approved), triggers' \in 0..MaxCalls,
           UNCHANGED <<definitions, paused, cancelled, effects>>
    PROVE  FacadeInv'
<1>1. PICK d \in Definitions : d = definitions[id] /\ d.id = id
  BY DEF FacadeInv, TypeOK
<1>2. id \in Ids /\ t \in Int
  BY <1>1, CallsAssumption DEF Ids
<1>3. PICK status \in Refusals(d, t, approved) : RecordRun(id, t, Run(status, 0))
  BY <1>1 DEF TriggerRefused
<1>4. /\ status \in {"paused", "blocked", "expired", "skipped"}
      /\ status = "skipped" => d.kind # "cron" /\ ScheduledFor(d, t) = None
  BY <1>3 DEF Refusals
<1>5. Run(status, 0) \in Runs /\ Run(status, 0).status = status
  BY <1>4 DEF Run, Runs, Statuses
<1>6. ASSUME status = "skipped" PROVE <<id, t>> \notin DOMAIN effects
  <2>1. ~Due(d, t)
    BY <1>4, <1>6 DEF Due
  <2> QED BY <1>1, <2>1 DEF FacadeInv, SuccessOK, EffectOK
<1>7. UNCHANGED <<active, calls>>
  BY DEF TriggerRefused
<1> QED BY <1>2, <1>3, <1>4, <1>5, <1>6, <1>7, RecordStep


-----------------------------------------------------------------------------
(* A call begins, tries again, and ends *)

LEMMA BeginStep ==
    ASSUME FacadeInv, NEW c \in Callers, calls[c] = Idle, NEW t \in Times,
           NEW finding \in BOOLEAN, NEW d \in Definitions,
           d.id \in DOMAIN definitions, definitions[d.id] = d, ~Full(d),
           ScheduledFor(d, t) # None,
           <<d.id, ScheduledFor(d, t)>> \notin DOMAIN history,
           active' = With(active, d.id, Count(active, d.id) + 1),
           calls' = [calls EXCEPT ![c] =
                [pc |-> "executing", def |-> d, slot |-> ScheduledFor(d, t), t |-> t,
                 attempts |-> 1, finding |-> finding, run |-> None]],
           triggers' \in 0..MaxCalls,
           UNCHANGED <<definitions, history, paused, cancelled, effects>>
    PROVE  FacadeInv'
<1> USE DEF FacadeInv
<1>1. PICK slot \in Int : slot = ScheduledFor(d, t)
  BY ScheduledForRight, CallsAssumption
<1>2. PICK call \in Call : call =
        [pc |-> "executing", def |-> d, slot |-> slot, t |-> t,
         attempts |-> 1, finding |-> finding, run |-> None]
  BY <1>1 DEF Call
<1>3. /\ calls' = [calls EXCEPT ![c] = call] /\ calls'[c] = call
      /\ \A b \in Callers \ {c} : calls'[b] = calls[b]
  BY <1>1, <1>2 DEF CallsOK
<1>4. call # Idle /\ call.def = d /\ call.pc = "executing" /\ call.attempts = 1
  BY <1>2, IdleNeverBusy
<1>0. d.retries \in Nat
  BY DefinitionsAssumption DEF Accepted
<1>5. CallsOK'
  <2>1. CallOK(call)'
    BY <1>0, <1>1, <1>2 DEF CallOK
  <2> QED BY <1>3, <2>1 DEF CallsOK, CallOK
<1>6. CounterOK'
  BY <1>3, <1>4, BeginCounts
<1>7. TypeOK'
  <2>1. DOMAIN active' \subseteq Ids /\ \A id \in DOMAIN active' : active'[id] > 0
    <3>1. d.id \in Ids /\ Count(active, d.id) \in Nat
      BY AtWorkFinite DEF Ids, CounterOK
    <3> QED BY <3>1 DEF With, TypeOK
  <2>2. \A b \in Callers :
           /\ calls'[b].pc \in {"idle", "executing", "sending"}
           /\ calls'[b] # Idle => calls'[b].attempts \in 1..calls'[b].def.retries + 1
    BY <1>0, <1>3, <1>4 DEF TypeOK
  <2> QED BY <2>1, <2>2 DEF TypeOK
<1>8. SuccessOK'
  <2>1. Key(call) \notin DOMAIN effects
    BY <1>1, <1>2 DEF SuccessOK, EffectOK, Key
  <2>2. \A k \in DOMAIN effects : EffectOK(k)'
    BY DEF SuccessOK, EffectOK
  <2> QED BY <1>3, <2>1, <2>2 DEF SuccessOK, Unsuccessful, Key
<1> QED BY <1>5, <1>6, <1>7, <1>8 DEF Accepted

LEMMA RetryStep ==
    ASSUME FacadeInv, NEW c \in Callers, calls[c].pc = "executing",
           calls[c].attempts <= calls[c].def.retries,
           calls' = [calls EXCEPT ![c].attempts = @ + 1],
           UNCHANGED <<definitions, history, paused, cancelled, active, triggers, effects>>
    PROVE  FacadeInv'
<1> USE DEF FacadeInv
<1>1. calls[c] # Idle
  BY DEF Idle
<1>2. calls[c] \in Call /\ CallOK(calls[c])
  BY <1>1, BusyCall
<1>3. PICK call \in Call : call = [calls[c] EXCEPT !.attempts = @ + 1]
  <2>1. calls[c].attempts + 1 \in Nat
    BY <1>2 DEF Call
  <2>2. \A n \in Nat : [calls[c] EXCEPT !.attempts = n] \in Call
    BY <1>2 DEF Call
  <2> QED BY <2>1, <2>2
<1>4. /\ calls'[c] = call
      /\ \A b \in Callers \ {c} : calls'[b] = calls[b]
      /\ calls' \in [Callers -> {Idle} \cup Call]
  BY <1>3 DEF CallsOK
<1>5. /\ call.pc = "executing" /\ call.def = calls[c].def /\ call.slot = calls[c].slot
      /\ call.t = calls[c].t /\ call.run = calls[c].run
      /\ call.attempts = calls[c].attempts + 1 /\ call # Idle
  BY <1>2, <1>3, IdleNeverBusy DEF Call
<1>6. call.attempts \in 1..call.def.retries + 1
  <2>1. calls[c].def.retries \in Int
    BY <1>2, DefinitionsAssumption DEF Call
  <2> QED BY <1>2, <1>5, <2>1 DEF CallOK
<1>7. CallsOK'
  <2>1. CallOK(call)'
    BY <1>2, <1>5, <1>6 DEF CallOK
  <2> QED BY <1>4, <2>1 DEF CallsOK, CallOK
<1>8. CounterOK'
  BY <1>1, <1>4, <1>5, KeepCounts
<1>9. TypeOK'
  BY <1>4, <1>5, <1>6 DEF TypeOK
<1>10. SuccessOK'
  <2>1. calls[c].def.limit = 1 => Key(call) \notin DOMAIN effects
    BY <1>1, <1>5 DEF SuccessOK, Unsuccessful, Key
  <2>2. \A k \in DOMAIN effects : EffectOK(k)'
    BY DEF SuccessOK, EffectOK
  <2> QED BY <1>4, <1>5, <2>1, <2>2 DEF SuccessOK, Unsuccessful, Key
<1> QED BY <1>7, <1>8, <1>9, <1>10 DEF Accepted

\* What a run of c does to the successes: it records its own, or it does not
\* touch one that was recorded.
Outcome(c, r) ==
    \/ /\ effects' = effects
       /\ calls[c].pc = "executing" \/ r.status = calls[c].run.status
    \/ /\ effects' = With(effects, Key(calls[c]), Count(effects, Key(calls[c])) + 1)
       /\ calls[c].pc = "executing"
       /\ r.status = "succeeded"

LEMMA OutcomeStep ==
    ASSUME FacadeInv, NEW c \in Callers, calls[c] # Idle, NEW r \in Runs,
           RecordRun(calls[c].def.id, calls[c].slot, r), Outcome(c, r),
           UNCHANGED definitions
    PROVE  /\ \A k \in DOMAIN effects' : EffectOK(k)'
           /\ \A b \in Callers \ {c} :
                 calls[b] # Idle /\ calls[b].def.limit = 1 /\ Unsuccessful(calls[b])
                    => Key(calls[b]) \notin DOMAIN effects'
           /\ calls[c].def.limit = 1 /\ r.status # "succeeded"
                 => Key(calls[c]) \notin DOMAIN effects'
<1> USE DEF FacadeInv
<1>1. PICK d \in Definitions : d = calls[c].def /\ d = definitions[d.id]
  BY BusyCall DEF CallOK
<1>2. PICK key : key = <<d.id, calls[c].slot>>
  OBVIOUS
<1>3. Key(calls[c]) = key /\ key[1] = d.id /\ key[2] = calls[c].slot
  BY <1>1, <1>2 DEF Key
<1>4. /\ DOMAIN history' = DOMAIN history \cup {key} /\ history'[key] = r
      /\ \A k \in DOMAIN history : k # key => history'[k] = history[k]
  BY <1>1, <1>2, RecordIs
<1>5. Due(d, calls[c].slot) /\ d.id \in DOMAIN definitions
  <2>1. calls[c].t \in Nat /\ calls[c].slot = ScheduledFor(d, calls[c].t)
    BY <1>1, BusyCall, CallsAssumption DEF Call, CallOK
  <2>2. calls[c].slot # None
    BY BusyCall, NoneAssumption
  <2> QED BY <1>1, <2>1, <2>2, SlotIsDue, BusyCall DEF CallOK
<1>6. d.limit = 1 /\ Unsuccessful(calls[c]) => key \notin DOMAIN effects
  BY <1>1, <1>3 DEF SuccessOK
<1>7. CASE /\ effects' = effects
           /\ calls[c].pc = "executing" \/ r.status = calls[c].run.status
  <2>1. calls[c].pc = "executing" \/ r.status # "succeeded" => Unsuccessful(calls[c])
    BY <1>7 DEF Unsuccessful
  <2>2. ASSUME NEW k \in DOMAIN effects PROVE EffectOK(k)'
    <3>1. EffectOK(k)
      BY DEF SuccessOK
    <3>2. CASE k = key
      <4>1. d.limit = 1 => r.status = "succeeded"
        BY <1>6, <2>1, <3>2
      <4> QED BY <1>1, <1>3, <1>4, <1>7, <3>1, <3>2, <4>1 DEF EffectOK
    <3>3. CASE k # key
      BY <1>4, <1>7, <3>1, <3>3 DEF EffectOK
    <3> QED BY <3>2, <3>3
  <2> QED BY <1>1, <1>3, <1>6, <1>7, <2>1, <2>2 DEF SuccessOK
<1>8. CASE /\ effects' = With(effects, Key(calls[c]), Count(effects, Key(calls[c])) + 1)
           /\ calls[c].pc = "executing"
           /\ r.status = "succeeded"
  <2>1. /\ DOMAIN effects' = DOMAIN effects \cup {key}
        /\ effects'[key] = Count(effects, key) + 1
        /\ \A k \in DOMAIN effects : k # key => effects'[k] = effects[k]
    BY <1>3, <1>8 DEF With
  <2>2. d.limit = 1 => effects'[key] = 1
    BY <1>6, <1>8, <2>1 DEF Unsuccessful, Count
  <2>3. EffectOK(key)'
    BY <1>1, <1>3, <1>4, <1>5, <1>8, <2>2 DEF EffectOK
  <2>4. ASSUME NEW k \in DOMAIN effects, k # key PROVE EffectOK(k)'
    BY <1>4, <2>1, <2>4 DEF SuccessOK, EffectOK
  <2>5. ASSUME NEW b \in Callers \ {c}, calls[b] # Idle, calls[b].def.limit = 1
        PROVE  Key(calls[b]) # key
    <3>1. calls[b].def.id = calls[c].def.id => c = b
      BY <2>5, OneAtWork
    <3> QED BY <1>1, <1>3, <3>1 DEF Key
  <2> QED BY <1>8, <2>1, <2>3, <2>4, <2>5 DEF SuccessOK
<1> QED BY <1>7, <1>8 DEF Outcome


\* The run is recorded for good, and the call leaves.
LEMMA LeaveStep ==
    ASSUME FacadeInv, NEW c \in Callers, calls[c] # Idle, NEW r \in Runs,
           RecordRun(calls[c].def.id, calls[c].slot, r), Outcome(c, r), Leave(c),
           UNCHANGED <<definitions, paused, cancelled, triggers>>
    PROVE  FacadeInv'
<1> USE DEF FacadeInv
<1>1. /\ calls'[c] = Idle /\ \A b \in Callers \ {c} : calls'[b] = calls[b]
      /\ calls' \in [Callers -> {Idle} \cup Call]
  BY DEF Leave, CallsOK
<1>2. CallsOK'
  BY <1>1 DEF CallsOK, CallOK
<1>3. /\ CounterOK' /\ DOMAIN active' \subseteq DOMAIN active
      /\ \A id \in DOMAIN active' : active[id] > 0 => active'[id] > 0
  BY LeaveCounts
<1>4. calls[c].def.id \in Ids /\ calls[c].slot \in Int
  BY BusyCall
<1>5. DOMAIN history' \subseteq Ids \X Int /\ \A k \in DOMAIN history' : history'[k] \in Runs
  BY <1>4, RecordType
<1>6. \A b \in Callers :
         /\ calls'[b].pc \in {"idle", "executing", "sending"}
         /\ calls'[b] # Idle => calls'[b].attempts \in 1..calls'[b].def.retries + 1
  BY <1>1 DEF TypeOK, Idle
<1>7. TypeOK'
  BY <1>3, <1>5, <1>6 DEF TypeOK, Runs
<1>8. SuccessOK'
  BY <1>1, OutcomeStep DEF SuccessOK, Unsuccessful, Key
<1> QED BY <1>2, <1>3, <1>7, <1>8 DEF Accepted

\* The run is recorded, and the call goes on to the sink.
LEMMA SendStep ==
    ASSUME FacadeInv, NEW c \in Callers, calls[c].pc = "executing", NEW r \in Runs,
           RecordRun(calls[c].def.id, calls[c].slot, r), Outcome(c, r),
           calls' = [calls EXCEPT ![c].pc = "sending", ![c].run = r],
           UNCHANGED <<definitions, paused, cancelled, active, triggers>>
    PROVE  FacadeInv'
<1> USE DEF FacadeInv
<1>1. calls[c] # Idle
  BY DEF Idle
<1>2. calls[c] \in Call /\ CallOK(calls[c])
  BY <1>1, BusyCall
<1>3. PICK call \in Call : call = [calls[c] EXCEPT !.pc = "sending", !.run = r]
  BY <1>2 DEF Call
<1>4. /\ calls'[c] = call
      /\ \A b \in Callers \ {c} : calls'[b] = calls[b]
      /\ calls' \in [Callers -> {Idle} \cup Call]
  BY <1>3 DEF CallsOK
<1>5. /\ call.pc = "sending" /\ call.def = calls[c].def /\ call.slot = calls[c].slot
      /\ call.t = calls[c].t /\ call.run = r
      /\ call.attempts = calls[c].attempts /\ call # Idle
  BY <1>2, <1>3, IdleNeverBusy DEF Call
<1>6. CallsOK'
  <2>1. CallOK(call)'
    BY <1>2, <1>5 DEF CallOK
  <2> QED BY <1>4, <2>1 DEF CallsOK, CallOK
<1>7. CounterOK'
  BY <1>1, <1>4, <1>5, KeepCounts
<1>8. calls[c].def.id \in Ids /\ calls[c].slot \in Int
  BY <1>1, BusyCall
<1>9. DOMAIN history' \subseteq Ids \X Int /\ \A k \in DOMAIN history' : history'[k] \in Runs
  BY <1>8, RecordType
<1>10. \A b \in Callers :
          /\ calls'[b].pc \in {"idle", "executing", "sending"}
          /\ calls'[b] # Idle => calls'[b].attempts \in 1..calls'[b].def.retries + 1
  BY <1>2, <1>4, <1>5 DEF TypeOK, CallOK
<1>11. TypeOK'
  BY <1>9, <1>10 DEF TypeOK, Runs
<1>12. SuccessOK'
  <2>1. Key(call) = Key(calls[c])
    BY <1>5 DEF Key
  <2>2. /\ \A k \in DOMAIN effects' : EffectOK(k)'
        /\ \A b \in Callers \ {c} :
              calls[b] # Idle /\ calls[b].def.limit = 1 /\ Unsuccessful(calls[b])
                 => Key(calls[b]) \notin DOMAIN effects'
        /\ calls[c].def.limit = 1 /\ r.status # "succeeded"
              => Key(calls[c]) \notin DOMAIN effects'
    BY <1>1, OutcomeStep
  <2>3. Unsuccessful(call) => r.status # "succeeded"
    BY <1>5 DEF Unsuccessful
  <2>4. ASSUME NEW b \in Callers, calls'[b] # Idle, calls'[b].def.limit = 1,
               Unsuccessful(calls'[b])
        PROVE  Key(calls'[b]) \notin DOMAIN effects'
    <3>1. CASE b = c
      BY <1>4, <1>5, <2>1, <2>2, <2>3, <2>4, <3>1
    <3>2. CASE b # c
      BY <1>4, <2>2, <2>4, <3>2
    <3> QED BY <3>1, <3>2
  <2> QED BY <2>2, <2>4 DEF SuccessOK, Unsuccessful, Key
<1> QED BY <1>6, <1>7, <1>11, <1>12 DEF Accepted

LEMMA FinishStep ==
    ASSUME FacadeInv, NEW c \in Callers, calls[c].pc = "executing",
           NEW status \in {"succeeded", "failed"}, NEW finding,
           Finish(c, status, finding), Outcome(c, Run(status, calls[c].attempts)),
           UNCHANGED <<definitions, paused, cancelled, triggers>>
    PROVE  FacadeInv'
<1>1. calls[c] # Idle
  BY DEF Idle
<1>2. PICK r \in Runs : r = Run(status, calls[c].attempts)
  BY <1>1, BusyCall DEF FacadeInv, Run, Runs, Statuses, Call
<1>3. RecordRun(calls[c].def.id, calls[c].slot, r)
  BY <1>2 DEF Finish
<1>4. CASE Notifies(calls[c].def, status, finding)
  BY <1>2, <1>3, <1>4, SendStep DEF Finish
<1>5. CASE ~Notifies(calls[c].def, status, finding)
  BY <1>1, <1>2, <1>3, <1>5, LeaveStep DEF Finish
<1> QED BY <1>4, <1>5

LEMMA RaisesStep ==
    ASSUME FacadeInv, NEW c \in Callers, ExecutorRaises(c)
    PROVE  FacadeInv'
<1>1. /\ calls[c].pc = "executing" /\ calls[c] # Idle
      /\ UNCHANGED <<definitions, paused, cancelled, triggers, effects>>
  BY DEF ExecutorRaises, Idle
<1>2. \A r : Outcome(c, r)
  BY <1>1 DEF Outcome
<1>3. CASE Finish(c, "failed", FALSE)
  BY <1>1, <1>2, <1>3, FinishStep
<1>4. CASE /\ RecordRun(calls[c].def.id, calls[c].slot, Run("cancelled", calls[c].attempts))
           /\ Leave(c)
  <2>1. Run("cancelled", calls[c].attempts) \in Runs
    BY <1>1, BusyCall DEF FacadeInv, Run, Runs, Statuses, Call
  <2> QED BY <1>1, <1>2, <1>4, <2>1, LeaveStep
<1>5. CASE /\ calls[c].attempts <= calls[c].def.retries
           /\ calls' = [calls EXCEPT ![c].attempts = @ + 1]
           /\ UNCHANGED <<history, active>>
  BY <1>1, <1>5, RetryStep
<1> QED BY <1>3, <1>4, <1>5 DEF ExecutorRaises

LEMMA SentStep ==
    ASSUME FacadeInv, NEW c \in Callers, SendReturns(c) \/ SendRaises(c)
    PROVE  FacadeInv'
<1>1. /\ calls[c].pc = "sending" /\ calls[c] # Idle /\ Leave(c)
      /\ UNCHANGED <<definitions, paused, cancelled, triggers, effects>>
  BY DEF SendReturns, SendRaises, Idle
<1>2. calls[c].run \in Runs
  BY <1>1, BusyCall DEF FacadeInv, CallOK
<1>3. PICK r \in Runs : /\ RecordRun(calls[c].def.id, calls[c].slot, r)
                        /\ r.status = calls[c].run.status
  BY <1>2 DEF SendReturns, SendRaises, Runs
<1>4. Outcome(c, r)
  BY <1>1, <1>3 DEF Outcome
<1> QED BY <1>1, <1>3, <1>4, LeaveStep

LEMMA TriggerStep ==
    ASSUME FacadeInv, NEW c \in Callers, NEW id \in Ids, NEW t \in Times,
           NEW approved \in BOOLEAN, NEW finding \in BOOLEAN,
           Trigger(c, id, t, approved, finding)
    PROVE  FacadeInv'
<1>1. /\ calls[c] = Idle /\ id \in DOMAIN definitions
      /\ UNCHANGED <<definitions, paused, cancelled, effects>>
      /\ triggers' \in 0..MaxCalls
  BY CallsAssumption DEF Trigger, FacadeInv, TypeOK
<1>2. PICK d \in Definitions : d = definitions[id] /\ d.id = id
  BY <1>1 DEF FacadeInv, TypeOK
<1>3. CASE TriggerRefused(c, id, t, approved)
  BY <1>1, <1>3, RefusedStep
<1>4. CASE TriggerSlot(c, id, t, approved, finding)
  <2>1. ScheduledFor(d, t) # None
    BY <1>2, <1>4 DEF TriggerSlot
  <2>2. PICK slot \in Int : slot = ScheduledFor(d, t)
    BY <2>1, ScheduledForRight, CallsAssumption
  <2>3. CASE UNCHANGED <<history, active, calls>>
    <3> USE DEF FacadeInv
    <3>1. TypeOK' /\ CallsOK' /\ Accepted'
      BY <1>1, <2>3 DEF TypeOK, CallsOK, CallOK, Accepted
    <3>2. CounterOK'
      BY <1>1, <2>3, KeepCounts
    <3>3. SuccessOK'
      BY <1>1, <2>3 DEF SuccessOK, EffectOK, Unsuccessful, Key
    <3> QED BY <3>1, <3>2, <3>3
  <2>4. ASSUME NEW status \in {"cancelled", "skipped"}, ~Answered(<<id, slot>>),
               RecordRun(id, slot, Run(status, 0)), UNCHANGED <<active, calls>>
        PROVE  FacadeInv'
    <3>1. Run(status, 0) \in Runs
      BY DEF Run, Runs, Statuses
    <3>2. <<id, slot>> \notin DOMAIN effects
      BY <2>4 DEF Answered, FacadeInv, SuccessOK, EffectOK
    <3> QED BY <1>1, <2>4, <3>1, <3>2, RecordStep
  <2>5. CASE /\ ~Answered(<<id, slot>>) /\ ~Full(d)
             /\ active' = With(active, id, Count(active, id) + 1)
             /\ calls' = [calls EXCEPT ![c] =
                   [pc |-> "executing", def |-> d, slot |-> slot, t |-> t,
                    attempts |-> 1, finding |-> finding, run |-> None]]
             /\ UNCHANGED history
    BY <1>1, <1>2, <2>1, <2>2, <2>5, BeginStep DEF Answered
  <2> QED BY <1>2, <1>4, <2>2, <2>3, <2>4, <2>5 DEF TriggerSlot
<1> QED BY <1>3, <1>4 DEF Trigger

LEMMA StepFacadeInv ==
    ASSUME FacadeInv, [Next]_vars
    PROVE  FacadeInv'
<1>1. ASSUME NEW d \in Definitions, Register(d) PROVE FacadeInv'
  BY <1>1, RegisterStep
<1>2. ASSUME NEW id \in Ids, Pause(id) \/ Resume(id) PROVE FacadeInv'
  BY <1>2, MarkStep DEF Pause, Resume, FacadeInv, TypeOK
<1>3. ASSUME NEW k \in Ids \X Times, CancelRun(k) PROVE FacadeInv'
  <2>1. k \in Ids \X Int
    <3>1. PICK id \in Ids, t \in Times : k = <<id, t>>
      BY <1>3
    <3>2. t \in Int
      BY CallsAssumption
    <3> QED BY <3>1, <3>2
  <2>2. cancelled' \subseteq Ids \X Int
    BY <1>3, <2>1 DEF CancelRun, FacadeInv, TypeOK
  <2> QED BY <1>3, <2>2, MarkStep DEF CancelRun, FacadeInv, TypeOK
<1>4. ASSUME NEW c \in Callers, NEW id \in Ids, NEW t \in Times,
             NEW approved \in BOOLEAN, NEW finding \in BOOLEAN,
             Trigger(c, id, t, approved, finding)
      PROVE  FacadeInv'
  BY <1>4, TriggerStep
<1>5. ASSUME NEW c \in Callers, ExecutorReturns(c) PROVE FacadeInv'
  <2>1. Outcome(c, Run("succeeded", calls[c].attempts))
    BY <1>5 DEF ExecutorReturns, Outcome, Run
  <2> QED BY <1>5, <2>1, FinishStep DEF ExecutorReturns
<1>6. ASSUME NEW c \in Callers, ExecutorRaises(c) PROVE FacadeInv'
  BY <1>6, RaisesStep
<1>7. ASSUME NEW c \in Callers, SendReturns(c) \/ SendRaises(c) PROVE FacadeInv'
  BY <1>7, SentStep
<1>8. CASE UNCHANGED vars
  BY <1>8, MarkStep DEF vars, schedulerVars, FacadeInv, TypeOK
<1> QED BY <1>1, <1>2, <1>3, <1>4, <1>5, <1>6, <1>7, <1>8 DEF Next

-----------------------------------------------------------------------------
(* Theorems *)

LEMMA FacadeInvHolds == Spec => []FacadeInv
BY InitFacadeInv, StepFacadeInv, PTL DEF Spec

\* Every slot that trigger executes is the one its time belongs to, for every
\* schedule, zone and calendar: scheduled_for's search finds what the reference
\* says, and the definition a call started with is still the registered one.
THEOREM ExecutedSlotsAreRight == Spec => []SlotsAreRight
<1>1. FacadeInv => SlotsAreRight
  <2> SUFFICES ASSUME FacadeInv, NEW c \in Callers, calls[c] # Idle
               PROVE  SlotOf(calls[c].def, calls[c].t, calls[c].slot)
    BY DEF SlotsAreRight
  <2>1. /\ calls[c].def \in Definitions /\ calls[c].t \in Nat
        /\ calls[c].slot = ScheduledFor(calls[c].def, calls[c].t)
        /\ calls[c].slot # None
    BY BusyCall, CallsAssumption, NoneAssumption DEF FacadeInv, CallOK, Call
  <2> QED BY <2>1, ScheduledForRight
<1> QED BY <1>1, FacadeInvHolds, PTL

\* The counter of active runs is exact and max_concurrency is kept, for any
\* number of callers: each way out of trigger passes its finally clause.
THEOREM LimitsAreKept == Spec => []LimitKept
<1>1. FacadeInv => LimitKept
  BY DEF FacadeInv, LimitKept, CounterOK, TypeOK
<1> QED BY <1>1, FacadeInvHolds, PTL

\* A slot of a schedule with max_concurrency 1 succeeds once, however triggers
\* overlap with executors, sinks, pauses and cancellations.
THEOREM SlotsSucceedOnce == Spec => []OneSuccessPerSlot
<1>1. FacadeInv => OneSuccessPerSlot
  BY DEF FacadeInv, SuccessOK, EffectOK, OneSuccessPerSlot
<1> QED BY <1>1, FacadeInvHolds, PTL

\* After cancel(key) no attempt for the key begins: trigger and the loop of
\* attempts look at the cancelled keys in the step in which an attempt starts.
THEOREM CancellationsStop == Spec => CancelStops
<1> DEFINE Begins(c) == /\ calls'[c] # Idle
                        /\ calls[c] = Idle \/ calls'[c].attempts # calls[c].attempts
<1>1. ASSUME FacadeInv, [Next]_vars, NEW c \in Callers, Begins(c)
      PROVE  Key(calls'[c]) \notin cancelled
  <2> USE <1>1 DEF FacadeInv
  <2>1. ASSUME calls' = calls PROVE FALSE
    BY <2>1
  <2>2. ASSUME NEW b \in Callers, Leave(b) PROVE FALSE
    BY <2>2 DEF Leave, CallsOK
  <2>3. ASSUME NEW b \in Callers, NEW r, calls[b].pc = "executing",
               calls' = [calls EXCEPT ![b].pc = "sending", ![b].run = r]
        PROVE  FALSE
    <3>1. calls[b] # Idle
      BY <2>3 DEF Idle
    <3>2. calls[b] \in Call
      BY <3>1, BusyCall
    <3>3. b = c /\ calls'[c].attempts = calls[c].attempts
      BY <2>3, <3>2 DEF CallsOK, Call
    <3> QED BY <3>1, <3>3
  <2>4. ASSUME NEW b \in Callers, NEW status, NEW finding, calls[b].pc = "executing",
               Finish(b, status, finding)
        PROVE  FALSE
    BY <2>2, <2>3, <2>4 DEF Finish
  <2>5. ASSUME NEW b \in Callers, NEW id \in Ids, NEW t \in Times,
               NEW approved \in BOOLEAN, NEW finding \in BOOLEAN,
               Trigger(b, id, t, approved, finding)
        PROVE  Key(calls'[c]) \notin cancelled
    <3>1. PICK d \in Definitions : d = definitions[id] /\ d.id = id
      BY <2>5 DEF Trigger, TypeOK
    <3>2. /\ <<id, ScheduledFor(d, t)>> \notin cancelled
          /\ calls' = [calls EXCEPT ![b] =
                [pc |-> "executing", def |-> d, slot |-> ScheduledFor(d, t), t |-> t,
                 attempts |-> 1, finding |-> finding, run |-> None]]
      BY <2>1, <2>5, <3>1 DEF Trigger, TriggerRefused, TriggerSlot
    <3>3. b = c
      BY <3>2 DEF CallsOK
    <3> QED BY <3>1, <3>2, <3>3 DEF CallsOK, Key
  <2>6. ASSUME NEW b \in Callers, ExecutorRaises(b)
        PROVE  Key(calls'[c]) \notin cancelled
    <3>1. /\ Key(calls[b]) \notin cancelled /\ calls[b] \in Call
          /\ calls' = [calls EXCEPT ![b].attempts = @ + 1]
      BY <2>2, <2>4, <2>6, IdleNeverBusy, BusyCall DEF ExecutorRaises
    <3>2. b = c
      BY <3>1 DEF CallsOK
    <3>3. Key(calls'[c]) = Key(calls[c])
      BY <3>1, <3>2 DEF CallsOK, Call, Key
    <3> QED BY <3>1, <3>2, <3>3
  <2>7. ASSUME NEW b \in Callers, ExecutorReturns(b) PROVE FALSE
    BY <2>4, <2>7 DEF ExecutorReturns
  <2>8. ASSUME NEW b \in Callers, SendReturns(b) \/ SendRaises(b) PROVE FALSE
    BY <2>2, <2>8 DEF SendReturns, SendRaises
  <2>9. CASE UNCHANGED calls
    BY <2>1, <2>9
  <2> QED BY <2>5, <2>6, <2>7, <2>8, <2>9
          DEF Next, Register, Pause, Resume, CancelRun, vars
<1>2. ASSUME FacadeInv, [Next]_vars
      PROVE  [\A c \in Callers :
                (calls'[c] # Idle
                   /\ (calls[c] = Idle \/ calls'[c].attempts # calls[c].attempts))
                   => Key(calls'[c]) \notin cancelled]_vars
  BY <1>1, <1>2
<1> QED BY <1>2, FacadeInvHolds, PTL DEF Spec, CancelStops

=============================================================================
