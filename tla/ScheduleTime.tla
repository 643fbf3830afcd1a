----------------------------- MODULE ScheduleTime -----------------------------
(***************************************************************************)
(* packages/scheduler/schedule.py: which slot a moment belongs to          *)
(* (ScheduleDefinition.scheduled_for) and which minutes a cron expression  *)
(* matches (CronExpression).                                               *)
(*                                                                         *)
(* Time is counted in ticks of UTC.  A zone has one change of its clock:   *)
(* wall time is UTC plus "before", and from "change" on plus "after".      *)
(***************************************************************************)
EXTENDS Integers, Sequences, FiniteSetsExt

CONSTANTS
    Minute,         \* ticks of a minute
    Horizon,        \* minutes that are searched for a match
    Limits,         \* first and last value of each cron field
    Fields(_),      \* the values of the fields at a wall-clock minute
    None

ASSUME TimeAssumption ==
    /\ Minute \in Nat \ {0}
    /\ Horizon \in Nat

Wall(zone, t) == t + IF t < zone.change THEN zone.before ELSE zone.after

\* The instant of a wall-clock time with fold = 0: the first of two, and for
\* a time that is skipped the offset from before the change.
ToUtc(zone, w) ==
    w - IF w < zone.change + Max({zone.before, zone.after})
        THEN zone.before
        ELSE zone.after

\* t shows a wall-clock time that has been shown before.
Repeated(zone, t) ==
    zone.change <= t /\ t < zone.change + zone.before - zone.after

\* w is a wall-clock time that no clock shows.
Skipped(zone, w) ==
    zone.change + zone.before <= w /\ w < zone.change + zone.after

-----------------------------------------------------------------------------
(* CronExpression: a field is a set of items, [from, to, step] or a star *)

Bounds(item, limits) ==
    IF item.from = None THEN limits ELSE <<item.from, item.to>>

FieldValid(field, limits) ==
    /\ field # {}
    /\ \A item \in field :
          LET b == Bounds(item, limits)
          IN  item.step > 0 /\ limits[1] <= b[1] /\ b[1] <= b[2] /\ b[2] <= limits[2]

CronValid(expr) ==
    /\ Len(expr) = Len(Limits)
    /\ \A i \in DOMAIN expr : FieldValid(expr[i], Limits[i])

ParseField(field, limits) ==
    {v \in limits[1]..limits[2] : \E item \in field :
        LET b == Bounds(item, limits)
        IN  b[1] <= v /\ v <= b[2] /\ (v - b[1]) % item.step = 0}

Matches(expr, w) ==
    \A i \in DOMAIN expr : Fields(w)[i] \in ParseField(expr[i], Limits[i])

-----------------------------------------------------------------------------
(* scheduled_for *)

\* A time without an offset is compared with the wall clock.
OneShotSlot(d, t) ==
    IF d.naive
    THEN IF d.at <= Wall(d.zone, t) THEN ToUtc(d.zone, d.at) ELSE None
    ELSE IF d.at <= t THEN d.at ELSE None

IntervalSlot(d, t) == t - (t % d.seconds)

\* Faulty variant of FirstCursor: the current minute, also when it has begun.
FirstCursorBegun(w) == w - (w % Minute)

\* The search begins at the next full minute.
FirstCursor(w) == w + ((-w) % Minute)

\* The search counts wall-clock minutes; only its first one can have fold = 1.
CronSlot(d, t) ==
    LET first == FirstCursor(Wall(d.zone, t))
        hits == {k \in 0..Horizon - 1 : Matches(d.expr, first + k * Minute)}
    IN  CASE hits = {} -> None
          [] hits # {} /\ Min(hits) = 0 /\ first = Wall(d.zone, t) -> t
          [] OTHER -> ToUtc(d.zone, first + Min(hits) * Minute)

ScheduledFor(d, t) ==
    CASE d.kind = "one_shot" -> OneShotSlot(d, t)
      [] d.kind = "interval" -> IntervalSlot(d, t)
      [] d.kind = "cron" -> CronSlot(d, t)

-----------------------------------------------------------------------------
(* What a slot should be, said without the search *)

\* A cron expression asks for the instant u.
Occurs(d, u) ==
    Wall(d.zone, u) % Minute = 0 /\ Matches(d.expr, Wall(d.zone, u))

\* slot is what becomes of a time that the expression asks for and no clock shows.
Displaced(d, slot) ==
    LET w == slot + d.zone.before IN Skipped(d.zone, w) /\ Matches(d.expr, w)

\* The slot of t.  An interval's slot is the last multiple before t.  A
\* one-shot slot is past, unless its wall-clock time is skipped.  A cron slot is
\* to come and no occurrence lies before it, except those of the second time
\* the clock shows an hour, and those of the time after a change when the slot
\* itself is displaced by it; in an hour that is shown twice it may be the same
\* minute of the first time.
SlotOf(d, t, slot) ==
    /\ d.kind = "interval" =>
          slot % d.seconds = 0 /\ slot <= t /\ t < slot + d.seconds
    /\ d.kind = "one_shot" =>
          /\ slot <= t \/ (d.naive /\ Skipped(d.zone, d.at))
          /\ ~d.naive => slot = d.at
    /\ d.kind = "cron" =>
          /\ slot < t => Repeated(d.zone, t)
          /\ \A u \in t..slot - 1 : Occurs(d, u) =>
                \/ Repeated(d.zone, u)
                \/ Displaced(d, slot) /\ d.zone.change <= u
          /\ Occurs(d, slot) \/ Displaced(d, slot)
=============================================================================
