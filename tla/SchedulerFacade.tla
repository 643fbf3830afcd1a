--------------------------- MODULE SchedulerFacade ---------------------------
(***************************************************************************)
(* packages/scheduler/schedule.py, class Scheduler: one object in a        *)
(* process, with the schedules it knows, the history of their slots, and   *)
(* the callers of trigger.                                                 *)
(*                                                                         *)
(* trigger leaves the object only to call the executor and the notifier.   *)
(* Other callers come in there: another thread, or the executor itself.  A *)
(* step is the code from one such call to the next.                        *)
(***************************************************************************)
EXTENDS ScheduleTime, Functions, FiniteSets

CONSTANTS
    Definitions,    \* what may be registered
    Times,          \* the "now" that triggers are called with
    Callers,
    MaxCalls,       \* triggers (a bound)
    MaxCancels      \* cancelled keys (a bound)

ASSUME CallsAssumption ==
    Times \subseteq Nat /\ MaxCalls \in Nat /\ MaxCancels \in Nat

\* What validate_schedule and register ask of a definition: numbers are
\* numbers and an interval is positive.  scheduled_for raises on another kind.
ASSUME DefinitionsAssumption ==
    \A d \in Definitions :
        /\ d.kind \in {"one_shot", "interval", "cron"}
        /\ d.limit \in Int /\ d.retries \in Int
        /\ d.kind = "one_shot" => d.at \in Int
        /\ d.kind = "interval" => d.seconds \in Nat \ {0}
        /\ d.zone \in [change : Int, before : Int, after : Int]

\* A version names one definition.  register relies on it: it compares the
\* versions only, and replaces what it has.
ASSUME VersionsAssumption ==
    \A d, e \in Definitions : d.id = e.id /\ d.version = e.version => d = e

ASSUME CallersAssumption == IsFiniteSet(Callers)

ASSUME NoneAssumption == None \notin Int

Ids == {d.id : d \in Definitions}
Conditions == {"always", "finding_or_failure", "failure"}
Statuses == {"succeeded", "failed", "skipped", "paused", "expired", "blocked",
             "cancelled"}

VARIABLES
    definitions,    \* _definitions: id -> definition
    history,        \* _history: <<id, instant>> -> run
    paused,
    cancelled,      \* keys
    active,         \* _active: id -> runs at work
    calls,          \* what each caller is doing
    triggers,       \* calls of trigger so far
    \* observer
    effects         \* executions that succeeded, per key

schedulerVars == <<definitions, history, paused, cancelled, active>>
vars == <<schedulerVars, calls, triggers, effects>>

Idle == [pc |-> "idle"]

\* f with the value v at k, as an assignment to an element of a dictionary.
With(f, k, v) == [x \in DOMAIN f \cup {k} |-> IF x = k THEN v ELSE f[x]]

Count(f, k) == IF k \in DOMAIN f THEN f[k] ELSE 0

Key(call) == <<call.def.id, call.slot>>

TypeOK ==
    /\ DOMAIN definitions \subseteq Ids
    /\ \A id \in DOMAIN definitions : definitions[id] \in {d \in Definitions : d.id = id}
    /\ DOMAIN history \subseteq Ids \X Int
    /\ \A k \in DOMAIN history :
          history[k] \in [status : Statuses, attempts : Nat,
                          notified : {"no", "sent", "error"}]
    /\ paused \subseteq Ids
    /\ cancelled \subseteq Ids \X Int
    /\ DOMAIN active \subseteq Ids
    /\ \A id \in DOMAIN active : active[id] > 0
    /\ \A c \in Callers :
          /\ calls[c].pc \in {"idle", "executing", "sending"}
          /\ calls[c] # Idle => calls[c].attempts \in 1..calls[c].def.retries + 1
    /\ triggers \in 0..MaxCalls

Init ==
    /\ definitions = <<>>
    /\ history = <<>>
    /\ paused = {}
    /\ cancelled = {}
    /\ active = <<>>
    /\ calls = [c \in Callers |-> Idle]
    /\ triggers = 0
    /\ effects = <<>>

-----------------------------------------------------------------------------
(* register, pause, resume, cancel *)

Register(d) ==
    /\ d.id \in DOMAIN definitions => definitions[d.id].version = d.version
    /\ d.limit > 0 /\ d.retries >= 0
    /\ d.only_if \in Conditions
    /\ d.kind = "cron" => CronValid(d.expr)
    /\ definitions' = With(definitions, d.id, d)
    /\ UNCHANGED <<history, paused, cancelled, active, calls, triggers, effects>>

Pause(id) ==
    /\ id \in DOMAIN definitions
    /\ paused' = paused \cup {id}
    /\ UNCHANGED <<definitions, history, cancelled, active, calls, triggers, effects>>

Resume(id) ==
    /\ id \in DOMAIN definitions
    /\ paused' = paused \ {id}
    /\ UNCHANGED <<definitions, history, cancelled, active, calls, triggers, effects>>

CancelRun(k) ==
    /\ Cardinality(cancelled) < MaxCancels
    /\ cancelled' = cancelled \cup {k}
    /\ UNCHANGED <<definitions, history, paused, active, calls, triggers, effects>>

-----------------------------------------------------------------------------
(* trigger *)

Run(status, attempts) == [status |-> status, attempts |-> attempts, notified |-> "no"]

RecordRun(id, instant, run) == history' = With(history, <<id, instant>>, run)

\* Why a call ends before it looks its slot up in the history.  Such a run is
\* recorded under the moment of the call.  For a cron expression that no minute
\* up to the horizon satisfies scheduled_for raises instead.
Refusals(d, t, approved) ==
    IF d.id \in paused THEN {"paused"}
    ELSE IF d.write /\ ~approved THEN {"blocked"}
    ELSE IF d.expires # None /\ t >= d.expires THEN {"expired"}
    ELSE IF d.kind # "cron" /\ ScheduledFor(d, t) = None THEN {"skipped"} ELSE {}

TriggerRefused(c, id, t, approved) ==
    /\ \E status \in Refusals(definitions[id], t, approved) :
          RecordRun(id, t, Run(status, 0))
    /\ UNCHANGED <<active, calls>>

\* Faulty variant of Answered: the history is not looked at.
AnsweredNever(k) == FALSE

\* history answers for the slot.
Answered(k) == k \in DOMAIN history

\* Faulty variant of Full: the limit is exceeded by one.
FullOffByOne(d) == Count(active, d.id) > d.limit

Full(d) == Count(active, d.id) >= d.limit

\* The slot is looked up; if it is new it is executed, cancelled or skipped.
TriggerSlot(c, id, t, approved, finding) ==
    LET d == definitions[id]
        slot == ScheduledFor(d, t)
    IN  /\ Refusals(d, t, approved) = {}
        /\ slot # None
        /\ \/ /\ Answered(<<id, slot>>)
              /\ UNCHANGED <<history, active, calls>>
           \/ /\ ~Answered(<<id, slot>>)
              /\ <<id, slot>> \in cancelled
              /\ RecordRun(id, slot, Run("cancelled", 0))
              /\ UNCHANGED <<active, calls>>
           \/ /\ ~Answered(<<id, slot>>)
              /\ <<id, slot>> \notin cancelled
              /\ Full(d)
              /\ RecordRun(id, slot, Run("skipped", 0))
              /\ UNCHANGED <<active, calls>>
           \/ /\ ~Answered(<<id, slot>>)
              /\ <<id, slot>> \notin cancelled
              /\ ~Full(d)
              /\ active' = With(active, id, Count(active, id) + 1)
              /\ calls' = [calls EXCEPT ![c] =
                    [pc |-> "executing", def |-> d, slot |-> slot, t |-> t,
                     attempts |-> 1, finding |-> finding, run |-> None]]
              /\ UNCHANGED history

Trigger(c, id, t, approved, finding) ==
    /\ calls[c] = Idle
    /\ triggers < MaxCalls
    /\ id \in DOMAIN definitions
    /\ \/ TriggerRefused(c, id, t, approved)
       \/ TriggerSlot(c, id, t, approved, finding)
    /\ triggers' = triggers + 1
    /\ UNCHANGED <<definitions, paused, cancelled, effects>>

\* The finally clause.
Leave(c) ==
    LET id == calls[c].def.id
    IN  /\ active' = IF active[id] = 1 THEN Restrict(active, DOMAIN active \ {id})
                     ELSE [active EXCEPT ![id] = @ - 1]
        /\ calls' = [calls EXCEPT ![c] = Idle]

Notifies(d, status, finding) ==
    /\ d.channel
    /\ \/ d.only_if = "always"
       \/ d.only_if = "finding_or_failure" /\ (finding \/ status = "failed")
       \/ d.only_if = "failure" /\ status = "failed"

\* _record, and _notify up to the call of the sink.
Finish(c, status, finding) ==
    LET call == calls[c]
        run == Run(status, call.attempts)
    IN  /\ RecordRun(call.def.id, call.slot, run)
        /\ IF Notifies(call.def, status, finding)
           THEN /\ calls' = [calls EXCEPT ![c].pc = "sending", ![c].run = run]
                /\ UNCHANGED active
           ELSE Leave(c)

ExecutorReturns(c) ==
    /\ calls[c].pc = "executing"
    /\ effects' = With(effects, Key(calls[c]), Count(effects, Key(calls[c])) + 1)
    /\ Finish(c, "succeeded", calls[c].finding)
    /\ UNCHANGED <<definitions, paused, cancelled, triggers>>

\* Faulty variant of ExecutorRaises: retries go on after a cancellation.
ExecutorRaisesUncancelled(c) ==
    /\ calls[c].pc = "executing"
    /\ IF calls[c].attempts > calls[c].def.retries THEN Finish(c, "failed", FALSE)
       ELSE /\ calls' = [calls EXCEPT ![c].attempts = @ + 1]
            /\ UNCHANGED <<history, active>>
    /\ UNCHANGED <<definitions, paused, cancelled, triggers, effects>>

\* The next attempt, after a look at the cancellations.
ExecutorRaises(c) ==
    /\ calls[c].pc = "executing"
    /\ \/ /\ calls[c].attempts > calls[c].def.retries
          /\ Finish(c, "failed", FALSE)
       \/ /\ calls[c].attempts <= calls[c].def.retries
          /\ Key(calls[c]) \in cancelled
          /\ RecordRun(calls[c].def.id, calls[c].slot, Run("cancelled", calls[c].attempts))
          /\ Leave(c)
       \/ /\ calls[c].attempts <= calls[c].def.retries
          /\ Key(calls[c]) \notin cancelled
          /\ calls' = [calls EXCEPT ![c].attempts = @ + 1]
          /\ UNCHANGED <<history, active>>
    /\ UNCHANGED <<definitions, paused, cancelled, triggers, effects>>

\* The sink returns or raises, and the run is stored again with the outcome.
SendReturns(c) ==
    /\ calls[c].pc = "sending"
    /\ RecordRun(calls[c].def.id, calls[c].slot, [calls[c].run EXCEPT !.notified = "sent"])
    /\ Leave(c)
    /\ UNCHANGED <<definitions, paused, cancelled, triggers, effects>>

SendRaises(c) ==
    /\ calls[c].pc = "sending"
    /\ RecordRun(calls[c].def.id, calls[c].slot, [calls[c].run EXCEPT !.notified = "error"])
    /\ Leave(c)
    /\ UNCHANGED <<definitions, paused, cancelled, triggers, effects>>

-----------------------------------------------------------------------------
Next ==
    \/ \E d \in Definitions : Register(d)
    \/ \E id \in Ids : Pause(id) \/ Resume(id)
    \/ \E k \in Ids \X Times : CancelRun(k)
    \/ \E c \in Callers, id \in Ids, t \in Times, approved, finding \in BOOLEAN :
          Trigger(c, id, t, approved, finding)
    \/ \E c \in Callers :
          ExecutorReturns(c) \/ ExecutorRaises(c) \/ SendReturns(c) \/ SendRaises(c)

Spec == Init /\ [][Next]_vars

-----------------------------------------------------------------------------
(* Properties *)

AtWork(id) == {c \in Callers : calls[c] # Idle /\ calls[c].def.id = id}

\* Every slot that is executed is the one its trigger time belongs to.
SlotsAreRight ==
    \A c \in Callers : calls[c] # Idle =>
        SlotOf(calls[c].def, calls[c].t, calls[c].slot)

\* The counter of active runs is exact, whatever way the runs ended, and
\* max_concurrency is kept, in states that are well typed.
LimitKept ==
    /\ TypeOK
    /\ \A id \in DOMAIN definitions :
          /\ Count(active, id) = Cardinality(AtWork(id))
          /\ Count(active, id) <= definitions[id].limit

\* A slot of a schedule with max_concurrency 1 is executed successfully once,
\* however often it is triggered and whatever happens meanwhile, and its
\* success stays in the history, unless a later trigger at the very instant of
\* the slot is refused at its entry: that is recorded under the same key.
OneSuccessPerSlot ==
    \A k \in DOMAIN effects :
        /\ k \in DOMAIN history
        /\ definitions[k[1]].limit = 1 =>
              /\ effects[k] = 1
              /\ history[k].status \in {"succeeded", "paused", "blocked", "expired"}

\* After cancel(key) no attempt for the key begins.
CancelStops ==
    [][\A c \in Callers :
          (calls'[c] # Idle /\ (calls[c] = Idle \/ calls'[c].attempts # calls[c].attempts))
             => Key(calls'[c]) \notin cancelled]_vars
=============================================================================
