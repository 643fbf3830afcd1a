--------------------------- MODULE ScheduleService ---------------------------
(***************************************************************************)
(* The distributed schedule service: producer replicas                     *)
(* (services/scheduler/main.py), continuous workers                        *)
(* (services/worker/main.py --queue-mode consume --continuous) with the    *)
(* Scheduler each holds in memory (packages/scheduler/schedule.py), and    *)
(* the Redis they share (RedisJobQueue).  A step is one Redis command or   *)
(* one local decision of one process.                                      *)
(*                                                                         *)
(* A process that gets an exception from Redis exits; whether the command  *)
(* was applied or not, that is Crash before or after the command's step.   *)
(* Docker restarts an exited process (restart: unless-stopped).            *)
(***************************************************************************)
EXTENDS RedisJobQueue

CONSTANTS
    Workers, Producers,
    WriteVersions,  \* versions whose permissions_mode is not "read_only"
    HasExpiry,      \* the definition has expires_at
    ExactTimes,     \* may a job's scheduled_at be the slot instant itself?
    RetryLimit,     \* retry_limit
    MaxManual,      \* jobs added with --queue-mode enqueue (a bound)
    MaxFaults,      \* process deaths and failed XADDs (a bound)
    MaxEffects      \* where the count of successful executions saturates

ASSUME DefinitionAssumption ==
    /\ WriteVersions \subseteq Versions
    /\ HasExpiry \in BOOLEAN
    /\ ExactTimes \subseteq BOOLEAN
    /\ RetryLimit \in Nat

ASSUME BudgetsAssumption ==
    /\ MaxManual \in Nat
    /\ MaxFaults \in Nat
    /\ MaxEffects \in Nat \ {0}

VARIABLES
    \* a worker
    pc,         \* where _consume_job, or the receive loop around it, stands
    job,        \* the entry being consumed; 0: none
    token,      \* the token of the claimed run; "none" otherwise
    age,        \* ticks since the claim, up to Lease
    attempts,   \* attempts made by Scheduler.trigger
    status,     \* status of the ScheduleRun, or "deduplicated"
    history,    \* Scheduler._history, restricted to slot keys
    version,    \* version of the definition loaded at start
    \* a producer
    ppc, pjob, pversion,
    \* the world outside
    due,        \* the slot scheduled_for(now) names; 0: none is due yet
    lapsed,     \* now >= expires_at
    deployed,   \* version of the definition on disk
    faults,
    \* observers, read by no process
    events,     \* <<what, slot>>: what has ever happened to a slot
    effects     \* successful executions of a slot

workerVars   == <<pc, job, token, age, attempts, status, history, version>>
producerVars == <<ppc, pjob, pversion>>
worldVars    == <<due, lapsed, deployed, faults>>
observers    == <<events, effects>>
vars == <<redisVars, workerVars, producerVars, worldVars, observers>>

Statuses == {"succeeded", "failed", "blocked", "expired", "skipped"}
PCs == {"receive", "read", "claim", "set", "trigger", "attempt", "complete",
        "ack", "exited"}
EventKinds ==
    {"completed",   \* complete_run succeeded
     "abandoned",   \* the claim holder exited without completing
     "overdue",     \* the claim holder outlived its lease
     "forgotten",   \* the "completed" key ran out of retention
     "orphaned",    \* a producer died between SET NX and XADD
     "reopened"}    \* the enqueue marker was deleted or ran out
NoJob == [slot |-> 0, late |-> FALSE, exact |-> FALSE, version |-> 1,
          source |-> "producer"]

WorkerTypeOK ==
    /\ pc \in [Workers -> PCs]
    /\ job \in [Workers -> 0..Len(stream)]
    /\ token \in [Workers -> Tokens \cup {"none"}]
    /\ age \in [Workers -> 0..Lease]
    /\ attempts \in [Workers -> 0..RetryLimit + 1]
    /\ status \in [Workers -> Statuses \cup {"none", "deduplicated"}]
    /\ history \in [Workers -> [Slots -> Statuses \cup {"none"}]]
    /\ version \in [Workers -> Versions]

ProducerTypeOK ==
    /\ ppc \in [Producers -> {"poll", "mark", "add", "undo"}]
    /\ pjob \in [Producers -> Job]
    /\ pversion \in [Producers -> Versions]

WorldTypeOK ==
    /\ due \in 0..NumSlots
    /\ lapsed \in BOOLEAN
    /\ deployed \in Versions
    /\ faults \in 0..MaxFaults

ObserverTypeOK ==
    /\ events \subseteq EventKinds \X Slots
    /\ effects \in [Slots -> 0..MaxEffects]

TypeOK ==
    RedisTypeOK /\ WorkerTypeOK /\ ProducerTypeOK /\ WorldTypeOK
                /\ ObserverTypeOK

NoHistory == [k \in Slots |-> "none"]

Init ==
    /\ RedisInit
    /\ pc = [w \in Workers |-> "receive"]
    /\ job = [w \in Workers |-> 0]
    /\ token = [w \in Workers |-> "none"]
    /\ age = [w \in Workers |-> 0]
    /\ attempts = [w \in Workers |-> 0]
    /\ status = [w \in Workers |-> "none"]
    /\ history = [w \in Workers |-> NoHistory]
    /\ version = [w \in Workers |-> 1]
    /\ ppc = [p \in Producers |-> "poll"]
    /\ pjob = [p \in Producers |-> NoJob]
    /\ pversion = [p \in Producers |-> 1]
    /\ due = 0
    /\ lapsed = FALSE
    /\ deployed = 1
    /\ faults = 0
    /\ events = {}
    /\ effects = [k \in Slots |-> 0]

Happened(what, k) == <<what, k>> \in events

\* The slot a worker's job is for; 0 when it has none.
SlotOf(w) == IF job[w] = 0 THEN 0 ELSE stream[job[w]].slot

\* w executes slot k under a claim.
Holds(w, k) ==
    /\ pc[w] \in {"trigger", "attempt", "complete"}
    /\ token[w] # "none"
    /\ SlotOf(w) = k

\* ... and its lease has not run out.
HoldsLive(w, k) == Holds(w, k) /\ age[w] < Lease

\* Exact times of a job: they matter only where trigger records something
\* else than an execution, so that other jobs come in one form.
Exactness(late, v) ==
    IF late \/ v \in WriteVersions THEN ExactTimes ELSE {FALSE}

Fault == faults < MaxFaults /\ faults' = faults + 1

-----------------------------------------------------------------------------
(* Producer: enqueue_due and enqueue_once *)

\* now is read: the slot, expiry and exactness of the payload follow from it.
PollDue(p) ==
    /\ ppc[p] = "poll"
    /\ due > 0
    /\ \E x \in Exactness(lapsed, pversion[p]) :
          pjob' = [pjob EXCEPT ![p] =
                      [slot |-> due, late |-> lapsed, exact |-> x,
                       version |-> pversion[p], source |-> "producer"]]
    /\ ppc' = [ppc EXCEPT ![p] = "mark"]
    /\ UNCHANGED <<redisVars, workerVars, pversion, worldVars, observers>>

ProducerTo(p, where) ==
    /\ ppc' = [ppc EXCEPT ![p] = where]
    /\ pjob' = [pjob EXCEPT ![p] = IF where = "poll" THEN NoJob ELSE @]
    /\ UNCHANGED pversion

MarkSlot(p) ==
    /\ ppc[p] = "mark"
    /\ \/ SetEnqueueMarker(pjob[p].slot) /\ ProducerTo(p, "add")
       \/ EnqueueMarkerExists(pjob[p].slot) /\ ProducerTo(p, "poll")
    /\ UNCHANGED <<workerVars, worldVars, observers>>

EnqueueJob(p) ==
    /\ ppc[p] = "add"
    /\ XAdd(pjob[p])
    /\ ProducerTo(p, "poll")
    /\ UNCHANGED <<workerVars, worldVars, observers>>

\* XADD raises: it was not applied, or it was and its reply was lost.
EnqueueFails(p) ==
    /\ ppc[p] = "add"
    /\ Fault
    /\ XAdd(pjob[p]) \/ UNCHANGED redisVars
    /\ ProducerTo(p, "undo")
    /\ UNCHANGED <<workerVars, due, lapsed, deployed, observers>>

\* The except branch deletes the marker and re-raises: the process exits,
\* and is restarted with the definition then deployed.
UndoMark(p) ==
    /\ ppc[p] = "undo"
    /\ DeleteMarker(pjob[p].slot)
    /\ events' = events \cup {<<"reopened", pjob[p].slot>>}
    /\ ppc' = [ppc EXCEPT ![p] = "poll"]
    /\ pjob' = [pjob EXCEPT ![p] = NoJob]
    /\ pversion' = [pversion EXCEPT ![p] = deployed]
    /\ UNCHANGED <<workerVars, worldVars, effects>>

ProducerCrash(p) ==
    /\ Fault
    /\ events' = events \cup IF ppc[p] \in {"add", "undo"}
                            THEN {<<"orphaned", pjob[p].slot>>} ELSE {}
    /\ ppc' = [ppc EXCEPT ![p] = "poll"]
    /\ pjob' = [pjob EXCEPT ![p] = NoJob]
    /\ pversion' = [pversion EXCEPT ![p] = deployed]
    /\ UNCHANGED <<redisVars, workerVars, due, lapsed, deployed, effects>>

ManualJobs == {e \in 1..Len(stream) : stream[e].source = "manual"}

\* worker --queue-mode enqueue --at T: a plain enqueue, with no marker.
ManualEnqueue ==
    /\ Cardinality(ManualJobs) < MaxManual
    /\ \E k \in 0..NumSlots, l \in {FALSE, HasExpiry} : \E x \in Exactness(l, deployed) :
          XAdd([slot |-> k, late |-> l, exact |-> x,
                version |-> deployed, source |-> "manual"])
    /\ UNCHANGED <<workerVars, producerVars, worldVars, observers>>

-----------------------------------------------------------------------------
(* Worker: receive, _consume_job and Scheduler.trigger *)

\* The worker's process ends: its job, claim and history are gone.
Exit(w) ==
    /\ pc' = [pc EXCEPT ![w] = "exited"]
    /\ job' = [job EXCEPT ![w] = 0]
    /\ token' = [token EXCEPT ![w] = "none"]
    /\ age' = [age EXCEPT ![w] = 0]
    /\ attempts' = [attempts EXCEPT ![w] = 0]
    /\ status' = [status EXCEPT ![w] = "none"]
    /\ history' = [history EXCEPT ![w] = NoHistory]
    /\ UNCHANGED version

\* The slots whose claim is lost when w's process ends now.
Abandons(w) == {<<"abandoned", k>> : k \in {s \in Slots : Holds(w, s)}}

\* Faulty variant of Consume: the payload is not validated.
ConsumeUnvalidated(w, e) ==
    /\ pc' = [pc EXCEPT ![w] = IF stream[e].slot = 0 THEN "trigger" ELSE "claim"]
    /\ job' = [job EXCEPT ![w] = e]
    /\ UNCHANGED <<token, age, attempts, status, history, version>>

\* Entry e was received: validate_schedule_job_payload raises on another
\* version; a job for no slot goes to trigger without a claim.
Consume(w, e) ==
    IF stream[e].version # version[w]
    THEN Exit(w)
    ELSE /\ pc' = [pc EXCEPT ![w] = IF stream[e].slot = 0 THEN "trigger"
                                                          ELSE "claim"]
         /\ job' = [job EXCEPT ![w] = e]
         /\ UNCHANGED <<token, age, attempts, status, history, version>>

WorkerTo(w, where) ==
    /\ pc' = [pc EXCEPT ![w] = where]
    /\ UNCHANGED <<job, token, age, attempts, status, history, version>>

\* _claim_abandoned, the first command of receive.
ClaimAbandoned(w) ==
    /\ pc[w] = "receive"
    /\ \/ \E e \in Claimable : XAutoClaim(e) /\ Consume(w, e)
       \/ Claimable = {} /\ WorkerTo(w, "read") /\ UNCHANGED redisVars
    /\ UNCHANGED <<producerVars, worldVars, observers>>

\* The second: XREADGROUP, which may time out and return nothing.
ReadGroup(w) ==
    /\ pc[w] = "read"
    /\ \/ XReadGroup(delivered + 1) /\ Consume(w, delivered + 1)
       \/ /\ delivered = Len(stream)
          /\ WorkerTo(w, "receive")
          /\ UNCHANGED redisVars
    /\ UNCHANGED <<producerVars, worldVars, observers>>

\* Not claimed: the job is acknowledged as a duplicate.
Deduplicate(w) ==
    /\ pc' = [pc EXCEPT ![w] = "ack"]
    /\ status' = [status EXCEPT ![w] = "deduplicated"]
    /\ UNCHANGED <<job, token, age, attempts, history, version>>

\* claim_run: GET of the run key.
ClaimRunGet(w) ==
    /\ pc[w] = "claim"
    /\ IF run[SlotOf(w)] = "none" THEN WorkerTo(w, "set") ELSE Deduplicate(w)
    /\ UNCHANGED <<redisVars, producerVars, worldVars, observers>>

UsedTokens == {run[k] : k \in Slots} \cup {token[w] : w \in Workers}

\* claim_run: SET NX.  When another worker was faster, the second GET tells
\* completed from in_progress, which _consume_job treats alike.
ClaimRunSet(w) ==
    /\ pc[w] = "set"
    /\ \/ \E t \in Tokens \ UsedTokens :
             /\ SetRunClaim(SlotOf(w), t)
             /\ token' = [token EXCEPT ![w] = t]
             /\ pc' = [pc EXCEPT ![w] = "trigger"]
             /\ UNCHANGED <<job, age, attempts, status, history, version>>
       \/ run[SlotOf(w)] # "none" /\ Deduplicate(w) /\ UNCHANGED redisVars
    /\ UNCHANGED <<producerVars, worldVars, observers>>

ReadOnly(j) == j.version \notin WriteVersions

\* trigger records a run under the slot key, except that blocked, expired
\* and not-due runs are recorded under the key of scheduled_at.
RecordedUnderSlot(j) == (ReadOnly(j) /\ ~j.late) \/ j.exact

\* _record, and the return to _consume_job.
Record(w, st) ==
    /\ status' = [status EXCEPT ![w] = st]
    /\ history' = [history EXCEPT ![w] =
          [k \in Slots |->
              IF k = SlotOf(w) /\ RecordedUnderSlot(stream[job[w]])
              THEN st ELSE @[k]]]
    /\ pc' = [pc EXCEPT ![w] = IF token[w] = "none" THEN "ack" ELSE "complete"]
    /\ UNCHANGED <<job, token, age, version>>

\* Scheduler.trigger up to the attempt loop, with scheduled_at as now.  A
\* worker's Scheduler is never paused or cancelled and runs one job at a time.
Trigger(w) ==
    LET j == stream[job[w]]
        open == ReadOnly(j) /\ ~j.late
    IN
    /\ pc[w] = "trigger"
    /\ \/ ~ReadOnly(j) /\ Record(w, "blocked") /\ UNCHANGED attempts
       \/ ReadOnly(j) /\ j.late /\ Record(w, "expired") /\ UNCHANGED attempts
       \/ open /\ j.slot = 0 /\ Record(w, "skipped") /\ UNCHANGED attempts
       \/ /\ open /\ j.slot # 0 /\ history[w][j.slot] # "none"
          /\ Record(w, history[w][j.slot]) /\ UNCHANGED attempts
       \/ /\ open /\ j.slot # 0 /\ history[w][j.slot] = "none"
          /\ WorkerTo(w, "attempt")
    /\ UNCHANGED <<redisVars, producerVars, worldVars, observers>>

AttemptSucceeds(w) ==
    /\ pc[w] = "attempt"
    /\ attempts' = [attempts EXCEPT ![w] = @ + 1]
    /\ Record(w, "succeeded")
    /\ effects' = [effects EXCEPT ![SlotOf(w)] =
                      IF @ < MaxEffects THEN @ + 1 ELSE @]
    /\ UNCHANGED <<redisVars, producerVars, worldVars, events>>

AttemptFails(w) ==
    /\ pc[w] = "attempt"
    /\ attempts' = [attempts EXCEPT ![w] = @ + 1]
    /\ IF attempts[w] + 1 > RetryLimit
       THEN Record(w, "failed")
       ELSE UNCHANGED <<pc, job, token, age, status, history, version>>
    /\ UNCHANGED <<redisVars, producerVars, worldVars, observers>>

\* complete_run(run.idempotency_key, token): the script returns 1.
CompleteRun(w) ==
    /\ pc[w] = "complete"
    /\ RecordedUnderSlot(stream[job[w]])
    /\ SetRunCompleted(SlotOf(w), token[w])
    /\ events' = events \cup {<<"completed", SlotOf(w)>>}
    /\ pc' = [pc EXCEPT ![w] = "ack"]
    /\ token' = [token EXCEPT ![w] = "none"]
    /\ age' = [age EXCEPT ![w] = 0]
    /\ UNCHANGED <<job, attempts, status, history, version>>
    /\ UNCHANGED <<producerVars, worldVars, effects>>

\* It returns 0: "Redis run claim was lost before completion".
CompleteRunLost(w) ==
    /\ pc[w] = "complete"
    /\ ~RecordedUnderSlot(stream[job[w]]) \/ run[SlotOf(w)] # token[w]
    /\ events' = events \cup Abandons(w)
    /\ Exit(w)
    /\ UNCHANGED <<redisVars, producerVars, worldVars, effects>>

\* ack, and the result of _consume_job: 1 ends the process.
Ack(w) ==
    /\ pc[w] = "ack"
    /\ XAck(job[w])
    /\ IF status[w] \in {"failed", "blocked"}
       THEN Exit(w)
       ELSE /\ pc' = [pc EXCEPT ![w] = "receive"]
            /\ job' = [job EXCEPT ![w] = 0]
            /\ attempts' = [attempts EXCEPT ![w] = 0]
            /\ status' = [status EXCEPT ![w] = "none"]
            /\ UNCHANGED <<token, age, history, version>>
    /\ UNCHANGED <<producerVars, worldVars, observers>>

\* The process is killed, stopped, or gets an exception from Redis.
Crash(w) ==
    /\ pc[w] # "exited"
    /\ Fault
    /\ events' = events \cup Abandons(w)
    /\ Exit(w)
    /\ UNCHANGED <<redisVars, producerVars, due, lapsed, deployed, effects>>

Restart(w) ==
    /\ pc[w] = "exited"
    /\ pc' = [pc EXCEPT ![w] = "receive"]
    /\ version' = [version EXCEPT ![w] = deployed]
    /\ UNCHANGED <<job, token, age, attempts, status, history>>
    /\ UNCHANGED <<redisVars, producerVars, worldVars, observers>>

-----------------------------------------------------------------------------
(* The world outside *)

SlotBecomesDue ==
    /\ due < NumSlots
    /\ due' = due + 1
    /\ UNCHANGED <<redisVars, workerVars, producerVars, lapsed, deployed,
                   faults, observers>>

ScheduleExpires ==
    /\ HasExpiry /\ ~lapsed
    /\ lapsed' = TRUE
    /\ UNCHANGED <<redisVars, workerVars, producerVars, due, deployed,
                   faults, observers>>

Deploy ==
    /\ deployed < MaxVersion
    /\ deployed' = deployed + 1
    /\ UNCHANGED <<redisVars, workerVars, producerVars, due, lapsed, faults,
                   observers>>

\* Time passes.  No timeout bounds a run, so a holder may outlive its lease.
Tick ==
    /\ RedisTick
    /\ age' = [w \in Workers |->
                  IF (\E k \in Slots : Holds(w, k)) /\ age[w] < Lease
                  THEN age[w] + 1 ELSE age[w]]
    /\ events' = events
          \cup {<<"overdue", k>> : k \in {s \in Slots :
                  \E w \in Workers : Holds(w, s) /\ age[w] = Lease - 1}}
          \cup {<<"forgotten", k>> : k \in {s \in Slots :
                  run[s] = "completed" /\ runTtl[s] = 1}}
          \cup {<<"reopened", k>> : k \in {s \in Slots : enqTtl[s] = 1}}
    /\ UNCHANGED <<pc, job, token, attempts, status, history, version>>
    /\ UNCHANGED <<producerVars, worldVars, effects>>

-----------------------------------------------------------------------------
ProducerStep(p) ==
    \/ PollDue(p) \/ MarkSlot(p) \/ EnqueueJob(p)
    \/ EnqueueFails(p) \/ UndoMark(p) \/ ProducerCrash(p)

WorkerStep(w) ==
    \/ ClaimAbandoned(w) \/ ReadGroup(w)
    \/ ClaimRunGet(w) \/ ClaimRunSet(w)
    \/ Trigger(w) \/ AttemptSucceeds(w) \/ AttemptFails(w)
    \/ CompleteRun(w) \/ CompleteRunLost(w) \/ Ack(w)
    \/ Restart(w)

ProcessStep ==
    \/ \E p \in Producers : ProducerStep(p)
    \/ ManualEnqueue
    \/ \E w \in Workers : WorkerStep(w) \/ Crash(w)
    \/ SlotBecomesDue \/ ScheduleExpires \/ Deploy

Next == ProcessStep \/ Tick

Spec == Init /\ [][Next]_vars

(***************************************************************************)
(* The deployment the lease is sized for: a claimed run ends before its    *)
(* lease (max_runtime_seconds + 30) does.  Nothing in the code enforces    *)
(* it, so only the properties that need it are checked under it.  Workers  *)
(* keep taking steps, Docker restarts them, and time passes.               *)
(***************************************************************************)
TimelyTick ==
    /\ \A w \in Workers : (\E k \in Slots : Holds(w, k)) => age[w] < Lease - 1
    /\ Tick

TimelyNext == ProcessStep \/ TimelyTick

TimelySpec ==
    /\ Init /\ [][TimelyNext]_vars
    /\ WF_vars(TimelyTick)
    /\ \A w \in Workers : WF_vars(WorkerStep(w))
=============================================================================
