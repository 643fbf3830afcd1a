------------------------- MODULE ScheduleCorrectness -------------------------
(***************************************************************************)
(* What the distributed schedule service has to get right.                 *)
(***************************************************************************)
EXTENDS ScheduleService

(***************************************************************************)
(* Two workers execute one slot at the same time only if the lease of one  *)
(* of them has run out: claim_run (GET, then SET NX EX) is a mutual        *)
(* exclusion lock for as long as the lease lasts, in spite of reclaimed    *)
(* and duplicated jobs, crashes and restarts.                              *)
(***************************************************************************)
LeaseRespected ==
    \A v, w \in Workers, k \in Slots :
        v # w /\ Holds(v, k) /\ Holds(w, k) => age[v] = Lease \/ age[w] = Lease

(***************************************************************************)
(* Every acknowledged job is accounted for: its slot was completed, is     *)
(* being executed, or its claim holder died.  _consume_job acknowledges    *)
(* without executing when claim_run answers in_progress or completed; this *)
(* says a worker really stood behind that answer.                          *)
(***************************************************************************)
Covered(k) ==
    \/ Happened("completed", k)
    \/ Happened("abandoned", k)
    \/ \E w \in Workers : Holds(w, k)

AckedIsCovered ==
    \A e \in Acked : stream[e].slot # 0 => Covered(stream[e].slot)

(***************************************************************************)
(* A slot whose enqueue marker exists has a job in the stream, or a        *)
(* producer that is still between enqueue_once's SET NX and its XADD or    *)
(* DEL, or lost its producer there.                                        *)
(***************************************************************************)
Queued(k) ==
    \E e \in 1..Len(stream) : stream[e].slot = k /\ stream[e].source = "producer"

MarkerCovered ==
    \A k \in Slots : enqTtl[k] > 0 =>
        \/ Queued(k)
        \/ \E p \in Producers : ppc[p] \in {"add", "undo"} /\ pjob[p].slot = k
        \/ Happened("orphaned", k)

(***************************************************************************)
(* Producers put a slot into the stream at most once, unless its marker    *)
(* was deleted after a failed XADD or outlived: enqueue_once's SET NX      *)
(* holds off every replica and every restarted producer until then.        *)
(***************************************************************************)
ProducedJobs(k) ==
    {e \in 1..Len(stream) : stream[e].slot = k /\ stream[e].source = "producer"}

EnqueuedOnceWhileMarked ==
    \A k \in Slots :
        Cardinality(ProducedJobs(k)) > 1 => Happened("reopened", k)

(***************************************************************************)
(* A slot is executed successfully twice only if a claim holder died,      *)
(* outlived its lease, or the "completed" key ran out of retention:        *)
(* duplicate jobs alone never repeat a run.                                *)
(***************************************************************************)
DuplicateEffectExplained ==
    \A k \in Slots : effects[k] > 1 =>
        Happened("abandoned", k) \/ Happened("overdue", k)
                                 \/ Happened("forgotten", k)

(***************************************************************************)
(* An executor only ever runs for a job of the very version the worker     *)
(* loaded, read-only and not expired, however old the job is and whatever  *)
(* was deployed since (validate_schedule_job_payload, trigger).            *)
(***************************************************************************)
ExecutesReviewedOnly ==
    \A w \in Workers : pc[w] = "attempt" =>
        LET j == stream[job[w]] IN
            j.slot # 0 /\ j.version = version[w] /\ ReadOnly(j) /\ ~j.late

(***************************************************************************)
(* claim_run and complete_run implement the abstract lease: a claim is     *)
(* granted only when no live holder exists, and only a live holder's       *)
(* complete_run is recorded.                                               *)
(***************************************************************************)
Lock == INSTANCE RunLease WITH
            owners <- [k \in Slots |-> {w \in Workers : HoldsLive(w, k)}],
            finished <- {k \in Slots : Happened("completed", k)}

ImplementsRunLease == Lock!Spec

(***************************************************************************)
(* Under TimelySpec with finitely many faults, every job in the stream is  *)
(* acknowledged in the end: reclaiming finds the jobs of dead workers.     *)
(***************************************************************************)
EveryJobAcked == \A e \in Entries : [](e <= Len(stream) => <>(e \in Acked))

(***************************************************************************)
(* Under TimelySpec, every slot with a job in the stream is completed in   *)
(* the end, whichever worker gets the job and whichever duplicate is       *)
(* dropped, unless the holder of its claim died.                           *)
(***************************************************************************)
EverySlotCompleted ==
    \A k \in Slots :
        (\E e \in 1..Len(stream) : stream[e].slot = k)
            ~> Happened("completed", k) \/ Happened("abandoned", k)

-----------------------------------------------------------------------------
(***************************************************************************)
(* The inductive invariant behind the safety properties.                   *)
(***************************************************************************)

\* Where a worker stands says what its registers hold.
WorkerInv ==
    \A w \in Workers :
        /\ pc[w] \notin {"receive", "read", "exited"} => job[w] # 0
        /\ pc[w] \in {"claim", "set"} => SlotOf(w) # 0
        /\ token[w] # "none" =>
              pc[w] \in {"trigger", "attempt", "complete"} /\ SlotOf(w) # 0
        /\ pc[w] \in {"attempt", "complete"} => token[w] # "none"
        /\ pc[w] = "trigger" /\ SlotOf(w) # 0 => token[w] # "none"
        /\ token[w] = "none" => age[w] = 0
        /\ pc[w] \notin {"attempt", "complete", "ack"} => attempts[w] = 0
        /\ pc[w] = "attempt" => attempts[w] <= RetryLimit

\* A producer past its poll has a job for a slot.
ProducerInv == \A p \in Producers : ppc[p] # "poll" => pjob[p].slot \in Slots

\* No two workers carry one token: uuid4 values are fresh.
TokensDistinct ==
    \A v, w \in Workers : token[v] = token[w] /\ token[v] # "none" => v = w

\* A live holder's token is in the run key, with the rest of the lease as its
\* TTL; a holder whose lease ran out never finds its token there again.
LeaseInv ==
    \A w \in Workers, k \in Slots : Holds(w, k) =>
        IF age[w] < Lease
        THEN run[k] = token[w] /\ runTtl[k] = Lease - age[w]
        ELSE run[k] # token[w]

\* A run key is evidence, and so is a decision to acknowledge.
CoverInv ==
    /\ \A k \in Slots : run[k] # "none" => Covered(k)
    /\ \A w \in Workers :
          pc[w] = "ack" /\ SlotOf(w) # 0 => Covered(SlotOf(w))

\* A worker past receive validated the version of its job; what it executes,
\* trigger has let through.
ReviewInv ==
    /\ ExecutesReviewedOnly
    /\ \A w \in Workers : pc[w] \notin {"receive", "read", "exited"} =>
          stream[job[w]].version = version[w]

\* Until its marker is deleted or runs out, a slot is marked from the moment
\* one producer has it between SET NX and XADD; a second producer never does,
\* and the one that is about to add finds no job there.
Enqueues(p, k) == ppc[p] \in {"add", "undo"} /\ pjob[p].slot = k

EnqueueInv ==
    /\ \A p \in Producers : ppc[p] # "poll" => pjob[p].source = "producer"
    /\ \A k \in Slots : ~Happened("reopened", k) =>
          /\ Queued(k) => enqTtl[k] > 0
          /\ \A p \in Producers : Enqueues(p, k) =>
                /\ enqTtl[k] > 0
                /\ ppc[p] = "add" => ~Queued(k)
                /\ \A q \in Producers : Enqueues(q, k) => p = q
          /\ \A e, f \in ProducedJobs(k) : e = f

\* While nothing on the list of excuses happened to a slot, its one success is
\* on record: in the run key, or with the holder about to put it there.
EffectInv ==
    /\ \A k \in Slots : run[k] = "completed" => runTtl[k] > 0
    /\ \A w \in Workers, k \in Slots :
          Holds(w, k) /\ age[w] = Lease => Happened("overdue", k)
    /\ \A k \in Slots :
          \/ Happened("abandoned", k)
          \/ Happened("overdue", k)
          \/ Happened("forgotten", k)
          \/ effects[k] = 0
          \/ /\ effects[k] = 1
             /\ \/ run[k] = "completed"
                \/ \E w \in Workers : Holds(w, k) /\ pc[w] = "complete"

ServiceInv ==
    TypeOK /\ WorkerInv /\ ProducerInv /\ TokensDistinct /\ LeaseInv

-----------------------------------------------------------------------------
(* A statement of the repository that the code does not keep *)

(***************************************************************************)
(* JobQueue.ack: "Acknowledge successful terminal processing."  An         *)
(* acknowledged job's slot is completed, or somebody is executing it.      *)
(***************************************************************************)
AckMeansTerminal ==
    \A e \in Acked : stream[e].slot # 0 =>
        \/ Happened("completed", stream[e].slot)
        \/ \E w \in Workers : Holds(w, stream[e].slot)
=============================================================================
