---------------------------- MODULE RedisJobQueue ----------------------------
(***************************************************************************)
(* packages/scheduler/queue.py: the state RedisJobQueue keeps in Redis and *)
(* the effect of each Redis command its methods issue.  A method that      *)
(* issues several commands (enqueue_once, receive, claim_run) is several   *)
(* steps of its caller: other processes run between two commands.          *)
(*                                                                         *)
(* One schedule definition is modelled.  Its idempotency keys              *)
(* "<id>:<slot instant>" are the numbers 1..NumSlots.  The stream is a     *)
(* sequence; the index of an entry is its receipt.  Time is counted in     *)
(* ticks and kept as what is left of each Redis TTL, so no clock grows.    *)
(***************************************************************************)
EXTENDS Integers, Sequences, FiniteSets

CONSTANTS
    NumSlots,       \* slots of the schedule that become due (a bound)
    MaxEntries,     \* stream entries ever added (a bound)
    MaxVersion,     \* versions of the definition ever deployed (a bound)
    Tokens,         \* the uuid4 claim tokens
    ClaimAfter,     \* claim_after_seconds, in ticks
    Lease,          \* lease_seconds of claim_run
    RunRetention,   \* retention_seconds of complete_run
    EnqRetention    \* retention_seconds of enqueue_once

ASSUME BoundsAssumption ==
    /\ NumSlots \in Nat \ {0}
    /\ MaxEntries \in Nat \ {0}
    /\ MaxVersion \in Nat \ {0}

\* queue.py refuses a non-positive claim timeout, lease or retention.
ASSUME TimesAssumption ==
    /\ ClaimAfter \in Nat \ {0}
    /\ Lease \in Nat \ {0}
    /\ RunRetention \in Nat \ {0}
    /\ EnqRetention \in Nat \ {0}

\* A run key holds "running:<token>" or "completed"; the two never collide.
ASSUME TokensAssumption ==
    /\ "none" \notin Tokens
    /\ "completed" \notin Tokens

VARIABLES
    stream,     \* the Redis stream, a sequence of Job payloads
    delivered,  \* the group's last delivered entry
    pel,        \* entries delivered and not acknowledged
    idle,       \* ticks since an entry was last delivered, up to ClaimAfter
    enqTtl,     \* time left of the "enqueued" marker of a slot; 0: no marker
    run,        \* the run key of a slot: "none", a token, or "completed"
    runTtl      \* time left of the run key; 0 iff it does not exist

redisVars == <<stream, delivered, pel, idle, enqTtl, run, runTtl>>

Slots == 1..NumSlots
Entries == 1..MaxEntries
Versions == 1..MaxVersion

(***************************************************************************)
(* The payload of build_schedule_job_payload, as far as a consumer tells   *)
(* payloads apart: the slot scheduled_for(scheduled_at) names (0: none,    *)
(* the one-shot instant is still ahead), whether scheduled_at is past      *)
(* expires_at, whether it is the slot instant itself, the version of the   *)
(* definition, and who enqueued it.                                        *)
(***************************************************************************)
Job == [slot : 0..NumSlots, late : BOOLEAN, exact : BOOLEAN,
        version : Versions, source : {"producer", "manual"}]

LongestRunTtl == IF Lease > RunRetention THEN Lease ELSE RunRetention

RedisTypeOK ==
    /\ stream \in Seq(Job)
    /\ Len(stream) <= MaxEntries
    /\ delivered \in 0..Len(stream)
    /\ pel \subseteq 1..delivered
    /\ idle \in [Entries -> 0..ClaimAfter]
    /\ enqTtl \in [Slots -> 0..EnqRetention]
    /\ run \in [Slots -> Tokens \cup {"none", "completed"}]
    /\ runTtl \in [Slots -> 0..LongestRunTtl]

\* _ensure_group creates the group at id 0-0: nothing delivered yet.
RedisInit ==
    /\ stream = <<>>
    /\ delivered = 0
    /\ pel = {}
    /\ idle = [e \in Entries |-> 0]
    /\ enqTtl = [k \in Slots |-> 0]
    /\ run = [k \in Slots |-> "none"]
    /\ runTtl = [k \in Slots |-> 0]

Acked == (1..delivered) \ pel

-----------------------------------------------------------------------------
(***************************************************************************)
(* Faulty variants of the commands below.  No specification uses them:     *)
(* they stand for plausible bugs that the properties have to notice.       *)
(***************************************************************************)
SetEnqueueMarkerWithoutNX(k) ==
    /\ enqTtl' = [enqTtl EXCEPT ![k] = EnqRetention]
    /\ UNCHANGED <<stream, delivered, pel, idle, run, runTtl>>

DeleteMarkerForgotten(k) == UNCHANGED redisVars

ClaimableNever == {e \in pel : idle[e] > ClaimAfter}

XReadGroupNoAck(e) ==
    /\ e = delivered + 1
    /\ e <= Len(stream)
    /\ delivered' = e
    /\ UNCHANGED <<stream, pel, idle, enqTtl, run, runTtl>>

SetRunClaimWithoutNX(k, t) ==
    /\ run' = [run EXCEPT ![k] = t]
    /\ runTtl' = [runTtl EXCEPT ![k] = Lease]
    /\ UNCHANGED <<stream, delivered, pel, idle, enqTtl>>

SetRunCompletedUnchecked(k, t) ==
    /\ run' = [run EXCEPT ![k] = "completed"]
    /\ runTtl' = [runTtl EXCEPT ![k] = RunRetention]
    /\ UNCHANGED <<stream, delivered, pel, idle, enqTtl>>

SetRunReleased(k, t) ==
    /\ run[k] = t
    /\ run' = [run EXCEPT ![k] = "none"]
    /\ runTtl' = [runTtl EXCEPT ![k] = 0]
    /\ UNCHANGED <<stream, delivered, pel, idle, enqTtl>>

-----------------------------------------------------------------------------
(* The commands of enqueue and enqueue_once *)

\* SET <enqueued key> NX EX retention, when the key does not exist.
SetEnqueueMarker(k) ==
    /\ enqTtl[k] = 0
    /\ enqTtl' = [enqTtl EXCEPT ![k] = EnqRetention]
    /\ UNCHANGED <<stream, delivered, pel, idle, run, runTtl>>

\* The same command when the marker exists: nothing changes.
EnqueueMarkerExists(k) ==
    /\ enqTtl[k] > 0
    /\ UNCHANGED redisVars

\* XADD.
XAdd(j) ==
    /\ Len(stream) < MaxEntries
    /\ stream' = Append(stream, j)
    /\ UNCHANGED <<delivered, pel, idle, enqTtl, run, runTtl>>

\* DEL <enqueued key>, the clean-up after a failed enqueue.
DeleteMarker(k) ==
    /\ enqTtl' = [enqTtl EXCEPT ![k] = 0]
    /\ UNCHANGED <<stream, delivered, pel, idle, run, runTtl>>

-----------------------------------------------------------------------------
(* The commands of receive and ack *)

Claimable == {e \in pel : idle[e] = ClaimAfter}

\* XAUTOCLAIM from 0-0, COUNT 1: the oldest entry idle for claim_after.
XAutoClaim(e) ==
    /\ e \in Claimable
    /\ \A f \in Claimable : e <= f
    /\ idle' = [idle EXCEPT ![e] = 0]
    /\ UNCHANGED <<stream, delivered, pel, enqTtl, run, runTtl>>

\* XREADGROUP ">" COUNT 1: the next entry never delivered.
XReadGroup(e) ==
    /\ e = delivered + 1
    /\ e <= Len(stream)
    /\ delivered' = e
    /\ pel' = pel \cup {e}
    /\ UNCHANGED <<stream, idle, enqTtl, run, runTtl>>

\* XACK: a second acknowledgement changes nothing.
XAck(e) ==
    /\ pel' = pel \ {e}
    /\ idle' = [idle EXCEPT ![e] = 0]
    /\ UNCHANGED <<stream, delivered, enqTtl, run, runTtl>>

-----------------------------------------------------------------------------
(* The commands of claim_run and complete_run *)

\* SET <run key> running:<token> NX EX lease, when the key does not exist.
SetRunClaim(k, t) ==
    /\ run[k] = "none"
    /\ run' = [run EXCEPT ![k] = t]
    /\ runTtl' = [runTtl EXCEPT ![k] = Lease]
    /\ UNCHANGED <<stream, delivered, pel, idle, enqTtl>>

\* The compare-and-set script of complete_run, when it returns 1.
SetRunCompleted(k, t) ==
    /\ run[k] = t
    /\ run' = [run EXCEPT ![k] = "completed"]
    /\ runTtl' = [runTtl EXCEPT ![k] = RunRetention]
    /\ UNCHANGED <<stream, delivered, pel, idle, enqTtl>>

-----------------------------------------------------------------------------
\* One tick: pending entries grow idle, keys whose TTL runs out disappear.
RedisTick ==
    /\ idle' = [e \in Entries |->
                    IF e \in pel /\ idle[e] < ClaimAfter THEN idle[e] + 1
                                                         ELSE idle[e]]
    /\ enqTtl' = [k \in Slots |-> IF enqTtl[k] > 0 THEN enqTtl[k] - 1 ELSE 0]
    /\ runTtl' = [k \in Slots |-> IF runTtl[k] > 0 THEN runTtl[k] - 1 ELSE 0]
    /\ run' = [k \in Slots |-> IF runTtl[k] > 1 THEN run[k] ELSE "none"]
    /\ UNCHANGED <<stream, delivered, pel>>
=============================================================================
