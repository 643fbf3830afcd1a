---------------------------- MODULE ScheduleProofs ----------------------------
(***************************************************************************)
(* Proofs about the distributed schedule service, for every number of      *)
(* workers, producers, slots and entries and all timing constants.         *)
(***************************************************************************)
EXTENDS ScheduleCorrectness, FiniteSetTheorems, TLAPS

\* The control invariant that makes the type invariant inductive.
TypeInv == TypeOK /\ WorkerInv /\ ProducerInv

\* Appending a job to the stream leaves the jobs of the workers alone.
LEMMA AppendKeepsJobs ==
    ASSUME NEW s \in Seq(Job), NEW j \in Job
    PROVE  /\ Append(s, j) \in Seq(Job)
           /\ Len(Append(s, j)) = Len(s) + 1
           /\ \A e \in 1..Len(s) : Append(s, j)[e] = s[e]
OBVIOUS

\* A worker's job is a payload of the stream.
LEMMA JobOfWorker ==
    ASSUME TypeOK, NEW w \in Workers, job[w] # 0
    PROVE  /\ stream[job[w]] \in Job
           /\ SlotOf(w) = stream[job[w]].slot
           /\ SlotOf(w) \in 0..NumSlots
<1>1. job[w] \in 1..Len(stream)
  BY DEF TypeOK, RedisTypeOK, WorkerTypeOK
<1>2. stream[job[w]] \in Job
  BY <1>1 DEF TypeOK, RedisTypeOK
<1> QED BY <1>2 DEF SlotOf, Job

LEMMA NoJobIsJob == NoJob \in Job
BY BoundsAssumption DEF NoJob, Job, Versions

LEMMA InitTypeInv == Init => TypeInv
<1> SUFFICES ASSUME Init PROVE TypeInv
  OBVIOUS
<1>1. RedisTypeOK
  BY BoundsAssumption, TimesAssumption
  DEF Init, RedisInit, RedisTypeOK, Entries, Slots, LongestRunTtl
<1>2. WorkerTypeOK
  BY BoundsAssumption, TimesAssumption, DefinitionAssumption
  DEF Init, RedisInit, WorkerTypeOK, PCs, NoHistory, Versions
<1>3. ProducerTypeOK
  BY NoJobIsJob, BoundsAssumption DEF Init, ProducerTypeOK, Versions
<1>4. WorldTypeOK
  <2>1. lapsed \in BOOLEAN
    BY DEF Init
  <2>2. due \in 0..NumSlots /\ deployed \in Versions /\ faults \in 0..MaxFaults
    BY BoundsAssumption, BudgetsAssumption DEF Init, Versions
  <2> QED BY <2>1, <2>2 DEF WorldTypeOK
<1>5. ObserverTypeOK
  BY BudgetsAssumption DEF Init, ObserverTypeOK
<1>6. WorkerInv /\ ProducerInv
  BY BoundsAssumption, DefinitionAssumption
  DEF Init, WorkerInv, ProducerInv, SlotOf
<1> QED BY <1>1, <1>2, <1>3, <1>4, <1>5, <1>6 DEF TypeInv, TypeOK

-----------------------------------------------------------------------------
(* Every Redis command preserves the type of the Redis state. *)

LEMMA MarkerCommandsType ==
    ASSUME RedisTypeOK, NEW k,
           SetEnqueueMarker(k) \/ EnqueueMarkerExists(k) \/ DeleteMarker(k)
    PROVE  RedisTypeOK' /\ UNCHANGED stream
<1>1. UNCHANGED <<stream, delivered, pel, idle, run, runTtl>>
  BY DEF SetEnqueueMarker, EnqueueMarkerExists, DeleteMarker, redisVars
<1>2. enqTtl' \in [Slots -> 0..EnqRetention]
  BY TimesAssumption
  DEF SetEnqueueMarker, EnqueueMarkerExists, DeleteMarker, redisVars, RedisTypeOK
<1> QED BY <1>1, <1>2 DEF RedisTypeOK

LEMMA DeliveryCommandsType ==
    ASSUME RedisTypeOK, NEW e, XAutoClaim(e) \/ XReadGroup(e) \/ XAck(e)
    PROVE  RedisTypeOK' /\ UNCHANGED stream
<1>1. UNCHANGED <<stream, enqTtl, run, runTtl>>
  BY DEF XAutoClaim, XReadGroup, XAck
<1>2. idle' \in [Entries -> 0..ClaimAfter]
  BY TimesAssumption DEF XAutoClaim, XReadGroup, XAck, RedisTypeOK
<1>3. delivered' \in 0..Len(stream) /\ pel' \subseteq 1..delivered'
  <2>1. CASE XReadGroup(e)
    <3>1. Len(stream) \in Nat /\ delivered \in Nat /\ e = delivered + 1
      BY <2>1 DEF XReadGroup, RedisTypeOK
    <3>2. delivered' = e /\ e <= Len(stream) /\ pel' = pel \cup {e}
      BY <2>1 DEF XReadGroup
    <3>3. pel \subseteq 1..delivered
      BY DEF RedisTypeOK
    <3> QED BY <3>1, <3>2, <3>3
  <2>2. CASE XAutoClaim(e) \/ XAck(e)
    BY <2>2 DEF XAutoClaim, XAck, RedisTypeOK
  <2> QED BY <2>1, <2>2
<1> QED BY <1>1, <1>2, <1>3 DEF RedisTypeOK

LEMMA RunCommandsType ==
    ASSUME RedisTypeOK, NEW k, NEW t \in Tokens,
           SetRunClaim(k, t) \/ SetRunCompleted(k, t)
    PROVE  RedisTypeOK' /\ UNCHANGED stream
<1>1. UNCHANGED <<stream, delivered, pel, idle, enqTtl>>
  BY DEF SetRunClaim, SetRunCompleted
<1>2. run' \in [Slots -> Tokens \cup {"none", "completed"}]
  BY DEF SetRunClaim, SetRunCompleted, RedisTypeOK
<1>3. Lease \in 0..LongestRunTtl /\ RunRetention \in 0..LongestRunTtl
  BY TimesAssumption DEF LongestRunTtl
<1>4. runTtl' \in [Slots -> 0..LongestRunTtl]
  BY <1>3 DEF SetRunClaim, SetRunCompleted, RedisTypeOK
<1> QED BY <1>1, <1>2, <1>4 DEF RedisTypeOK

LEMMA RedisTickType ==
    ASSUME RedisTypeOK, RedisTick
    PROVE  RedisTypeOK' /\ UNCHANGED stream
<1>1. UNCHANGED <<stream, delivered, pel>>
  BY DEF RedisTick
<1>2. idle' \in [Entries -> 0..ClaimAfter]
  BY TimesAssumption DEF RedisTick, RedisTypeOK
<1>3. enqTtl' \in [Slots -> 0..EnqRetention]
  BY TimesAssumption DEF RedisTick, RedisTypeOK
<1>4. run' \in [Slots -> Tokens \cup {"none", "completed"}]
  BY DEF RedisTick, RedisTypeOK
<1>5. LongestRunTtl \in Nat
  BY TimesAssumption DEF LongestRunTtl
<1>6. runTtl' \in [Slots -> 0..LongestRunTtl]
  BY <1>5 DEF RedisTick, RedisTypeOK
<1> QED BY <1>1, <1>2, <1>3, <1>4, <1>6 DEF RedisTypeOK

-----------------------------------------------------------------------------
(* A step of a producer leaves the workers alone; it may add to the stream. *)

LEMMA XAddType ==
    ASSUME TypeInv, NEW j \in Job, XAdd(j), UNCHANGED workerVars
    PROVE  RedisTypeOK' /\ WorkerTypeOK' /\ WorkerInv'
<1> USE DEF TypeInv, TypeOK
<1>1. /\ stream' \in Seq(Job)
      /\ Len(stream') = Len(stream) + 1
      /\ \A e \in 1..Len(stream) : stream'[e] = stream[e]
  BY AppendKeepsJobs DEF XAdd, RedisTypeOK
<1>2. RedisTypeOK'
  BY <1>1, BoundsAssumption DEF XAdd, RedisTypeOK
<1>3. WorkerTypeOK'
  BY <1>1 DEF WorkerTypeOK, workerVars, RedisTypeOK
<1>4. \A w \in Workers : SlotOf(w)' = SlotOf(w)
  BY <1>1 DEF SlotOf, workerVars, WorkerTypeOK, RedisTypeOK
<1>5. WorkerInv'
  BY <1>4 DEF WorkerInv, workerVars
<1> QED BY <1>2, <1>3, <1>5

LEMMA ProducerStepType ==
    ASSUME TypeInv, NEW p \in Producers, ProducerStep(p)
    PROVE  TypeInv'
<1> USE DEF TypeInv, TypeOK
<1>a. ASSUME UNCHANGED <<workerVars, stream>>
      PROVE  WorkerTypeOK' /\ WorkerInv'
  BY <1>a DEF WorkerTypeOK, WorkerInv, workerVars, SlotOf
<1>b. ASSUME UNCHANGED worldVars PROVE WorldTypeOK'
  BY <1>b DEF WorldTypeOK, worldVars
<1>c. ASSUME UNCHANGED observers PROVE ObserverTypeOK'
  BY <1>c DEF ObserverTypeOK, observers
<1>d. ASSUME UNCHANGED redisVars PROVE RedisTypeOK'
  BY <1>d DEF RedisTypeOK, redisVars
<1>1. CASE PollDue(p)
  <2>1. RedisTypeOK' /\ WorkerTypeOK' /\ WorkerInv' /\ WorldTypeOK' /\ ObserverTypeOK'
    BY <1>1, <1>a, <1>b, <1>c, <1>d DEF PollDue, redisVars
  <2>2. PICK x \in BOOLEAN :
          pjob' = [pjob EXCEPT ![p] =
                      [slot |-> due, late |-> lapsed, exact |-> x,
                       version |-> pversion[p], source |-> "producer"]]
    BY <1>1, DefinitionAssumption DEF PollDue, Exactness
  <2>3. [slot |-> due, late |-> lapsed, exact |-> x,
         version |-> pversion[p], source |-> "producer"] \in Job
    BY DefinitionAssumption DEF WorldTypeOK, ProducerTypeOK, Job
  <2>4. ProducerTypeOK'
    BY <1>1, <2>2, <2>3 DEF PollDue, ProducerTypeOK
  <2>5. ProducerInv'
    BY <1>1, <2>2, BoundsAssumption
    DEF PollDue, ProducerInv, ProducerTypeOK, WorldTypeOK, Slots
  <2> QED BY <2>1, <2>4, <2>5
<1>2. CASE MarkSlot(p)
  <2>1. RedisTypeOK' /\ UNCHANGED stream
    BY <1>2, MarkerCommandsType DEF MarkSlot
  <2>2. ProducerTypeOK' /\ ProducerInv'
    BY <1>2, NoJobIsJob
    DEF MarkSlot, ProducerTo, ProducerTypeOK, ProducerInv
  <2> QED BY <1>2, <2>1, <2>2, <1>a, <1>b, <1>c DEF MarkSlot
<1>3. CASE EnqueueJob(p)
  <2>1. RedisTypeOK' /\ WorkerTypeOK' /\ WorkerInv'
    BY <1>3, XAddType DEF EnqueueJob, ProducerTypeOK
  <2>2. ProducerTypeOK' /\ ProducerInv'
    BY <1>3, NoJobIsJob
    DEF EnqueueJob, ProducerTo, ProducerTypeOK, ProducerInv
  <2> QED BY <1>3, <2>1, <2>2, <1>b, <1>c DEF EnqueueJob
<1>4. CASE EnqueueFails(p)
  <2>1. RedisTypeOK' /\ WorkerTypeOK' /\ WorkerInv'
    <3>1. CASE XAdd(pjob[p])
      BY <1>4, <3>1, XAddType DEF EnqueueFails, ProducerTypeOK
    <3>2. CASE UNCHANGED redisVars
      BY <1>4, <3>2, <1>a, <1>d DEF EnqueueFails, redisVars
    <3> QED BY <1>4, <3>1, <3>2 DEF EnqueueFails
  <2>2. ProducerTypeOK' /\ ProducerInv'
    BY <1>4, NoJobIsJob
    DEF EnqueueFails, ProducerTo, ProducerTypeOK, ProducerInv
  <2>3. WorldTypeOK'
    BY <1>4, BudgetsAssumption DEF EnqueueFails, Fault, WorldTypeOK
  <2> QED BY <1>4, <2>1, <2>2, <2>3, <1>c DEF EnqueueFails
<1>5. CASE UndoMark(p)
  <2>1. RedisTypeOK' /\ UNCHANGED stream
    BY <1>5, MarkerCommandsType DEF UndoMark
  <2>2. ProducerTypeOK' /\ ProducerInv'
    BY <1>5, NoJobIsJob
    DEF UndoMark, ProducerTypeOK, ProducerInv, WorldTypeOK
  <2>3. ObserverTypeOK'
    BY <1>5 DEF UndoMark, ObserverTypeOK, ProducerInv, EventKinds
  <2> QED BY <1>5, <2>1, <2>2, <2>3, <1>a, <1>b DEF UndoMark
<1>6. CASE ProducerCrash(p)
  <2>1. RedisTypeOK' /\ WorkerTypeOK' /\ WorkerInv'
    BY <1>6, <1>a, <1>d DEF ProducerCrash, redisVars
  <2>2. ProducerTypeOK' /\ ProducerInv'
    BY <1>6, NoJobIsJob
    DEF ProducerCrash, ProducerTypeOK, ProducerInv, WorldTypeOK
  <2>3. WorldTypeOK'
    BY <1>6, BudgetsAssumption DEF ProducerCrash, Fault, WorldTypeOK
  <2>4. ObserverTypeOK'
    BY <1>6 DEF ProducerCrash, ObserverTypeOK, ProducerInv, EventKinds
  <2> QED BY <2>1, <2>2, <2>3, <2>4
<1> QED BY <1>1, <1>2, <1>3, <1>4, <1>5, <1>6 DEF ProducerStep

-----------------------------------------------------------------------------
(* The steps of a worker *)

\* A worker that exits, or moves without touching its registers.
LEMMA ExitType ==
    ASSUME TypeInv, NEW w \in Workers, Exit(w), UNCHANGED stream
    PROVE  WorkerTypeOK' /\ WorkerInv'
<1> USE DEF TypeInv, TypeOK
<1>1. WorkerTypeOK'
  BY TimesAssumption, DefinitionAssumption
  DEF Exit, WorkerTypeOK, PCs, NoHistory, RedisTypeOK
<1>2. \A v \in Workers \ {w} : SlotOf(v)' = SlotOf(v)
  BY DEF SlotOf, Exit, WorkerTypeOK
<1>3. WorkerInv'
  BY <1>2 DEF Exit, WorkerInv, WorkerTypeOK
<1> QED BY <1>1, <1>3

LEMMA ConsumeType ==
    ASSUME TypeInv, NEW w \in Workers, NEW e \in 1..Len(stream),
           pc[w] \in {"receive", "read"}, Consume(w, e), UNCHANGED stream
    PROVE  WorkerTypeOK' /\ WorkerInv'
<1> USE DEF TypeInv, TypeOK
<1>1. CASE stream[e].version # version[w]
  BY <1>1, ExitType DEF Consume
<1>2. CASE stream[e].version = version[w]
  <2>a. /\ pc' = [pc EXCEPT ![w] = IF stream[e].slot = 0 THEN "trigger"
                                                         ELSE "claim"]
        /\ job' = [job EXCEPT ![w] = e]
        /\ UNCHANGED <<token, age, attempts, status, history, version>>
    BY <1>2 DEF Consume
  <2>b. e \in 0..Len(stream')
    BY DEF RedisTypeOK
  <2>1. WorkerTypeOK'
    BY <2>a, <2>b DEF WorkerTypeOK, PCs
  <2>2. \A v \in Workers \ {w} : SlotOf(v)' = SlotOf(v)
    BY <1>2 DEF SlotOf, Consume, WorkerTypeOK
  <2>3. SlotOf(w)' = stream[e].slot
    BY <1>2 DEF SlotOf, Consume, WorkerTypeOK, RedisTypeOK
  <2>4. WorkerInv'
    BY <1>2, <2>2, <2>3 DEF Consume, WorkerInv, WorkerTypeOK
  <2> QED BY <2>1, <2>4
<1> QED BY <1>1, <1>2

\* Steps that keep the worker's job.
LEMMA SlotKept ==
    ASSUME UNCHANGED <<stream, job>>
    PROVE  \A w \in Workers : SlotOf(w)' = SlotOf(w)
BY DEF SlotOf

LEMMA WorkerToType ==
    ASSUME TypeInv, NEW w \in Workers, NEW where, WorkerTo(w, where),
           \/ pc[w] \in {"receive", "read"} /\ where \in {"receive", "read"}
           \/ pc[w] = "claim" /\ where = "set"
           \/ pc[w] = "trigger" /\ SlotOf(w) # 0 /\ where = "attempt",
           UNCHANGED stream
    PROVE  WorkerTypeOK' /\ WorkerInv'
<1> USE DEF TypeInv, TypeOK
<1>1. WorkerTypeOK'
  BY DEF WorkerTo, WorkerTypeOK, PCs
<1>2. \A v \in Workers : SlotOf(v)' = SlotOf(v)
  BY SlotKept DEF WorkerTo
<1>3. WorkerInv'
  BY <1>2, DefinitionAssumption DEF WorkerTo, WorkerInv, WorkerTypeOK
<1> QED BY <1>1, <1>3

LEMMA DeduplicateType ==
    ASSUME TypeInv, NEW w \in Workers, pc[w] \in {"claim", "set"},
           Deduplicate(w), UNCHANGED stream
    PROVE  WorkerTypeOK' /\ WorkerInv'
<1> USE DEF TypeInv, TypeOK
<1>1. WorkerTypeOK'
  BY DEF Deduplicate, WorkerTypeOK, PCs
<1>2. \A v \in Workers : SlotOf(v)' = SlotOf(v)
  BY SlotKept DEF Deduplicate
<1>3. WorkerInv'
  BY <1>2 DEF Deduplicate, WorkerInv, WorkerTypeOK
<1> QED BY <1>1, <1>3

LEMMA RecordType ==
    ASSUME TypeInv, NEW w \in Workers, NEW st \in Statuses,
           pc[w] \in {"trigger", "attempt"}, Record(w, st),
           attempts' \in [Workers -> 0..RetryLimit + 1],
           \A v \in Workers \ {w} : attempts'[v] = attempts[v],
           UNCHANGED stream
    PROVE  WorkerTypeOK' /\ WorkerInv'
<1> USE DEF TypeInv, TypeOK
<1>1. history' \in [Workers -> [Slots -> Statuses \cup {"none"}]]
  BY DEF Record, WorkerTypeOK
<1>2. WorkerTypeOK'
  BY <1>1 DEF Record, WorkerTypeOK, PCs
<1>3. \A v \in Workers : SlotOf(v)' = SlotOf(v)
  BY SlotKept DEF Record
<1>4. WorkerInv'
  BY <1>3 DEF Record, WorkerInv, WorkerTypeOK
<1> QED BY <1>2, <1>4

\* What w abandons are events of slots.
LEMMA AbandonsType == ASSUME NEW w PROVE Abandons(w) \subseteq EventKinds \X Slots
BY DEF Abandons, EventKinds

LEMMA WorkerStepType ==
    ASSUME TypeInv, NEW w \in Workers, WorkerStep(w)
    PROVE  RedisTypeOK' /\ UNCHANGED stream /\ WorkerTypeOK' /\ WorkerInv'
           /\ ObserverTypeOK' /\ UNCHANGED <<producerVars, worldVars>>
<1> USE DEF TypeInv, TypeOK
<1>a. ASSUME UNCHANGED observers PROVE ObserverTypeOK'
  BY <1>a DEF ObserverTypeOK, observers
<1>b. ASSUME UNCHANGED redisVars PROVE RedisTypeOK' /\ UNCHANGED stream
  BY <1>b DEF RedisTypeOK, redisVars
<1>1. CASE ClaimAbandoned(w)
  <2>1. CASE \E e \in Claimable : XAutoClaim(e) /\ Consume(w, e)
    <3>1. PICK e \in Claimable : XAutoClaim(e) /\ Consume(w, e)
      BY <2>1
    <3>2. e \in 1..Len(stream)
      BY DEF Claimable, RedisTypeOK
    <3>3. RedisTypeOK' /\ UNCHANGED stream
      BY <3>1, DeliveryCommandsType
    <3>4. WorkerTypeOK' /\ WorkerInv'
      BY <1>1, <3>1, <3>2, <3>3, ConsumeType DEF ClaimAbandoned
    <3> QED BY <1>1, <1>a, <3>3, <3>4 DEF ClaimAbandoned
  <2>2. CASE WorkerTo(w, "read") /\ UNCHANGED redisVars
    BY <1>1, <2>2, <1>a, <1>b, WorkerToType DEF ClaimAbandoned
  <2> QED BY <1>1, <2>1, <2>2 DEF ClaimAbandoned
<1>2. CASE ReadGroup(w)
  <2>1. CASE XReadGroup(delivered + 1) /\ Consume(w, delivered + 1)
    <3>1. delivered + 1 \in 1..Len(stream)
      BY <2>1 DEF XReadGroup, RedisTypeOK
    <3>2. RedisTypeOK' /\ UNCHANGED stream
      BY <2>1, DeliveryCommandsType
    <3>3. WorkerTypeOK' /\ WorkerInv'
      BY <1>2, <2>1, <3>1, <3>2, ConsumeType DEF ReadGroup
    <3> QED BY <1>2, <1>a, <3>2, <3>3 DEF ReadGroup
  <2>2. CASE WorkerTo(w, "receive") /\ UNCHANGED redisVars
    BY <1>2, <2>2, <1>a, <1>b, WorkerToType DEF ReadGroup
  <2> QED BY <1>2, <2>1, <2>2 DEF ReadGroup
<1>3. CASE ClaimRunGet(w)
  <2>1. RedisTypeOK' /\ UNCHANGED stream /\ ObserverTypeOK'
    BY <1>3, <1>a, <1>b DEF ClaimRunGet
  <2>2. WorkerTypeOK' /\ WorkerInv'
    BY <1>3, <2>1, WorkerToType, DeduplicateType DEF ClaimRunGet
  <2> QED BY <1>3, <2>1, <2>2 DEF ClaimRunGet
<1>4. CASE ClaimRunSet(w)
  <2>1. CASE run[SlotOf(w)] # "none" /\ Deduplicate(w) /\ UNCHANGED redisVars
    BY <1>4, <2>1, <1>a, <1>b, DeduplicateType DEF ClaimRunSet
  <2>2. ASSUME NEW t \in Tokens \ UsedTokens,
               /\ SetRunClaim(SlotOf(w), t)
               /\ token' = [token EXCEPT ![w] = t]
               /\ pc' = [pc EXCEPT ![w] = "trigger"]
               /\ UNCHANGED <<job, age, attempts, status, history, version>>
        PROVE  RedisTypeOK' /\ UNCHANGED stream /\ WorkerTypeOK' /\ WorkerInv'
    <3>1. RedisTypeOK' /\ UNCHANGED stream
      BY <2>2, RunCommandsType
    <3>2. WorkerTypeOK'
      BY <2>2, <3>1 DEF WorkerTypeOK, PCs
    <3>3. \A v \in Workers : SlotOf(v)' = SlotOf(v)
      BY <2>2, <3>1, SlotKept
    <3>4. WorkerInv'
      BY <1>4, <2>2, <3>3, TokensAssumption
      DEF ClaimRunSet, WorkerInv, WorkerTypeOK
    <3> QED BY <3>1, <3>2, <3>4
  <2> QED BY <1>4, <1>a, <2>1, <2>2 DEF ClaimRunSet
<1>5. CASE Trigger(w)
  <2>1. RedisTypeOK' /\ UNCHANGED stream /\ ObserverTypeOK'
    BY <1>5, <1>a, <1>b DEF Trigger
  <2>2. pc[w] = "trigger" /\ job[w] # 0
    BY <1>5 DEF Trigger, WorkerInv
  <2>3. SlotOf(w) = stream[job[w]].slot /\ SlotOf(w) \in 0..NumSlots
    BY <2>2, JobOfWorker
  <2>4. ASSUME WorkerTo(w, "attempt"), stream[job[w]].slot # 0
        PROVE  WorkerTypeOK' /\ WorkerInv'
    BY <2>1, <2>2, <2>3, <2>4, WorkerToType
  <2>5. ASSUME NEW st \in Statuses, Record(w, st), UNCHANGED attempts
        PROVE  WorkerTypeOK' /\ WorkerInv'
    BY <2>1, <2>2, <2>5, RecordType DEF WorkerTypeOK
  <2>6. history[w] \in [Slots -> Statuses \cup {"none"}]
    BY DEF WorkerTypeOK
  <2>7. ASSUME SlotOf(w) # 0, history[w][SlotOf(w)] # "none",
               Record(w, history[w][SlotOf(w)]), UNCHANGED attempts
        PROVE  WorkerTypeOK' /\ WorkerInv'
    BY <2>3, <2>5, <2>6, <2>7, BoundsAssumption DEF Slots
  <2>8. \/ WorkerTo(w, "attempt") /\ stream[job[w]].slot # 0
        \/ Record(w, "blocked") /\ UNCHANGED attempts
        \/ Record(w, "expired") /\ UNCHANGED attempts
        \/ Record(w, "skipped") /\ UNCHANGED attempts
        \/ /\ SlotOf(w) # 0 /\ history[w][SlotOf(w)] # "none"
           /\ Record(w, history[w][SlotOf(w)]) /\ UNCHANGED attempts
    BY <1>5, <2>3 DEF Trigger
  <2>9. WorkerTypeOK' /\ WorkerInv'
    BY <2>4, <2>5, <2>7, <2>8 DEF Statuses
  <2> QED BY <1>5, <2>1, <2>9 DEF Trigger
<1>6. CASE AttemptSucceeds(w)
  <2>1. RedisTypeOK' /\ UNCHANGED stream
    BY <1>6, <1>b DEF AttemptSucceeds
  <2>2. /\ attempts' \in [Workers -> 0..RetryLimit + 1]
        /\ \A v \in Workers \ {w} : attempts'[v] = attempts[v]
    BY <1>6, DefinitionAssumption DEF AttemptSucceeds, WorkerInv, WorkerTypeOK
  <2>3. WorkerTypeOK' /\ WorkerInv'
    BY <1>6, <2>1, <2>2, RecordType DEF AttemptSucceeds, Statuses
  <2>4. ObserverTypeOK'
    <3>1. UNCHANGED events
      BY <1>6 DEF AttemptSucceeds
    <3>2. effects' = [effects EXCEPT ![SlotOf(w)] =
                         IF @ < MaxEffects THEN @ + 1 ELSE @]
      BY <1>6 DEF AttemptSucceeds
    <3>3. effects' \in [Slots -> 0..MaxEffects]
      <4> DEFINE n == IF effects[SlotOf(w)] < MaxEffects
                      THEN effects[SlotOf(w)] + 1 ELSE effects[SlotOf(w)]
      <4>1. effects \in [Slots -> 0..MaxEffects]
        BY DEF ObserverTypeOK
      <4>2. effects' = [effects EXCEPT ![SlotOf(w)] = n]
        BY <3>2
      <4>3. SlotOf(w) \in Slots => n \in 0..MaxEffects
        BY <4>1, BudgetsAssumption
      <4> HIDE DEF n
      <4> QED BY <4>1, <4>2, <4>3
    <3> QED BY <3>1, <3>3 DEF ObserverTypeOK
  <2> QED BY <1>6, <2>1, <2>3, <2>4 DEF AttemptSucceeds
<1>7. CASE AttemptFails(w)
  <2>1. RedisTypeOK' /\ UNCHANGED stream /\ ObserverTypeOK'
    BY <1>7, <1>a, <1>b DEF AttemptFails
  <2>2. /\ attempts' \in [Workers -> 0..RetryLimit + 1]
        /\ \A v \in Workers \ {w} : attempts'[v] = attempts[v]
        /\ attempts'[w] = attempts[w] + 1
    BY <1>7, DefinitionAssumption DEF AttemptFails, WorkerInv, WorkerTypeOK
  <2>3. CASE attempts[w] + 1 > RetryLimit
    BY <1>7, <2>1, <2>2, <2>3, RecordType DEF AttemptFails, Statuses
  <2>4. CASE ~(attempts[w] + 1 > RetryLimit)
    <3>1. UNCHANGED <<pc, job, token, age, status, history, version>>
      BY <1>7, <2>4 DEF AttemptFails
    <3>2. \A v \in Workers : SlotOf(v)' = SlotOf(v)
      BY <2>1, <3>1, SlotKept
    <3>3. WorkerTypeOK'
      BY <2>1, <2>2, <3>1 DEF WorkerTypeOK
    <3>4. WorkerInv'
      BY <1>7, <2>2, <2>4, <3>1, <3>2, DefinitionAssumption
      DEF AttemptFails, WorkerInv, WorkerTypeOK
    <3> QED BY <1>7, <2>1, <3>3, <3>4 DEF AttemptFails
  <2> QED BY <1>7, <2>1, <2>3, <2>4 DEF AttemptFails
<1>8. CASE CompleteRun(w)
  <2>1. token[w] \in Tokens /\ SlotOf(w) \in Slots
    <3>1. token[w] # "none" /\ SlotOf(w) # 0 /\ job[w] # 0
      BY <1>8 DEF CompleteRun, WorkerInv
    <3>2. SlotOf(w) \in 0..NumSlots
      BY <3>1, JobOfWorker
    <3> QED BY <3>1, <3>2, BoundsAssumption DEF WorkerTypeOK, Slots
  <2>2. RedisTypeOK' /\ UNCHANGED stream
    BY <1>8, <2>1, RunCommandsType DEF CompleteRun
  <2>3. WorkerTypeOK'
    BY <1>8, <2>2, TimesAssumption DEF CompleteRun, WorkerTypeOK, PCs
  <2>4. \A v \in Workers : SlotOf(v)' = SlotOf(v)
    BY <1>8, <2>2, SlotKept DEF CompleteRun
  <2>5. WorkerInv'
    BY <1>8, <2>4 DEF CompleteRun, WorkerInv, WorkerTypeOK
  <2>6. ObserverTypeOK'
    BY <1>8, <2>1 DEF CompleteRun, ObserverTypeOK, EventKinds
  <2> QED BY <1>8, <2>2, <2>3, <2>5, <2>6 DEF CompleteRun
<1>9. CASE CompleteRunLost(w)
  <2>1. ObserverTypeOK'
    BY <1>9, AbandonsType DEF CompleteRunLost, ObserverTypeOK
  <2> QED BY <1>9, <1>b, <2>1, ExitType DEF CompleteRunLost
<1>10. CASE Ack(w)
  <2>1. RedisTypeOK' /\ UNCHANGED stream
    BY <1>10, DeliveryCommandsType DEF Ack
  <2>2. CASE status[w] \in {"failed", "blocked"}
    BY <1>10, <1>a, <2>1, <2>2, ExitType DEF Ack
  <2>3. CASE status[w] \notin {"failed", "blocked"}
    <3>1. /\ pc' = [pc EXCEPT ![w] = "receive"]
          /\ job' = [job EXCEPT ![w] = 0]
          /\ attempts' = [attempts EXCEPT ![w] = 0]
          /\ status' = [status EXCEPT ![w] = "none"]
          /\ UNCHANGED <<token, age, history, version>>
      BY <1>10, <2>3 DEF Ack
    <3>2. WorkerTypeOK'
      BY <2>1, <3>1, DefinitionAssumption DEF WorkerTypeOK, PCs, RedisTypeOK
    <3>3. \A v \in Workers \ {w} : SlotOf(v)' = SlotOf(v)
      BY <2>1, <3>1 DEF SlotOf, WorkerTypeOK
    <3>4. WorkerInv'
      BY <1>10, <3>1, <3>3 DEF Ack, WorkerInv, WorkerTypeOK
    <3> QED BY <1>10, <1>a, <2>1, <3>2, <3>4 DEF Ack
  <2> QED BY <2>2, <2>3
<1>11. CASE Restart(w)
  <2>1. RedisTypeOK' /\ UNCHANGED stream /\ ObserverTypeOK'
    BY <1>11, <1>a, <1>b DEF Restart
  <2>2. WorkerTypeOK'
    BY <1>11, <2>1 DEF Restart, WorkerTypeOK, PCs, WorldTypeOK
  <2>3. \A v \in Workers : SlotOf(v)' = SlotOf(v)
    BY <1>11, <2>1, SlotKept DEF Restart
  <2>4. WorkerInv'
    BY <1>11, <2>3 DEF Restart, WorkerInv, WorkerTypeOK
  <2> QED BY <1>11, <2>1, <2>2, <2>4 DEF Restart
<1> QED BY <1>1, <1>2, <1>3, <1>4, <1>5, <1>6, <1>7, <1>8, <1>9, <1>10, <1>11
        DEF WorkerStep

-----------------------------------------------------------------------------
(* Type correctness *)

LEMMA StepTypeInv == TypeInv /\ [Next]_vars => TypeInv'
<1> SUFFICES ASSUME TypeInv, [Next]_vars PROVE TypeInv'
  OBVIOUS
<1> USE DEF TypeInv, TypeOK
<1>a. ASSUME UNCHANGED producerVars PROVE ProducerTypeOK' /\ ProducerInv'
  BY <1>a DEF ProducerTypeOK, ProducerInv, producerVars
<1>b. ASSUME UNCHANGED worldVars PROVE WorldTypeOK'
  BY <1>b DEF WorldTypeOK, worldVars
<1>c. ASSUME UNCHANGED observers PROVE ObserverTypeOK'
  BY <1>c DEF ObserverTypeOK, observers
<1>d. ASSUME UNCHANGED redisVars PROVE RedisTypeOK' /\ UNCHANGED stream
  BY <1>d DEF RedisTypeOK, redisVars
<1>e. ASSUME UNCHANGED <<workerVars, stream>>
      PROVE  WorkerTypeOK' /\ WorkerInv'
  BY <1>e DEF WorkerTypeOK, WorkerInv, workerVars, SlotOf
<1>1. ASSUME NEW p \in Producers, ProducerStep(p) PROVE TypeInv'
  BY <1>1, ProducerStepType
<1>2. CASE ManualEnqueue
  <2>1. PICK k \in 0..NumSlots, x \in BOOLEAN, l \in {FALSE, HasExpiry} :
          XAdd([slot |-> k, late |-> l, exact |-> x,
                version |-> deployed, source |-> "manual"])
    BY <1>2, DefinitionAssumption DEF ManualEnqueue, Exactness
  <2>2. [slot |-> k, late |-> l, exact |-> x,
         version |-> deployed, source |-> "manual"] \in Job
    BY DefinitionAssumption DEF Job, WorldTypeOK
  <2>3. RedisTypeOK' /\ WorkerTypeOK' /\ WorkerInv'
    BY <1>2, <2>1, <2>2, XAddType DEF ManualEnqueue
  <2> QED BY <1>2, <2>3, <1>a, <1>b, <1>c DEF ManualEnqueue
<1>3. ASSUME NEW w \in Workers, WorkerStep(w) PROVE TypeInv'
  BY <1>3, WorkerStepType, <1>a, <1>b
<1>4. ASSUME NEW w \in Workers, Crash(w) PROVE TypeInv'
  <2>1. WorkerTypeOK' /\ WorkerInv' /\ RedisTypeOK'
    BY <1>4, <1>d, ExitType DEF Crash
  <2>2. ObserverTypeOK'
    BY <1>4, AbandonsType DEF Crash, ObserverTypeOK
  <2>3. WorldTypeOK'
    BY <1>4, BudgetsAssumption DEF Crash, Fault, WorldTypeOK
  <2> QED BY <1>4, <2>1, <2>2, <2>3, <1>a DEF Crash
<1>5. CASE SlotBecomesDue \/ ScheduleExpires \/ Deploy
  <2>1. WorldTypeOK'
    <3>1. CASE SlotBecomesDue
      BY <3>1, BoundsAssumption DEF SlotBecomesDue, WorldTypeOK
    <3>2. CASE ScheduleExpires
      BY <3>2 DEF ScheduleExpires, WorldTypeOK
    <3>3. CASE Deploy
      BY <3>3, BoundsAssumption DEF Deploy, WorldTypeOK, Versions
    <3> QED BY <1>5, <3>1, <3>2, <3>3
  <2>2. UNCHANGED <<redisVars, workerVars, producerVars, observers>>
    BY <1>5 DEF SlotBecomesDue, ScheduleExpires, Deploy
  <2> QED BY <2>1, <2>2, <1>a, <1>c, <1>d, <1>e
<1>6. CASE Tick
  <2>1. RedisTypeOK' /\ UNCHANGED stream
    BY <1>6, RedisTickType DEF Tick
  <2>2. age' \in [Workers -> 0..Lease]
    BY <1>6, TimesAssumption DEF Tick, WorkerTypeOK
  <2>3. WorkerTypeOK'
    BY <1>6, <2>1, <2>2 DEF Tick, WorkerTypeOK
  <2>4. \A w \in Workers : SlotOf(w)' = SlotOf(w)
    BY <1>6, <2>1, SlotKept DEF Tick
  <2>5. \A w \in Workers : token[w] = "none" => age'[w] = age[w]
    BY <1>6 DEF Tick, Holds
  <2>6. WorkerInv'
    BY <1>6, <2>4, <2>5 DEF Tick, WorkerInv
  <2>7. ObserverTypeOK'
    BY <1>6 DEF Tick, ObserverTypeOK, EventKinds
  <2> QED BY <1>6, <2>1, <2>3, <2>6, <2>7, <1>a, <1>b DEF Tick
<1>7. CASE UNCHANGED vars
  BY <1>7, <1>a, <1>b, <1>c, <1>d, <1>e DEF vars
<1> QED BY <1>1, <1>2, <1>3, <1>4, <1>5, <1>6, <1>7 DEF Next, ProcessStep

(***************************************************************************)
(* Every reachable state is well typed: claims, TTLs, idle times, retry    *)
(* counts and observers stay in range whatever the processes, Redis and    *)
(* the clock do.                                                           *)
(***************************************************************************)
THEOREM TypeCorrect == Spec => []TypeOK
<1>1. TypeInv => TypeOK
  BY DEF TypeInv
<1> QED BY <1>1, InitTypeInv, StepTypeInv, PTL DEF Spec

-----------------------------------------------------------------------------
(***************************************************************************)
(* Only three kinds of step touch the run keys: a granted claim_run, a     *)
(* successful complete_run, and the clock.  Every other step is quiet.     *)
(***************************************************************************)
Quiet ==
    /\ UNCHANGED <<run, runTtl>>
    /\ \A v \in Workers : token'[v] \in {token[v], "none"}
    /\ \A v \in Workers, k \in Slots :
          Holds(v, k)' => Holds(v, k) /\ token'[v] = token[v] /\ age'[v] = age[v]
    /\ \A v \in Workers, k \in Slots :
          Holds(v, k) => Holds(v, k)' \/ <<"abandoned", k>> \in events'
    /\ events \subseteq events'
    /\ \A k \in Slots :
          <<"completed", k>> \in events' => <<"completed", k>> \in events

\* Workers that do not move keep their slot, also when the stream grows.
LEMMA StreamGrows ==
    ASSUME TypeInv, UNCHANGED job,
           \/ UNCHANGED stream
           \/ \E j \in Job : stream' = Append(stream, j)
    PROVE  \A v \in Workers : SlotOf(v)' = SlotOf(v)
<1>1. CASE UNCHANGED stream
  BY <1>1, SlotKept
<1>2. ASSUME NEW j \in Job, stream' = Append(stream, j)
      PROVE  \A v \in Workers : SlotOf(v)' = SlotOf(v)
  <2>1. \A e \in 1..Len(stream) : stream'[e] = stream[e]
    BY <1>2, AppendKeepsJobs DEF TypeInv, TypeOK, RedisTypeOK
  <2> QED BY <2>1 DEF SlotOf, TypeInv, TypeOK, WorkerTypeOK, RedisTypeOK
<1> QED BY <1>1, <1>2

LEMMA OutsideStepQuiet ==
    ASSUME TypeInv, UNCHANGED <<workerVars, run, runTtl>>,
           \/ UNCHANGED stream
           \/ \E j \in Job : stream' = Append(stream, j),
           events \subseteq events',
           \A k \in Slots :
              <<"completed", k>> \in events' => <<"completed", k>> \in events
    PROVE  Quiet
<1>1. \A v \in Workers : SlotOf(v)' = SlotOf(v)
  BY StreamGrows DEF workerVars
<1> QED BY <1>1 DEF Quiet, Holds, workerVars

LEMMA ProducerStepQuiet ==
    ASSUME TypeInv, NEW p \in Producers, ProducerStep(p)
    PROVE  Quiet
<1>1. UNCHANGED <<workerVars, run, runTtl>>
  BY DEF ProducerStep, PollDue, MarkSlot, SetEnqueueMarker, EnqueueMarkerExists,
         EnqueueJob, EnqueueFails, XAdd, UndoMark, DeleteMarker, ProducerCrash,
         redisVars
<1>2. UNCHANGED stream \/ \E j \in Job : stream' = Append(stream, j)
  BY DEF ProducerStep, PollDue, MarkSlot, SetEnqueueMarker, EnqueueMarkerExists,
         EnqueueJob, EnqueueFails, XAdd, UndoMark, DeleteMarker, ProducerCrash,
         redisVars, TypeInv, TypeOK, ProducerTypeOK
<1>3. /\ events \subseteq events'
      /\ \A k \in Slots :
            <<"completed", k>> \in events' => <<"completed", k>> \in events
  BY DEF ProducerStep, PollDue, MarkSlot, EnqueueJob, EnqueueFails, UndoMark,
         ProducerCrash, observers
<1> QED BY <1>1, <1>2, <1>3, OutsideStepQuiet

\* A worker that exits loses what it holds, and that is recorded.
LEMMA ExitQuiet ==
    ASSUME TypeInv, NEW w \in Workers, Exit(w), UNCHANGED <<stream, run, runTtl>>,
           \/ UNCHANGED events /\ token[w] = "none"
           \/ events' = events \cup Abandons(w)
    PROVE  Quiet
<1> USE DEF TypeInv, TypeOK
<1>1. \A v \in Workers \ {w} : SlotOf(v)' = SlotOf(v)
  BY DEF SlotOf, Exit, WorkerTypeOK
<1>2. /\ token'[w] = "none"
      /\ \A v \in Workers \ {w} : /\ pc'[v] = pc[v] /\ token'[v] = token[v]
                                  /\ age'[v] = age[v]
  BY DEF Exit, WorkerTypeOK
<1>3. \A k \in Slots : Holds(w, k) => <<"abandoned", k>> \in events'
  BY DEF Abandons, Holds
<1>4. /\ events \subseteq events'
      /\ \A k \in Slots :
            <<"completed", k>> \in events' => <<"completed", k>> \in events
  BY DEF Abandons
<1> QED BY <1>1, <1>2, <1>3, <1>4 DEF Quiet, Holds

\* A step that moves w without changing job, token or age, into or within the
\* part of _consume_job that executes under the claim, or without one.
LEMMA MoveQuiet ==
    ASSUME TypeInv, NEW w \in Workers, NEW where,
           pc' = [pc EXCEPT ![w] = where],
           UNCHANGED <<stream, run, runTtl, job, token, age, events>>,
           \/ token[w] = "none"
           \/ /\ pc[w] \in {"trigger", "attempt"}
              /\ where \in {"trigger", "attempt", "complete"}
    PROVE  Quiet
<1>1. \A v \in Workers : SlotOf(v)' = SlotOf(v)
  BY SlotKept
<1> QED BY <1>1 DEF Quiet, Holds, TypeInv, TypeOK, WorkerTypeOK

LEMMA ConsumeQuiet ==
    ASSUME TypeInv, NEW w \in Workers, NEW e, pc[w] \in {"receive", "read"},
           Consume(w, e), UNCHANGED <<stream, run, runTtl, events>>
    PROVE  Quiet
<1> USE DEF TypeInv, TypeOK
<1>1. token[w] = "none"
  BY DEF WorkerInv
<1>2. CASE stream[e].version # version[w]
  BY <1>1, <1>2, ExitQuiet DEF Consume
<1>3. CASE stream[e].version = version[w]
  <2>1. \A v \in Workers \ {w} : SlotOf(v)' = SlotOf(v) /\ pc'[v] = pc[v]
    BY <1>3 DEF SlotOf, Consume, WorkerTypeOK
  <2>2. UNCHANGED <<token, age>>
    BY <1>3 DEF Consume
  <2> QED BY <1>1, <2>1, <2>2 DEF Quiet, Holds
<1> QED BY <1>2, <1>3

\* claim_run's SET NX, granted.
Granted(w, t) ==
    /\ pc[w] = "set"
    /\ t \in Tokens \ UsedTokens
    /\ SetRunClaim(SlotOf(w), t)
    /\ token' = [token EXCEPT ![w] = t]
    /\ pc' = [pc EXCEPT ![w] = "trigger"]
    /\ UNCHANGED <<stream, job, age, events>>

LEMMA WorkerStepCases ==
    ASSUME TypeInv, NEW w \in Workers, WorkerStep(w)
    PROVE  Quiet \/ (\E t \in Tokens : Granted(w, t)) \/ CompleteRun(w)
<1> USE DEF TypeInv, TypeOK
<1>1. CASE ClaimAbandoned(w)
  <2>1. UNCHANGED <<stream, run, runTtl, events>> /\ pc[w] = "receive"
    BY <1>1 DEF ClaimAbandoned, XAutoClaim, redisVars, observers
  <2>2. CASE \E e \in Claimable : Consume(w, e)
    BY <2>1, <2>2, ConsumeQuiet
  <2>3. CASE WorkerTo(w, "read")
    BY <2>1, <2>3, MoveQuiet DEF WorkerTo, WorkerInv
  <2> QED BY <1>1, <2>2, <2>3 DEF ClaimAbandoned
<1>2. CASE ReadGroup(w)
  <2>1. UNCHANGED <<stream, run, runTtl, events>> /\ pc[w] = "read"
    BY <1>2 DEF ReadGroup, XReadGroup, redisVars, observers
  <2>2. CASE Consume(w, delivered + 1)
    BY <2>1, <2>2, ConsumeQuiet
  <2>3. CASE WorkerTo(w, "receive")
    BY <2>1, <2>3, MoveQuiet DEF WorkerTo, WorkerInv
  <2> QED BY <1>2, <2>2, <2>3 DEF ReadGroup
<1>3. CASE ClaimRunGet(w)
  <2>1. UNCHANGED <<stream, run, runTtl, events>> /\ token[w] = "none"
    BY <1>3 DEF ClaimRunGet, redisVars, observers, WorkerInv
  <2>2. \E where : /\ pc' = [pc EXCEPT ![w] = where]
                  /\ UNCHANGED <<job, token, age>>
    BY <1>3 DEF ClaimRunGet, WorkerTo, Deduplicate
  <2> QED BY <2>1, <2>2, MoveQuiet
<1>4. CASE ClaimRunSet(w)
  <2>1. UNCHANGED <<stream, events>> /\ token[w] = "none" /\ pc[w] = "set"
    BY <1>4 DEF ClaimRunSet, SetRunClaim, redisVars, observers, WorkerInv
  <2>2. CASE Deduplicate(w) /\ UNCHANGED redisVars
    BY <2>1, <2>2, MoveQuiet DEF Deduplicate, redisVars
  <2>3. ASSUME NEW t \in Tokens \ UsedTokens,
               SetRunClaim(SlotOf(w), t),
               token' = [token EXCEPT ![w] = t],
               pc' = [pc EXCEPT ![w] = "trigger"],
               UNCHANGED <<job, age>>
        PROVE  Granted(w, t)
    BY <2>1, <2>3 DEF Granted
  <2> QED BY <1>4, <2>2, <2>3 DEF ClaimRunSet
<1>5. CASE Trigger(w)
  <2>1. UNCHANGED <<stream, run, runTtl, events>> /\ pc[w] = "trigger"
    BY <1>5 DEF Trigger, redisVars, observers
  <2>2. \/ WorkerTo(w, "attempt")
        \/ \E st : Record(w, st)
    BY <1>5 DEF Trigger
  <2>3. PICK where : /\ pc' = [pc EXCEPT ![w] = where]
                     /\ where \in {"attempt", "complete"} \/ token[w] = "none"
                     /\ UNCHANGED <<job, token, age>>
    BY <2>2 DEF WorkerTo, Record
  <2> QED BY <2>1, <2>3, MoveQuiet
<1>6. CASE AttemptSucceeds(w)
  <2>1. UNCHANGED <<stream, run, runTtl, events>> /\ pc[w] = "attempt"
    BY <1>6 DEF AttemptSucceeds, redisVars
  <2>2. /\ pc' = [pc EXCEPT ![w] = "complete"]
        /\ UNCHANGED <<job, token, age>>
    BY <1>6 DEF AttemptSucceeds, Record, WorkerInv
  <2> QED BY <2>1, <2>2, MoveQuiet
<1>7. CASE AttemptFails(w)
  <2>1. UNCHANGED <<stream, run, runTtl, events>> /\ pc[w] = "attempt"
    BY <1>7 DEF AttemptFails, redisVars, observers
  <2>2. \/ pc' = [pc EXCEPT ![w] = "complete"] /\ UNCHANGED <<job, token, age>>
        \/ UNCHANGED <<pc, job, token, age>>
    BY <1>7 DEF AttemptFails, Record, WorkerInv
  <2>3. pc = [pc EXCEPT ![w] = "attempt"]
    BY <2>1 DEF WorkerTypeOK
  <2>4. \E where \in {"attempt", "complete"} :
           pc' = [pc EXCEPT ![w] = where] /\ UNCHANGED <<job, token, age>>
    BY <2>2, <2>3
  <2> QED BY <2>1, <2>4, MoveQuiet
<1>8. CASE CompleteRun(w)
  BY <1>8
<1>9. CASE CompleteRunLost(w)
  BY <1>9, ExitQuiet DEF CompleteRunLost, redisVars
<1>10. CASE Ack(w)
  <2>1. UNCHANGED <<stream, run, runTtl, events>> /\ token[w] = "none"
    BY <1>10 DEF Ack, XAck, observers, WorkerInv
  <2>2. CASE Exit(w)
    BY <2>1, <2>2, ExitQuiet
  <2>3. CASE /\ pc' = [pc EXCEPT ![w] = "receive"]
             /\ job' = [job EXCEPT ![w] = 0]
             /\ UNCHANGED <<token, age>>
    <3>1. \A v \in Workers \ {w} : SlotOf(v)' = SlotOf(v) /\ pc'[v] = pc[v]
      BY <2>1, <2>3 DEF SlotOf, WorkerTypeOK
    <3> QED BY <2>1, <2>3, <3>1 DEF Quiet, Holds
  <2> QED BY <1>10, <2>2, <2>3 DEF Ack
<1>11. CASE Restart(w)
  <2>1. UNCHANGED <<stream, run, runTtl, events>> /\ token[w] = "none"
    BY <1>11 DEF Restart, redisVars, observers, WorkerInv
  <2> QED BY <1>11, <2>1, MoveQuiet DEF Restart
<1> QED BY <1>1, <1>2, <1>3, <1>4, <1>5, <1>6, <1>7, <1>8, <1>9, <1>10, <1>11
        DEF WorkerStep

LEMMA StepCases ==
    ASSUME TypeInv, [Next]_vars
    PROVE  \/ Quiet
           \/ \E w \in Workers, t \in Tokens : Granted(w, t)
           \/ \E w \in Workers : CompleteRun(w)
           \/ Tick
<1>1. ASSUME NEW p \in Producers, ProducerStep(p) PROVE Quiet
  BY <1>1, ProducerStepQuiet
<1>2. CASE ManualEnqueue
  <2>1. \E j \in Job : stream' = Append(stream, j)
    <3>1. PICK k \in 0..NumSlots, x \in BOOLEAN, l \in {FALSE, HasExpiry} :
            XAdd([slot |-> k, late |-> l, exact |-> x,
                  version |-> deployed, source |-> "manual"])
      BY <1>2, DefinitionAssumption DEF ManualEnqueue, Exactness
    <3>2. [slot |-> k, late |-> l, exact |-> x,
           version |-> deployed, source |-> "manual"] \in Job
      BY DefinitionAssumption DEF Job, WorldTypeOK, TypeInv, TypeOK
    <3> QED BY <3>1, <3>2 DEF XAdd
  <2>2. UNCHANGED <<workerVars, run, runTtl, events>>
    BY <1>2 DEF ManualEnqueue, XAdd, observers
  <2> QED BY <2>1, <2>2, OutsideStepQuiet
<1>3. ASSUME NEW w \in Workers, WorkerStep(w)
      PROVE  Quiet \/ (\E t \in Tokens : Granted(w, t)) \/ CompleteRun(w)
  BY <1>3, WorkerStepCases
<1>4. ASSUME NEW w \in Workers, Crash(w) PROVE Quiet
  BY <1>4, ExitQuiet DEF Crash, redisVars
<1>5. CASE SlotBecomesDue \/ ScheduleExpires \/ Deploy \/ UNCHANGED vars
  <2>1. UNCHANGED <<workerVars, redisVars, events>>
    BY <1>5 DEF SlotBecomesDue, ScheduleExpires, Deploy, vars, observers
  <2> QED BY <2>1, OutsideStepQuiet DEF redisVars
<1> QED BY <1>1, <1>2, <1>3, <1>4, <1>5 DEF Next, ProcessStep

-----------------------------------------------------------------------------
(***************************************************************************)
(* The lease.  LeaseRespected is not inductive: that two live holders      *)
(* cannot exist rests on the run key, so the invariant has to say what the *)
(* key holds while a lease lasts (LeaseInv), and that tokens tell holders  *)
(* apart (TokensDistinct).                                                 *)
(***************************************************************************)
LEMMA InitServiceInv == Init => ServiceInv
<1> SUFFICES ASSUME Init PROVE ServiceInv
  OBVIOUS
<1>1. TypeInv
  BY InitTypeInv
<1>2. TokensDistinct /\ LeaseInv
  BY DEF Init, TokensDistinct, LeaseInv, Holds
<1> QED BY <1>1, <1>2 DEF ServiceInv, TypeInv

\* A claim is granted only where no live holder is, with a token nobody has.
LEMMA GrantedLease ==
    ASSUME ServiceInv, NEW w \in Workers, NEW t \in Tokens, Granted(w, t)
    PROVE  TokensDistinct' /\ LeaseInv'
<1> USE DEF ServiceInv, TypeOK
<1>1. \A v \in Workers : SlotOf(v)' = SlotOf(v)
  BY SlotKept DEF Granted
<1>2. t # "none" /\ \A v \in Workers : token[v] # t
  BY TokensAssumption DEF Granted, UsedTokens
<1>3. \A k \in Slots : run[k] # t
  BY DEF Granted, UsedTokens
<1>4. TokensDistinct'
  BY <1>2 DEF Granted, TokensDistinct, WorkerTypeOK
<1>5. token[w] = "none" /\ age[w] = 0
  BY DEF Granted, WorkerInv
<1>6. ASSUME NEW v \in Workers, NEW k \in Slots, Holds(v, k)'
      PROVE  IF age'[v] < Lease
             THEN run'[k] = token'[v] /\ runTtl'[k] = Lease - age'[v]
             ELSE run'[k] # token'[v]
  <2>1. age' = age /\ age[v] \in 0..Lease
    BY DEF Granted, WorkerTypeOK
  <2>2. run[SlotOf(w)] = "none"
    BY DEF Granted, SetRunClaim
  <2>3. CASE v = w
    <3>1. k = SlotOf(w) /\ token'[w] = t
      BY <1>1, <1>6, <2>3 DEF Holds, Granted, WorkerTypeOK
    <3>2. run'[k] = t /\ runTtl'[k] = Lease
      BY <3>1 DEF Granted, SetRunClaim, RedisTypeOK
    <3> QED BY <1>5, <2>1, <2>3, <3>1, <3>2, TimesAssumption
  <2>4. CASE v # w
    <3>1. Holds(v, k) /\ token'[v] = token[v]
      BY <1>1, <1>6, <2>4 DEF Holds, Granted, WorkerTypeOK
    <3>2. token[v] # "none"
      BY <3>1 DEF Holds
    <3>3. CASE age[v] < Lease
      <4>1. run[k] = token[v] /\ runTtl[k] = Lease - age[v]
        BY <3>1, <3>3 DEF LeaseInv
      <4>2. k # SlotOf(w)
        BY <2>2, <3>2, <4>1
      <4>3. run'[k] = run[k] /\ runTtl'[k] = runTtl[k]
        BY <4>2 DEF Granted, SetRunClaim, RedisTypeOK
      <4> QED BY <2>1, <3>1, <3>3, <4>1, <4>3
    <3>4. CASE ~(age[v] < Lease)
      <4>1. run[k] # token[v]
        BY <3>1, <3>4 DEF LeaseInv
      <4>2. run'[k] = run[k] \/ run'[k] = t
        BY DEF Granted, SetRunClaim, RedisTypeOK
      <4> QED BY <1>2, <2>1, <3>1, <3>4, <4>1, <4>2
    <3> QED BY <3>3, <3>4
  <2> QED BY <2>3, <2>4
<1> QED BY <1>4, <1>6 DEF LeaseInv

\* complete_run succeeds only for a live holder, which then holds no more.
LEMMA CompletedLease ==
    ASSUME ServiceInv, NEW w \in Workers, CompleteRun(w)
    PROVE  /\ TokensDistinct' /\ LeaseInv'
           /\ SlotOf(w) \in Slots /\ HoldsLive(w, SlotOf(w))
<1> USE DEF ServiceInv, TypeOK
<1>1. token[w] # "none" /\ SlotOf(w) # 0 /\ job[w] # 0 /\ pc[w] = "complete"
  BY DEF CompleteRun, WorkerInv
<1>2. SlotOf(w) \in Slots
  BY <1>1, JobOfWorker, BoundsAssumption DEF Slots
<1>3. Holds(w, SlotOf(w)) /\ run[SlotOf(w)] = token[w]
  BY <1>1 DEF CompleteRun, SetRunCompleted, Holds
<1>4. age[w] < Lease
  BY <1>2, <1>3 DEF LeaseInv
<1>5. UNCHANGED <<stream, job>>
  BY DEF CompleteRun, SetRunCompleted
<1>6. \A v \in Workers : SlotOf(v)' = SlotOf(v)
  BY <1>5, SlotKept
<1>7. token'[w] = "none" /\ \A v \in Workers \ {w} :
          token'[v] = token[v] /\ pc'[v] = pc[v] /\ age'[v] = age[v]
  BY DEF CompleteRun, WorkerTypeOK
<1>8. TokensDistinct'
  BY <1>7 DEF TokensDistinct
<1>9. ASSUME NEW v \in Workers, NEW k \in Slots, Holds(v, k)'
      PROVE  IF age'[v] < Lease
             THEN run'[k] = token'[v] /\ runTtl'[k] = Lease - age'[v]
             ELSE run'[k] # token'[v]
  <2>1. v # w
    BY <1>7, <1>9 DEF Holds
  <2>2. Holds(v, k) /\ token'[v] = token[v] /\ age'[v] = age[v]
    BY <1>6, <1>7, <1>9, <2>1 DEF Holds
  <2>3. token[v] # token[w] /\ token[v] # "none" /\ token[v] # "completed"
    BY <2>1, <2>2, TokensAssumption DEF TokensDistinct, Holds, WorkerTypeOK
  <2>4. CASE k = SlotOf(w)
    <3>1. ~(age[v] < Lease)
      BY <1>3, <2>2, <2>3, <2>4 DEF LeaseInv
    <3>2. run'[k] = "completed"
      BY <2>4 DEF CompleteRun, SetRunCompleted, RedisTypeOK
    <3> QED BY <2>2, <2>3, <3>1, <3>2
  <2>5. CASE k # SlotOf(w)
    <3>1. run'[k] = run[k] /\ runTtl'[k] = runTtl[k]
      BY <2>5 DEF CompleteRun, SetRunCompleted, RedisTypeOK
    <3> QED BY <2>2, <3>1 DEF LeaseInv
  <2> QED BY <2>4, <2>5
<1>10. LeaseInv'
  BY <1>9 DEF LeaseInv
<1> QED BY <1>2, <1>3, <1>4, <1>8, <1>10 DEF HoldsLive

\* A tick takes one from the TTL of a live holder's key as its age grows by
\* one: the key disappears in the very tick in which the lease ends.
LEMMA TickLease ==
    ASSUME ServiceInv, Tick
    PROVE  TokensDistinct' /\ LeaseInv'
<1> USE DEF ServiceInv, TypeOK
<1>1. UNCHANGED <<stream, job, token, pc>>
  BY DEF Tick, RedisTick
<1>2. \A v \in Workers : SlotOf(v)' = SlotOf(v)
  BY <1>1, SlotKept
<1>3. TokensDistinct'
  BY <1>1 DEF TokensDistinct
<1>4. ASSUME NEW v \in Workers, NEW k \in Slots, Holds(v, k)'
      PROVE  IF age'[v] < Lease
             THEN run'[k] = token'[v] /\ runTtl'[k] = Lease - age'[v]
             ELSE run'[k] # token'[v]
  <2>1. Holds(v, k) /\ token'[v] = token[v] /\ token[v] # "none"
    BY <1>1, <1>2, <1>4 DEF Holds
  <2>2. age[v] \in 0..Lease /\ runTtl[k] \in Nat /\ Lease \in Nat
    BY TimesAssumption DEF WorkerTypeOK, RedisTypeOK
  <2>3. age'[v] = IF age[v] < Lease THEN age[v] + 1 ELSE age[v]
    BY <2>1 DEF Tick
  <2>4. /\ runTtl'[k] = IF runTtl[k] > 0 THEN runTtl[k] - 1 ELSE 0
        /\ run'[k] = IF runTtl[k] > 1 THEN run[k] ELSE "none"
    BY DEF Tick, RedisTick
  <2>5. CASE age[v] < Lease
    <3>1. run[k] = token[v] /\ runTtl[k] = Lease - age[v]
      BY <2>1, <2>5 DEF LeaseInv
    <3> QED BY <2>1, <2>2, <2>3, <2>4, <2>5, <3>1
  <2>6. CASE ~(age[v] < Lease)
    <3>1. run[k] # token[v]
      BY <2>1, <2>6 DEF LeaseInv
    <3> QED BY <2>1, <2>2, <2>3, <2>4, <2>6, <3>1
  <2> QED BY <2>5, <2>6
<1> QED BY <1>3, <1>4 DEF LeaseInv

LEMMA StepServiceInv == ServiceInv /\ [Next]_vars => ServiceInv'
<1> SUFFICES ASSUME ServiceInv, [Next]_vars PROVE ServiceInv'
  OBVIOUS
<1>1. TypeInv /\ TypeInv'
  BY StepTypeInv DEF ServiceInv, TypeInv
<1>2. ASSUME Quiet PROVE TokensDistinct' /\ LeaseInv'
  BY <1>2 DEF Quiet, ServiceInv, TokensDistinct, LeaseInv
<1>3. TokensDistinct' /\ LeaseInv'
  BY <1>1, <1>2, StepCases, GrantedLease, CompletedLease, TickLease
<1> QED BY <1>1, <1>3 DEF ServiceInv, TypeInv

(***************************************************************************)
(* Two workers execute one slot together only if the lease of one of them  *)
(* has run out.                                                            *)
(***************************************************************************)
THEOREM LeaseMutualExclusion == Spec => []LeaseRespected
<1>1. ServiceInv => LeaseRespected
  <2> SUFFICES ASSUME ServiceInv, NEW v \in Workers, NEW w \in Workers,
                      NEW k \in Slots, v # w, Holds(v, k), Holds(w, k),
                      age[v] # Lease, age[w] # Lease
               PROVE  FALSE
    BY DEF LeaseRespected
  <2>1. age[v] < Lease /\ age[w] < Lease
    BY TimesAssumption DEF ServiceInv, TypeOK, WorkerTypeOK
  <2>2. run[k] = token[v] /\ run[k] = token[w]
    BY <2>1 DEF ServiceInv, LeaseInv
  <2> QED BY <2>2 DEF ServiceInv, TokensDistinct, Holds
<1> QED BY <1>1, InitServiceInv, StepServiceInv, PTL DEF Spec

-----------------------------------------------------------------------------
(***************************************************************************)
(* Acknowledged jobs.  A worker decides to acknowledge only when it has    *)
(* seen a run key (its own or somebody else's) or had no slot to run; a    *)
(* run key is evidence of a holder, and what a holder leaves behind is a   *)
(* completion or an abandoned claim.                                       *)
(***************************************************************************)
AckDecisions ==
    \A v \in Workers : pc'[v] = "ack" /\ SlotOf(v)' # 0 =>
        \/ pc[v] = "ack" /\ SlotOf(v)' = SlotOf(v)
        \/ SlotOf(v)' \in Slots /\ run[SlotOf(v)'] # "none"

AckOrigins ==
    \A e \in Acked' :
        /\ stream'[e] = stream[e]
        /\ \/ e \in Acked
           \/ \E w \in Workers : pc[w] = "ack" /\ job[w] = e

\* No other step than Ack takes an entry out of the pending list.
LEMMA PendingKept ==
    ASSUME TypeInv,
           \/ UNCHANGED stream
           \/ \E j \in Job : stream' = Append(stream, j),
           \/ UNCHANGED <<delivered, pel>>
           \/ delivered' = delivered + 1 /\ pel' = pel \cup {delivered + 1}
    PROVE  AckOrigins
<1> USE DEF TypeInv, TypeOK, RedisTypeOK
<1>1. \A e \in 1..Len(stream) : stream'[e] = stream[e]
  BY AppendKeepsJobs
<1>2. Acked' \subseteq Acked /\ Acked \subseteq 1..Len(stream)
  BY DEF Acked
<1> QED BY <1>1, <1>2 DEF AckOrigins

LEMMA OutsideAck ==
    ASSUME TypeInv, UNCHANGED <<pc, job, delivered, pel>>,
           \/ UNCHANGED stream
           \/ \E j \in Job : stream' = Append(stream, j)
    PROVE  AckDecisions /\ AckOrigins
<1>1. \A v \in Workers : SlotOf(v)' = SlotOf(v)
  BY StreamGrows
<1> QED BY <1>1, PendingKept DEF AckDecisions

LEMMA ExitAck ==
    ASSUME TypeInv, NEW w \in Workers, Exit(w), UNCHANGED stream
    PROVE  AckDecisions
<1>1. \A v \in Workers \ {w} : SlotOf(v)' = SlotOf(v) /\ pc'[v] = pc[v]
  BY DEF SlotOf, Exit, TypeInv, TypeOK, WorkerTypeOK
<1>2. pc'[w] = "exited"
  BY DEF Exit, TypeInv, TypeOK, WorkerTypeOK
<1> QED BY <1>1, <1>2 DEF AckDecisions

LEMMA ConsumeAck ==
    ASSUME TypeInv, NEW w \in Workers, NEW e, Consume(w, e), UNCHANGED stream
    PROVE  AckDecisions
<1>1. CASE stream[e].version # version[w]
  BY <1>1, ExitAck DEF Consume
<1>2. CASE stream[e].version = version[w]
  <2>1. \A v \in Workers \ {w} : SlotOf(v)' = SlotOf(v) /\ pc'[v] = pc[v]
    BY <1>2 DEF SlotOf, Consume, TypeInv, TypeOK, WorkerTypeOK
  <2>2. pc'[w] # "ack"
    BY <1>2 DEF Consume, TypeInv, TypeOK, WorkerTypeOK
  <2> QED BY <2>1, <2>2 DEF AckDecisions
<1> QED BY <1>1, <1>2

\* w goes where it goes; to "ack" only with a run key in sight or no slot.
LEMMA MoveAck ==
    ASSUME TypeInv, NEW w \in Workers, NEW where,
           pc' = [pc EXCEPT ![w] = where], UNCHANGED <<stream, job>>,
           \/ where # "ack"
           \/ SlotOf(w) = 0
           \/ SlotOf(w) \in Slots /\ run[SlotOf(w)] # "none"
    PROVE  AckDecisions
<1>1. \A v \in Workers : SlotOf(v)' = SlotOf(v)
  BY SlotKept
<1> QED BY <1>1 DEF AckDecisions, TypeInv, TypeOK, WorkerTypeOK

\* A worker that is to claim, or has claimed, has a slot.
LEMMA SlotInRange ==
    ASSUME TypeInv, NEW w \in Workers,
           token[w] # "none" \/ pc[w] \in {"claim", "set"}
    PROVE  SlotOf(w) \in Slots
<1>1. SlotOf(w) # 0 /\ job[w] # 0
  BY DEF TypeInv, WorkerInv
<1> QED BY <1>1, JobOfWorker, BoundsAssumption DEF TypeInv, Slots

LEMMA WorkerStepAck ==
    ASSUME TypeInv, NEW w \in Workers, WorkerStep(w)
    PROVE  AckDecisions /\ AckOrigins
<1> USE DEF TypeInv, TypeOK
<1>a. UNCHANGED stream
  BY WorkerStepType
<1>1. CASE ClaimAbandoned(w)
  <2>1. UNCHANGED <<delivered, pel>>
    BY <1>1 DEF ClaimAbandoned, XAutoClaim, redisVars
  <2>2. AckDecisions
    BY <1>1, <1>a, ConsumeAck, MoveAck DEF ClaimAbandoned, WorkerTo
  <2> QED BY <1>a, <2>1, <2>2, PendingKept
<1>2. CASE ReadGroup(w)
  <2>1. \/ UNCHANGED <<delivered, pel>>
        \/ delivered' = delivered + 1 /\ pel' = pel \cup {delivered + 1}
    BY <1>2 DEF ReadGroup, XReadGroup, redisVars
  <2>2. AckDecisions
    BY <1>2, <1>a, ConsumeAck, MoveAck DEF ReadGroup, WorkerTo
  <2> QED BY <1>a, <2>1, <2>2, PendingKept
<1>3. CASE ClaimRunGet(w)
  <2>1. UNCHANGED <<delivered, pel>>
    BY <1>3 DEF ClaimRunGet, redisVars
  <2>2. SlotOf(w) \in Slots
    BY <1>3, SlotInRange DEF ClaimRunGet
  <2>3. CASE run[SlotOf(w)] = "none"
    BY <1>3, <1>a, <2>1, <2>3, MoveAck, PendingKept DEF ClaimRunGet, WorkerTo
  <2>4. CASE run[SlotOf(w)] # "none"
    BY <1>3, <1>a, <2>1, <2>2, <2>4, MoveAck, PendingKept
    DEF ClaimRunGet, Deduplicate
  <2> QED BY <2>3, <2>4
<1>4. CASE ClaimRunSet(w)
  <2>1. UNCHANGED <<delivered, pel>>
    BY <1>4 DEF ClaimRunSet, SetRunClaim, redisVars
  <2>2. SlotOf(w) \in Slots
    BY <1>4, SlotInRange DEF ClaimRunSet
  <2>3. CASE run[SlotOf(w)] # "none" /\ Deduplicate(w)
    BY <1>a, <2>1, <2>2, <2>3, MoveAck, PendingKept DEF Deduplicate
  <2>4. CASE pc' = [pc EXCEPT ![w] = "trigger"] /\ UNCHANGED job
    BY <1>a, <2>1, <2>4, MoveAck, PendingKept
  <2> QED BY <1>4, <2>3, <2>4 DEF ClaimRunSet
<1>5. CASE Trigger(w)
  <2>1. UNCHANGED <<delivered, pel>>
    BY <1>5 DEF Trigger, redisVars
  <2>2. PICK where : /\ pc' = [pc EXCEPT ![w] = where]
                     /\ where = "ack" => token[w] = "none"
                     /\ UNCHANGED job
    BY <1>5 DEF Trigger, WorkerTo, Record
  <2>3. where = "ack" => SlotOf(w) = 0
    BY <1>5, <2>2 DEF Trigger, WorkerInv
  <2> QED BY <1>a, <2>1, <2>2, <2>3, MoveAck, PendingKept
<1>6. CASE AttemptSucceeds(w)
  <2>1. UNCHANGED <<delivered, pel>>
    BY <1>6 DEF AttemptSucceeds, redisVars
  <2>2. pc' = [pc EXCEPT ![w] = "complete"] /\ UNCHANGED job
    BY <1>6 DEF AttemptSucceeds, Record, WorkerInv
  <2> QED BY <1>a, <2>1, <2>2, MoveAck, PendingKept
<1>7. CASE AttemptFails(w)
  <2>1. UNCHANGED <<delivered, pel>>
    BY <1>7 DEF AttemptFails, redisVars
  <2>2. CASE pc' = [pc EXCEPT ![w] = "complete"] /\ UNCHANGED job
    BY <1>a, <2>1, <2>2, MoveAck, PendingKept
  <2>3. CASE UNCHANGED <<pc, job>>
    BY <1>a, <2>1, <2>3, OutsideAck
  <2> QED BY <1>7, <2>2, <2>3 DEF AttemptFails, Record, WorkerInv
<1>8. CASE CompleteRun(w)
  <2>1. UNCHANGED <<delivered, pel>>
    BY <1>8 DEF CompleteRun, SetRunCompleted
  <2>2. token[w] # "none"
    BY <1>8 DEF CompleteRun, WorkerInv
  <2>3. SlotOf(w) \in Slots /\ run[SlotOf(w)] # "none"
    BY <1>8, <2>2, SlotInRange DEF CompleteRun, SetRunCompleted
  <2> QED BY <1>8, <1>a, <2>1, <2>3, MoveAck, PendingKept DEF CompleteRun
<1>9. CASE CompleteRunLost(w)
  BY <1>9, <1>a, ExitAck, PendingKept DEF CompleteRunLost, redisVars
<1>10. CASE Ack(w)
  <2>1. AckDecisions
    <3>1. CASE Exit(w)
      BY <1>a, <3>1, ExitAck
    <3>2. CASE /\ pc' = [pc EXCEPT ![w] = "receive"]
               /\ job' = [job EXCEPT ![w] = 0]
      <4>1. \A v \in Workers \ {w} : SlotOf(v)' = SlotOf(v) /\ pc'[v] = pc[v]
        BY <1>a, <3>2 DEF SlotOf, WorkerTypeOK
      <4>2. pc'[w] # "ack"
        BY <3>2 DEF WorkerTypeOK
      <4> QED BY <4>1, <4>2 DEF AckDecisions
    <3> QED BY <1>10, <3>1, <3>2 DEF Ack
  <2>2. AckOrigins
    <3>1. Acked' \subseteq Acked \cup {job[w]}
      BY <1>10 DEF Ack, XAck, Acked
    <3> QED BY <1>10, <1>a, <3>1 DEF Ack, AckOrigins
  <2> QED BY <2>1, <2>2
<1>11. CASE Restart(w)
  <2>1. UNCHANGED <<delivered, pel>>
    BY <1>11 DEF Restart, redisVars
  <2> QED BY <1>11, <1>a, <2>1, MoveAck, PendingKept DEF Restart
<1> QED BY <1>1, <1>2, <1>3, <1>4, <1>5, <1>6, <1>7, <1>8, <1>9, <1>10, <1>11
        DEF WorkerStep

LEMMA StepAck ==
    ASSUME TypeInv, [Next]_vars
    PROVE  AckDecisions /\ AckOrigins
<1>1. ASSUME NEW p \in Producers, ProducerStep(p) PROVE AckDecisions /\ AckOrigins
  <2>1. UNCHANGED <<pc, job, delivered, pel>>
    BY <1>1 DEF ProducerStep, PollDue, MarkSlot, SetEnqueueMarker,
       EnqueueMarkerExists, EnqueueJob, EnqueueFails, XAdd, UndoMark,
       DeleteMarker, ProducerCrash, redisVars, workerVars
  <2>2. UNCHANGED stream \/ \E j \in Job : stream' = Append(stream, j)
    BY <1>1 DEF ProducerStep, PollDue, MarkSlot, SetEnqueueMarker,
       EnqueueMarkerExists, EnqueueJob, EnqueueFails, XAdd, UndoMark,
       DeleteMarker, ProducerCrash, redisVars, TypeInv, TypeOK, ProducerTypeOK
  <2> QED BY <2>1, <2>2, OutsideAck
<1>2. CASE ManualEnqueue
  <2>1. PICK k \in 0..NumSlots, x \in BOOLEAN, l \in {FALSE, HasExpiry} :
          XAdd([slot |-> k, late |-> l, exact |-> x,
                version |-> deployed, source |-> "manual"])
    BY <1>2, DefinitionAssumption DEF ManualEnqueue, Exactness
  <2>2. [slot |-> k, late |-> l, exact |-> x,
         version |-> deployed, source |-> "manual"] \in Job
    BY DefinitionAssumption DEF Job, WorldTypeOK, TypeInv, TypeOK
  <2>3. UNCHANGED <<pc, job, delivered, pel>>
    BY <1>2 DEF ManualEnqueue, XAdd, workerVars
  <2> QED BY <2>1, <2>2, <2>3, OutsideAck DEF XAdd
<1>3. ASSUME NEW w \in Workers, WorkerStep(w) PROVE AckDecisions /\ AckOrigins
  BY <1>3, WorkerStepAck
<1>4. ASSUME NEW w \in Workers, Crash(w) PROVE AckDecisions /\ AckOrigins
  BY <1>4, ExitAck, PendingKept DEF Crash, redisVars
<1>5. CASE SlotBecomesDue \/ ScheduleExpires \/ Deploy \/ UNCHANGED vars
  <2>1. UNCHANGED <<workerVars, redisVars>>
    BY <1>5 DEF SlotBecomesDue, ScheduleExpires, Deploy, vars
  <2> QED BY <2>1, OutsideAck DEF redisVars, workerVars
<1>6. CASE Tick
  BY <1>6, OutsideAck DEF Tick, RedisTick
<1> QED BY <1>1, <1>2, <1>3, <1>4, <1>5, <1>6 DEF Next, ProcessStep

\* Once a slot is covered it stays covered.
LEMMA CoveredStable ==
    ASSUME ServiceInv, [Next]_vars, NEW k \in Slots, Covered(k)
    PROVE  Covered(k)'
<1> USE DEF ServiceInv, TypeOK
<1>0. TypeInv
  BY DEF TypeInv
<1>1. CASE Quiet
  BY <1>1 DEF Quiet, Covered, Happened
<1>2. ASSUME NEW w \in Workers, NEW t \in Tokens, Granted(w, t)
      PROVE  Covered(k)'
  <2>1. \A v \in Workers : SlotOf(v)' = SlotOf(v)
    BY <1>2, SlotKept DEF Granted
  <2>2. token[w] = "none"
    BY <1>2 DEF Granted, WorkerInv
  <2>3. \A v \in Workers : Holds(v, k) => Holds(v, k)'
    BY <1>2, <2>1, <2>2 DEF Granted, Holds, WorkerTypeOK
  <2> QED BY <1>2, <2>3 DEF Granted, Covered, Happened
<1>3. ASSUME NEW w \in Workers, CompleteRun(w) PROVE Covered(k)'
  <2>1. \A v \in Workers : SlotOf(v)' = SlotOf(v)
    BY <1>3, SlotKept DEF CompleteRun, SetRunCompleted
  <2>2. \A v \in Workers \ {w} : Holds(v, k) => Holds(v, k)'
    BY <1>3, <2>1 DEF CompleteRun, Holds, WorkerTypeOK
  <2>3. Holds(w, k) => Happened("completed", k)'
    BY <1>3 DEF CompleteRun, Holds, Happened
  <2>4. events \subseteq events'
    BY <1>3 DEF CompleteRun
  <2> QED BY <2>2, <2>3, <2>4 DEF Covered, Happened
<1>4. CASE Tick
  <2>1. \A v \in Workers : SlotOf(v)' = SlotOf(v)
    BY <1>4, SlotKept DEF Tick, RedisTick
  <2>2. \A v \in Workers : Holds(v, k) => Holds(v, k)'
    BY <1>4, <2>1 DEF Tick, Holds
  <2>3. events \subseteq events'
    BY <1>4 DEF Tick
  <2> QED BY <2>2, <2>3 DEF Covered, Happened
<1> QED BY <1>0, <1>1, <1>2, <1>3, <1>4, StepCases

LEMMA StepCoverInv ==
    ServiceInv /\ CoverInv /\ AckedIsCovered /\ [Next]_vars
        => CoverInv' /\ AckedIsCovered'
<1> SUFFICES ASSUME ServiceInv, CoverInv, AckedIsCovered, [Next]_vars
             PROVE  CoverInv' /\ AckedIsCovered'
  OBVIOUS
<1> USE DEF ServiceInv, TypeOK
<1>0. TypeInv
  BY DEF TypeInv
<1>1. ASSUME NEW k \in Slots, run'[k] # "none" PROVE Covered(k)'
  <2>1. CASE run[k] # "none"
    BY <2>1, CoveredStable DEF CoverInv
  <2>2. CASE run[k] = "none"
    <3>1. ~Quiet /\ ~Tick
      BY <1>1, <2>2 DEF Quiet, Tick, RedisTick
    <3>2. ASSUME NEW w \in Workers, CompleteRun(w) PROVE FALSE
      <4>1. token[w] # "none"
        BY <3>2 DEF CompleteRun, WorkerInv
      <4>2. run'[k] = run[k] \/ k = SlotOf(w)
        BY <3>2 DEF CompleteRun, SetRunCompleted, RedisTypeOK
      <4> QED BY <1>1, <2>2, <3>2, <4>1, <4>2 DEF CompleteRun, SetRunCompleted
    <3>3. PICK w \in Workers, t \in Tokens : Granted(w, t)
      BY <1>0, <3>1, <3>2, StepCases
    <3>4. k = SlotOf(w)
      BY <1>1, <2>2, <3>3 DEF Granted, SetRunClaim, RedisTypeOK
    <3>5. SlotOf(w)' = SlotOf(w)
      BY <3>3, SlotKept DEF Granted
    <3>6. Holds(w, k)'
      BY <3>3, <3>4, <3>5, TokensAssumption DEF Granted, Holds, WorkerTypeOK
    <3> QED BY <3>6 DEF Covered
  <2> QED BY <2>1, <2>2
<1>2. ASSUME NEW w \in Workers, pc'[w] = "ack", SlotOf(w)' # 0
      PROVE  Covered(SlotOf(w))'
  <2>1. CASE pc[w] = "ack" /\ SlotOf(w)' = SlotOf(w)
    <3>1. SlotOf(w) \in Slots
      <4>1. job[w] # 0
        BY <2>1 DEF WorkerInv
      <4> QED BY <1>2, <2>1, <4>1, JobOfWorker, BoundsAssumption DEF Slots
    <3>2. Covered(SlotOf(w))
      BY <1>2, <2>1 DEF CoverInv
    <3>3. ASSUME NEW k \in Slots, k = SlotOf(w) PROVE Covered(k)'
      BY <3>2, <3>3, CoveredStable
    <3>4. ASSUME NEW k \in Slots, k = SlotOf(w)' PROVE Covered(SlotOf(w))'
      BY <2>1, <3>3, <3>4 DEF Covered, Happened
    <3> QED BY <2>1, <3>1, <3>4
  <2>2. CASE SlotOf(w)' \in Slots /\ run[SlotOf(w)'] # "none"
    <3>1. ASSUME NEW k \in Slots, k = SlotOf(w)' PROVE Covered(SlotOf(w))'
      <4>1. Covered(k)'
        BY <2>2, <3>1, CoveredStable DEF CoverInv
      <4> QED BY <3>1, <4>1 DEF Covered, Happened
    <3> QED BY <2>2, <3>1
  <2> QED BY <1>0, <1>2, <2>1, <2>2, StepAck DEF AckDecisions
<1>3. ASSUME NEW e \in Acked', stream'[e].slot # 0
      PROVE  Covered(stream[e].slot)'
  <2>1. stream'[e] = stream[e]
    BY <1>0, <1>3, StepAck DEF AckOrigins
  <2>2. e \in 1..Len(stream)
    <3>1. CASE e \in Acked
      BY <3>1 DEF Acked, RedisTypeOK
    <3>2. ASSUME NEW w \in Workers, pc[w] = "ack", job[w] = e
          PROVE  e \in 1..Len(stream)
      <4>1. job[w] # 0
        BY <3>2 DEF WorkerInv
      <4>2. job[w] \in 0..Len(stream) /\ Len(stream) \in Nat
        BY DEF WorkerTypeOK, RedisTypeOK
      <4> QED BY <3>2, <4>1, <4>2
    <3> QED BY <1>0, <1>3, <3>1, <3>2, StepAck DEF AckOrigins
  <2>3. stream[e].slot \in Slots
    <3>1. stream[e] \in Job
      BY <2>2 DEF RedisTypeOK
    <3> QED BY <1>3, <2>1, <3>1, BoundsAssumption DEF Job, Slots
  <2>4. Covered(stream[e].slot)
    <3>1. CASE e \in Acked
      BY <1>3, <2>1, <3>1 DEF AckedIsCovered
    <3>2. ASSUME NEW w \in Workers, pc[w] = "ack", job[w] = e
          PROVE  Covered(stream[e].slot)
      <4>1. SlotOf(w) = stream[e].slot
        BY <2>2, <3>2, BoundsAssumption DEF SlotOf
      <4> QED BY <1>3, <2>1, <3>2, <4>1 DEF CoverInv
    <3> QED BY <1>0, <1>3, <3>1, <3>2, StepAck DEF AckOrigins
  <2>5. ASSUME NEW k \in Slots, k = stream[e].slot PROVE Covered(stream[e].slot)'
    <3>1. Covered(k)'
      BY <2>4, <2>5, CoveredStable
    <3> QED BY <2>1, <2>5, <3>1 DEF Covered, Happened
  <2> QED BY <2>3, <2>5
<1> QED BY <1>1, <1>2, <1>3 DEF CoverInv, AckedIsCovered

(***************************************************************************)
(* Every acknowledged job is accounted for: its slot was completed, is     *)
(* being executed, or lost its claim holder.                               *)
(***************************************************************************)
THEOREM AckedJobsCovered == Spec => []AckedIsCovered
<1>1. Init => CoverInv /\ AckedIsCovered
  BY DEF Init, RedisInit, CoverInv, AckedIsCovered, Acked
<1> QED BY <1>1, InitServiceInv, StepServiceInv, StepCoverInv, PTL DEF Spec

-----------------------------------------------------------------------------
(***************************************************************************)
(* The service implements the abstract lease.                              *)
(***************************************************************************)
LEMMA LockStep == ServiceInv /\ [Next]_vars => [Lock!Next]_(Lock!vars)
<1> SUFFICES ASSUME ServiceInv, [Next]_vars PROVE [Lock!Next]_(Lock!vars)
  OBVIOUS
<1> USE DEF ServiceInv, TypeOK
<1>0. TypeInv
  BY DEF TypeInv
<1>1. CASE Quiet
  <2>1. \A k \in Slots : \A w \in Workers : HoldsLive(w, k)' => HoldsLive(w, k)
    BY <1>1 DEF Quiet, HoldsLive
  <2>2. {k \in Slots : Happened("completed", k)}'
          = {k \in Slots : Happened("completed", k)}
    BY <1>1 DEF Quiet, Happened
  <2>3. Lock!Lapse
    BY <2>1, <2>2 DEF Lock!Lapse
  <2> QED BY <2>3 DEF Lock!Next
<1>2. ASSUME NEW w \in Workers, NEW t \in Tokens, Granted(w, t)
      PROVE  Lock!Next
  <2>1. \A v \in Workers : SlotOf(v)' = SlotOf(v)
    BY <1>2, SlotKept DEF Granted
  <2>2. SlotOf(w) \in Slots /\ token[w] = "none" /\ age[w] = 0
    BY <1>0, <1>2, SlotInRange DEF Granted, WorkerInv
  <2>3. \A v \in Workers : ~HoldsLive(v, SlotOf(w))
    <3>1. run[SlotOf(w)] = "none"
      BY <1>2 DEF Granted, SetRunClaim
    <3> QED BY <2>2, <3>1 DEF HoldsLive, Holds, LeaseInv
  <2>4. \A v \in Workers, k \in Slots :
           HoldsLive(v, k)' <=> HoldsLive(v, k) \/ (v = w /\ k = SlotOf(w))
    BY <1>2, <2>1, <2>2, TokensAssumption, TimesAssumption
    DEF Granted, HoldsLive, Holds, WorkerTypeOK
  <2>5. {k \in Slots : Happened("completed", k)}'
          = {k \in Slots : Happened("completed", k)}
    BY <1>2 DEF Granted, Happened
  <2>6. Lock!Acquire(w, SlotOf(w))
    BY <2>2, <2>3, <2>4, <2>5 DEF Lock!Acquire
  <2> QED BY <2>2, <2>6 DEF Lock!Next
<1>3. ASSUME NEW w \in Workers, CompleteRun(w) PROVE Lock!Next
  <2>1. SlotOf(w) \in Slots /\ HoldsLive(w, SlotOf(w)) /\ token[w] # "none"
    BY <1>3, CompletedLease DEF HoldsLive, Holds
  <2>2. \A v \in Workers : SlotOf(v)' = SlotOf(v)
    BY <1>3, SlotKept DEF CompleteRun, SetRunCompleted
  <2>3. \A v \in Workers : HoldsLive(v, SlotOf(w)) => v = w
    BY <2>1 DEF HoldsLive, Holds, LeaseInv, TokensDistinct
  <2>4. \A v \in Workers, k \in Slots :
           HoldsLive(v, k)' <=> HoldsLive(v, k) /\ v # w
    BY <1>3, <2>2 DEF CompleteRun, HoldsLive, Holds, WorkerTypeOK
  <2>5. {k \in Slots : Happened("completed", k)}'
          = {k \in Slots : Happened("completed", k)} \cup {SlotOf(w)}
    BY <1>3, <2>1 DEF CompleteRun, Happened
  <2>6. \A k \in Slots : HoldsLive(w, k) => k = SlotOf(w)
    BY DEF HoldsLive, Holds
  <2>7. Lock!Finish(w, SlotOf(w))
    BY <2>1, <2>3, <2>4, <2>5, <2>6 DEF Lock!Finish
  <2> QED BY <2>1, <2>7 DEF Lock!Next
<1>4. CASE Tick
  <2>1. \A v \in Workers : SlotOf(v)' = SlotOf(v) /\ age'[v] >= age[v]
    BY <1>4, SlotKept, TimesAssumption DEF Tick, RedisTick, WorkerTypeOK
  <2>2. \A k \in Slots : \A w \in Workers : HoldsLive(w, k)' => HoldsLive(w, k)
    BY <1>4, <2>1, TimesAssumption DEF Tick, HoldsLive, Holds, WorkerTypeOK
  <2>3. {k \in Slots : Happened("completed", k)}'
          = {k \in Slots : Happened("completed", k)}
    BY <1>4 DEF Tick, Happened
  <2>4. Lock!Lapse
    BY <2>2, <2>3 DEF Lock!Lapse
  <2> QED BY <2>4 DEF Lock!Next
<1> QED BY <1>0, <1>1, <1>2, <1>3, <1>4, StepCases

(***************************************************************************)
(* claim_run and complete_run, with the workers that call them, implement  *)
(* RunLease: a claim is granted only where nobody holds a live lease, and  *)
(* only a live holder's completion is recorded.                            *)
(***************************************************************************)
THEOREM ServiceImplementsRunLease == Spec => ImplementsRunLease
<1>1. Init => Lock!Init
  BY DEF Init, Lock!Init, HoldsLive, Holds, Happened
<1> QED BY <1>1, InitServiceInv, StepServiceInv, LockStep, PTL
        DEF Spec, ImplementsRunLease, Lock!Spec

-----------------------------------------------------------------------------
(***************************************************************************)
(* What a worker's step does to the job it has: it stays where it is,      *)
(* lets go of the job, takes a validated one, or moves on within           *)
(* _consume_job, to an attempt only from trigger.                          *)
(***************************************************************************)
Free == {"receive", "read", "exited"}

Stays(v) == pc'[v] = pc[v] /\ job'[v] = job[v] /\ version'[v] = version[v]

Takes(v) ==
    /\ pc[v] \in Free /\ pc'[v] \in {"trigger", "claim"}
    /\ version'[v] = version[v]
    /\ job'[v] \in 1..Len(stream)
    /\ stream[job'[v]].version = version[v]

MovesOn(v) ==
    /\ pc[v] \notin Free /\ pc'[v] # "attempt"
    /\ pc[v] = "complete" => pc'[v] = "ack"
    /\ job'[v] = job[v] /\ version'[v] = version[v]

Starts(v) ==
    /\ pc[v] = "trigger" /\ pc'[v] = "attempt"
    /\ job'[v] = job[v] /\ version'[v] = version[v]
    /\ stream[job[v]].slot # 0
    /\ ReadOnly(stream[job[v]])
    /\ ~stream[job[v]].late

Places(v) ==
    \/ Stays(v) \/ pc'[v] \in Free \/ Takes(v) \/ MovesOn(v) \/ Starts(v)

LEMMA StreamStep ==
    ASSUME TypeInv, [Next]_vars
    PROVE  \/ UNCHANGED stream
           \/ \E j \in Job : stream' = Append(stream, j)
<1>1. ASSUME NEW p \in Producers, ProducerStep(p)
      PROVE  UNCHANGED stream \/ \E j \in Job : stream' = Append(stream, j)
  BY <1>1 DEF ProducerStep, PollDue, MarkSlot, SetEnqueueMarker,
     EnqueueMarkerExists, EnqueueJob, EnqueueFails, XAdd, UndoMark,
     DeleteMarker, ProducerCrash, redisVars, TypeInv, TypeOK, ProducerTypeOK
<1>2. CASE ManualEnqueue
  <2>1. PICK k \in 0..NumSlots, x \in BOOLEAN, l \in {FALSE, HasExpiry} :
          XAdd([slot |-> k, late |-> l, exact |-> x,
                version |-> deployed, source |-> "manual"])
    BY <1>2, DefinitionAssumption DEF ManualEnqueue, Exactness
  <2>2. [slot |-> k, late |-> l, exact |-> x,
         version |-> deployed, source |-> "manual"] \in Job
    BY DefinitionAssumption DEF Job, WorldTypeOK, TypeInv, TypeOK
  <2> QED BY <2>1, <2>2 DEF XAdd
<1>3. ASSUME NEW w \in Workers, WorkerStep(w) PROVE UNCHANGED stream
  BY <1>3, WorkerStepType
<1>4. ASSUME NEW w \in Workers, Crash(w) PROVE UNCHANGED stream
  BY <1>4 DEF Crash, redisVars
<1>5. CASE SlotBecomesDue \/ ScheduleExpires \/ Deploy \/ UNCHANGED vars
  BY <1>5 DEF SlotBecomesDue, ScheduleExpires, Deploy, vars, redisVars
<1>6. CASE Tick
  BY <1>6 DEF Tick, RedisTick
<1> QED BY <1>1, <1>2, <1>3, <1>4, <1>5, <1>6 DEF Next, ProcessStep

\* Entries of the stream are never rewritten.
LEMMA EntriesKept ==
    ASSUME TypeInv, [Next]_vars
    PROVE  /\ Len(stream') \in Nat /\ Len(stream') >= Len(stream)
           /\ \A e \in 1..Len(stream) : stream'[e] = stream[e]
<1>1. CASE UNCHANGED stream
  BY <1>1 DEF TypeInv, TypeOK, RedisTypeOK
<1>2. ASSUME NEW j \in Job, stream' = Append(stream, j)
      PROVE  /\ Len(stream') \in Nat /\ Len(stream') >= Len(stream)
             /\ \A e \in 1..Len(stream) : stream'[e] = stream[e]
  BY <1>2, AppendKeepsJobs DEF TypeInv, TypeOK, RedisTypeOK
<1> QED BY <1>1, <1>2, StreamStep

LEMMA ConsumePlaces ==
    ASSUME TypeInv, NEW w \in Workers, NEW e \in 1..Len(stream),
           pc[w] \in {"receive", "read"}, Consume(w, e)
    PROVE  \A v \in Workers : Places(v)
<1> USE DEF TypeInv, TypeOK, WorkerTypeOK
<1>1. CASE stream[e].version # version[w]
  BY <1>1 DEF Consume, Exit, Places, Stays, Free
<1>2. CASE stream[e].version = version[w]
  <2>1. /\ pc' = [pc EXCEPT ![w] = IF stream[e].slot = 0 THEN "trigger"
                                                         ELSE "claim"]
        /\ job' = [job EXCEPT ![w] = e]
        /\ version' = version
    BY <1>2 DEF Consume
  <2>2. Takes(w)
    BY <1>2, <2>1 DEF Takes, Free
  <2> QED BY <2>1, <2>2 DEF Places, Stays
<1> QED BY <1>1, <1>2

LEMMA WorkerStepPlaces ==
    ASSUME TypeInv, NEW w \in Workers, WorkerStep(w)
    PROVE  \A v \in Workers : Places(v)
<1> USE DEF TypeInv, TypeOK, WorkerTypeOK
<1>1. CASE ClaimAbandoned(w)
  <2>1. \A e \in Claimable : e \in 1..Len(stream)
    BY DEF Claimable, RedisTypeOK
  <2>2. CASE \E e \in Claimable : Consume(w, e)
    BY <1>1, <2>1, <2>2, ConsumePlaces DEF ClaimAbandoned
  <2>3. CASE WorkerTo(w, "read")
    BY <2>3 DEF WorkerTo, Places, Stays, Free
  <2> QED BY <1>1, <2>2, <2>3 DEF ClaimAbandoned
<1>2. CASE ReadGroup(w)
  <2>1. CASE XReadGroup(delivered + 1) /\ Consume(w, delivered + 1)
    <3>1. delivered + 1 \in 1..Len(stream)
      BY <2>1 DEF XReadGroup, RedisTypeOK
    <3> QED BY <1>2, <2>1, <3>1, ConsumePlaces DEF ReadGroup
  <2>2. CASE WorkerTo(w, "receive")
    BY <2>2 DEF WorkerTo, Places, Stays, Free
  <2> QED BY <1>2, <2>1, <2>2 DEF ReadGroup
<1>3. CASE ClaimRunGet(w) \/ ClaimRunSet(w)
  <2>1. PICK where \in {"set", "ack", "trigger"} :
            pc' = [pc EXCEPT ![w] = where] /\ UNCHANGED <<job, version>>
    BY <1>3 DEF ClaimRunGet, ClaimRunSet, WorkerTo, Deduplicate
  <2>2. pc[w] \in {"claim", "set"}
    BY <1>3 DEF ClaimRunGet, ClaimRunSet
  <2> QED BY <2>1, <2>2 DEF Places, Stays, MovesOn, Free
<1>4. CASE Trigger(w)
  <2>1. CASE WorkerTo(w, "attempt")
    BY <1>4, <2>1 DEF Trigger, WorkerTo, Record, Places, Stays, Starts
  <2>2. CASE \E st : Record(w, st)
    <3>1. PICK where \in {"ack", "complete"} :
              pc' = [pc EXCEPT ![w] = where] /\ UNCHANGED <<job, version>>
      BY <2>2 DEF Record
    <3>2. pc[w] = "trigger"
      BY <1>4 DEF Trigger
    <3> QED BY <3>1, <3>2 DEF Places, Stays, MovesOn, Free
  <2> QED BY <1>4, <2>1, <2>2 DEF Trigger
<1>5. CASE AttemptSucceeds(w) \/ AttemptFails(w)
  <2>1. pc[w] = "attempt"
    BY <1>5 DEF AttemptSucceeds, AttemptFails
  <2>2. CASE UNCHANGED <<pc, job, version>>
    BY <2>2 DEF Places, Stays
  <2>3. CASE \E st : Record(w, st)
    <3>1. PICK where \in {"ack", "complete"} :
              pc' = [pc EXCEPT ![w] = where] /\ UNCHANGED <<job, version>>
      BY <2>3 DEF Record
    <3> QED BY <2>1, <3>1 DEF Places, Stays, MovesOn, Free
  <2> QED BY <1>5, <2>2, <2>3 DEF AttemptSucceeds, AttemptFails
<1>6. CASE CompleteRun(w)
  BY <1>6 DEF CompleteRun, Places, Stays, MovesOn, Free
<1>7. CASE CompleteRunLost(w)
  BY <1>7 DEF CompleteRunLost, Exit, Places, Stays, Free
<1>8. CASE Ack(w)
  BY <1>8 DEF Ack, Exit, Places, Stays, Free
<1>9. CASE Restart(w)
  BY <1>9 DEF Restart, Places, Stays, Free
<1> QED BY <1>1, <1>2, <1>3, <1>4, <1>5, <1>6, <1>7, <1>8, <1>9 DEF WorkerStep

LEMMA StepPlaces ==
    ASSUME TypeInv, [Next]_vars
    PROVE  \A v \in Workers : Places(v)
<1>1. ASSUME NEW w \in Workers, WorkerStep(w) PROVE \A v \in Workers : Places(v)
  BY <1>1, WorkerStepPlaces
<1>2. ASSUME NEW w \in Workers, Crash(w) PROVE \A v \in Workers : Places(v)
  BY <1>2 DEF Crash, Exit, Places, Stays, Free, TypeInv, TypeOK, WorkerTypeOK
<1>3. CASE UNCHANGED <<pc, job, version>>
  BY <1>3 DEF Places, Stays
<1>4. ASSUME NEW p \in Producers, ProducerStep(p) PROVE UNCHANGED workerVars
  BY <1>4 DEF ProducerStep, PollDue, MarkSlot, EnqueueJob, EnqueueFails,
              UndoMark, ProducerCrash
<1>5. CASE ManualEnqueue \/ SlotBecomesDue \/ ScheduleExpires \/ Deploy
           \/ Tick \/ UNCHANGED vars
  <2>1. UNCHANGED <<pc, job, version>>
    BY <1>5 DEF ManualEnqueue, SlotBecomesDue, ScheduleExpires, Deploy, Tick,
                vars, workerVars
  <2> QED BY <2>1, <1>3
<1> QED BY <1>1, <1>2, <1>3, <1>4, <1>5 DEF Next, ProcessStep, workerVars

LEMMA StepReviewInv == TypeInv /\ ReviewInv /\ [Next]_vars => ReviewInv'
<1> SUFFICES ASSUME TypeInv, ReviewInv, [Next]_vars,
                    NEW w \in Workers, pc'[w] \notin Free
             PROVE  /\ (stream[job[w]].version)' = version'[w]
                    /\ pc'[w] = "attempt" =>
                         /\ (stream[job[w]].slot)' # 0
                         /\ ReadOnly(stream[job[w]])'
                         /\ ~(stream[job[w]].late)'
  BY DEF ReviewInv, ExecutesReviewedOnly, Free
<1> USE DEF TypeInv, TypeOK, WorkerTypeOK
<1>1. Places(w)
  BY StepPlaces
<1>2. \A e \in 1..Len(stream) : stream'[e] = stream[e]
  BY EntriesKept
<1>3. pc[w] \notin Free => job[w] \in 1..Len(stream)
  <2>1. job[w] \in 0..Len(stream) /\ Len(stream) \in Nat
    BY DEF RedisTypeOK
  <2> QED BY <2>1 DEF WorkerInv, Free
<1>4. CASE Takes(w)
  BY <1>2, <1>4 DEF Takes
<1>5. CASE pc[w] \notin Free /\ job'[w] = job[w] /\ version'[w] = version[w]
  <2>1. stream'[job'[w]] = stream[job[w]]
    BY <1>2, <1>3, <1>5
  <2>2. stream[job[w]].version = version[w]
    BY <1>5 DEF ReviewInv, Free
  <2>3. pc'[w] = "attempt" => Starts(w) \/ pc[w] = "attempt"
    BY <1>1, <1>5 DEF Places, Stays, Takes, MovesOn, Free
  <2>4. pc[w] = "attempt" => /\ stream[job[w]].slot # 0
                             /\ ReadOnly(stream[job[w]])
                             /\ ~stream[job[w]].late
    BY DEF ReviewInv, ExecutesReviewedOnly
  <2> QED BY <1>5, <2>1, <2>2, <2>3, <2>4 DEF Starts, ReadOnly
<1> QED BY <1>1, <1>4, <1>5 DEF Places, Stays, MovesOn, Starts, Free

(***************************************************************************)
(* An executor only ever runs for a read-only, unexpired job of the very   *)
(* version its worker loaded: validate_schedule_job_payload and trigger    *)
(* have seen the job, and neither the job nor the worker's definition      *)
(* changes between their look and the attempt.                             *)
(***************************************************************************)
THEOREM ExecutionsAreReviewed == Spec => []ExecutesReviewedOnly
<1>1. Init => ReviewInv
  BY DEF Init, ReviewInv, ExecutesReviewedOnly
<1>2. ReviewInv => ExecutesReviewedOnly
  BY DEF ReviewInv
<1> QED BY <1>1, <1>2, InitTypeInv, StepTypeInv, StepReviewInv, PTL DEF Spec


-----------------------------------------------------------------------------
(***************************************************************************)
(* enqueue_once: the marker, the producers and the jobs they added.        *)
(***************************************************************************)

LEMMA QueuedIsProduced ==
    ASSUME NEW k PROVE Queued(k) <=> ProducedJobs(k) # {}
BY DEF Queued, ProducedJobs

LEMMA ProducedAppend ==
    ASSUME TypeInv, NEW j \in Job, stream' = Append(stream, j), NEW k
    PROVE  ProducedJobs(k)' =
             IF j.slot = k /\ j.source = "producer"
             THEN ProducedJobs(k) \cup {Len(stream) + 1} ELSE ProducedJobs(k)
<1>1. stream \in Seq(Job) /\ Len(stream) \in Nat
  BY DEF TypeInv, TypeOK, RedisTypeOK
<1>2. /\ Len(stream') = Len(stream) + 1
      /\ \A e \in 1..Len(stream) : stream'[e] = stream[e]
  BY <1>1, AppendKeepsJobs
<1>3. stream'[Len(stream) + 1] = j
  BY <1>1
<1>4. 1..Len(stream') = (1..Len(stream)) \cup {Len(stream) + 1}
  BY <1>1, <1>2
<1>5. \A e : e \in ProducedJobs(k)' <=>
              \/ e \in ProducedJobs(k)
              \/ /\ e = Len(stream) + 1
                 /\ j.slot = k /\ j.source = "producer"
  BY <1>1, <1>2, <1>3, <1>4 DEF ProducedJobs
<1> QED BY <1>5

\* Steps that touch neither the markers, nor the producers, nor their jobs.
LEMMA EnqueueFrame ==
    ASSUME EnqueueInv, MarkerCovered,
           UNCHANGED <<enqTtl, ppc, pjob>>, events \subseteq events',
           \A k \in Slots : ProducedJobs(k)' = ProducedJobs(k)
    PROVE  EnqueueInv' /\ MarkerCovered'
<1>1. \A k \in Slots : Queued(k)' <=> Queued(k)
  BY QueuedIsProduced DEF Queued, ProducedJobs
<1>2. \A k : \A what : Happened(what, k) => Happened(what, k)'
  BY DEF Happened
<1>3. MarkerCovered'
  BY <1>1, <1>2 DEF MarkerCovered
<1>4. EnqueueInv'
  BY <1>1, <1>2 DEF EnqueueInv, Enqueues
<1> QED BY <1>3, <1>4

LEMMA ProducersStay ==
    ASSUME UNCHANGED stream, NEW k PROVE ProducedJobs(k)' = ProducedJobs(k)
BY DEF ProducedJobs

\* A producer p gives up its place; the marker of its slot stays.
LEMMA LeaveFrame ==
    ASSUME TypeInv, EnqueueInv, NEW p \in Producers,
           ppc' = [ppc EXCEPT ![p] = "poll"],
           pjob' = [pjob EXCEPT ![p] = NoJob],
           UNCHANGED <<enqTtl, stream>>, events \subseteq events'
    PROVE  EnqueueInv'
<1> USE DEF TypeInv, TypeOK, ProducerTypeOK
<1>1. \A q \in Producers, k \in Slots : Enqueues(q, k)' =>
          Enqueues(q, k) /\ ppc'[q] = ppc[q]
  BY DEF Enqueues
<1>2. \A k \in Slots : ProducedJobs(k)' = ProducedJobs(k)
  BY ProducersStay
<1>3. \A k \in Slots : Queued(k)' <=> Queued(k)
  BY DEF Queued
<1>4. \A q \in Producers : ppc'[q] # "poll" => pjob'[q].source = "producer"
  BY DEF EnqueueInv
<1>5. \A k \in Slots : ~Happened("reopened", k)' => ~Happened("reopened", k)
  BY DEF Happened
<1> QED BY <1>1, <1>2, <1>3, <1>4, <1>5 DEF EnqueueInv

\* XADD of the job of p, after which p is at where.
LEMMA AddFrame ==
    ASSUME TypeInv, EnqueueInv, NEW p \in Producers, ppc[p] = "add",
           XAdd(pjob[p]), NEW where \in {"poll", "undo"},
           ProducerTo(p, where), UNCHANGED events
    PROVE  EnqueueInv'
<1> USE DEF TypeInv, TypeOK, ProducerTypeOK
<1>1. pjob[p].slot \in Slots /\ pjob[p].source = "producer" /\ pjob[p] \in Job
  BY DEF ProducerInv, EnqueueInv
<1>2. /\ \A k : ProducedJobs(k)' = IF pjob[p].slot = k
                                   THEN ProducedJobs(k) \cup {Len(stream) + 1}
                                   ELSE ProducedJobs(k)
      /\ UNCHANGED enqTtl
  BY <1>1, ProducedAppend DEF XAdd
<1>3. \A q \in Producers, k \in Slots : Enqueues(q, k)' =>
          Enqueues(q, k) /\ (q # p => ppc'[q] = ppc[q])
  BY DEF Enqueues, ProducerTo
<1>4. ppc'[p] # "add"
  BY DEF ProducerTo
<1>5. \A q \in Producers : ppc'[q] # "poll" => pjob'[q].source = "producer"
  BY DEF EnqueueInv, ProducerTo
<1>6. SUFFICES ASSUME NEW k \in Slots, ~Happened("reopened", k)
               PROVE  /\ Queued(k)' => enqTtl'[k] > 0
                      /\ \A q \in Producers : Enqueues(q, k)' =>
                            /\ enqTtl'[k] > 0
                            /\ ppc'[q] = "add" => ~Queued(k)'
                            /\ \A r \in Producers : Enqueues(r, k)' => q = r
                      /\ \A e, f \in ProducedJobs(k)' : e = f
  BY <1>5, <1>6 DEF EnqueueInv, Happened
<1>7. CASE pjob[p].slot = k
  <2>1. Enqueues(p, k)
    BY <1>7 DEF Enqueues
  <2>2. enqTtl[k] > 0 /\ ~Queued(k)
    BY <1>6, <2>1 DEF EnqueueInv
  <2>3. ProducedJobs(k)' = {Len(stream) + 1}
    BY <1>2, <1>7, <2>2, QueuedIsProduced
  <2>4. \A q \in Producers : Enqueues(q, k)' => q = p
    BY <1>3, <1>6, <2>1 DEF EnqueueInv
  <2> QED BY <1>2, <1>4, <2>2, <2>3, <2>4
<1>8. CASE pjob[p].slot # k
  <2>1. ProducedJobs(k)' = ProducedJobs(k)
    BY <1>2, <1>8
  <2>2. Queued(k)' <=> Queued(k)
    BY <2>1, QueuedIsProduced DEF Queued, ProducedJobs
  <2>3. ~Enqueues(p, k)'
    BY <1>3, <1>8 DEF Enqueues
  <2> QED BY <1>2, <1>3, <1>6, <2>1, <2>2, <2>3 DEF EnqueueInv
<1> QED BY <1>7, <1>8

LEMMA ProducerStepEnqueue ==
    ASSUME TypeInv, EnqueueInv, NEW p \in Producers, ProducerStep(p)
    PROVE  EnqueueInv'
<1> USE DEF TypeInv, TypeOK, ProducerTypeOK
<1>a. ASSUME UNCHANGED stream
      PROVE  \A k \in Slots : /\ ProducedJobs(k)' = ProducedJobs(k)
                              /\ Queued(k)' <=> Queued(k)
  BY <1>a DEF ProducedJobs, Queued
<1>1. CASE PollDue(p)
  <2>1. UNCHANGED <<stream, enqTtl, events>>
    BY <1>1 DEF PollDue, redisVars, observers
  <2>2. \A q \in Producers, k \in Slots :
            Enqueues(q, k)' => Enqueues(q, k) /\ ppc'[q] = ppc[q]
    BY <1>1 DEF PollDue, Enqueues
  <2>3. \A q \in Producers : ppc'[q] # "poll" => pjob'[q].source = "producer"
    BY <1>1 DEF PollDue, EnqueueInv
  <2> QED BY <1>a, <2>1, <2>2, <2>3 DEF EnqueueInv, Happened
<1>2. CASE MarkSlot(p)
  <2>1. UNCHANGED <<stream, events>> /\ ppc[p] = "mark"
    BY <1>2 DEF MarkSlot, SetEnqueueMarker, EnqueueMarkerExists, redisVars,
                observers
  <2>2. CASE EnqueueMarkerExists(pjob[p].slot) /\ ProducerTo(p, "poll")
    BY <2>1, <2>2, LeaveFrame DEF EnqueueMarkerExists, ProducerTo, redisVars
  <2>3. CASE SetEnqueueMarker(pjob[p].slot) /\ ProducerTo(p, "add")
    <3>1. PICK s \in Slots : s = pjob[p].slot
      BY <2>1 DEF ProducerInv
    <3>2. /\ enqTtl[s] = 0 /\ enqTtl'[s] > 0
          /\ \A k \in Slots \ {s} : enqTtl'[k] = enqTtl[k]
      BY <2>3, <3>1, TimesAssumption DEF SetEnqueueMarker, RedisTypeOK
    <3>3. \A q \in Producers, k \in Slots : Enqueues(q, k)' =>
              \/ Enqueues(q, k) /\ ppc'[q] = ppc[q]
              \/ q = p /\ k = s
      BY <2>3, <3>1 DEF ProducerTo, Enqueues
    <3>4. \A q \in Producers : ppc'[q] # "poll" => pjob'[q].source = "producer"
      BY <2>1, <2>3 DEF ProducerTo, EnqueueInv
    <3>5. ~Happened("reopened", s) =>
              /\ ~Queued(s)
              /\ \A q \in Producers : ~Enqueues(q, s)
      BY <3>2 DEF EnqueueInv
    <3>6. ASSUME NEW k \in Slots, ~Happened("reopened", k), k = s
          PROVE  /\ enqTtl'[k] > 0 /\ ~Queued(k)'
                 /\ \A q \in Producers : Enqueues(q, k)' => q = p
                 /\ \A e, f \in ProducedJobs(k)' : e = f
      BY <1>a, <2>1, <3>2, <3>3, <3>5, <3>6 DEF EnqueueInv
    <3>7. ASSUME NEW k \in Slots, ~Happened("reopened", k), k # s
          PROVE  /\ Queued(k)' => enqTtl'[k] > 0
                 /\ \A q \in Producers : Enqueues(q, k)' =>
                       /\ enqTtl'[k] > 0
                       /\ ppc'[q] = "add" => ~Queued(k)'
                       /\ \A r \in Producers : Enqueues(r, k)' => q = r
                 /\ \A e, f \in ProducedJobs(k)' : e = f
      BY <1>a, <2>1, <3>2, <3>3, <3>7 DEF EnqueueInv
    <3>8. \A k \in Slots : Happened("reopened", k)' <=> Happened("reopened", k)
      BY <2>1 DEF Happened
    <3> QED BY <3>4, <3>6, <3>7, <3>8 DEF EnqueueInv
  <2> QED BY <1>2, <2>2, <2>3 DEF MarkSlot
<1>3. CASE EnqueueJob(p)
  BY <1>3, AddFrame DEF EnqueueJob, observers
<1>4. CASE EnqueueFails(p)
  <2>1. CASE XAdd(pjob[p])
    BY <1>4, <2>1, AddFrame DEF EnqueueFails, observers
  <2>2. CASE UNCHANGED redisVars
    <3>1. UNCHANGED <<stream, enqTtl, events>>
      BY <1>4, <2>2 DEF EnqueueFails, redisVars, observers
    <3>2. \A q \in Producers, k \in Slots : Enqueues(q, k)' => Enqueues(q, k)
      BY <1>4 DEF EnqueueFails, ProducerTo, Enqueues
    <3>3. \A q \in Producers : ppc'[q] = "add" => ppc[q] = "add"
      BY <1>4 DEF EnqueueFails, ProducerTo
    <3>4. \A q \in Producers : ppc'[q] # "poll" => pjob'[q].source = "producer"
      BY <1>4 DEF EnqueueFails, ProducerTo, EnqueueInv
    <3> QED BY <1>a, <3>1, <3>2, <3>3, <3>4 DEF EnqueueInv, Happened
  <2> QED BY <1>4, <2>1, <2>2 DEF EnqueueFails
<1>5. CASE UndoMark(p)
  <2>1. PICK s \in Slots : s = pjob[p].slot
    BY <1>5 DEF UndoMark, ProducerInv
  <2>2. UNCHANGED stream /\ \A k \in Slots \ {s} : enqTtl'[k] = enqTtl[k]
    BY <1>5, <2>1 DEF UndoMark, DeleteMarker, RedisTypeOK
  <2>3. \A k \in Slots : ~Happened("reopened", k)' =>
            ~Happened("reopened", k) /\ k # s
    BY <1>5, <2>1 DEF UndoMark, Happened
  <2>4. \A q \in Producers, k \in Slots :
            Enqueues(q, k)' => Enqueues(q, k) /\ ppc'[q] = ppc[q]
    BY <1>5 DEF UndoMark, Enqueues
  <2>5. \A q \in Producers : ppc'[q] # "poll" => pjob'[q].source = "producer"
    BY <1>5 DEF UndoMark, EnqueueInv
  <2> QED BY <1>a, <2>2, <2>3, <2>4, <2>5 DEF EnqueueInv
<1>6. CASE ProducerCrash(p)
  BY <1>6, LeaveFrame DEF ProducerCrash, redisVars
<1> QED BY <1>1, <1>2, <1>3, <1>4, <1>5, <1>6 DEF ProducerStep


LEMMA ProducerStepMarker ==
    ASSUME TypeInv, EnqueueInv, MarkerCovered, NEW p \in Producers,
           ProducerStep(p)
    PROVE  MarkerCovered'
<1> SUFFICES ASSUME NEW k \in Slots, enqTtl'[k] > 0
             PROVE  \/ Queued(k)'
                    \/ \E q \in Producers : Enqueues(q, k)'
                    \/ Happened("orphaned", k)'
  BY DEF MarkerCovered, Enqueues
<1> USE DEF TypeInv, TypeOK, ProducerTypeOK
<1>a. events \subseteq events'
  BY DEF ProducerStep, PollDue, MarkSlot, EnqueueJob, EnqueueFails, UndoMark,
         ProducerCrash, observers
<1>b. Queued(k) => Queued(k)'
  <2>1. CASE UNCHANGED stream
    BY <2>1 DEF Queued
  <2>2. ASSUME NEW j \in Job, stream' = Append(stream, j)
        PROVE  Queued(k) => Queued(k)'
    <3>1. ProducedJobs(k) \subseteq ProducedJobs(k)'
      BY <2>2, ProducedAppend
    <3> QED BY <3>1 DEF Queued, ProducedJobs
  <2>3. [Next]_vars
    BY DEF Next, ProcessStep
  <2> QED BY <2>1, <2>2, <2>3, StreamStep
<1>c. ASSUME enqTtl[k] > 0
      PROVE  \/ Queued(k)'
             \/ \E q \in Producers : Enqueues(q, k)
             \/ Happened("orphaned", k)'
  BY <1>a, <1>b, <1>c DEF MarkerCovered, Happened, Enqueues
<1>d. ASSUME XAdd(pjob[p]), Enqueues(p, k) PROVE Queued(k)'
  <2>1. pjob[p].source = "producer" /\ pjob[p] \in Job
    BY <1>d DEF Enqueues, EnqueueInv
  <2>2. Len(stream) + 1 \in ProducedJobs(k)'
    BY <1>d, <2>1, ProducedAppend DEF XAdd, Enqueues
  <2> QED BY <2>2 DEF Queued, ProducedJobs
<1>1. CASE PollDue(p)
  <2>1. UNCHANGED enqTtl
    BY <1>1 DEF PollDue, redisVars
  <2>2. \A q \in Producers : Enqueues(q, k) => Enqueues(q, k)'
    BY <1>1 DEF PollDue, Enqueues
  <2> QED BY <1>c, <2>1, <2>2
<1>2. CASE MarkSlot(p)
  <2>1. \A q \in Producers : Enqueues(q, k) => Enqueues(q, k)'
    BY <1>2 DEF MarkSlot, ProducerTo, Enqueues
  <2>2. enqTtl'[k] = enqTtl[k] \/ Enqueues(p, k)'
    BY <1>2 DEF MarkSlot, SetEnqueueMarker, EnqueueMarkerExists, redisVars,
                ProducerTo, Enqueues, RedisTypeOK
  <2> QED BY <1>c, <2>1, <2>2
<1>3. CASE EnqueueJob(p)
  <2>1. UNCHANGED enqTtl
    BY <1>3 DEF EnqueueJob, XAdd
  <2>2. \A q \in Producers \ {p} : Enqueues(q, k) => Enqueues(q, k)'
    BY <1>3 DEF EnqueueJob, ProducerTo, Enqueues
  <2> QED BY <1>3, <1>c, <1>d, <2>1, <2>2 DEF EnqueueJob
<1>4. CASE EnqueueFails(p)
  <2>1. UNCHANGED enqTtl
    BY <1>4 DEF EnqueueFails, XAdd, redisVars
  <2>2. \A q \in Producers : Enqueues(q, k) => Enqueues(q, k)'
    BY <1>4 DEF EnqueueFails, ProducerTo, Enqueues
  <2> QED BY <1>c, <2>1, <2>2
<1>5. CASE UndoMark(p)
  <2>1. enqTtl'[k] = enqTtl[k] /\ k # pjob[p].slot
    BY <1>5 DEF UndoMark, DeleteMarker, RedisTypeOK
  <2>2. \A q \in Producers : Enqueues(q, k) => Enqueues(q, k)'
    BY <1>5, <2>1 DEF UndoMark, Enqueues
  <2> QED BY <1>c, <2>1, <2>2
<1>6. CASE ProducerCrash(p)
  <2>1. UNCHANGED enqTtl
    BY <1>6 DEF ProducerCrash, redisVars
  <2>2. \A q \in Producers \ {p} : Enqueues(q, k) => Enqueues(q, k)'
    BY <1>6 DEF ProducerCrash, Enqueues
  <2>3. Enqueues(p, k) => Happened("orphaned", k)'
    BY <1>6 DEF ProducerCrash, Enqueues, Happened
  <2> QED BY <1>c, <2>1, <2>2, <2>3
<1> QED BY <1>1, <1>2, <1>3, <1>4, <1>5, <1>6 DEF ProducerStep

LEMMA StepEnqueue ==
    TypeInv /\ EnqueueInv /\ MarkerCovered /\ [Next]_vars
        => EnqueueInv' /\ MarkerCovered'
<1> SUFFICES ASSUME TypeInv, EnqueueInv, MarkerCovered, [Next]_vars
             PROVE  EnqueueInv' /\ MarkerCovered'
  OBVIOUS
<1> USE DEF TypeInv, TypeOK
<1>1. ASSUME NEW p \in Producers, ProducerStep(p)
      PROVE  EnqueueInv' /\ MarkerCovered'
  BY <1>1, ProducerStepEnqueue, ProducerStepMarker
<1>2. CASE ManualEnqueue
  <2>1. PICK k \in 0..NumSlots, x \in BOOLEAN, l \in {FALSE, HasExpiry} :
          XAdd([slot |-> k, late |-> l, exact |-> x,
                version |-> deployed, source |-> "manual"])
    BY <1>2, DefinitionAssumption DEF ManualEnqueue, Exactness
  <2>2. [slot |-> k, late |-> l, exact |-> x,
         version |-> deployed, source |-> "manual"] \in Job
    BY DefinitionAssumption DEF Job, WorldTypeOK
  <2>3. \A s \in Slots : ProducedJobs(s)' = ProducedJobs(s)
    BY <2>1, <2>2, ProducedAppend DEF XAdd
  <2>4. UNCHANGED <<enqTtl, ppc, pjob, events>>
    BY <1>2, <2>1 DEF ManualEnqueue, XAdd, producerVars, observers
  <2> QED BY <2>3, <2>4, EnqueueFrame
<1>3. ASSUME NEW w \in Workers, WorkerStep(w) \/ Crash(w)
      PROVE  EnqueueInv' /\ MarkerCovered'
  <2>1. UNCHANGED <<ppc, pjob>>
    BY <1>3 DEF WorkerStep, ClaimAbandoned, ReadGroup, ClaimRunGet, ClaimRunSet,
       Trigger, AttemptSucceeds, AttemptFails, CompleteRun, CompleteRunLost,
       Ack, Restart, Crash, producerVars
  <2>2. UNCHANGED <<enqTtl, stream>>
    BY <1>3 DEF WorkerStep, ClaimAbandoned, XAutoClaim, ReadGroup, XReadGroup,
       ClaimRunGet, ClaimRunSet, SetRunClaim, Trigger, AttemptSucceeds,
       AttemptFails, CompleteRun, SetRunCompleted, CompleteRunLost, Ack, XAck,
       Restart, Crash, redisVars
  <2>3. events \subseteq events'
    BY <1>3 DEF WorkerStep, ClaimAbandoned, ReadGroup, ClaimRunGet, ClaimRunSet,
       Trigger, AttemptSucceeds, AttemptFails, CompleteRun, CompleteRunLost,
       Ack, Restart, Crash, observers
  <2> QED BY <2>1, <2>2, <2>3, EnqueueFrame, ProducersStay
<1>4. CASE SlotBecomesDue \/ ScheduleExpires \/ Deploy \/ UNCHANGED vars
  <2>1. UNCHANGED <<enqTtl, ppc, pjob, stream, events>>
    BY <1>4 DEF SlotBecomesDue, ScheduleExpires, Deploy, vars, redisVars,
                producerVars, observers
  <2> QED BY <2>1, EnqueueFrame, ProducersStay
<1>5. CASE Tick
  <2>1. UNCHANGED <<ppc, pjob, stream>> /\ events \subseteq events'
    BY <1>5 DEF Tick, RedisTick, producerVars
  <2>2. \A k \in Slots : /\ enqTtl[k] \in Nat
                         /\ enqTtl'[k] > 0 => enqTtl[k] > 0
                         /\ enqTtl[k] > 0 => \/ enqTtl'[k] > 0
                                             \/ Happened("reopened", k)'
    BY <1>5, TimesAssumption DEF Tick, RedisTick, RedisTypeOK, Happened
  <2>3. \A k \in Slots : /\ ProducedJobs(k)' = ProducedJobs(k)
                         /\ Queued(k)' <=> Queued(k)
    BY <2>1 DEF ProducedJobs, Queued
  <2>4. \A q \in Producers, k \in Slots : Enqueues(q, k)' <=> Enqueues(q, k)
    BY <2>1 DEF Enqueues
  <2>5. \A k : \A what : Happened(what, k) => Happened(what, k)'
    BY <2>1 DEF Happened
  <2>6. MarkerCovered'
    BY <2>1, <2>2, <2>3, <2>5 DEF MarkerCovered
  <2>7. EnqueueInv'
    BY <2>1, <2>2, <2>3, <2>4, <2>5 DEF EnqueueInv
  <2> QED BY <2>6, <2>7
<1> QED BY <1>1, <1>2, <1>3, <1>4, <1>5 DEF Next, ProcessStep

LEMMA InitEnqueue == Init => EnqueueInv /\ MarkerCovered
<1>1. Init => \A k \in Slots : enqTtl[k] = 0 /\ ~Queued(k) /\ ProducedJobs(k) = {}
  BY DEF Init, RedisInit, Queued, ProducedJobs
<1> QED BY <1>1 DEF Init, EnqueueInv, MarkerCovered, Enqueues

\* At most one element is a cardinality of at most one.
LEMMA AtMostOne ==
    ASSUME NEW S, \A e, f \in S : e = f
    PROVE  ~(Cardinality(S) > 1)
<1>1. CASE S = {}
  BY <1>1, FS_EmptySet
<1>2. CASE S # {}
  <2>1. PICK e \in S : TRUE
    BY <1>2
  <2>2. S = {e}
    BY <2>1
  <2>3. Cardinality(S) = 1
    BY <2>2, FS_Singleton
  <2> QED BY <2>3
<1> QED BY <1>1, <1>2

(***************************************************************************)
(* A marked slot has its job in the stream, or a producer between SET NX   *)
(* and XADD or DEL, or lost that producer: enqueue_once never leaves a     *)
(* marker that nobody stands behind without a process death.               *)
(***************************************************************************)
THEOREM MarkersAreCovered == Spec => []MarkerCovered
BY InitTypeInv, StepTypeInv, InitEnqueue, StepEnqueue, PTL DEF Spec

(***************************************************************************)
(* Producers add a slot at most once until its marker is deleted or runs   *)
(* out, for any number of replicas, restarts and failed XADDs.             *)
(***************************************************************************)
THEOREM SlotsAreEnqueuedOnce == Spec => []EnqueuedOnceWhileMarked
<1>1. EnqueueInv => EnqueuedOnceWhileMarked
  BY AtMostOne DEF EnqueueInv, EnqueuedOnceWhileMarked
<1> QED BY <1>1, InitTypeInv, StepTypeInv, InitEnqueue, StepEnqueue, PTL DEF Spec


-----------------------------------------------------------------------------
(***************************************************************************)
(* Successful executions.                                                  *)
(***************************************************************************)

LEMMA StepEffects ==
    ASSUME [Next]_vars
    PROVE  UNCHANGED effects \/ \E w \in Workers : AttemptSucceeds(w)
BY DEF Next, ProcessStep, ProducerStep, PollDue, MarkSlot, EnqueueJob,
       EnqueueFails, UndoMark, ProducerCrash, ManualEnqueue, WorkerStep,
       ClaimAbandoned, ReadGroup, ClaimRunGet, ClaimRunSet, Trigger,
       AttemptFails, CompleteRun, CompleteRunLost, Ack, Restart, Crash,
       SlotBecomesDue, ScheduleExpires, Deploy, Tick, vars, observers

\* Who holds a slot at "complete" stays there for as long as it holds it.
LEMMA CompleteStays ==
    ASSUME TypeInv, [Next]_vars, NEW w \in Workers, NEW k \in Slots,
           pc[w] = "complete", Holds(w, k)'
    PROVE  pc'[w] = "complete"
<1>1. Places(w)
  BY StepPlaces
<1> QED BY <1>1 DEF Places, Stays, Takes, MovesOn, Starts, Free, Holds

Excused(k) ==
    Happened("abandoned", k) \/ Happened("overdue", k) \/ Happened("forgotten", k)

\* In a slot without an excuse there is one holder, and its claim is the run key.
LEMMA PlainHolder ==
    ASSUME ServiceInv, EffectInv, NEW k \in Slots, ~Excused(k),
           NEW w \in Workers, Holds(w, k)
    PROVE  /\ run[k] = token[w] /\ run[k] # "completed" /\ run[k] # "none"
           /\ \A v \in Workers : Holds(v, k) => v = w
<1>1. \A v \in Workers : Holds(v, k) => run[k] = token[v]
  <2>1. \A v \in Workers : age[v] \in 0..Lease /\ Lease \in Nat
    BY TimesAssumption DEF ServiceInv, TypeOK, WorkerTypeOK
  <2> QED BY <2>1 DEF EffectInv, Excused, ServiceInv, LeaseInv
<1>2. token[w] \in Tokens
  BY DEF Holds, ServiceInv, TypeOK, WorkerTypeOK
<1>3. \A v \in Workers : Holds(v, k) => v = w
  BY <1>1 DEF ServiceInv, TokensDistinct, Holds
<1> QED BY <1>1, <1>2, <1>3, TokensAssumption

LEMMA StepEffectInv == ServiceInv /\ EffectInv /\ [Next]_vars => EffectInv'
<1> SUFFICES ASSUME ServiceInv, EffectInv, [Next]_vars PROVE EffectInv'
  OBVIOUS
<1>0. TypeInv /\ TypeOK /\ TypeOK'
  BY StepServiceInv DEF TypeInv, ServiceInv
<1>c. Quiet \/ Tick \/ (\E w \in Workers : CompleteRun(w))
        \/ (\E w \in Workers : \E t \in Tokens : Granted(w, t))
  BY <1>0, StepCases
<1>e. events \subseteq events'
  BY <1>c DEF Quiet, Tick, CompleteRun, Granted
<1>h. \A k \in Slots : ~Excused(k)' => ~Excused(k)
  BY <1>e DEF Excused, Happened
<1>1. ASSUME NEW k \in Slots, run'[k] = "completed" PROVE runTtl'[k] > 0
  <2>1. CASE Quiet
    BY <1>1, <2>1 DEF Quiet, EffectInv
  <2>2. CASE Tick
    BY <1>0, <1>1, <2>2, TimesAssumption
    DEF Tick, RedisTick, EffectInv, TypeOK, RedisTypeOK, LongestRunTtl
  <2>3. ASSUME NEW w \in Workers, CompleteRun(w) PROVE runTtl'[k] > 0
    BY <1>0, <1>1, <2>3, TimesAssumption
    DEF CompleteRun, SetRunCompleted, EffectInv, TypeOK, RedisTypeOK
  <2>4. ASSUME NEW w \in Workers, NEW t \in Tokens, Granted(w, t)
        PROVE  runTtl'[k] > 0
    BY <1>0, <1>1, <2>4, TimesAssumption
    DEF Granted, SetRunClaim, EffectInv, TypeOK, RedisTypeOK
  <2> QED BY <1>c, <2>1, <2>2, <2>3, <2>4
<1>2. ASSUME NEW v \in Workers, NEW k \in Slots, Holds(v, k)', age'[v] = Lease
      PROVE  Happened("overdue", k)'
  <2>1. ASSUME Holds(v, k), age[v] = Lease PROVE Happened("overdue", k)'
    BY <1>e, <2>1 DEF EffectInv, Happened
  <2>2. CASE Quiet
    BY <1>2, <2>1, <2>2 DEF Quiet
  <2>3. CASE Tick
    <3>1. Holds(v, k)
      BY <1>2, <2>3, SlotKept DEF Tick, RedisTick, Holds
    <3>2. age[v] \in 0..Lease /\ Lease \in Nat
      BY <1>0, TimesAssumption DEF TypeOK, WorkerTypeOK
    <3>3. age[v] = Lease \/ age[v] = Lease - 1
      BY <1>2, <2>3, <3>1, <3>2 DEF Tick
    <3>4. age[v] = Lease - 1 => <<"overdue", k>> \in events'
      BY <2>3, <3>1 DEF Tick
    <3> QED BY <2>1, <3>1, <3>3, <3>4 DEF Happened
  <2>4. ASSUME NEW w \in Workers, CompleteRun(w) PROVE Happened("overdue", k)'
    <3>1. v # w /\ pc'[v] = pc[v] /\ token'[v] = token[v] /\ age'[v] = age[v]
      BY <1>0, <1>2, <2>4 DEF CompleteRun, Holds, TypeOK, WorkerTypeOK
    <3>2. SlotOf(v)' = SlotOf(v)
      BY <2>4, SlotKept DEF CompleteRun, SetRunCompleted
    <3> QED BY <1>2, <2>1, <3>1, <3>2 DEF Holds
  <2>5. ASSUME NEW w \in Workers, NEW t \in Tokens, Granted(w, t)
        PROVE  Happened("overdue", k)'
    <3>1. SlotOf(v)' = SlotOf(v) /\ age'[v] = age[v]
      BY <2>5, SlotKept DEF Granted
    <3>2. v # w
      <4>1. age[w] = 0
        BY <1>0, <2>5 DEF Granted, TypeInv, WorkerInv
      <4> QED BY <1>2, <3>1, <4>1, TimesAssumption
    <3>3. pc'[v] = pc[v] /\ token'[v] = token[v]
      BY <1>0, <2>5, <3>2 DEF Granted, TypeOK, WorkerTypeOK
    <3> QED BY <1>2, <2>1, <3>1, <3>3 DEF Holds
  <2> QED BY <1>c, <2>2, <2>3, <2>4, <2>5
<1>3. ASSUME NEW k \in Slots, ~Excused(k)'
      PROVE  \/ effects'[k] = 0
             \/ /\ effects'[k] = 1
                /\ \/ run'[k] = "completed"
                   \/ \E w \in Workers : Holds(w, k)' /\ pc'[w] = "complete"
  <2>0. ~Excused(k)
    BY <1>3, <1>h
  <2>1. CASE UNCHANGED effects /\ effects[k] = 1 /\ run[k] = "completed"
    <3>1. run'[k] = "completed"
      <4>1. CASE Quiet
        BY <2>1, <4>1 DEF Quiet
      <4>2. CASE Tick
        <5>1. runTtl[k] \in Nat /\ runTtl[k] > 0
          BY <1>0, <2>1, TimesAssumption
          DEF EffectInv, TypeOK, RedisTypeOK, LongestRunTtl
        <5>2. runTtl[k] # 1
          BY <1>3, <2>1, <4>2 DEF Tick, Excused, Happened
        <5> QED BY <2>1, <4>2, <5>1, <5>2 DEF Tick, RedisTick
      <4>3. ASSUME NEW w \in Workers, CompleteRun(w)
            PROVE  run'[k] = "completed"
        BY <1>0, <2>1, <4>3 DEF CompleteRun, SetRunCompleted, TypeOK, RedisTypeOK
      <4>4. ASSUME NEW w \in Workers, NEW t \in Tokens, Granted(w, t)
            PROVE  run'[k] = "completed"
        BY <1>0, <2>1, <4>4 DEF Granted, SetRunClaim, TypeOK, RedisTypeOK
      <4> QED BY <1>c, <4>1, <4>2, <4>3, <4>4
    <3> QED BY <2>1, <3>1
  <2>2. ASSUME NEW v \in Workers, UNCHANGED effects, effects[k] = 1,
               Holds(v, k), pc[v] = "complete"
        PROVE  \/ run'[k] = "completed"
               \/ Holds(v, k)' /\ pc'[v] = "complete"
    <3>1. CASE Holds(v, k)'
      BY <1>0, <2>2, <3>1, CompleteStays
    <3>2. CASE Quiet
      BY <1>3, <2>2, <3>1, <3>2 DEF Quiet, Excused, Happened
    <3>3. CASE Tick
      <4>1. Holds(v, k)'
        BY <2>2, <3>3, SlotKept DEF Tick, RedisTick, Holds
      <4> QED BY <3>1, <4>1
    <3>4. ASSUME NEW w \in Workers, CompleteRun(w)
          PROVE  run'[k] = "completed" \/ Holds(v, k)'
      <4>1. CASE w = v
        BY <1>0, <2>2, <3>4, <4>1
        DEF CompleteRun, SetRunCompleted, Holds, TypeOK, RedisTypeOK
      <4>2. CASE w # v
        <5>1. SlotOf(v)' = SlotOf(v)
          BY <3>4, SlotKept DEF CompleteRun, SetRunCompleted
        <5> QED BY <1>0, <2>2, <3>4, <4>2, <5>1
                DEF CompleteRun, Holds, TypeOK, WorkerTypeOK
      <4> QED BY <4>1, <4>2
    <3>5. ASSUME NEW w \in Workers, NEW t \in Tokens, Granted(w, t)
          PROVE  Holds(v, k)'
      <4>1. v # w /\ SlotOf(v)' = SlotOf(v)
        BY <2>2, <3>5, SlotKept DEF Granted
      <4> QED BY <1>0, <2>2, <3>5, <4>1
              DEF Granted, Holds, TypeOK, WorkerTypeOK
    <3> QED BY <1>c, <3>1, <3>2, <3>3, <3>4, <3>5
  <2>3. CASE UNCHANGED effects
    BY <2>0, <2>1, <2>2, <2>3 DEF EffectInv, Excused
  <2>4. ASSUME NEW w \in Workers, AttemptSucceeds(w)
        PROVE  \/ effects'[k] = 0
               \/ /\ effects'[k] = 1
                  /\ \/ run'[k] = "completed"
                     \/ \E v \in Workers : Holds(v, k)' /\ pc'[v] = "complete"
    <3>1. token[w] # "none" /\ pc[w] = "attempt" /\ SlotOf(w) \in Slots
      BY <1>0, <2>4, SlotInRange DEF AttemptSucceeds, TypeInv, WorkerInv
    <3>2. /\ \A v \in Workers : SlotOf(v)' = SlotOf(v)
          /\ UNCHANGED <<token, run>>
          /\ pc'[w] = "complete"
          /\ \A v \in Workers \ {w} : pc'[v] = pc[v]
      BY <1>0, <2>4, <3>1, SlotKept
      DEF AttemptSucceeds, Record, redisVars, TypeOK, WorkerTypeOK
    <3>3. CASE SlotOf(w) = k
      <4>1. Holds(w, k)
        BY <3>1, <3>3 DEF Holds
      <4>2. effects[k] = 0
        BY <2>0, <3>1, <4>1, PlainHolder DEF EffectInv, Excused
      <4>3. effects'[k] = 1
        BY <1>0, <2>4, <3>3, <4>2, BudgetsAssumption
        DEF AttemptSucceeds, TypeOK, ObserverTypeOK
      <4>4. Holds(w, k)' /\ pc'[w] = "complete"
        BY <3>1, <3>2, <3>3 DEF Holds
      <4> QED BY <4>3, <4>4
    <3>4. CASE SlotOf(w) # k
      <4>1. effects'[k] = effects[k]
        BY <1>0, <2>4, <3>4 DEF AttemptSucceeds, TypeOK, ObserverTypeOK
      <4>2. \A v \in Workers : Holds(v, k) /\ pc[v] = "complete" =>
                Holds(v, k)' /\ pc'[v] = "complete"
        BY <3>1, <3>2 DEF Holds
      <4> QED BY <2>0, <3>2, <4>1, <4>2 DEF EffectInv, Excused
    <3> QED BY <3>3, <3>4
  <2> QED BY <2>3, <2>4, StepEffects
<1> QED BY <1>1, <1>2, <1>3 DEF EffectInv, Excused

(***************************************************************************)
(* A slot is executed successfully twice only if a claim holder died,      *)
(* outlived its lease, or the "completed" key ran out: duplicated,         *)
(* reclaimed and manual jobs alone never repeat a run.                     *)
(***************************************************************************)
THEOREM DuplicatesAreExplained == Spec => []DuplicateEffectExplained
<1>1. Init => EffectInv
  BY DEF Init, RedisInit, EffectInv, Holds
<1>2. ServiceInv /\ EffectInv => DuplicateEffectExplained
  BY DEF EffectInv, DuplicateEffectExplained
<1> QED BY <1>1, <1>2, InitServiceInv, StepServiceInv, StepEffectInv, PTL DEF Spec

=============================================================================
