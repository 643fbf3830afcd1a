---------------------------- MODULE ApprovalProofs ----------------------------
(***************************************************************************)
(* Proofs about Approvals, for any number of handlers, records, identities *)
(* and tokens, with and without the UNIQUE constraint.                     *)
(***************************************************************************)
EXTENDS Approvals, TLAPS

USE DEF storeVars, handlerVars, observers

-----------------------------------------------------------------------------
(* What the store's writes do to the table *)

\* decide keeps the table well typed and touches one pending record.
LEMMA StoreDecideEffect ==
    ASSUME TypeOK, NEW i \in Ids, NEW st \in Statuses, NEW u \in Users \cup {None},
           NEW t \in Tokens \cup {None}, StoreDecide(i, st, u, t)
    PROVE  /\ records' \in [Ids -> Record \cup {None}]
           /\ Pending(i)
           /\ records'[i] \in Record
           /\ records'[i].requester = records[i].requester
           /\ records'[i].args = records[i].args
           /\ records'[i].key = records[i].key
           /\ records'[i].status = st
           /\ records'[i].approver = u
           /\ records'[i].token = t
           /\ \A j \in Ids : j # i => records'[j] = records[j]
           /\ late' = late
<1>1. records[i] \in Record
  BY DEF StoreDecide, Pending, Exists, TypeOK
<1>2. Decided(records[i], st, u, t) \in Record
  BY <1>1 DEF Decided, Record
<1>3. records' = [records EXCEPT ![i] = Decided(records[i], st, u, t)]
  BY DEF StoreDecide
<1>4. records'[i] = Decided(records[i], st, u, t)
  BY <1>3 DEF TypeOK
<1>5. /\ Decided(records[i], st, u, t).requester = records[i].requester
      /\ Decided(records[i], st, u, t).args = records[i].args
      /\ Decided(records[i], st, u, t).key = records[i].key
      /\ Decided(records[i], st, u, t).status = st
      /\ Decided(records[i], st, u, t).approver = u
      /\ Decided(records[i], st, u, t).token = t
  BY <1>1 DEF Decided, Record
<1> QED
  BY <1>2, <1>3, <1>4, <1>5 DEF StoreDecide, TypeOK

\* create fills one free id with a pending, undecided record.
LEMMA StoreCreateEffect ==
    ASSUME TypeOK, NEW h \in Handlers, NEW i \in Ids, StoreCreate(h, i),
           call[h] \in Call, call[h].args \in Args
    PROVE  /\ records' \in [Ids -> Record \cup {None}]
           /\ ~Exists(i)
           /\ records'[i] \in Record
           /\ records'[i].requester = call[h].who
           /\ records'[i].key = call[h].key
           /\ records'[i].status = "pending"
           /\ records'[i].approver = None
           /\ records'[i].token = None
           /\ \A j \in Ids : j # i => records'[j] = records[j]
           /\ late' = late
<1> DEFINE r == [requester |-> call[h].who, args |-> call[h].args,
                 key |-> call[h].key, status |-> "pending", approver |-> None,
                 token |-> None]
<1>1. r \in Record
  BY DEF Call, Record, Statuses
<1>2. records' = [records EXCEPT ![i] = r]
  BY DEF StoreCreate
<1>3. records'[i] = r
  BY <1>2 DEF TypeOK
<1> QED
  BY <1>1, <1>2, <1>3 DEF StoreCreate, TypeOK

(***************************************************************************)
(* Every step leaves the table alone, creates one record, or decides one   *)
(* pending record on behalf of one handler.                                *)
(***************************************************************************)
Creates(h, i) == pc[h] = "create" /\ ~KeyTaken(h) /\ StoreCreate(h, i)

Decides(h) ==
    \/ /\ pc[h] = "expire"
       /\ StoreDecide(call[h].id, "expired", None, None)
    \/ /\ pc[h] = "decide" /\ call[h].op = "approve"
       /\ \E t \in Tokens : StoreDecide(call[h].id, "approved", call[h].who.user, t)
    \/ /\ pc[h] = "decide" /\ call[h].op = "reject"
       /\ StoreDecide(call[h].id, "rejected", call[h].who.user, None)

LEMMA TableSteps ==
    ASSUME [Next]_vars
    PROVE  \/ UNCHANGED records
           \/ \E h \in Handlers, i \in Ids : Creates(h, i)
           \/ \E h \in Handlers : Decides(h)
<1>1. CASE UNCHANGED vars
  BY <1>1 DEF vars
<1>2. CASE TimePasses
  BY <1>2 DEF TimePasses
<1>3. ASSUME NEW h \in Handlers, HandlerStep(h)
      PROVE  \/ UNCHANGED records
             \/ \E i \in Ids : Creates(h, i)
             \/ Decides(h)
  <2>1. CASE StartRequest(h) \/ StartDecision(h) \/ StartVerify(h)
    BY <2>1 DEF StartRequest, StartDecision, StartVerify, Start
  <2>2. CASE FindIdempotent(h)
    BY <2>2 DEF FindIdempotent
  <2>3. CASE Create(h)
    BY <2>3 DEF Create, Creates
  <2>4. CASE Get(h)
    BY <2>4 DEF Get
  <2>5. CASE ExpireIfNeeded(h)
    BY <2>5 DEF ExpireIfNeeded, Decides
  <2>6. CASE Decide(h)
    BY <2>6 DEF Decide, Decides
  <2>7. CASE RecordEvent(h)
    BY <2>7 DEF RecordEvent
  <2>8. CASE CompareHash(h)
    BY <2>8 DEF CompareHash
  <2>9. CASE HandlerFails(h)
    BY <2>9 DEF HandlerFails
  <2> QED
    BY <1>3, <2>1, <2>2, <2>3, <2>4, <2>5, <2>6, <2>7, <2>8, <2>9 DEF HandlerStep
<1> QED
  BY <1>1, <1>2, <1>3 DEF Next

\* A handler that is not idle has a call, and a deciding one a record.
LEMMA CallOfHandler ==
    ASSUME TypeOK, CallInv, NEW h \in Handlers
    PROVE  /\ pc[h] # "idle" => call[h] \in Call
           /\ pc[h] \in {"expire", "decide", "hash", "audit", "read"} =>
                 call[h].id \in Ids
BY DEF TypeOK, CallInv, CallOK

LEMMA DecidesEffect ==
    ASSUME TypeOK, CallInv, NEW h \in Handlers, Decides(h)
    PROVE  LET i == call[h].id IN
           /\ i \in Ids
           /\ records' \in [Ids -> Record \cup {None}]
           /\ Pending(i)
           /\ records'[i] \in Record
           /\ records'[i].requester = records[i].requester
           /\ records'[i].args = records[i].args
           /\ records'[i].key = records[i].key
           /\ records'[i].status # "pending"
           /\ \A j \in Ids : j # i => records'[j] = records[j]
<1>1. call[h] \in Call /\ call[h].id \in Ids /\ call[h].who.user \in Users
  BY CallOfHandler DEF Decides, Call, Users
<1>2. CASE pc[h] = "expire"
  <2>1. StoreDecide(call[h].id, "expired", None, None)
    BY <1>2 DEF Decides
  <2> QED
    BY <1>1, <2>1, StoreDecideEffect DEF Statuses
<1>3. CASE pc[h] = "decide" /\ call[h].op = "approve"
  <2>1. PICK t \in Tokens :
            StoreDecide(call[h].id, "approved", call[h].who.user, t)
    BY <1>3 DEF Decides
  <2> QED
    BY <1>1, <2>1, StoreDecideEffect DEF Statuses
<1>4. CASE pc[h] = "decide" /\ call[h].op = "reject"
  <2>1. StoreDecide(call[h].id, "rejected", call[h].who.user, None)
    BY <1>4 DEF Decides
  <2> QED
    BY <1>1, <2>1, StoreDecideEffect DEF Statuses
<1> QED
  BY <1>2, <1>3, <1>4 DEF Decides

\* A record, once there, keeps what was requested, and its decision.
Kept(i) ==
    Exists(i) =>
        /\ records'[i] # None
        /\ records'[i].requester = records[i].requester
        /\ records'[i].args = records[i].args
        /\ records'[i].key = records[i].key
        /\ ~Pending(i) => records'[i] = records[i]

LEMMA RecordsKept ==
    ASSUME TypeOK, CallInv, [Next]_vars
    PROVE  /\ records' \in [Ids -> Record \cup {None}]
           /\ \A i \in Ids : Kept(i)
<1>1. CASE UNCHANGED records
  BY <1>1 DEF TypeOK, Kept, Exists
<1>2. ASSUME NEW h \in Handlers, NEW i \in Ids, Creates(h, i)
      PROVE  /\ records' \in [Ids -> Record \cup {None}]
             /\ \A j \in Ids : Kept(j)
  <2>1. call[h] \in Call /\ call[h].args \in Args
    BY <1>2, CallOfHandler DEF Creates, CallInv, CallOK
  <2> QED
    BY <1>2, <2>1, StoreCreateEffect DEF Creates, Kept, Exists
<1>3. ASSUME NEW h \in Handlers, Decides(h)
      PROVE  /\ records' \in [Ids -> Record \cup {None}]
             /\ \A j \in Ids : Kept(j)
  BY <1>3, DecidesEffect, NoneAssumption DEF Kept, Exists, Pending
<1> QED
  BY <1>1, <1>2, <1>3, TableSteps

(***************************************************************************)
(* Records are decided once, for every number of racing handlers.          *)
(***************************************************************************)
LEMMA StepDecisionFinal ==
    ASSUME TypeOK, CallInv, [Next]_vars
    PROVE  \A i \in Ids : Exists(i) =>
              /\ records'[i] # None
              /\ records'[i].requester = records[i].requester
              /\ records'[i].args = records[i].args
              /\ records'[i].key = records[i].key
              /\ ~Pending(i) => records'[i] = records[i]
BY RecordsKept DEF Kept

-----------------------------------------------------------------------------
(* The inductive invariant *)

LEMMA InitApprovalInv == Init => ApprovalInv
<1> SUFFICES ASSUME Init PROVE ApprovalInv
  OBVIOUS
<1>1. TypeOK
  BY SettingsAssumption DEF Init, TypeOK
<1>2. CallInv
  BY DEF Init, CallInv, CallOK
<1>3. RecordInv
  BY DEF Init, RecordInv, Exists
<1> QED
  BY <1>1, <1>2, <1>3 DEF ApprovalInv

\* A handler that did not move finds its record still as it needs it.
LEMMA OtherHandler ==
    ASSUME TypeOK, CallInv, \A i \in Ids : Kept(i),
           NEW h \in Handlers, CallOK(h),
           pc'[h] = pc[h], call'[h] = call[h]
    PROVE  CallOK(h)'
<1> DEFINE c == call[h]
<1>1. pc[h] \in {"expire", "decide", "hash", "audit"} =>
        c.id \in Ids /\ Exists(c.id) /\ Kept(c.id)
  BY CallOfHandler DEF CallOK, Visible
<1>2. pc[h] \in {"expire", "decide", "hash"} => Visible(c.who, c.id)'
  BY <1>1 DEF CallOK, Visible, Exists, Kept
<1>3. pc[h] = "hash" => records'[c.id] = records[c.id]
  BY <1>1 DEF CallOK, Kept, Pending
<1>4. pc[h] = "audit" => Exists(c.id)'
  BY <1>1 DEF Exists, Kept
<1>5. pc[h] = "audit" /\ c.op # "request" => records'[c.id] = records[c.id]
  <2> SUFFICES ASSUME pc[h] = "audit", c.op # "request"
               PROVE  ~Pending(c.id)
    BY <1>1 DEF Kept
  <2>1. c.op \in {"approve", "reject"}
    BY CallOfHandler DEF CallOK, Call, Operations
  <2> QED
    BY <2>1 DEF CallOK, Pending, Outcome
<1> QED
  BY <1>1, <1>2, <1>3, <1>4, <1>5 DEF CallOK, MayDecide

\* The two variables of a handler change for one handler only.
Moves(h) ==
    /\ pc' \in [Handlers -> {"idle", "find", "create", "read", "expire",
                              "decide", "audit", "hash"}]
    /\ call' \in [Handlers -> Call \cup {None}]
    /\ \A g \in Handlers : g # h => pc'[g] = pc[g] /\ call'[g] = call[g]
    /\ CallOK(h)'

LEMMA FinishMoves ==
    ASSUME TypeOK, NEW h \in Handlers, Finish(h)
    PROVE  Moves(h)
BY DEF TypeOK, Finish, Moves, CallOK

LEMMA StartMoves ==
    ASSUME TypeOK, NEW h \in Handlers,
           StartRequest(h) \/ StartDecision(h) \/ StartVerify(h)
    PROVE  Moves(h)
<1>1. CASE StartRequest(h)
  <2>1. PICK x \in Identities, k \in Keys \cup {None}, a \in Args :
          Start(h, IF k = None THEN "create" ELSE "find",
                [op |-> "request", who |-> x, id |-> None, key |-> k,
                 args |-> a, token |-> None])
    BY <1>1 DEF StartRequest
  <2> DEFINE c == [op |-> "request", who |-> x, id |-> None, key |-> k,
                   args |-> a, token |-> None]
  <2>a. c \in Call
    BY DEF Call, Operations
  <2>2. c \in Call /\ c # None
    BY <2>a, NoneAssumption
  <2> QED
    BY <2>1, <2>2 DEF Start, Moves, TypeOK, CallOK
<1>2. CASE StartDecision(h)
  <2>1. PICK x \in Identities, i \in Ids, o \in {"approve", "reject"} :
          /\ MayDecide(x)
          /\ Start(h, "read", [op |-> o, who |-> x, id |-> i, key |-> None,
                               args |-> None, token |-> None])
    BY <1>2 DEF StartDecision
  <2> DEFINE c == [op |-> o, who |-> x, id |-> i, key |-> None,
                   args |-> None, token |-> None]
  <2>a. c \in Call
    BY DEF Call, Operations
  <2>2. c \in Call /\ c # None
    BY <2>a, NoneAssumption
  <2>3. pc'[h] = "read" /\ call'[h] = c
    BY <2>1 DEF Start, TypeOK
  <2>4. CallOK(h)'
    BY <2>1, <2>2, <2>3 DEF CallOK, MayDecide
  <2> QED
    BY <2>1, <2>2, <2>4 DEF Start, Moves, TypeOK
<1>3. CASE StartVerify(h)
  <2>1. PICK x \in Identities, i \in Ids, a \in Args, t \in Tokens :
          Start(h, "read", [op |-> "verify", who |-> x, id |-> i, key |-> None,
                            args |-> a, token |-> t])
    BY <1>3 DEF StartVerify
  <2> DEFINE c == [op |-> "verify", who |-> x, id |-> i, key |-> None,
                   args |-> a, token |-> t]
  <2>a. c \in Call
    BY DEF Call, Operations
  <2>2. c \in Call /\ c # None
    BY <2>a, NoneAssumption
  <2>3. pc'[h] = "read" /\ call'[h] = c
    BY <2>1 DEF Start, TypeOK
  <2>4. CallOK(h)'
    BY <2>1, <2>2, <2>3 DEF CallOK
  <2> QED
    BY <2>1, <2>2, <2>4 DEF Start, Moves, TypeOK
<1> QED
  BY <1>1, <1>2, <1>3

LEMMA RequestMoves ==
    ASSUME TypeOK, CallInv, NEW h \in Handlers, FindIdempotent(h) \/ Create(h)
    PROVE  Moves(h)
<1>1. call[h] \in Call /\ call[h].op = "request" /\ call[h].args \in Args
  BY CallOfHandler DEF CallInv, CallOK, FindIdempotent, Create
<1>2. ASSUME NEW i \in Ids, call' = [call EXCEPT ![h].id = i],
             pc' = [pc EXCEPT ![h] = "audit"], Exists(i)'
      PROVE  Moves(h)
  <2>1. [call[h] EXCEPT !.id = i] \in Call
    BY <1>1 DEF Call
  <2>2. call'[h] = [call[h] EXCEPT !.id = i] /\ pc'[h] = "audit"
    BY <1>2 DEF TypeOK
  <2>3. call'[h].op = "request" /\ call'[h].id = i /\ call'[h] # None
    BY <1>1, <2>1, <2>2, NoneAssumption DEF Call
  <2>4. CallOK(h)'
    BY <1>2, <2>2, <2>3 DEF CallOK
  <2> QED
    BY <1>2, <2>1, <2>4 DEF Moves, TypeOK
<1>3. CASE FindIdempotent(h)
  <2>1. CASE pc' = [pc EXCEPT ![h] = "audit"]
    <3>1. PICK i \in SameKey(call[h].who, call[h].key) :
                  call' = [call EXCEPT ![h].id = i]
      BY <1>3, <2>1 DEF FindIdempotent, GoTo, TypeOK
    <3>2. i \in Ids /\ Exists(i)'
      BY <1>3, <3>1 DEF SameKey, Visible, Exists, FindIdempotent
    <3> QED
      BY <1>2, <2>1, <3>1, <3>2
  <2>2. CASE GoTo(h, "create")
    BY <1>1, <1>3, <2>2, NoneAssumption DEF GoTo, Moves, TypeOK, CallOK
  <2> QED
    BY <1>3, <2>1, <2>2 DEF FindIdempotent
<1>4. CASE Create(h)
  <2>1. CASE Finish(h)
    BY <2>1, FinishMoves
  <2>2. ASSUME NEW i \in Ids, StoreCreate(h, i), call' = [call EXCEPT ![h].id = i],
               pc' = [pc EXCEPT ![h] = "audit"]
        PROVE  Moves(h)
    <3>1. Exists(i)'
      BY <1>1, <2>2, StoreCreateEffect, NoneAssumption DEF Exists
    <3> QED
      BY <1>2, <2>2, <3>1
  <2> QED
    BY <1>4, <2>1, <2>2 DEF Create
<1> QED
  BY <1>3, <1>4

LEMMA ReadMoves ==
    ASSUME TypeOK, CallInv, NEW h \in Handlers, Get(h) \/ ExpireIfNeeded(h)
    PROVE  Moves(h)
<1> DEFINE i == call[h].id
<1>1. call[h] \in Call /\ call[h] # None /\ i \in Ids /\ CallOK(h)
  BY CallOfHandler, NoneAssumption DEF CallInv, CallOK, Get, ExpireIfNeeded
<1>2. ASSUME NEW where \in {"expire", "decide", "hash"}, GoTo(h, where),
             records'[i] # None,
             records'[i].requester.scope = call[h].who.scope,
             pc[h] \in {"read", "expire"},
             where = "decide" => call[h].op # "verify",
             where = "hash" => /\ call[h].op = "verify"
                               /\ records'[i].status = "approved"
                               /\ records'[i].args = call[h].args
      PROVE  Moves(h)
  <2>1. pc'[h] = where /\ call'[h] = call[h]
    BY <1>2 DEF GoTo, TypeOK
  <2>2. CallOK(h)'
    BY <1>1, <1>2, <2>1 DEF CallOK, MayDecide, Visible, Exists
  <2> QED
    BY <1>2, <2>2 DEF GoTo, Moves, TypeOK
<1>3. CASE Get(h)
  <2>1. CASE Finish(h)
    BY <2>1, FinishMoves
  <2>2. CASE Visible(call[h].who, i) /\ GoTo(h, "expire")
    BY <1>2, <1>3, <2>2 DEF Get, Visible, Exists
  <2>3. CASE Visible(call[h].who, i) /\ Proceed(h, records[i].status)
    <3>1. /\ records'[i] # None
          /\ records'[i].requester.scope = call[h].who.scope
          /\ pc[h] \in {"read", "expire"}
          /\ records' = records
      BY <1>3, <2>3 DEF Get, Visible, Exists
    <3> QED
      BY <1>2, <2>1, <2>3, <3>1 DEF Proceed
  <2> QED
    BY <1>3, <2>1, <2>2, <2>3 DEF Get
<1>4. CASE ExpireIfNeeded(h)
  <2>1. CASE Finish(h)
    BY <2>1, FinishMoves
  <2>2. CASE Proceed(h, "expired")
    BY <2>1, <2>2 DEF Proceed, GoTo
  <2>3. CASE Proceed(h, "pending") /\ UNCHANGED storeVars
    BY <1>1, <1>2, <1>4, <2>1, <2>3
       DEF Proceed, CallOK, ExpireIfNeeded, Visible, Exists
  <2> QED
    BY <1>4, <2>2, <2>3 DEF ExpireIfNeeded
<1> QED
  BY <1>3, <1>4

LEMMA DecideMoves ==
    ASSUME TypeOK, CallInv, NEW h \in Handlers, Decide(h)
    PROVE  Moves(h)
<1> DEFINE i == call[h].id
           u == call[h].who.user
<1>1. call[h] \in Call /\ call[h] # None /\ i \in Ids /\ u \in Users
  BY CallOfHandler, NoneAssumption DEF CallInv, CallOK, Decide, Call, Users
<1>2. CASE Finish(h)
  BY <1>2, FinishMoves
<1>3. ASSUME call[h].op = "approve", pc' = [pc EXCEPT ![h] = "audit"],
             NEW t \in Tokens, StoreDecide(i, "approved", u, t),
             call' = [call EXCEPT ![h].token = t]
      PROVE  Moves(h)
  <2>1. [call[h] EXCEPT !.token = t] \in Call
    BY <1>1 DEF Call
  <2>2. call'[h] = [call[h] EXCEPT !.token = t] /\ pc'[h] = "audit"
    BY <1>3 DEF TypeOK
  <2>3. /\ call'[h].op = "approve" /\ call'[h].id = i
        /\ call'[h].who = call[h].who /\ call'[h].token = t
    BY <1>1, <1>3, <2>2 DEF Call
  <2>4. call'[h] # None
    BY <2>1, <2>2, NoneAssumption
  <2>5. /\ records'[i] # None /\ records'[i].status = "approved"
        /\ records'[i].approver = u /\ records'[i].token = t
    BY <1>1, <1>3, StoreDecideEffect, NoneAssumption DEF Statuses
  <2>6. CallOK(h)'
    BY <1>1, <1>3, <2>2, <2>3, <2>4, <2>5 DEF CallOK, Exists, Outcome
  <2> QED
    BY <1>3, <2>1, <2>6 DEF Moves, TypeOK
<1>4. CASE call[h].op = "reject" /\ StoreDecide(i, "rejected", u, None)
                                 /\ GoTo(h, "audit")
  <2>1. call'[h] = call[h] /\ pc'[h] = "audit"
    BY <1>4 DEF GoTo, TypeOK
  <2>2. /\ records'[i] # None /\ records'[i].status = "rejected"
        /\ records'[i].approver = u
    BY <1>1, <1>4, StoreDecideEffect, NoneAssumption DEF Statuses
  <2>3. CallOK(h)'
    BY <1>1, <1>4, <2>1, <2>2 DEF CallOK, Exists, Outcome
  <2> QED
    BY <1>4, <2>3 DEF Moves, GoTo, TypeOK
<1> QED
  BY <1>2, <1>3, <1>4 DEF Decide

LEMMA HandlerMoves ==
    ASSUME TypeOK, CallInv, NEW h \in Handlers, HandlerStep(h)
    PROVE  Moves(h)
<1>1. CASE RecordEvent(h) \/ CompareHash(h) \/ HandlerFails(h)
  BY <1>1, FinishMoves DEF RecordEvent, CompareHash, HandlerFails
<1> QED
  BY <1>1, StartMoves, RequestMoves, ReadMoves, DecideMoves DEF HandlerStep

\* The variables that only grow: the audit log and the observers.
LEMMA LogsTyped ==
    ASSUME TypeOK, CallInv, [Next]_vars
    PROVE  /\ late' \subseteq Ids
           /\ audit' \subseteq Operations \X Ids \X Users
           /\ faults' \in 0..MaxFaults
           /\ issued' \subseteq Ids \X Tokens
           /\ verified' \subseteq [id : Ids, token : Tokens, args : Args]
           /\ lost' \subseteq Ids
<1> USE SettingsAssumption
<1>1. CASE UNCHANGED vars
  BY <1>1 DEF vars, TypeOK
<1>2. CASE TimePasses
  BY <1>2 DEF TimePasses, TypeOK
<1>3. ASSUME NEW h \in Handlers,
             \/ StartRequest(h) \/ StartDecision(h) \/ StartVerify(h)
             \/ FindIdempotent(h) \/ Create(h) \/ Get(h)
             \/ ExpireIfNeeded(h) \/ Decide(h)
      PROVE  UNCHANGED <<late, audit, faults, issued, verified, lost>>
  BY <1>3 DEF StartRequest, StartDecision, StartVerify, Start, FindIdempotent,
              Create, StoreCreate, Get, ExpireIfNeeded, Decide, StoreDecide
<1>4. ASSUME NEW h \in Handlers, RecordEvent(h)
      PROVE  /\ audit' \subseteq Operations \X Ids \X Users
             /\ issued' \subseteq Ids \X Tokens
             /\ UNCHANGED <<late, faults, verified, lost>>
  <2>1. /\ call[h] \in Call /\ call[h].id \in Ids
        /\ call[h].op = "approve" => call[h].token \in Tokens
    BY <1>4, CallOfHandler DEF RecordEvent, CallInv, CallOK
  <2>2. call[h].op \in Operations /\ call[h].who.user \in Users
    BY <2>1 DEF Call, Users
  <2> QED
    BY <1>4, <2>1, <2>2 DEF RecordEvent, TypeOK
<1>5. ASSUME NEW h \in Handlers, CompareHash(h)
      PROVE  /\ verified' \subseteq [id : Ids, token : Tokens, args : Args]
             /\ UNCHANGED <<late, audit, faults, issued, lost>>
  <2>1. /\ call[h] \in Call /\ call[h].id \in Ids
        /\ call[h].token \in Tokens /\ call[h].args \in Args
    BY <1>5, CallOfHandler DEF CompareHash, CallInv, CallOK
  <2> QED
    BY <1>5, <2>1 DEF CompareHash, TypeOK
<1>6. ASSUME NEW h \in Handlers, HandlerFails(h)
      PROVE  /\ faults' \in 0..MaxFaults
             /\ lost' \subseteq Ids
             /\ UNCHANGED <<late, audit, issued, verified>>
  <2>1. pc[h] = "audit" => call[h].id \in Ids
    BY CallOfHandler
  <2> QED
    BY <1>6, <2>1 DEF HandlerFails, TypeOK
<1> QED
  BY <1>1, <1>2, <1>3, <1>4, <1>5, <1>6 DEF Next, HandlerStep, TypeOK

LEMMA StepCallInv ==
    ASSUME TypeOK, CallInv, [Next]_vars
    PROVE  TypeOK' /\ CallInv'
<1>1. \A i \in Ids : Kept(i)
  BY RecordsKept
<1>2. ASSUME NEW h \in Handlers, HandlerStep(h)
      PROVE  /\ pc' \in [Handlers -> {"idle", "find", "create", "read",
                                "expire", "decide", "audit", "hash"}]
             /\ call' \in [Handlers -> Call \cup {None}]
             /\ CallInv'
  <2>1. Moves(h)
    BY <1>2, HandlerMoves
  <2>2. ASSUME NEW g \in Handlers PROVE CallOK(g)'
    BY <1>1, <2>1, OtherHandler DEF Moves, CallInv
  <2> QED
    BY <2>1, <2>2 DEF Moves, CallInv
<1>3. ASSUME UNCHANGED handlerVars PROVE CallInv'
  <2>1. ASSUME NEW g \in Handlers PROVE CallOK(g)'
    BY <1>1, <1>3, OtherHandler DEF CallInv
  <2> QED
    BY <2>1 DEF CallInv
<1>4. (\E h \in Handlers : HandlerStep(h)) \/ UNCHANGED handlerVars
  BY DEF Next, TimePasses, vars
<1>5. /\ pc' \in [Handlers -> {"idle", "find", "create", "read",
                                "expire", "decide", "audit", "hash"}]
      /\ call' \in [Handlers -> Call \cup {None}]
      /\ CallInv'
  BY <1>2, <1>3, <1>4 DEF TypeOK
<1> QED
  BY <1>5, RecordsKept, LogsTyped DEF TypeOK

\* Only a manager or admin who sees the record ever approves it.
LEMMA StepRecordInv ==
    ASSUME ApprovalInv, [Next]_vars
    PROVE  RecordInv'
<1> USE DEF ApprovalInv
<1>1. CASE UNCHANGED records
  BY <1>1 DEF RecordInv, Exists, Genuine, Pending
<1>2. ASSUME NEW h \in Handlers, NEW i \in Ids, Creates(h, i)
      PROVE  RecordInv'
  <2>1. call[h] \in Call /\ call[h].args \in Args
    BY <1>2, CallOfHandler DEF Creates, CallInv, CallOK
  <2>2. /\ records'[i].status = "pending"
        /\ records'[i].approver = None
        /\ \A j \in Ids : j # i => records'[j] = records[j]
    BY <1>2, <2>1, StoreCreateEffect DEF Creates
  <2> QED
    BY <2>2 DEF RecordInv, Exists, Genuine, Pending
<1>3. ASSUME NEW h \in Handlers, Decides(h)
      PROVE  RecordInv'
  <2>0. PICK i \in Ids, x \in Identities : i = call[h].id /\ x = call[h].who
    BY <1>3, CallOfHandler DEF Decides, Call
  <2>1. /\ x.user \in Users
        /\ Visible(x, i)
        /\ pc[h] = "decide" => MayDecide(x)
    BY <1>3, <2>0 DEF Decides, CallInv, CallOK, Users
  <2>2. /\ records'[i].requester = records[i].requester
        /\ records'[i].status # "pending"
        /\ \A j \in Ids : j # i => records'[j] = records[j]
    BY <1>3, <2>0, DecidesEffect
  <2>3. records'[i].status = "approved" =>
          pc[h] = "decide" /\ records'[i].approver = x.user
    <3>1. CASE pc[h] = "expire"
      <4>1. StoreDecide(i, "expired", None, None)
        BY <1>3, <2>0, <3>1 DEF Decides
      <4> QED
        BY <2>1, <4>1, StoreDecideEffect DEF Statuses
    <3>2. CASE pc[h] = "decide" /\ call[h].op = "approve"
      <4>1. PICK t \in Tokens : StoreDecide(i, "approved", x.user, t)
        BY <1>3, <2>0, <3>2 DEF Decides
      <4> QED
        BY <2>1, <3>2, <4>1, StoreDecideEffect DEF Statuses
    <3>3. CASE pc[h] = "decide" /\ call[h].op = "reject"
      <4>1. StoreDecide(i, "rejected", x.user, None)
        BY <1>3, <2>0, <3>3 DEF Decides
      <4> QED
        BY <2>1, <4>1, StoreDecideEffect DEF Statuses
    <3> QED
      BY <1>3, <3>1, <3>2, <3>3 DEF Decides
  <2>4. records'[i].status = "approved" => Genuine(i)'
    BY <2>1, <2>2, <2>3 DEF Genuine, Visible, MayDecide
  <2>5. ASSUME NEW j \in Ids, Exists(j)'
        PROVE  /\ records'[j].status = "approved" => Genuine(j)'
               /\ records'[j].approver # None => ~Pending(j)'
    <3>1. CASE j = i
      BY <2>2, <2>4, <3>1 DEF Pending
    <3>2. CASE j # i
      BY <2>2, <2>5, <3>2 DEF RecordInv, Exists, Genuine, Pending
    <3> QED
      BY <3>1, <3>2
  <2> QED
    BY <2>5 DEF RecordInv
<1> QED
  BY <1>1, <1>2, <1>3, TableSteps

LEMMA StepApprovalInv == ApprovalInv /\ [Next]_vars => ApprovalInv'
BY StepCallInv, StepRecordInv DEF ApprovalInv

LEMMA ApprovalInvariant == Spec => []ApprovalInv
BY InitApprovalInv, StepApprovalInv, PTL DEF Spec

-----------------------------------------------------------------------------
(* Theorems *)

(***************************************************************************)
(* Every reachable state of the approval service is well typed.            *)
(***************************************************************************)
THEOREM ApprovalTypes == Spec => []TypeOK
<1>1. ApprovalInv => TypeOK
  BY DEF ApprovalInv
<1> QED
  BY <1>1, ApprovalInvariant, PTL

(***************************************************************************)
(* A decision is final, whoever races with it: approve, reject and the     *)
(* lazy expiry of get all go through the store's compare-and-set.          *)
(***************************************************************************)
THEOREM DecisionsAreFinal == Spec => DecisionFinal
<1>1. ApprovalInv /\ [Next]_vars =>
        [\A i \in Ids : Exists(i) =>
            /\ records'[i] # None
            /\ records'[i].requester = records[i].requester
            /\ records'[i].args = records[i].args
            /\ records'[i].key = records[i].key
            /\ ~Pending(i) => records'[i] = records[i]]_vars
  BY StepDecisionFinal DEF ApprovalInv
<1> QED
  BY <1>1, ApprovalInvariant, PTL DEF Spec, DecisionFinal

(***************************************************************************)
(* The token an approver receives is, and stays, the stored one.           *)
(***************************************************************************)
THEOREM IssuedTokensStand == Spec => []IssuedTokenStands
<1>1. Init => IssuedTokenStands
  BY DEF Init, IssuedTokenStands
<1>2. ApprovalInv /\ IssuedTokenStands /\ [Next]_vars => IssuedTokenStands'
  <2> SUFFICES ASSUME ApprovalInv, IssuedTokenStands, [Next]_vars,
                      NEW p \in issued'
               PROVE  /\ Exists(p[1])' /\ records'[p[1]].status = "approved"
                      /\ records'[p[1]].token = p[2]
    BY DEF IssuedTokenStands
  <2> USE DEF ApprovalInv
  <2>1. p \in Ids \X Tokens
    BY LogsTyped
  <2>2. /\ Exists(p[1]) /\ records[p[1]].status = "approved"
        /\ records[p[1]].token = p[2]
    <3>1. CASE p \in issued
      BY <3>1 DEF IssuedTokenStands
    <3>2. CASE p \notin issued
      <4>1. PICK h \in Handlers : RecordEvent(h)
        BY <3>2 DEF Next, HandlerStep, vars, TimePasses, StartRequest,
           StartDecision, StartVerify, Start, FindIdempotent, Create, Get,
           ExpireIfNeeded, Decide, CompareHash, HandlerFails
      <4>2. /\ p = <<call[h].id, call[h].token>>
            /\ call[h].op = "approve"
        BY <3>2, <4>1 DEF RecordEvent
      <4> QED
        BY <4>1, <4>2 DEF RecordEvent, CallInv, CallOK, Outcome
    <3> QED
      BY <3>1, <3>2
  <2>3. Kept(p[1])
    BY <2>1, RecordsKept
  <2> QED
    BY <2>2, <2>3 DEF Kept, Exists, Pending
<1> QED
  BY <1>1, <1>2, ApprovalInvariant, PTL DEF Spec

(***************************************************************************)
(* verify says True only to an approved record with the arguments that     *)
(* were requested and the token of a genuine approver, and stays right.    *)
(***************************************************************************)
VerifiedApproved ==
    \A v \in verified : /\ Exists(v.id)
                        /\ records[v.id].status = "approved"
                        /\ records[v.id].args = v.args
                        /\ records[v.id].token = v.token

\* What verify accepted it accepted from the stored record of the decision.
THEOREM VerificationsAreGenuine == Spec => []VerifiedGenuine
<1>1. Init => VerifiedApproved
  BY DEF Init, VerifiedApproved
<1>2. ApprovalInv /\ VerifiedApproved /\ [Next]_vars => VerifiedApproved'
  <2> SUFFICES ASSUME ApprovalInv, VerifiedApproved, [Next]_vars,
                      NEW v \in verified'
               PROVE  /\ Exists(v.id)' /\ records'[v.id].status = "approved"
                      /\ records'[v.id].args = v.args
                      /\ records'[v.id].token = v.token
    BY DEF VerifiedApproved
  <2> USE DEF ApprovalInv
  <2>1. v.id \in Ids
    BY LogsTyped
  <2>2. /\ Exists(v.id) /\ records[v.id].status = "approved"
        /\ records[v.id].args = v.args /\ records[v.id].token = v.token
    <3>1. CASE v \in verified
      BY <3>1 DEF VerifiedApproved
    <3>2. CASE v \notin verified
      <4>1. PICK h \in Handlers : CompareHash(h)
        BY <3>2 DEF Next, HandlerStep, vars, TimePasses, StartRequest,
           StartDecision, StartVerify, Start, FindIdempotent, Create, Get,
           ExpireIfNeeded, Decide, RecordEvent, HandlerFails
      <4>2. /\ v = [id |-> call[h].id, token |-> call[h].token, args |-> call[h].args]
            /\ records[call[h].id].token = call[h].token
        BY <3>2, <4>1 DEF CompareHash
      <4>3. /\ Exists(call[h].id)
            /\ records[call[h].id].status = "approved"
            /\ records[call[h].id].args = call[h].args
        BY <4>1 DEF CompareHash, CallInv, CallOK, Visible
      <4> QED
        BY <4>2, <4>3
    <3> QED
      BY <3>1, <3>2
  <2>3. Kept(v.id)
    BY <2>1, RecordsKept
  <2> QED
    BY <2>2, <2>3 DEF Kept, Exists, Pending
<1>3. ApprovalInv /\ VerifiedApproved => VerifiedGenuine
  <2> SUFFICES ASSUME ApprovalInv, VerifiedApproved, NEW v \in verified
               PROVE  /\ Exists(v.id)
                      /\ records[v.id].args = v.args
                      /\ records[v.id].token = v.token
                      /\ \E x \in Identities :
                            /\ x.user = records[v.id].approver
                            /\ x.scope = records[v.id].requester.scope
                            /\ x.role \in {"admin", "manager"}
    BY DEF VerifiedGenuine
  <2>1. v.id \in Ids
    BY DEF ApprovalInv, TypeOK
  <2>2. Genuine(v.id)
    BY <2>1 DEF ApprovalInv, RecordInv, VerifiedApproved
  <2> QED
    BY <2>2 DEF Genuine, MayDecide, VerifiedApproved
<1> QED
  BY <1>1, <1>2, <1>3, ApprovalInvariant, PTL DEF Spec

(***************************************************************************)
(* With a UNIQUE constraint, find-then-create never makes two records for  *)
(* one user and key.                                                       *)
(***************************************************************************)
THEOREM KeysAreUnique == Spec => []OneRecordPerKey
<1>1. Init => OneRecordPerKey
  BY DEF Init, OneRecordPerKey, SameKey, Visible, Exists
<1>2. ApprovalInv /\ OneRecordPerKey /\ [Next]_vars => OneRecordPerKey'
  <2> SUFFICES ASSUME ApprovalInv, OneRecordPerKey, [Next]_vars, Unique,
                      NEW x \in Identities, NEW k \in Keys,
                      NEW i \in SameKey(x, k)', NEW j \in SameKey(x, k)'
               PROVE  i = j
    BY DEF OneRecordPerKey
  <2> USE DEF ApprovalInv
  <2>1. i \in Ids /\ j \in Ids
    BY DEF SameKey
  <2>2. \A n \in Ids : Kept(n)
    BY RecordsKept
  <2>3. \A n \in Ids : Exists(n) /\ n \in SameKey(x, k)' => n \in SameKey(x, k)
    BY <2>2 DEF SameKey, Visible, Exists, Kept
  <2>4. CASE Exists(i) /\ Exists(j)
    BY <2>1, <2>3, <2>4 DEF OneRecordPerKey
  <2>5. CASE ~Exists(i) \/ ~Exists(j)
    <3>1. PICK h \in Handlers, n \in Ids : Creates(h, n)
      <4>1. ~ UNCHANGED records
        BY <2>1, <2>5 DEF SameKey, Visible, Exists
      <4>2. ASSUME NEW h \in Handlers, Decides(h) PROVE FALSE
        BY <2>1, <2>5, <4>2, DecidesEffect DEF SameKey, Visible, Exists, Pending
      <4> QED
        BY <4>1, <4>2, TableSteps
    <3>2. call[h] \in Call /\ call[h].args \in Args /\ call[h].who \in Identities
      BY <3>1, CallOfHandler DEF Creates, CallInv, CallOK, Call
    <3>3. /\ ~Exists(n)
          /\ records'[n].requester = call[h].who /\ records'[n].key = call[h].key
          /\ \A m \in Ids : m # n => records'[m] = records[m]
      BY <3>1, <3>2, StoreCreateEffect DEF Creates
    <3>4. n = i \/ n = j
      BY <2>1, <2>5, <3>3 DEF SameKey, Visible, Exists
    <3>5. /\ call[h].who.scope = x.scope /\ call[h].who.user = x.user
          /\ call[h].key = k
      BY <3>3, <3>4 DEF SameKey, Visible
    <3>6. SameKey(x, k) = {}
      <4>1. SameKey(call[h].who, call[h].key) = {}
        BY <3>1, <3>5, NoneAssumption DEF Creates, KeyTaken
      <4> QED
        BY <3>5, <4>1 DEF SameKey, Visible
    <3> QED
      BY <2>1, <2>3, <3>3, <3>4, <3>6 DEF SameKey, Visible, Exists
  <2> QED
    BY <2>4, <2>5
<1> QED
  BY <1>1, <1>2, ApprovalInvariant, PTL DEF Spec

\* Only RecordEvent appends to the audit log.
LEMMA NewEvent ==
    ASSUME [Next]_vars, NEW e \in audit', e \notin audit
    PROVE  \E h \in Handlers :
              RecordEvent(h) /\ e = <<call[h].op, call[h].id, call[h].who.user>>
<1>1. PICK h \in Handlers : RecordEvent(h)
  BY DEF Next, HandlerStep, vars, TimePasses, StartRequest, StartDecision,
     StartVerify, Start, FindIdempotent, Create, Get, ExpireIfNeeded, Decide,
     CompareHash, HandlerFails
<1> QED
  BY <1>1 DEF RecordEvent

\* What a person decided is in the log, on its way there, or lost.
Accounted(i) ==
    \/ \E o \in DOMAIN Outcome : <<o, i, records[i].approver>> \in audit
    \/ \E h \in Handlers : /\ pc[h] = "audit" /\ call[h].id = i
                          /\ call[h].op \in DOMAIN Outcome
    \/ i \in lost

LEMMA LogsGrow ==
    ASSUME [Next]_vars
    PROVE  audit \subseteq audit' /\ lost \subseteq lost'
BY DEF Next, HandlerStep, vars, TimePasses, StartRequest, StartDecision,
   StartVerify, Start, FindIdempotent, Create, Get, ExpireIfNeeded, Decide,
   CompareHash, HandlerFails, RecordEvent

LEMMA AccountedKept ==
    ASSUME ApprovalInv, [Next]_vars, NEW i \in Ids, Accounted(i),
           records'[i] = records[i]
    PROVE  Accounted(i)'
<1> USE DEF ApprovalInv
<1>1. CASE i \in lost \/ \E o \in DOMAIN Outcome :
                          <<o, i, records[i].approver>> \in audit
  BY <1>1, LogsGrow DEF Accounted
<1>2. ASSUME NEW h \in Handlers, pc[h] = "audit", call[h].id = i,
             call[h].op \in DOMAIN Outcome
      PROVE  Accounted(i)'
  <2>1. CASE pc'[h] = pc[h] /\ call'[h] = call[h]
    BY <1>2, <2>1 DEF Accounted
  <2>2. CASE RecordEvent(h)
    <3>1. <<call[h].op, i, records[i].approver>> \in audit'
      BY <1>2, <2>2 DEF RecordEvent, CallInv, CallOK, Outcome
    <3> QED
      BY <1>2, <3>1 DEF Accounted
  <2>3. CASE HandlerFails(h)
    BY <1>2, <2>3 DEF Accounted, HandlerFails, Outcome
  <2>4. ASSUME NEW g \in Handlers, HandlerStep(g), g # h
        PROVE  pc'[h] = pc[h] /\ call'[h] = call[h]
    BY <2>4, HandlerMoves DEF Moves
  <2>5. ASSUME HandlerStep(h) PROVE RecordEvent(h) \/ HandlerFails(h)
    BY <1>2, <2>5 DEF HandlerStep, StartRequest, StartDecision, StartVerify,
       Start, FindIdempotent, Create, Get, ExpireIfNeeded, Decide, CompareHash
  <2> QED
    BY <2>1, <2>2, <2>3, <2>4, <2>5 DEF Next, TimePasses, vars
<1> QED
  BY <1>1, <1>2 DEF Accounted

LEMMA NewDecisionAccounted ==
    ASSUME ApprovalInv, [Next]_vars, NEW i \in Ids, records'[i] # records[i],
           Exists(i)', records'[i].approver # None
    PROVE  Accounted(i)'
<1> USE DEF ApprovalInv
<1>1. PICK h \in Handlers : HandlerStep(h)
  BY DEF Next, vars, TimePasses
<1>2. Create(h) \/ ExpireIfNeeded(h) \/ Decide(h)
  BY <1>1 DEF HandlerStep, StartRequest, StartDecision, StartVerify, Start,
     FindIdempotent, Get, RecordEvent, CompareHash, HandlerFails
<1>3. call[h] \in Call
  BY <1>2, CallOfHandler DEF Create, ExpireIfNeeded, Decide
<1>4. ASSUME Create(h) PROVE FALSE
  <2>1. call[h].args \in Args
    BY <1>4 DEF Create, CallInv, CallOK
  <2>2. PICK n \in Ids : StoreCreate(h, n)
    BY <1>4 DEF Create
  <2> QED
    BY <1>3, <2>1, <2>2, StoreCreateEffect
<1>5. ASSUME ExpireIfNeeded(h) PROVE FALSE
  <2>1. call[h].id \in Ids
    BY <1>5, CallOfHandler DEF ExpireIfNeeded
  <2>2. StoreDecide(call[h].id, "expired", None, None)
    BY <1>5 DEF ExpireIfNeeded
  <2> QED
    BY <2>1, <2>2, StoreDecideEffect DEF Statuses
<1>6. CASE Decide(h)
  <2>1. call[h].id \in Ids /\ call[h].who.user \in Users
    BY <1>3, <1>6, CallOfHandler DEF Decide, Call, Users
  <2>2. PICK st \in Statuses, t \in Tokens \cup {None} :
          StoreDecide(call[h].id, st, call[h].who.user, t)
    BY <1>6 DEF Decide, Statuses
  <2>3. call[h].id = i
    BY <2>1, <2>2, StoreDecideEffect
  <2>4. call[h].op \in DOMAIN Outcome
    BY <1>6 DEF Decide, Outcome
  <2>5. /\ pc'[h] = "audit"
        /\ call'[h].id = call[h].id /\ call'[h].op = call[h].op
    BY <1>3, <1>6 DEF Decide, GoTo, TypeOK, Call
  <2> QED
    BY <2>3, <2>4, <2>5 DEF Accounted
<1> QED
  BY <1>2, <1>4, <1>5, <1>6

(***************************************************************************)
(* The audit log names only decisions that stand, and misses only those    *)
(* whose handler has not got there or failed on the way.                   *)
(***************************************************************************)
THEOREM AuditAgreement == Spec => []AuditAgrees
<1>1. Init => AuditAgrees
  BY DEF Init, AuditAgrees, Exists
<1>2. ApprovalInv /\ AuditAgrees /\ [Next]_vars => AuditAgrees'
  <2> SUFFICES ASSUME ApprovalInv, AuditAgrees, [Next]_vars
               PROVE  AuditAgrees'
    OBVIOUS
  <2> USE DEF ApprovalInv
  <2>1. ASSUME NEW e \in audit', e[1] \in DOMAIN Outcome
        PROVE  /\ Exists(e[2])'
               /\ records'[e[2]].status = Outcome[e[1]]
               /\ records'[e[2]].approver = e[3]
    <3>1. e \in Operations \X Ids \X Users
      BY LogsTyped
    <3>2. /\ Exists(e[2])
          /\ records[e[2]].status = Outcome[e[1]]
          /\ records[e[2]].approver = e[3]
      <4>1. CASE e \in audit
        BY <2>1, <4>1 DEF AuditAgrees
      <4>2. CASE e \notin audit
        <5>1. PICK h \in Handlers : /\ RecordEvent(h)
                 /\ e = <<call[h].op, call[h].id, call[h].who.user>>
          BY <4>2, NewEvent
        <5> QED
          BY <2>1, <5>1 DEF RecordEvent, CallInv, CallOK, Outcome
      <4> QED
        BY <4>1, <4>2
    <3>3. Kept(e[2])
      BY <3>1, RecordsKept
    <3> QED
      BY <2>1, <3>2, <3>3 DEF Kept, Exists, Pending, Outcome
  <2>2. ASSUME NEW i \in Ids, Exists(i)', records'[i].approver # None
        PROVE  Accounted(i)'
    <3>1. CASE records'[i] = records[i]
      BY <2>2, <3>1, AccountedKept DEF AuditAgrees, Accounted, Exists
    <3> QED
      BY <2>2, <3>1, NewDecisionAccounted
  <2> QED
    BY <2>1, <2>2 DEF AuditAgrees, Accounted
<1> QED
  BY <1>1, <1>2, ApprovalInvariant, PTL DEF Spec
=============================================================================
