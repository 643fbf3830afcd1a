------------------------------ MODULE Approvals ------------------------------
(***************************************************************************)
(* packages/agent_runtime/approvals.py and the approval handlers of        *)
(* services/api/app.py: requests for approval, their decision by a manager *)
(* or admin, lazy expiry, and verification of an approval token.           *)
(*                                                                         *)
(* Handlers run concurrently, in threads or in replicas that share the SQL *)
(* store.  A step is one call of the store, or the append of the audit     *)
(* event with the response after it.  The three stores differ only in      *)
(* Unique: the SQL tables have a UNIQUE constraint on the idempotency key  *)
(* and the in-memory store has none.                                       *)
(***************************************************************************)
EXTENDS Integers, FiniteSets

CONSTANTS
    Handlers,       \* HTTP requests served at the same time
    Identities,     \* the authenticated callers: user, scope and role
    Ids,            \* approval ids (uuid4); a bound on the records created
    Keys,           \* idempotency keys
    Args,           \* tool name and canonical arguments
    Tokens,         \* approval tokens
    Unique,         \* does the store refuse a second record for a key?
    MaxFaults,      \* handlers that end in an unexpected exception (a bound)
    None            \* Python's None

ASSUME SettingsAssumption == Unique \in BOOLEAN /\ MaxFaults \in Nat

VARIABLES
    records,    \* the approval_requests table: a record, or None, per id
    late,       \* ids whose expires_at has passed
    audit,      \* the approval.* events appended, as <<type, id, user>>
    faults,
    \* a handler
    pc,
    call,       \* operation, caller and arguments
    \* observers, read by no handler
    issued,     \* <<id, token>> returned to an approver
    verified,   \* what verify said True to, and if it had expired before
    lost        \* ids decided by a handler that failed before its audit event

storeVars   == <<records, late>>
handlerVars == <<pc, call>>
observers   == <<issued, verified, lost>>
vars == <<storeVars, audit, faults, handlerVars, observers>>

Users == {x.user : x \in Identities}
Statuses == {"pending", "approved", "rejected", "expired"}
Operations == {"request", "approve", "reject", "verify"}

Record == [requester : Identities, args : Args, key : Keys \cup {None},
           status : Statuses, approver : Users \cup {None},
           token : Tokens \cup {None}]

Call == [op : Operations, who : Identities, id : Ids \cup {None},
         key : Keys \cup {None}, args : Args \cup {None},
         token : Tokens \cup {None}]

ASSUME NoneAssumption ==
    None \notin Keys \cup Ids \cup Tokens \cup Args \cup Users
                 \cup Record \cup Call

TypeOK ==
    /\ records \in [Ids -> Record \cup {None}]
    /\ late \subseteq Ids
    /\ audit \subseteq Operations \X Ids \X Users
    /\ faults \in 0..MaxFaults
    /\ pc \in [Handlers -> {"idle", "find", "create", "read", "expire",
                            "decide", "audit", "hash"}]
    /\ call \in [Handlers -> Call \cup {None}]
    /\ issued \subseteq Ids \X Tokens
    /\ verified \subseteq [id : Ids, token : Tokens, args : Args]
    /\ lost \subseteq Ids

Init ==
    /\ records = [i \in Ids |-> None]
    /\ late = {}
    /\ audit = {}
    /\ faults = 0
    /\ pc = [h \in Handlers |-> "idle"]
    /\ call = [h \in Handlers |-> None]
    /\ issued = {}
    /\ verified = {}
    /\ lost = {}

Exists(i) == records[i] # None
Pending(i) == Exists(i) /\ records[i].status = "pending"

\* A store's get returns only records of the caller's workspace and tenant.
Visible(x, i) == Exists(i) /\ records[i].requester.scope = x.scope

\* The records of this user with this idempotency key.
SameKey(x, k) ==
    {i \in Ids : /\ Visible(x, i)
                 /\ records[i].requester.user = x.user
                 /\ records[i].key = k}

\* Faulty variant of MayDecide.
MayDecideAnybody(x) == TRUE

\* Only these roles may decide; anybody else is answered 403.
MayDecide(x) == x.role \in {"admin", "manager"}

\* A record with the columns that decide writes.
Decided(r, status, approver, t) ==
    [r EXCEPT !.status = status, !.approver = approver, !.token = t]

-----------------------------------------------------------------------------
(* Faulty variants of the operators below, used by no specification *)

DecideUnchecked(i, status, approver, t) ==
    /\ Exists(i)
    /\ records' = [records EXCEPT ![i] = Decided(@, status, approver, t)]
    /\ UNCHANGED late

KeyTakenNever(h) == FALSE

-----------------------------------------------------------------------------
(* The store *)

\* decide: UPDATE ... WHERE status = 'pending', or the same under the lock.
StoreDecide(i, status, approver, t) ==
    /\ Pending(i)
    /\ records' = [records EXCEPT ![i] = Decided(@, status, approver, t)]
    /\ UNCHANGED late

\* create: the INSERT is refused for a second record with the same key.
KeyTaken(h) ==
    /\ Unique
    /\ call[h].key # None
    /\ SameKey(call[h].who, call[h].key) # {}

StoreCreate(h, i) ==
    /\ ~Exists(i)
    /\ records' = [records EXCEPT ![i] =
          [requester |-> call[h].who, args |-> call[h].args,
           key |-> call[h].key, status |-> "pending", approver |-> None,
           token |-> None]]
    /\ UNCHANGED late

-----------------------------------------------------------------------------
(* Calls of the service *)

Start(h, where, c) ==
    /\ pc[h] = "idle"
    /\ pc' = [pc EXCEPT ![h] = where]
    /\ call' = [call EXCEPT ![h] = c]
    /\ UNCHANGED <<storeVars, audit, faults, observers>>

Finish(h) ==
    /\ pc' = [pc EXCEPT ![h] = "idle"]
    /\ call' = [call EXCEPT ![h] = None]

GoTo(h, where) ==
    /\ pc' = [pc EXCEPT ![h] = where]
    /\ UNCHANGED call

\* A bound: every request being served can still get an id of its own.
RoomForRequest ==
    Cardinality({i \in Ids : Exists(i)})
        + Cardinality({h \in Handlers : pc[h] \in {"find", "create"}})
            < Cardinality(Ids)

\* POST /approvals, once the tool was found to need an approval.
StartRequest(h) ==
    /\ RoomForRequest
    /\ \E x \in Identities, k \in Keys \cup {None}, a \in Args :
          Start(h, IF k = None THEN "create" ELSE "find",
                [op |-> "request", who |-> x, id |-> None, key |-> k,
                 args |-> a, token |-> None])

StartDecision(h) ==
    \E x \in Identities, i \in Ids, o \in {"approve", "reject"} :
        /\ MayDecide(x)
        /\ Start(h, "read", [op |-> o, who |-> x, id |-> i, key |-> None,
                             args |-> None, token |-> None])

StartVerify(h) ==
    \E x \in Identities, i \in Ids, a \in Args, t \in Tokens :
        Start(h, "read", [op |-> "verify", who |-> x, id |-> i, key |-> None,
                          args |-> a, token |-> t])

\* request: find_idempotent, whose record is returned whatever its arguments.
FindIdempotent(h) ==
    /\ pc[h] = "find"
    /\ \/ \E i \in SameKey(call[h].who, call[h].key) :
             /\ call' = [call EXCEPT ![h].id = i]
             /\ pc' = [pc EXCEPT ![h] = "audit"]
       \/ SameKey(call[h].who, call[h].key) = {} /\ GoTo(h, "create")
    /\ UNCHANGED <<storeVars, audit, faults, observers>>

Create(h) ==
    /\ pc[h] = "create"
    /\ \/ KeyTaken(h) /\ Finish(h) /\ UNCHANGED storeVars
       \/ /\ ~KeyTaken(h)
          /\ \E i \in Ids : /\ StoreCreate(h, i)
                            /\ call' = [call EXCEPT ![h].id = i]
          /\ pc' = [pc EXCEPT ![h] = "audit"]
    /\ UNCHANGED <<audit, faults, observers>>

\* What approve, reject and verify do with the status get returned.
Proceed(h, status) ==
    LET next == IF call[h].op = "verify" THEN "hash" ELSE "decide"
        ready == IF call[h].op = "verify"
                 THEN /\ status = "approved"
                      /\ records[call[h].id].args = call[h].args
                 ELSE status = "pending"
    IN IF ready THEN GoTo(h, next) ELSE Finish(h)

\* ApprovalService.get: not found, or due to expire, or as it is.
Get(h) ==
    LET i == call[h].id IN
    /\ pc[h] = "read"
    /\ \/ ~Visible(call[h].who, i) /\ Finish(h)
       \/ Visible(call[h].who, i) /\ Pending(i) /\ i \in late /\ GoTo(h, "expire")
       \/ /\ Visible(call[h].who, i) /\ ~(Pending(i) /\ i \in late)
          /\ Proceed(h, records[i].status)
    /\ UNCHANGED <<storeVars, audit, faults, observers>>

\* Faulty variant of ExpireIfNeeded: it overwrites a decision made meanwhile.
ExpireUnchecked(h) ==
    /\ pc[h] = "expire"
    /\ records' = [records EXCEPT ![call[h].id] =
                      Decided(@, "expired", None, None)]
    /\ Proceed(h, "expired")
    /\ UNCHANGED <<late, audit, faults, observers>>

\* _expire_if_needed: when somebody else decided first, the record read
\* before is returned, still pending.
ExpireIfNeeded(h) ==
    LET i == call[h].id IN
    /\ pc[h] = "expire"
    /\ \/ StoreDecide(i, "expired", None, None) /\ Proceed(h, "expired")
       \/ ~Pending(i) /\ Proceed(h, "pending") /\ UNCHANGED storeVars
    /\ UNCHANGED <<audit, faults, observers>>

UsedTokens == {records[i].token : i \in {j \in Ids : Exists(j)}}

\* approve and reject: decide, or "approval changed before it could be ...".
Decide(h) ==
    LET c == call[h] IN
    /\ pc[h] = "decide"
    /\ \/ /\ c.op = "approve"
          /\ \E t \in Tokens \ UsedTokens :
                /\ StoreDecide(c.id, "approved", c.who.user, t)
                /\ call' = [call EXCEPT ![h].token = t]
          /\ pc' = [pc EXCEPT ![h] = "audit"]
       \/ /\ c.op = "reject"
          /\ StoreDecide(c.id, "rejected", c.who.user, None)
          /\ GoTo(h, "audit")
       \/ ~Pending(c.id) /\ Finish(h) /\ UNCHANGED storeVars
    /\ UNCHANGED <<audit, faults, observers>>

\* Faulty variant of RecordEvent: a rejection leaves no event.
RecordEventNotOfReject(h) ==
    LET c == call[h] IN
    /\ pc[h] = "audit"
    /\ audit' = audit \cup IF c.op = "reject" THEN {}
                           ELSE {<<c.op, c.id, c.who.user>>}
    /\ issued' = issued \cup IF c.op = "approve" THEN {<<c.id, c.token>>} ELSE {}
    /\ Finish(h)
    /\ UNCHANGED <<storeVars, faults, verified, lost>>

\* _record_approval_event, then the response; approve's holds the token.
RecordEvent(h) ==
    LET c == call[h] IN
    /\ pc[h] = "audit"
    /\ audit' = audit \cup {<<c.op, c.id, c.who.user>>}
    /\ issued' = issued \cup IF c.op = "approve" THEN {<<c.id, c.token>>} ELSE {}
    /\ Finish(h)
    /\ UNCHANGED <<storeVars, faults, verified, lost>>

\* verify: the stored token hash is read and compared.
CompareHash(h) ==
    LET c == call[h] IN
    /\ pc[h] = "hash"
    /\ verified' = verified \cup
          IF records[c.id].token = c.token
          THEN {[id |-> c.id, token |-> c.token, args |-> c.args]}
          ELSE {}
    /\ Finish(h)
    /\ UNCHANGED <<storeVars, audit, faults, issued, lost>>

\* The store, the audit log or the process fails under a handler.
HandlerFails(h) ==
    /\ pc[h] # "idle"
    /\ faults < MaxFaults
    /\ faults' = faults + 1
    /\ lost' = lost \cup IF pc[h] = "audit" /\ call[h].op # "request"
                         THEN {call[h].id} ELSE {}
    /\ Finish(h)
    /\ UNCHANGED <<storeVars, audit, issued, verified>>

\* expires_at passes; nothing is stored until somebody reads the record.
TimePasses ==
    /\ \E i \in Ids \ late : Exists(i) /\ late' = late \cup {i}
    /\ UNCHANGED <<records, audit, faults, handlerVars, observers>>

HandlerStep(h) ==
    \/ StartRequest(h) \/ StartDecision(h) \/ StartVerify(h)
    \/ FindIdempotent(h) \/ Create(h)
    \/ Get(h) \/ ExpireIfNeeded(h) \/ Decide(h)
    \/ RecordEvent(h) \/ CompareHash(h) \/ HandlerFails(h)

Next == (\E h \in Handlers : HandlerStep(h)) \/ TimePasses

Spec == Init /\ [][Next]_vars

-----------------------------------------------------------------------------
(* What approvals have to get right *)

(***************************************************************************)
(* A record is decided once and for all: requester, arguments and key      *)
(* never change, and once it is approved, rejected or expired nothing      *)
(* does, however many approvers, rejecters and expiries race (decide).     *)
(***************************************************************************)
DecisionFinal ==
    [][\A i \in Ids : Exists(i) =>
          /\ records'[i] # None
          /\ records'[i].requester = records[i].requester
          /\ records'[i].args = records[i].args
          /\ records'[i].key = records[i].key
          /\ ~Pending(i) => records'[i] = records[i]]_vars

(***************************************************************************)
(* Every token an approver was given is the one stored with an approved    *)
(* record: no approver gets a 200 whose decision another one overwrote.    *)
(***************************************************************************)
IssuedTokenStands ==
    \A p \in issued :
        Exists(p[1]) /\ records[p[1]].status = "approved"
                     /\ records[p[1]].token = p[2]

(***************************************************************************)
(* verify says True only to the arguments that were requested and to the   *)
(* token of the decision of a manager or admin of the requester's scope.   *)
(***************************************************************************)
VerifiedGenuine ==
    \A v \in verified :
        /\ Exists(v.id)
        /\ records[v.id].args = v.args
        /\ records[v.id].token = v.token
        /\ \E x \in Identities :
              /\ x.user = records[v.id].approver
              /\ x.scope = records[v.id].requester.scope
              /\ x.role \in {"admin", "manager"}

(***************************************************************************)
(* The audit log and the table tell the same story: an event names the     *)
(* decision and the decider that are stored, and every decision of a       *)
(* person has its event, unless its handler has not got there yet or       *)
(* failed between the store's decide and the append.                       *)
(***************************************************************************)
Outcome == [approve |-> "approved", reject |-> "rejected"]

AuditAgrees ==
    /\ \A e \in audit : e[1] \in DOMAIN Outcome =>
          /\ Exists(e[2])
          /\ records[e[2]].status = Outcome[e[1]]
          /\ records[e[2]].approver = e[3]
    /\ \A i \in Ids : Exists(i) /\ records[i].approver # None =>
          \/ \E o \in DOMAIN Outcome : <<o, i, records[i].approver>> \in audit
          \/ \E h \in Handlers : /\ pc[h] = "audit" /\ call[h].id = i
                                /\ call[h].op \in DOMAIN Outcome
          \/ i \in lost

(***************************************************************************)
(* With a SQL store, one user has one record per idempotency key, although *)
(* request looks for it and creates it in two transactions.                *)
(***************************************************************************)
OneRecordPerKey ==
    Unique => \A x \in Identities, k \in Keys :
                  \A i, j \in SameKey(x, k) : i = j

-----------------------------------------------------------------------------
(***************************************************************************)
(* The inductive invariant behind them: what a handler's place in its      *)
(* operation says about its call and the record it works on, and what a    *)
(* record's status says about its other columns.                           *)
(***************************************************************************)
CallOK(h) ==
    LET c == call[h] IN
    /\ pc[h] = "idle" <=> c = None
    /\ pc[h] \in {"find", "create"} => c.op = "request" /\ c.args \in Args
    /\ pc[h] \in {"read", "expire", "decide", "hash"} =>
          /\ c.op # "request"
          /\ c.id \in Ids
          /\ c.op = "verify" => c.args \in Args /\ c.token \in Tokens
          /\ c.op # "verify" => MayDecide(c.who)
    /\ pc[h] \in {"expire", "decide", "hash"} => Visible(c.who, c.id)
    /\ pc[h] = "decide" => c.op # "verify"
    /\ pc[h] = "hash" =>
          /\ c.op = "verify"
          /\ records[c.id].status = "approved"
          /\ records[c.id].args = c.args
    /\ pc[h] = "audit" =>
          /\ c.op # "verify"
          /\ c.id \in Ids
          /\ Exists(c.id)
          /\ c.op # "request" =>
                /\ records[c.id].status = Outcome[c.op]
                /\ records[c.id].approver = c.who.user
          /\ c.op = "approve" =>
                c.token \in Tokens /\ records[c.id].token = c.token

CallInv == \A h \in Handlers : CallOK(h)

Genuine(i) ==
    \E x \in Identities :
        /\ x.user = records[i].approver
        /\ x.scope = records[i].requester.scope
        /\ MayDecide(x)

RecordInv ==
    \A i \in Ids : Exists(i) =>
        /\ records[i].status = "approved" => Genuine(i)
        /\ records[i].approver # None => ~Pending(i)

ApprovalInv == TypeOK /\ CallInv /\ RecordInv
==============================================================================
