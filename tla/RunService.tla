------------------------------ MODULE RunService ------------------------------
(***************************************************************************)
(* RunService of services/api/app.py over the run stores of                *)
(* packages/agent_runtime/runs.py and packages/persistence/postgres.py:    *)
(* idempotent execution of agent runs, and reading them back.              *)
(*                                                                         *)
(* An API replica serves its requests in threads that share two            *)
(* dictionaries; replicas share only the store.  A step is one look at or  *)
(* one write to a dictionary, one call of the store, or the agent run.     *)
(***************************************************************************)
EXTENDS Naturals, FiniteSets

CONSTANTS
    Replicas,       \* API processes
    Handlers,       \* requests served at the same time
    Identities,     \* authenticated callers: owner (workspace, tenant, user), role
    Keys,           \* idempotency keys
    Ids,            \* run ids (uuid4); a bound on the runs executed
    Deployments,    \* [store, replicas]: the run store and the processes on it
    MaxFaults,      \* failing requests and restarts (a bound)
    None            \* Python's None

\* The service app.py builds for deployment always has a store; the SQLite
\* adapter is for single-process deployments.
ASSUME DeploymentAssumption ==
    /\ Deployments \subseteq [store : {"sqlite", "postgres"}, replicas : SUBSET Replicas]
    /\ \A d \in Deployments : d.store = "sqlite" => Cardinality(d.replicas) = 1
    /\ MaxFaults \in Nat

VARIABLES
    deployment, \* the deployment in use
    rows,       \* the agent_runs table: a stored run, or None, per run id
    txn,        \* SQLite: the run store's connection left a transaction open
    runs,       \* RunService.runs of each replica
    idempotency,\* RunService.idempotency of each replica
    used,       \* run ids given out
    faults,
    \* a request
    pc,
    call,
    \* observers, read by no request
    answers,    \* <<caller, key, run id>> answered by execute
    reads       \* <<caller, run id>> answered by get

\* The processes of the deployment.
Serving == Replicas \cap deployment.replicas

storeVars == <<rows, txn>>
cacheVars == <<runs, idempotency>>
requestVars == <<pc, call>>
observers == <<answers, reads>>
vars == <<deployment, storeVars, cacheVars, used, faults, requestVars, observers>>

StoredRun == [id : Ids, who : Identities, key : Keys \cup {None}]

\* run is the StoredRun in the handler's hands, id the run id asked for;
\* retry, an observer, says that the key had been answered when it came in.
Call == [at : Replicas, who : Identities, key : Keys \cup {None},
         id : Ids \cup {None}, run : StoredRun \cup {None}, retry : BOOLEAN]

ASSUME NoneAssumption == None \notin Keys \cup Ids \cup StoredRun \cup Call

Places == {"idle", "cache", "find", "run", "save", "reread", "keep", "index",
           "get", "load"}

TypeOK ==
    /\ rows \in [Ids -> StoredRun \cup {None}]
    /\ txn \in BOOLEAN
    /\ runs \in [Replicas -> [Ids -> StoredRun \cup {None}]]
    /\ idempotency \in [Replicas -> [Identities \X Keys -> Ids \cup {None}]]
    /\ used \subseteq Ids
    /\ faults \in 0..MaxFaults
    /\ pc \in [Handlers -> Places]
    /\ call \in [Handlers -> Call \cup {None}]
    /\ answers \subseteq Identities \X (Keys \cup {None}) \X Ids
    /\ reads \subseteq Identities \X Ids

NoRuns == [i \in Ids |-> None]
NoKeys == [x \in Identities \X Keys |-> None]

Init ==
    /\ deployment \in Deployments
    /\ rows = NoRuns
    /\ txn = FALSE
    /\ runs = [p \in Replicas |-> NoRuns]
    /\ idempotency = [p \in Replicas |-> NoKeys]
    /\ used = {}
    /\ faults = 0
    /\ pc = [h \in Handlers |-> "idle"]
    /\ call = [h \in Handlers |-> None]
    /\ answers = {}
    /\ reads = {}

\* The rows find_idempotent selects for a caller and a key, role included.
SameKey(who, key) ==
    {i \in Ids : rows[i] # None /\ rows[i].who = who /\ rows[i].key = key}

Answered(who, key) == \E i \in Ids : <<who, key, i>> \in answers

Goto(h, place) == pc' = [pc EXCEPT ![h] = place]

\* The request is over, answered or not.
Done(h) ==
    /\ pc' = [pc EXCEPT ![h] = "idle"]
    /\ call' = [call EXCEPT ![h] = None]

Reply(h, i) ==
    /\ Done(h)
    /\ answers' = answers \cup {<<call[h].who, call[h].key, i>>}
    /\ UNCHANGED reads

-----------------------------------------------------------------------------
(* Faulty variants of actions below, used by no specification *)

KeyTakenNever(h) == FALSE

InsertRolledBack(h) == UNCHANGED rows

CanReadAnything(who, run) == TRUE

FindNothing(h) ==
    /\ pc[h] = "find"
    /\ Goto(h, "run")
    /\ UNCHANGED <<storeVars, cacheVars, used, faults, call, observers>>

-----------------------------------------------------------------------------
(* execute *)

\* The bound: a run id is left for this request, unless it will find its run.
RoomForRun(who, key) ==
    \/ Cardinality(used) + Cardinality({h \in Handlers :
           pc[h] \in {"cache", "find", "run"}}) < Cardinality(Ids)
    \/ key # None /\ SameKey(who, key) # {}

\* POST /runs: a key, or none; no key goes straight to the run.
Execute(h, p, who, key) ==
    /\ pc[h] = "idle"
    /\ RoomForRun(who, key)
    /\ call' = [call EXCEPT ![h] =
          [at |-> p, who |-> who, key |-> key, id |-> None, run |-> None,
           retry |-> key # None /\ Answered(who, key)]]
    /\ Goto(h, IF key = None THEN "run" ELSE "cache")
    /\ UNCHANGED <<storeVars, cacheVars, used, faults, observers>>

\* self.idempotency.get(key), then self.runs[existing_run_id].
CachedId(h) == idempotency[call[h].at][<<call[h].who, call[h].key>>]

CacheHit(h) ==
    /\ pc[h] = "cache"
    /\ CachedId(h) # None
    /\ runs[call[h].at][CachedId(h)] # None     \* else a KeyError: see IndexResolves
    /\ Reply(h, runs[call[h].at][CachedId(h)].id)
    /\ UNCHANGED <<storeVars, cacheVars, used, faults>>

CacheMiss(h) ==
    /\ pc[h] = "cache"
    /\ CachedId(h) = None
    /\ Goto(h, "find")
    /\ UNCHANGED <<storeVars, cacheVars, used, faults, call, observers>>

\* store.find_idempotent: a stored run is cached and answered.
FindIdempotent(h) ==
    /\ pc[h] = "find"
    /\ \/ \E i \in SameKey(call[h].who, call[h].key) :
            /\ call' = [call EXCEPT ![h].run = rows[i]]
            /\ Goto(h, "keep")
       \/ /\ SameKey(call[h].who, call[h].key) = {}
          /\ Goto(h, "run")
          /\ UNCHANGED call
    /\ UNCHANGED <<storeVars, cacheVars, used, faults, observers>>

\* runtime.run: each of its audit events is a write to the database file that
\* an open transaction of the run store's connection keeps locked.
Runtime(h, i) ==
    /\ pc[h] = "run"
    /\ ~txn
    /\ i \notin used
    /\ used' = used \cup {i}
    /\ call' = [call EXCEPT ![h].run =
                  [id |-> i, who |-> call[h].who, key |-> call[h].key]]
    /\ Goto(h, "save")
    /\ UNCHANGED <<storeVars, cacheVars, faults, observers>>

\* The audit append times out: "database is locked", a 500 answer.
RuntimeLocked(h) ==
    /\ pc[h] = "run"
    /\ txn
    /\ Done(h)
    /\ UNCHANGED <<storeVars, cacheVars, used, faults, observers>>

KeyTaken(h) == call[h].key # None /\ SameKey(call[h].who, call[h].key) # {}

Insert(h) == rows' = [rows EXCEPT ![call[h].run.id] = call[h].run]

\* SQLiteRunStore.save: the INSERT and the commit, which also ends a
\* transaction that an earlier save left open.
SqliteSave(h) ==
    /\ pc[h] = "save"
    /\ deployment.store = "sqlite"
    /\ ~KeyTaken(h)
    /\ Insert(h)
    /\ txn' = FALSE
    /\ Goto(h, "keep")
    /\ UNCHANGED <<cacheVars, used, faults, call, observers>>

\* The UNIQUE constraint: IntegrityError, and no rollback of the transaction
\* that Python's sqlite3 began for the INSERT.
SqliteSaveRefused(h) ==
    /\ pc[h] = "save"
    /\ deployment.store = "sqlite"
    /\ KeyTaken(h)
    /\ txn' = TRUE
    /\ Done(h)
    /\ UNCHANGED <<rows, cacheVars, used, faults, answers, reads>>

\* PostgresRunStore.save: INSERT ... ON CONFLICT DO NOTHING, and then the row
\* that is in the table for this key.
PostgresSave(h) ==
    /\ pc[h] = "save"
    /\ deployment.store = "postgres"
    /\ IF KeyTaken(h) THEN UNCHANGED rows ELSE Insert(h)
    /\ Goto(h, IF call[h].key = None THEN "keep" ELSE "reread")
    /\ UNCHANGED <<txn, cacheVars, used, faults, call, observers>>

PostgresReread(h) ==
    /\ pc[h] = "reread"
    /\ LET same == SameKey(call[h].who, call[h].key) IN
         call' = IF same = {} THEN call
                 ELSE [call EXCEPT ![h].run = rows[CHOOSE i \in same : TRUE]]
    /\ Goto(h, "keep")
    /\ UNCHANGED <<storeVars, cacheVars, used, faults, observers>>

\* self.runs[result.run_id] = stored, and with a key self.idempotency[...].
KeepRun(h) ==
    /\ pc[h] = "keep"
    /\ runs' = [runs EXCEPT ![call[h].at][call[h].run.id] = call[h].run]
    /\ IF call[h].key = None
       THEN Reply(h, call[h].run.id)
       ELSE Goto(h, "index") /\ UNCHANGED <<call, observers>>
    /\ UNCHANGED <<storeVars, idempotency, used, faults>>

KeepKey(h) ==
    /\ pc[h] = "index"
    /\ idempotency' = [idempotency EXCEPT
          ![call[h].at][<<call[h].who, call[h].key>>] = call[h].run.id]
    /\ Reply(h, call[h].run.id)
    /\ UNCHANGED <<storeVars, runs, used, faults>>

-----------------------------------------------------------------------------
(* get *)

\* The role is not compared here; the store's own query compares it.
CanRead(who, run) == run.who.owner = who.owner

\* The answer: the run, or 404.
Deliver(h, run) ==
    /\ Done(h)
    /\ reads' = IF CanRead(call[h].who, run)
                THEN reads \cup {<<call[h].who, run.id>>} ELSE reads
    /\ UNCHANGED answers

Get(h, p, who, i) ==
    /\ pc[h] = "idle"
    /\ call' = [call EXCEPT ![h] =
          [at |-> p, who |-> who, key |-> None, id |-> i, run |-> None,
           retry |-> FALSE]]
    /\ Goto(h, "get")
    /\ UNCHANGED <<storeVars, cacheVars, used, faults, observers>>

GetCached(h) ==
    /\ pc[h] = "get"
    /\ LET cached == runs[call[h].at][call[h].id] IN
         IF cached # None THEN Deliver(h, cached)
         ELSE Goto(h, "load") /\ UNCHANGED <<call, observers>>
    /\ UNCHANGED <<storeVars, cacheVars, used, faults>>

\* store.get: workspace, tenant, user and role have to match.
Load(h) ==
    /\ pc[h] = "load"
    /\ LET row == rows[call[h].id] IN
         IF row # None /\ row.who = call[h].who
         THEN /\ runs' = [runs EXCEPT ![call[h].at][call[h].id] = row]
              /\ Deliver(h, row)
         ELSE Done(h) /\ UNCHANGED <<runs, observers>>
    /\ UNCHANGED <<storeVars, idempotency, used, faults>>

-----------------------------------------------------------------------------
(* Failures *)

\* An exception that none of the steps above stands for.
RequestFails(h) ==
    /\ pc[h] # "idle"
    /\ faults < MaxFaults
    /\ faults' = faults + 1
    /\ Done(h)
    /\ UNCHANGED <<storeVars, cacheVars, used, observers>>

\* A replica ends and comes back: its threads, dictionaries and connection go.
Restart(p) ==
    /\ faults < MaxFaults
    /\ faults' = faults + 1
    /\ LET gone == {h \in Handlers : call[h] # None /\ call[h].at = p} IN
         /\ pc' = [h \in Handlers |-> IF h \in gone THEN "idle" ELSE pc[h]]
         /\ call' = [h \in Handlers |-> IF h \in gone THEN None ELSE call[h]]
    /\ runs' = [runs EXCEPT ![p] = NoRuns]
    /\ idempotency' = [idempotency EXCEPT ![p] = NoKeys]
    /\ txn' = FALSE
    /\ UNCHANGED <<rows, used, observers>>

Step(h) ==
    \/ CacheHit(h) \/ CacheMiss(h) \/ FindIdempotent(h)
    \/ (\E i \in Ids : Runtime(h, i)) \/ RuntimeLocked(h)
    \/ SqliteSave(h) \/ SqliteSaveRefused(h)
    \/ PostgresSave(h) \/ PostgresReread(h)
    \/ KeepRun(h) \/ KeepKey(h)
    \/ GetCached(h) \/ Load(h)

Request(h) ==
    \E p \in Serving, who \in Identities :
        \/ \E key \in Keys \cup {None} : Execute(h, p, who, key)
        \/ \E i \in Ids : Get(h, p, who, i)

Next ==
    /\ \/ \E h \in Handlers : Step(h) \/ Request(h) \/ RequestFails(h)
       \/ \E p \in Serving : Restart(p)
    /\ UNCHANGED deployment

Spec == Init /\ [][Next]_vars

\* A request for a new run, which no earlier one answers.
NewRun(h) == \E p \in Serving, who \in Identities : Execute(h, p, who, None)

\* Threads are scheduled, and clients keep asking for new runs.
FairSpec ==
    Spec /\ \A h \in Handlers : /\ WF_vars(Step(h) /\ UNCHANGED deployment)
                                /\ SF_vars(NewRun(h) /\ UNCHANGED deployment)

-----------------------------------------------------------------------------
(* Properties *)

\* All answers execute gives to one key of one caller name the same run,
\* whichever replica answers and whatever was restarted in between.
AnswersAgree ==
    \A a, b \in answers : (a[1] = b[1] /\ a[2] = b[2] /\ a[2] # None)
                          => a[3] = b[3]

\* A request whose key has been answered before it came in does not run the
\* agent again: it finds the run in the cache or in the store.
RetryDoesNotRun ==
    \A h \in Handlers : pc[h] \in {"run", "save"} => ~call[h].retry

\* A run id in self.idempotency is always a key of self.runs, so that the
\* lookup self.runs[existing_run_id] never raises, and it is the caller's run.
IndexResolves ==
    \A p \in Replicas, who \in Identities, key \in Keys :
        LET i == idempotency[p][<<who, key>>] IN
        i # None => runs[p][i] = [id |-> i, who |-> who, key |-> key]

\* What was answered is in the store and can be read after a restart.
AnsweredIsStored ==
    \A a \in answers : rows[a[3]] = [id |-> a[3], who |-> a[1], key |-> a[2]]

\* get hands a run only to the workspace, tenant and user that made it,
\* although the cached path does not ask the store.
ReadByOwner ==
    \A r \in reads :
        rows[r[2]] # None /\ rows[r[2]].who.owner = r[1].owner

\* The inductive invariant behind these: what the
\* place of a request says about the call, the store and the cache.
CallOK(h) ==
    LET c == call[h] IN
    /\ pc[h] # "idle" => c # None
    /\ pc[h] \in {"cache", "find", "reread", "index"} => c.key # None
    /\ pc[h] \in {"get", "load"} => c.id # None
    /\ pc[h] \in {"save", "reread", "keep", "index"} =>
          c.run # None /\ c.run.who = c.who /\ c.run.key = c.key
    /\ pc[h] = "save" => c.run.id \in used /\ rows[c.run.id] = None
    /\ pc[h] = "reread" => SameKey(c.who, c.key) # {}
    /\ pc[h] \in {"keep", "index"} => rows[c.run.id] = c.run
    /\ pc[h] = "index" => runs[c.at][c.run.id] = c.run
    /\ pc[h] # "idle" /\ c.retry => c.key # None /\ Answered(c.who, c.key)

CallsOK ==
    /\ \A h \in Handlers : CallOK(h)
    /\ \A g, h \in Handlers : (g # h /\ pc[g] = "save" /\ pc[h] = "save")
                              => call[g].run.id # call[h].run.id

\* The table is keyed by run id, and holds one row per caller and key.
RowsOK ==
    /\ \A i \in Ids : rows[i] # None => rows[i].id = i /\ i \in used
    /\ \A i, j \in Ids :
          ( /\ rows[i] # None
            /\ rows[j] # None
            /\ rows[i].who = rows[j].who
            /\ rows[i].key = rows[j].key
            /\ rows[i].key # None ) => i = j

\* A cached run is the stored one.
CachesOK ==
    \A p \in Replicas, i \in Ids : runs[p][i] # None => runs[p][i] = rows[i]

RunInv ==
    /\ TypeOK
    /\ CallsOK
    /\ RowsOK
    /\ CachesOK
    /\ IndexResolves
    /\ AnsweredIsStored
    /\ ReadByOwner
    /\ RetryDoesNotRun

\* A repeated request does no lasting harm: a transaction that a refused save
\* left open is closed again.
LockReleased == txn ~> ~txn
=============================================================================
