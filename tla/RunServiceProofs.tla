--------------------------- MODULE RunServiceProofs ---------------------------
(***************************************************************************)
(* Theorems about RunService: all answers to one key agree,                *)
(* what was answered is stored, and a retry does not run the agent again.  *)
(***************************************************************************)
EXTENDS RunService, TLAPS

\* A record of type Call, for the steps that fill in one.
LEMMA CallFields ==
    ASSUME NEW c \in Call
    PROVE  /\ c # None
           /\ c.at \in Replicas
           /\ c.who \in Identities
           /\ c.key \in Keys \cup {None}
           /\ c.id \in Ids \cup {None}
           /\ c.run \in StoredRun \cup {None}
           /\ c.retry \in BOOLEAN
BY NoneAssumption DEF Call

\* A record of type StoredRun, for the run that an execution makes.
LEMMA RunFields ==
    ASSUME NEW r \in StoredRun
    PROVE  /\ r # None
           /\ r.id \in Ids
           /\ r.who \in Identities
           /\ r.key \in Keys \cup {None}
           /\ r = [id |-> r.id, who |-> r.who, key |-> r.key]
BY NoneAssumption DEF StoredRun

\* The initial state satisfies the invariant.
LEMMA RunInit == Init => RunInv
<1> SUFFICES ASSUME Init PROVE RunInv
  OBVIOUS
<1>1. TypeOK
  <2>1. idempotency \in [Replicas -> [Identities \X Keys -> Ids \cup {None}]]
    BY DEF Init, NoKeys
  <2>2. faults \in 0..MaxFaults
    BY DeploymentAssumption DEF Init
  <2> QED
    BY <2>1, <2>2 DEF Init, TypeOK, NoRuns, Places
<1>2. CallsOK
  BY DEF Init, CallsOK, CallOK
<1>3. RowsOK /\ CachesOK
  BY DEF Init, RowsOK, CachesOK, NoRuns
<1>4. IndexResolves
  BY DEF Init, IndexResolves, NoKeys
<1>5. AnsweredIsStored /\ ReadByOwner /\ RetryDoesNotRun
  BY DEF Init, AnsweredIsStored, ReadByOwner, RetryDoesNotRun
<1> QED
  BY <1>1, <1>2, <1>3, <1>4, <1>5 DEF RunInv

-----------------------------------------------------------------------------
(* Steps of one request *)

\* What a request that goes from one place to another has to show.
Arrives(h, place, c) ==
    /\ place \in Places
    /\ c \in Call \cup {None}
    /\ pc' = [pc EXCEPT ![h] = place]
    /\ call' = [call EXCEPT ![h] = c]

\* A step that writes neither the table nor a dictionary nor an answer.
LEMMA LocalStep ==
    ASSUME RunInv, NEW h \in Handlers, NEW place, NEW c,
           Arrives(h, place, c),
           UNCHANGED <<rows, runs, idempotency, answers, reads>>,
           used \subseteq used', used' \subseteq Ids,
           txn' \in BOOLEAN, faults' \in 0..MaxFaults,
           CallOK(h)',
           place \in {"run", "save"} => ~c.retry,
           place = "save" => c.run.id \notin used
    PROVE  RunInv'
<1> USE DEF RunInv
<1>1. TypeOK'
  BY DEF Arrives, TypeOK
<1>2. \A g \in Handlers : g # h => pc'[g] = pc[g] /\ call'[g] = call[g]
  BY DEF Arrives, TypeOK
<1>3. pc'[h] = place /\ call'[h] = c
  BY DEF Arrives, TypeOK
<1>4. ASSUME NEW g \in Handlers PROVE CallOK(g)'
  <2>1. CASE g = h
    BY <2>1
  <2>2. CASE g # h
    <3>1. CallOK(g) /\ pc'[g] = pc[g] /\ call'[g] = call[g]
      BY <2>2, <1>2 DEF CallsOK
    <3> QED
      BY <3>1 DEF CallOK, SameKey, Answered
  <2> QED
    BY <2>1, <2>2
<1>5. ASSUME NEW f \in Handlers, NEW g \in Handlers, f # g,
             pc'[f] = "save", pc'[g] = "save"
      PROVE  call'[f].run.id # call'[g].run.id
  <2>1. CASE f = h
    <3>1. pc[g] = "save" /\ call'[g] = call[g]
      BY <2>1, <1>2, <1>5
    <3>2. call[g].run.id \in used
      BY <3>1 DEF CallsOK, CallOK
    <3> QED
      BY <2>1, <3>1, <3>2, <1>3, <1>5
  <2>2. CASE g = h
    <3>1. pc[f] = "save" /\ call'[f] = call[f]
      BY <2>2, <1>2, <1>5
    <3>2. call[f].run.id \in used
      BY <3>1 DEF CallsOK, CallOK
    <3> QED
      BY <2>2, <3>1, <3>2, <1>3, <1>5
  <2>3. CASE f # h /\ g # h
    BY <2>3, <1>2, <1>5 DEF CallsOK
  <2> QED
    BY <2>1, <2>2, <2>3
<1>6. CallsOK'
  BY <1>4, <1>5 DEF CallsOK
<1>7. RowsOK' /\ CachesOK' /\ IndexResolves' /\ AnsweredIsStored' /\ ReadByOwner'
  BY DEF RowsOK, CachesOK, IndexResolves, AnsweredIsStored, ReadByOwner
<1>8. RetryDoesNotRun'
  BY <1>2, <1>3 DEF RetryDoesNotRun
<1> QED
  BY <1>1, <1>6, <1>7, <1>8

\* Execute, and the lookups that answer nothing.
LEMMA ExecuteStep ==
    ASSUME RunInv, NEW h \in Handlers, NEW p \in Replicas,
           NEW who \in Identities, NEW key \in Keys \cup {None},
           Execute(h, p, who, key)
    PROVE  RunInv'
<1> DEFINE c == [at |-> p, who |-> who, key |-> key, id |-> None,
                 run |-> None, retry |-> key # None /\ Answered(who, key)]
           place == IF key = None THEN "run" ELSE "cache"
<1>1. c \in Call
  BY DEF Call, Answered
<1>2. c # None
  BY <1>1, NoneAssumption
<1>3. Arrives(h, place, c)
  BY <1>1 DEF Execute, Arrives, Goto, Places
<1>4. UNCHANGED <<rows, txn, runs, idempotency, used, faults, answers, reads>>
  BY DEF Execute, storeVars, cacheVars, observers
<1>5. pc'[h] = place /\ call'[h] = c
  BY <1>3 DEF Arrives, RunInv, TypeOK
<1>6. c.who = who /\ c.key = key /\ (c.retry => key # None /\ Answered(who, key))
  OBVIOUS
<1>7. /\ place \in {"run", "cache"}
      /\ place = "cache" => key # None
      /\ place = "run" => ~c.retry
  OBVIOUS
<1> HIDE DEF c, place
<1>8. Answered(who, key)' = Answered(who, key)
  BY <1>4 DEF Answered
<1>9. CallOK(h)'
  BY <1>2, <1>5, <1>6, <1>7, <1>8 DEF CallOK
<1> QED
  BY <1>3, <1>4, <1>7, <1>9, LocalStep DEF RunInv, TypeOK

\* A lookup in self.idempotency that finds nothing.
LEMMA CacheMissStep ==
    ASSUME RunInv, NEW h \in Handlers, CacheMiss(h)
    PROVE  RunInv'
<1> DEFINE c == call[h]
<1>1. pc[h] = "cache" /\ CallOK(h) /\ c \in Call
  BY DEF RunInv, CallsOK, CacheMiss, CallOK, TypeOK
<1>2. Arrives(h, "find", c)
  BY <1>1 DEF CacheMiss, Arrives, Goto, Places, RunInv, TypeOK
<1>3. UNCHANGED <<rows, txn, runs, idempotency, used, faults, answers, reads>>
  BY DEF CacheMiss, storeVars, cacheVars, observers
<1>4. pc'[h] = "find" /\ call'[h] = c
  BY <1>2 DEF Arrives, RunInv, TypeOK
<1>5. CallOK(h)'
  BY <1>1, <1>3, <1>4 DEF CallOK, Answered
<1> QED
  BY <1>2, <1>3, <1>5, LocalStep DEF RunInv, TypeOK

\* A retry finds its run: it was answered, so it is stored.
LEMMA FindStep ==
    ASSUME RunInv, NEW h \in Handlers, FindIdempotent(h)
    PROVE  RunInv'
<1> DEFINE c == call[h]
<1>1. pc[h] = "find" /\ CallOK(h) /\ c \in Call
  BY DEF RunInv, CallsOK, FindIdempotent, CallOK, TypeOK
<1>2. UNCHANGED <<rows, txn, runs, idempotency, used, faults, answers, reads>>
  BY DEF FindIdempotent, storeVars, cacheVars, observers
<1>3. CASE \E i \in SameKey(c.who, c.key) :
             /\ call' = [call EXCEPT ![h].run = rows[i]]
             /\ Goto(h, "keep")
  <2>1. PICK i \in SameKey(c.who, c.key) :
             /\ call' = [call EXCEPT ![h].run = rows[i]]
             /\ Goto(h, "keep")
    BY <1>3
  <2> DEFINE d == [c EXCEPT !.run = rows[i]]
  <2>2. /\ i \in Ids /\ rows[i] \in StoredRun /\ rows[i].id = i
        /\ rows[i].who = c.who /\ rows[i].key = c.key
    BY <2>1 DEF SameKey, RunInv, TypeOK, RowsOK
  <2>3. /\ d \in Call /\ d.run = rows[i] /\ d.who = c.who /\ d.key = c.key
        /\ d.retry = c.retry /\ d.id = c.id /\ d.at = c.at
    BY <1>1, <2>2 DEF Call
  <2>4. d # None
    BY <2>3, NoneAssumption
  <2>5. Arrives(h, "keep", d)
    BY <2>1, <2>3 DEF Arrives, Goto, Places, RunInv, TypeOK
  <2> HIDE DEF d
  <2>6. pc'[h] = "keep" /\ call'[h] = d
    BY <2>5 DEF Arrives, RunInv, TypeOK
  <2>7. rows[i] # None
    BY <2>2, NoneAssumption
  <2>8. CallOK(h)'
    BY <1>1, <1>2, <2>2, <2>3, <2>4, <2>6, <2>7 DEF CallOK, Answered
  <2> QED
    BY <2>5, <2>8, <1>2, LocalStep DEF RunInv, TypeOK
<1>4. CASE /\ SameKey(c.who, c.key) = {}
           /\ Goto(h, "run")
           /\ UNCHANGED call
  <2>1. Arrives(h, "run", c)
    BY <1>1, <1>4 DEF Arrives, Goto, Places, RunInv, TypeOK
  <2>2. pc'[h] = "run" /\ call'[h] = c
    BY <2>1 DEF Arrives, RunInv, TypeOK
  <2>3. CallOK(h)'
    BY <1>1, <1>2, <2>2 DEF CallOK, Answered
  <2>4. ~c.retry
    <3> SUFFICES ASSUME c.retry PROVE FALSE
      BY <1>1 DEF Call
    <3>1. PICK i \in Ids : <<c.who, c.key, i>> \in answers
      BY <1>1 DEF CallOK, Answered
    <3>2. rows[i] = [id |-> i, who |-> c.who, key |-> c.key]
      BY <3>1 DEF RunInv, AnsweredIsStored
    <3>3. rows[i] \in StoredRun
      BY <3>2, <1>1 DEF StoredRun, Call
    <3>4. i \in SameKey(c.who, c.key)
      BY <3>2, <3>3, NoneAssumption DEF SameKey
    <3> QED
      BY <3>4, <1>4
  <2> QED
    BY <2>1, <2>3, <2>4, <1>2, LocalStep DEF RunInv, TypeOK
<1> QED
  BY <1>3, <1>4 DEF FindIdempotent

\* The run gets an id of its own.
LEMMA RuntimeStep ==
    ASSUME RunInv, NEW h \in Handlers, NEW i \in Ids, Runtime(h, i)
    PROVE  RunInv'
<1> DEFINE c == call[h]
           r == [id |-> i, who |-> c.who, key |-> c.key]
           d == [c EXCEPT !.run = r]
<1>1. pc[h] = "run" /\ CallOK(h) /\ c \in Call /\ ~c.retry
  BY DEF RunInv, CallsOK, Runtime, CallOK, TypeOK, RetryDoesNotRun
<1>2. r \in StoredRun /\ r # None
  BY <1>1, NoneAssumption DEF StoredRun, Call
<1>3. /\ d \in Call /\ d.run = r /\ d.who = c.who /\ d.key = c.key
      /\ d.retry = c.retry /\ d.id = c.id /\ d.at = c.at
  BY <1>1, <1>2 DEF Call
<1>4. d # None
  BY <1>3, NoneAssumption
<1>5. Arrives(h, "save", d)
  BY <1>3 DEF Runtime, Arrives, Goto, Places, RunInv, TypeOK
<1>6. /\ UNCHANGED <<rows, txn, runs, idempotency, faults, answers, reads>>
      /\ used' = used \cup {i} /\ i \notin used
  BY DEF Runtime, storeVars, cacheVars, observers
<1>7. pc'[h] = "save" /\ call'[h] = d
  BY <1>5 DEF Arrives, RunInv, TypeOK
<1>8. rows[i] = None
  BY <1>6 DEF RunInv, RowsOK
<1>9. r.id = i /\ r.who = c.who /\ r.key = c.key
  OBVIOUS
<1> HIDE DEF d, r
<1>10. CallOK(h)'
  BY <1>1, <1>2, <1>3, <1>4, <1>6, <1>7, <1>8, <1>9 DEF CallOK
<1>11. d.run.id \notin used /\ used \subseteq used' /\ used' \subseteq Ids
  BY <1>3, <1>6, <1>9 DEF RunInv, TypeOK
<1> QED
  BY <1>1, <1>3, <1>5, <1>6, <1>10, <1>11, LocalStep DEF RunInv, TypeOK

\* The row read again is the one that stands for this key.
LEMMA RereadStep ==
    ASSUME RunInv, NEW h \in Handlers, PostgresReread(h)
    PROVE  RunInv'
<1> DEFINE c == call[h]
<1>1. pc[h] = "reread" /\ CallOK(h) /\ c \in Call
  BY DEF RunInv, CallsOK, PostgresReread, CallOK, TypeOK
<1>2. UNCHANGED <<rows, txn, runs, idempotency, used, faults, answers, reads>>
  BY DEF PostgresReread, storeVars, cacheVars, observers
<1>3. SameKey(c.who, c.key) # {}
  BY <1>1 DEF CallOK
<1> DEFINE i == CHOOSE j \in SameKey(c.who, c.key) : TRUE
           d == [c EXCEPT !.run = rows[i]]
<1>4. i \in SameKey(c.who, c.key)
  BY <1>3
<1>5. call' = [call EXCEPT ![h].run = rows[i]] /\ Goto(h, "keep")
  BY <1>3 DEF PostgresReread
<1> HIDE DEF i
<1>6. /\ i \in Ids /\ rows[i] \in StoredRun /\ rows[i].id = i
      /\ rows[i].who = c.who /\ rows[i].key = c.key /\ rows[i] # None
  BY <1>4 DEF SameKey, RunInv, TypeOK, RowsOK
<1>7. /\ d \in Call /\ d.run = rows[i] /\ d.who = c.who /\ d.key = c.key
      /\ d.retry = c.retry /\ d.id = c.id /\ d.at = c.at
  BY <1>1, <1>6 DEF Call
<1>8. d # None
  BY <1>7, NoneAssumption
<1>9. Arrives(h, "keep", d)
  BY <1>5, <1>7 DEF Arrives, Goto, Places, RunInv, TypeOK
<1> HIDE DEF d
<1>10. pc'[h] = "keep" /\ call'[h] = d
  BY <1>9 DEF Arrives, RunInv, TypeOK
<1>11. CallOK(h)'
  BY <1>1, <1>2, <1>6, <1>7, <1>8, <1>10 DEF CallOK, Answered
<1> QED
  BY <1>2, <1>9, <1>11, LocalStep DEF RunInv, TypeOK

\* A request that ends without an answer, and a get that has to ask the store.
LEMMA EndStep ==
    ASSUME RunInv, NEW h \in Handlers, Done(h),
           UNCHANGED <<rows, runs, idempotency, used, answers, reads>>,
           txn' \in BOOLEAN, faults' \in 0..MaxFaults
    PROVE  RunInv'
<1>1. Arrives(h, "idle", None)
  BY DEF Done, Arrives, Places
<1>2. pc'[h] = "idle" /\ call'[h] = None
  BY <1>1 DEF Arrives, RunInv, TypeOK
<1>3. CallOK(h)'
  BY <1>2 DEF CallOK
<1> QED
  BY <1>1, <1>3, LocalStep DEF RunInv, TypeOK

\* GET /runs/{run_id} comes in.
LEMMA GetStep ==
    ASSUME RunInv, NEW h \in Handlers, NEW p \in Replicas,
           NEW who \in Identities, NEW i \in Ids, Get(h, p, who, i)
    PROVE  RunInv'
<1> DEFINE c == [at |-> p, who |-> who, key |-> None, id |-> i,
                 run |-> None, retry |-> FALSE]
<1>0. c \in Call
  BY DEF Call
<1>1. c \in Call /\ c # None
  BY <1>0, NoneAssumption
<1>2. Arrives(h, "get", c)
  BY <1>1 DEF Get, Arrives, Goto, Places
<1>3. UNCHANGED <<rows, txn, runs, idempotency, used, faults, answers, reads>>
  BY DEF Get, storeVars, cacheVars, observers
<1>4. pc'[h] = "get" /\ call'[h] = c
  BY <1>2 DEF Arrives, RunInv, TypeOK
<1>5. c.id = i /\ c.retry = FALSE /\ i # None
  BY NoneAssumption
<1> HIDE DEF c
<1>6. CallOK(h)'
  BY <1>1, <1>4, <1>5 DEF CallOK
<1> QED
  BY <1>2, <1>3, <1>6, LocalStep DEF RunInv, TypeOK

-----------------------------------------------------------------------------
(* Steps that fill a dictionary or give an answer *)

\* A step that adds to the answers or caches and leaves the other requests alone.
LEMMA GrowStep ==
    ASSUME RunInv, NEW h \in Handlers, NEW place, NEW c,
           Arrives(h, place, c), place \notin {"run", "save"},
           UNCHANGED <<rows, txn, used, faults>>,
           runs' \in [Replicas -> [Ids -> StoredRun \cup {None}]],
           idempotency' \in [Replicas -> [Identities \X Keys -> Ids \cup {None}]],
           answers' \subseteq Identities \X (Keys \cup {None}) \X Ids,
           reads' \subseteq Identities \X Ids,
           answers \subseteq answers',
           \A p \in Replicas, i \in Ids :
               runs[p][i] # None => runs'[p][i] = runs[p][i],
           CallOK(h)', CachesOK', IndexResolves', AnsweredIsStored', ReadByOwner'
    PROVE  RunInv'
<1> USE DEF RunInv
<1>1. TypeOK'
  BY DEF Arrives, TypeOK
<1>2. \A g \in Handlers : g # h => pc'[g] = pc[g] /\ call'[g] = call[g]
  BY DEF Arrives, TypeOK
<1>3. pc'[h] = place /\ call'[h] = c
  BY DEF Arrives, TypeOK
<1>4. ASSUME NEW g \in Handlers, g # h PROVE CallOK(g)'
  <2>1. CallOK(g) /\ pc'[g] = pc[g] /\ call'[g] = call[g]
    BY <1>2, <1>4 DEF CallsOK
  <2>3. Answered(call[g].who, call[g].key) => Answered(call[g].who, call[g].key)'
    BY <2>1 DEF Answered
  <2>4. CASE pc[g] = "index"
    <3>1. /\ call[g] \in Call /\ call[g].run \in StoredRun
          /\ runs[call[g].at][call[g].run.id] = call[g].run
      BY <2>1, <2>4 DEF CallOK, TypeOK, Call
    <3>2. call[g].at \in Replicas /\ call[g].run.id \in Ids /\ call[g].run # None
      BY <3>1, CallFields, RunFields
    <3>3. runs'[call[g].at][call[g].run.id] = call[g].run
      BY <3>1, <3>2
    <3> QED
      BY <2>1, <2>3, <2>4, <3>3 DEF CallOK
  <2>5. CASE pc[g] # "index"
    BY <2>1, <2>3, <2>5 DEF CallOK, SameKey
  <2> QED
    BY <2>4, <2>5
<1>5. CallsOK'
  BY <1>2, <1>3, <1>4, SMTT(30) DEF CallsOK
<1>6. RowsOK'
  BY DEF RowsOK
<1>7. RetryDoesNotRun'
  BY <1>2, <1>3 DEF RetryDoesNotRun
<1> QED
  BY <1>1, <1>5, <1>6, <1>7

\* Writing a stored run to a dictionary keeps the dictionaries right.
LEMMA KeepStored ==
    ASSUME RunInv, NEW p \in Replicas, NEW i \in Ids, rows[i] # None,
           runs' = [runs EXCEPT ![p][i] = rows[i]], rows' = rows
    PROVE  /\ runs' \in [Replicas -> [Ids -> StoredRun \cup {None}]]
           /\ \A q \in Replicas, j \in Ids :
                  runs[q][j] # None => runs'[q][j] = runs[q][j]
           /\ runs'[p][i] = rows[i]
           /\ CachesOK'
           /\ idempotency' = idempotency => IndexResolves'
<1> USE DEF RunInv
<1>1. rows[i] \in StoredRun /\ runs \in [Replicas -> [Ids -> StoredRun \cup {None}]]
  BY DEF TypeOK
<1>2. runs' \in [Replicas -> [Ids -> StoredRun \cup {None}]]
  BY <1>1
<1>3. \A q \in Replicas, j \in Ids :
          runs'[q][j] = IF q = p /\ j = i THEN rows[i] ELSE runs[q][j]
  BY <1>1
<1>4. \A q \in Replicas, j \in Ids :
          runs[q][j] # None => runs'[q][j] = runs[q][j]
  BY <1>3 DEF CachesOK
<1>5. CachesOK'
  BY <1>3 DEF CachesOK
<1>6. ASSUME idempotency' = idempotency PROVE IndexResolves'
  <2> SUFFICES ASSUME NEW q \in Replicas, NEW who \in Identities, NEW key \in Keys,
                      idempotency[q][<<who, key>>] # None
               PROVE  LET j == idempotency[q][<<who, key>>] IN
                      runs'[q][j] = [id |-> j, who |-> who, key |-> key]
    BY <1>6 DEF IndexResolves
  <2> DEFINE j == idempotency[q][<<who, key>>]
  <2>1. j \in Ids
    BY DEF TypeOK
  <2>2. runs[q][j] = [id |-> j, who |-> who, key |-> key]
    BY DEF IndexResolves
  <2>3. runs[q][j] \in StoredRun
    BY <2>1, <2>2 DEF StoredRun
  <2>4. runs[q][j] # None
    BY <2>3, NoneAssumption
  <2> QED
    BY <2>1, <2>2, <2>4, <1>4
<1> QED
  BY <1>2, <1>3, <1>4, <1>5, <1>6

\* An answer about a stored run of the caller and key.
LEMMA ReplyKeeps ==
    ASSUME RunInv, NEW h \in Handlers, NEW i \in Ids, Reply(h, i),
           pc[h] # "idle", rows' = rows,
           rows[i] = [id |-> i, who |-> call[h].who, key |-> call[h].key]
    PROVE  /\ Arrives(h, "idle", None)
           /\ CallOK(h)'
           /\ answers \subseteq answers'
           /\ answers' \subseteq Identities \X (Keys \cup {None}) \X Ids
           /\ AnsweredIsStored'
           /\ UNCHANGED reads
           /\ ReadByOwner'
<1> USE DEF RunInv
<1>1. Arrives(h, "idle", None)
  BY DEF Reply, Done, Arrives, Places
<1>2. pc'[h] = "idle" /\ call'[h] = None
  BY <1>1 DEF Arrives, TypeOK
<1>3. CallOK(h)'
  BY <1>2 DEF CallOK
<1>4. call[h] \in Call
  BY DEF CallsOK, CallOK, TypeOK
<1>5. call[h].who \in Identities /\ call[h].key \in Keys \cup {None}
  BY <1>4, CallFields
<1>6. /\ answers' = answers \cup {<<call[h].who, call[h].key, i>>}
      /\ UNCHANGED reads
  BY DEF Reply
<1>7. answers' \subseteq Identities \X (Keys \cup {None}) \X Ids
  BY <1>5, <1>6 DEF TypeOK
<1>8. AnsweredIsStored'
  <2> SUFFICES ASSUME NEW a \in answers'
               PROVE  rows[a[3]] = [id |-> a[3], who |-> a[1], key |-> a[2]]
    BY DEF AnsweredIsStored
  <2>1. CASE a \in answers
    BY <2>1 DEF AnsweredIsStored
  <2>2. CASE a = <<call[h].who, call[h].key, i>>
    BY <2>2
  <2> QED
    BY <2>1, <2>2, <1>6
<1>9. ReadByOwner'
  BY <1>6 DEF ReadByOwner
<1> QED
  BY <1>1, <1>3, <1>6, <1>7, <1>8, <1>9

\* The answer from the dictionaries is the stored run.
LEMMA CacheHitStep ==
    ASSUME RunInv, NEW h \in Handlers, CacheHit(h)
    PROVE  RunInv'
<1> DEFINE c == call[h]
           i == idempotency[c.at][<<c.who, c.key>>]
<1> USE DEF RunInv
<1>1. pc[h] = "cache" /\ c \in Call /\ c.key # None
  BY DEF CacheHit, CallsOK, CallOK, TypeOK
<1>2. c.at \in Replicas /\ c.who \in Identities /\ c.key \in Keys
  BY <1>1, CallFields
<1>3. i \in Ids
  <2>1. i # None
    BY DEF CacheHit, CachedId
  <2>2. idempotency[c.at] \in [Identities \X Keys -> Ids \cup {None}]
    BY <1>2 DEF TypeOK
  <2> QED
    BY <1>2, <2>1, <2>2
<1>4. runs[c.at][i] = [id |-> i, who |-> c.who, key |-> c.key]
  BY <1>2, <1>3, NoneAssumption, ZenonT(30) DEF IndexResolves, CacheHit, CachedId
<1>5. rows[i] = [id |-> i, who |-> c.who, key |-> c.key]
  BY <1>2, <1>3, <1>4 DEF CachesOK, CacheHit, CachedId
<1>6. Reply(h, i)
  BY <1>4 DEF CacheHit, CachedId
<1>7. UNCHANGED <<rows, txn, runs, idempotency, used, faults>>
  BY DEF CacheHit, storeVars, cacheVars
<1> HIDE DEF i
<1>8. /\ Arrives(h, "idle", None)
      /\ CallOK(h)'
      /\ answers \subseteq answers'
      /\ answers' \subseteq Identities \X (Keys \cup {None}) \X Ids
      /\ AnsweredIsStored'
      /\ UNCHANGED reads
      /\ ReadByOwner'
  BY <1>1, <1>3, <1>5, <1>6, <1>7, ReplyKeeps
<1>9. CachesOK' /\ IndexResolves'
  BY <1>7 DEF CachesOK, IndexResolves
<1> QED
  BY <1>7, <1>8, <1>9, GrowStep DEF TypeOK

\* self.runs takes in the run that was stored or found.
LEMMA KeepRunStep ==
    ASSUME RunInv, NEW h \in Handlers, KeepRun(h)
    PROVE  RunInv'
<1> DEFINE c == call[h]
           i == c.run.id
<1> USE DEF RunInv
<1>1. /\ pc[h] = "keep" /\ c \in Call /\ c.run \in StoredRun
      /\ c.run.who = c.who /\ c.run.key = c.key /\ rows[i] = c.run /\ CallOK(h)
  BY DEF KeepRun, CallsOK, CallOK, TypeOK, Call
<1>2. c.at \in Replicas /\ i \in Ids /\ rows[i] # None
  BY <1>1, CallFields, RunFields
<1>3. /\ runs' = [runs EXCEPT ![c.at][i] = rows[i]]
      /\ UNCHANGED <<rows, txn, idempotency, used, faults>>
  BY <1>1 DEF KeepRun, storeVars
<1>4. /\ runs' \in [Replicas -> [Ids -> StoredRun \cup {None}]]
      /\ \A q \in Replicas, j \in Ids :
             runs[q][j] # None => runs'[q][j] = runs[q][j]
      /\ runs'[c.at][i] = rows[i]
      /\ CachesOK'
      /\ IndexResolves'
  BY <1>2, <1>3, KeepStored
<1>5. CASE c.key = None
  <2>1. Reply(h, i)
    BY <1>5 DEF KeepRun
  <2>2. rows[i] = [id |-> i, who |-> c.who, key |-> c.key]
    BY <1>1, RunFields
  <2>3. /\ Arrives(h, "idle", None)
        /\ CallOK(h)'
        /\ answers \subseteq answers'
        /\ answers' \subseteq Identities \X (Keys \cup {None}) \X Ids
        /\ AnsweredIsStored'
        /\ UNCHANGED reads
        /\ ReadByOwner'
    BY <1>1, <1>2, <1>3, <2>1, <2>2, ReplyKeeps
  <2> QED
    BY <1>3, <1>4, <2>3, GrowStep DEF TypeOK
<1>6. CASE c.key # None
  <2>1. Goto(h, "index") /\ UNCHANGED <<call, answers, reads>>
    BY <1>6 DEF KeepRun, observers
  <2>2. Arrives(h, "index", c)
    BY <1>1, <2>1 DEF Goto, Arrives, Places, TypeOK
  <2>3. pc'[h] = "index" /\ call'[h] = c
    BY <2>2 DEF Arrives, TypeOK
  <2>4. CallOK(h)'
    <3>1. c # None /\ c.run # None
      BY <1>1, CallFields, RunFields
    <3>2. c.retry => Answered(c.who, c.key)'
      BY <1>1, <2>1 DEF CallOK, Answered
    <3>3. rows'[i] = c.run /\ runs'[c.at][i] = c.run
      BY <1>1, <1>3, <1>4
    <3> QED
      BY <1>1, <1>6, <2>3, <3>1, <3>2, <3>3 DEF CallOK
  <2>5. AnsweredIsStored' /\ ReadByOwner'
    BY <1>3, <2>1 DEF AnsweredIsStored, ReadByOwner
  <2>6. /\ idempotency' \in [Replicas -> [Identities \X Keys -> Ids \cup {None}]]
        /\ answers' \subseteq Identities \X (Keys \cup {None}) \X Ids
        /\ reads' \subseteq Identities \X Ids
        /\ answers \subseteq answers'
    BY <1>3, <2>1 DEF TypeOK
  <2> HIDE DEF c, i, RunInv
  <2> QED
    BY <1>3, <1>4, <2>1, <2>2, <2>4, <2>5, <2>6, GrowStep
<1> QED
  BY <1>5, <1>6

\* self.idempotency takes in a key whose run self.runs has.
LEMMA KeepKeyStep ==
    ASSUME RunInv, NEW h \in Handlers, KeepKey(h)
    PROVE  RunInv'
<1> DEFINE c == call[h]
           i == c.run.id
<1> USE DEF RunInv
<1>1. /\ pc[h] = "index" /\ c \in Call /\ c.run \in StoredRun /\ c.key # None
      /\ c.run.who = c.who /\ c.run.key = c.key /\ rows[i] = c.run
      /\ runs[c.at][i] = c.run
  BY DEF KeepKey, CallsOK, CallOK, TypeOK, Call
<1>2. c.at \in Replicas /\ i \in Ids /\ c.who \in Identities /\ c.key \in Keys
  BY <1>1, CallFields, RunFields
<1>3. /\ idempotency' = [idempotency EXCEPT ![c.at][<<c.who, c.key>>] = i]
      /\ Reply(h, i)
      /\ UNCHANGED <<rows, txn, runs, used, faults>>
  BY DEF KeepKey, storeVars
<1>4. rows[i] = [id |-> i, who |-> c.who, key |-> c.key]
  BY <1>1, RunFields
<1>5. /\ Arrives(h, "idle", None)
      /\ CallOK(h)'
      /\ answers \subseteq answers'
      /\ answers' \subseteq Identities \X (Keys \cup {None}) \X Ids
      /\ AnsweredIsStored'
      /\ UNCHANGED reads
      /\ ReadByOwner'
  BY <1>1, <1>2, <1>3, <1>4, ReplyKeeps
<1>6. idempotency' \in [Replicas -> [Identities \X Keys -> Ids \cup {None}]]
  BY <1>2, <1>3 DEF TypeOK
<1>7. IndexResolves'
  <2> SUFFICES ASSUME NEW q \in Replicas, NEW who \in Identities, NEW key \in Keys,
                      idempotency'[q][<<who, key>>] # None
               PROVE  LET j == idempotency'[q][<<who, key>>] IN
                      runs[q][j] = [id |-> j, who |-> who, key |-> key]
    BY <1>3 DEF IndexResolves
  <2>1. CASE q = c.at /\ who = c.who /\ key = c.key
    <3>1. idempotency'[q][<<who, key>>] = i
      BY <1>2, <1>3, <2>1 DEF TypeOK
    <3> QED
      BY <1>1, <1>4, <2>1, <3>1
  <2>2. CASE ~(q = c.at /\ who = c.who /\ key = c.key)
    <3>1. idempotency'[q][<<who, key>>] = idempotency[q][<<who, key>>]
      BY <1>2, <1>3, <2>2 DEF TypeOK
    <3> QED
      BY <3>1 DEF IndexResolves
  <2> QED
    BY <2>1, <2>2
<1>8. CachesOK'
  BY <1>3 DEF CachesOK
<1> QED
  BY <1>3, <1>5, <1>6, <1>7, <1>8, GrowStep DEF TypeOK

\* A run handed out by get is stored and belongs to the owner who asks.
LEMMA DeliverKeeps ==
    ASSUME RunInv, NEW h \in Handlers, NEW i \in Ids, Deliver(h, rows[i]),
           pc[h] # "idle", rows[i] # None, rows' = rows
    PROVE  /\ Arrives(h, "idle", None)
           /\ CallOK(h)'
           /\ reads' \subseteq Identities \X Ids
           /\ UNCHANGED answers
           /\ AnsweredIsStored'
           /\ ReadByOwner'
<1> USE DEF RunInv
<1>1. Arrives(h, "idle", None)
  BY DEF Deliver, Done, Arrives, Places
<1>2. pc'[h] = "idle" /\ call'[h] = None
  BY <1>1 DEF Arrives, TypeOK
<1>3. CallOK(h)'
  BY <1>2 DEF CallOK
<1>4. call[h] \in Call
  BY DEF CallsOK, CallOK, TypeOK
<1>5. call[h].who \in Identities /\ rows[i].id = i
  BY <1>4, CallFields DEF RowsOK
<1>6. UNCHANGED answers /\ AnsweredIsStored'
  BY DEF Deliver, AnsweredIsStored
<1>7. CASE rows[i].who.owner = call[h].who.owner
  <2>1. reads' = reads \cup {<<call[h].who, i>>}
    BY <1>5, <1>7 DEF Deliver, CanRead
  <2>2. reads' \subseteq Identities \X Ids
    BY <1>5, <2>1 DEF TypeOK
  <2>3. ASSUME NEW r \in reads'
        PROVE  rows[r[2]] # None /\ rows[r[2]].who.owner = r[1].owner
    <3>1. CASE r \in reads
      BY <3>1 DEF ReadByOwner
    <3>2. CASE r = <<call[h].who, i>>
      BY <3>2, <1>7
    <3> QED
      BY <2>1, <2>3, <3>1, <3>2
  <2> QED
    BY <1>1, <1>3, <1>6, <2>2, <2>3 DEF ReadByOwner
<1>8. CASE rows[i].who.owner # call[h].who.owner
  <2>1. reads' = reads
    BY <1>8 DEF Deliver, CanRead
  <2> QED
    BY <1>1, <1>3, <1>6, <2>1 DEF ReadByOwner, TypeOK
<1> QED
  BY <1>7, <1>8

\* get from the dictionary, which holds stored runs only.
LEMMA GetCachedStep ==
    ASSUME RunInv, NEW h \in Handlers, GetCached(h)
    PROVE  RunInv'
<1> DEFINE c == call[h]
<1> USE DEF RunInv
<1>1. pc[h] = "get" /\ c \in Call /\ c.id # None /\ CallOK(h)
  BY DEF GetCached, CallsOK, CallOK, TypeOK
<1>2. c.at \in Replicas /\ c.id \in Ids
  BY <1>1, CallFields
<1>3. UNCHANGED <<rows, txn, runs, idempotency, used, faults>>
  BY DEF GetCached, storeVars, cacheVars
<1>4. CASE runs[c.at][c.id] # None
  <2>1. runs[c.at][c.id] = rows[c.id] /\ rows[c.id] # None
    BY <1>2, <1>4 DEF CachesOK
  <2>2. Deliver(h, rows[c.id])
    BY <1>4, <2>1 DEF GetCached
  <2>3. /\ Arrives(h, "idle", None)
        /\ CallOK(h)'
        /\ reads' \subseteq Identities \X Ids
        /\ UNCHANGED answers
        /\ AnsweredIsStored'
        /\ ReadByOwner'
    BY <1>1, <1>2, <1>3, <2>1, <2>2, DeliverKeeps
  <2>4. CachesOK' /\ IndexResolves'
    BY <1>3 DEF CachesOK, IndexResolves
  <2> QED
    BY <1>3, <2>3, <2>4, GrowStep DEF TypeOK
<1>5. CASE runs[c.at][c.id] = None
  <2>1. Goto(h, "load") /\ UNCHANGED <<call, answers, reads>>
    BY <1>5 DEF GetCached, observers
  <2>2. Arrives(h, "load", c)
    BY <1>1, <2>1 DEF Goto, Arrives, Places, TypeOK
  <2>3. pc'[h] = "load" /\ call'[h] = c
    BY <2>2 DEF Arrives, TypeOK
  <2>4. CallOK(h)'
    BY <1>1, <2>1, <2>3 DEF CallOK, Answered
  <2>5. /\ used \subseteq used' /\ used' \subseteq Ids /\ txn' \in BOOLEAN
        /\ faults' \in 0..MaxFaults
    BY <1>3, <2>1 DEF TypeOK
  <2> HIDE DEF c, RunInv
  <2> QED
    BY <1>3, <2>1, <2>2, <2>4, <2>5, LocalStep
<1> QED
  BY <1>4, <1>5

\* get from the store.
LEMMA LoadStep ==
    ASSUME RunInv, NEW h \in Handlers, Load(h)
    PROVE  RunInv'
<1> DEFINE c == call[h]
           row == rows[c.id]
<1> USE DEF RunInv
<1>1. pc[h] = "load" /\ c \in Call /\ c.id # None
  BY DEF Load, CallsOK, CallOK, TypeOK
<1>2. c.at \in Replicas /\ c.id \in Ids
  BY <1>1, CallFields
<1>3. UNCHANGED <<rows, txn, idempotency, used, faults>>
  BY DEF Load, storeVars
<1>4. CASE row # None /\ row.who = c.who
  <2>1. runs' = [runs EXCEPT ![c.at][c.id] = rows[c.id]] /\ Deliver(h, rows[c.id])
    BY <1>4 DEF Load
  <2>2. /\ runs' \in [Replicas -> [Ids -> StoredRun \cup {None}]]
        /\ \A q \in Replicas, j \in Ids :
               runs[q][j] # None => runs'[q][j] = runs[q][j]
        /\ CachesOK'
        /\ IndexResolves'
    BY <1>2, <1>3, <1>4, <2>1, KeepStored
  <2>3. /\ Arrives(h, "idle", None)
        /\ CallOK(h)'
        /\ reads' \subseteq Identities \X Ids
        /\ UNCHANGED answers
        /\ AnsweredIsStored'
        /\ ReadByOwner'
    BY <1>1, <1>2, <1>3, <1>4, <2>1, DeliverKeeps
  <2> QED
    BY <1>3, <2>2, <2>3, GrowStep DEF TypeOK
<1>5. CASE ~(row # None /\ row.who = c.who)
  <2>1. Done(h) /\ UNCHANGED <<runs, answers, reads>>
    BY <1>5 DEF Load, observers
  <2> QED
    BY <1>3, <2>1, EndStep DEF TypeOK
<1> QED
  BY <1>4, <1>5

-----------------------------------------------------------------------------
(* Saving a run *)

\* The INSERT of a run whose key is free.
LEMMA InsertStep ==
    ASSUME RunInv, NEW h \in Handlers, NEW place \in {"keep", "reread"},
           pc[h] = "save", ~KeyTaken(h), Insert(h), Goto(h, place),
           place = "reread" => call[h].key # None,
           txn' \in BOOLEAN,
           UNCHANGED <<runs, idempotency, used, faults, call, answers, reads>>
    PROVE  RunInv'
<1> DEFINE c == call[h]
           i == c.run.id
<1> USE DEF RunInv
<1>1. /\ c \in Call /\ c.run \in StoredRun /\ CallOK(h)
      /\ c.run.who = c.who /\ c.run.key = c.key
      /\ i \in used /\ rows[i] = None
  BY DEF CallsOK, CallOK, TypeOK, Call
<1>2. i \in Ids /\ c.run # None /\ c # None
  BY <1>1, CallFields, RunFields
<1>3. /\ rows' \in [Ids -> StoredRun \cup {None}]
      /\ rows'[i] = c.run
      /\ \A j \in Ids : j # i => rows'[j] = rows[j]
      /\ \A j \in Ids : rows[j] # None => rows'[j] = rows[j]
  BY <1>1, <1>2 DEF Insert, TypeOK
<1>4. pc'[h] = place /\ \A g \in Handlers : g # h => pc'[g] = pc[g]
  BY DEF Goto, TypeOK
<1>5. pc' \in [Handlers -> Places]
  BY DEF Goto, TypeOK, Places
<1>6. TypeOK'
  BY <1>3, <1>5 DEF TypeOK
<1>7. \A who, key : SameKey(who, key) \subseteq SameKey(who, key)'
  BY <1>3 DEF SameKey
<1>8. CallOK(h)'
  <2>1. i \in SameKey(c.who, c.key)'
    BY <1>1, <1>2, <1>3 DEF SameKey
  <2>2. c.retry => Answered(c.who, c.key)' /\ c.key # None
    BY <1>1 DEF CallOK, Answered
  <2>3. SameKey(c.who, c.key)' # {}
    BY <2>1
  <2> QED
    BY <1>1, <1>2, <1>3, <1>4, <2>2, <2>3 DEF CallOK
<1>9. ASSUME NEW g \in Handlers, g # h PROVE CallOK(g)'
  <2> DEFINE d == call[g]
  <2>1. CallOK(g) /\ pc'[g] = pc[g] /\ call'[g] = d
    BY <1>4, <1>9 DEF CallsOK
  <2>2. pc[g] = "save" => rows'[d.run.id] = None
    <3> SUFFICES ASSUME pc[g] = "save" PROVE rows'[d.run.id] = None
      OBVIOUS
    <3>1. d.run.id # i /\ rows[d.run.id] = None
      BY <1>9, <2>1 DEF CallsOK, CallOK
    <3>2. d \in Call /\ d.run \in StoredRun
      BY <2>1 DEF CallOK, TypeOK, Call
    <3>3. d.run.id \in Ids
      BY <3>2, RunFields
    <3> QED
      BY <3>1, <3>3, <1>3
  <2>3. pc[g] \in {"keep", "index"} => rows'[d.run.id] = d.run
    <3> SUFFICES ASSUME pc[g] \in {"keep", "index"} PROVE rows'[d.run.id] = d.run
      OBVIOUS
    <3>1. d \in Call /\ d.run \in StoredRun /\ rows[d.run.id] = d.run
      BY <2>1 DEF CallOK, TypeOK, Call
    <3>2. d.run.id \in Ids /\ d.run # None
      BY <3>1, RunFields
    <3> QED
      BY <3>1, <3>2, <1>3
  <2>4. pc[g] = "reread" => SameKey(d.who, d.key)' # {}
    BY <2>1, <1>7 DEF CallOK
  <2>5. pc[g] # "idle" /\ d.retry => d.key # None /\ Answered(d.who, d.key)'
    BY <2>1 DEF CallOK, Answered
  <2> QED
    BY <2>1, <2>2, <2>3, <2>4, <2>5 DEF CallOK
<1>10. CallsOK'
  BY <1>4, <1>8, <1>9 DEF CallsOK
<1>11. RowsOK'
  <2>1. \A j \in Ids : rows'[j] # None => rows'[j].id = j /\ j \in used'
    BY <1>1, <1>3 DEF RowsOK
  <2>2. ASSUME NEW j \in Ids, rows[j] # None, rows[j].who = c.who,
               rows[j].key = c.key, c.key # None
        PROVE  FALSE
    BY <2>2 DEF KeyTaken, SameKey
  <2>3. ASSUME NEW j \in Ids, NEW k \in Ids, rows'[j] # None, rows'[k] # None,
               rows'[j].who = rows'[k].who, rows'[j].key = rows'[k].key,
               rows'[j].key # None
        PROVE  j = k
    <3>1. CASE j = i /\ k # i
      BY <2>2, <2>3, <3>1, <1>1, <1>3
    <3>2. CASE k = i /\ j # i
      BY <2>2, <2>3, <3>2, <1>1, <1>3
    <3>3. CASE j # i /\ k # i
      BY <2>3, <3>3, <1>3 DEF RowsOK
    <3> QED
      BY <3>1, <3>2, <3>3
  <2> QED
    BY <2>1, <2>3 DEF RowsOK
<1>12. CachesOK'
  BY <1>3 DEF CachesOK
<1>13. AnsweredIsStored'
  <2> SUFFICES ASSUME NEW a \in answers
               PROVE  rows'[a[3]] = [id |-> a[3], who |-> a[1], key |-> a[2]]
    BY DEF AnsweredIsStored
  <2>1. a[3] \in Ids /\ a[1] \in Identities /\ a[2] \in Keys \cup {None}
    BY DEF TypeOK
  <2>2. rows[a[3]] = [id |-> a[3], who |-> a[1], key |-> a[2]]
    BY DEF AnsweredIsStored
  <2>3. rows[a[3]] \in StoredRun
    BY <2>1, <2>2 DEF StoredRun
  <2> QED
    BY <2>1, <2>2, <2>3, <1>3, NoneAssumption
<1>14. ReadByOwner'
  <2> SUFFICES ASSUME NEW r \in reads
               PROVE  rows'[r[2]] # None /\ rows'[r[2]].who.owner = r[1].owner
    BY DEF ReadByOwner
  <2>1. r[2] \in Ids
    BY DEF TypeOK
  <2> QED
    BY <2>1, <1>3 DEF ReadByOwner
<1>15. IndexResolves'
  BY DEF IndexResolves
<1>16. RetryDoesNotRun'
  BY <1>4 DEF RetryDoesNotRun
<1> QED
  BY <1>6, <1>10, <1>11, <1>12, <1>13, <1>14, <1>15, <1>16

\* INSERT ... ON CONFLICT DO NOTHING leaves one row for the key.
LEMMA PostgresSaveStep ==
    ASSUME RunInv, NEW h \in Handlers, PostgresSave(h)
    PROVE  RunInv'
<1> DEFINE c == call[h]
<1> USE DEF RunInv
<1>1. pc[h] = "save" /\ c \in Call /\ CallOK(h)
  BY DEF PostgresSave, CallsOK, CallOK, TypeOK
<1>2. UNCHANGED <<txn, runs, idempotency, used, faults, call, answers, reads>>
  BY DEF PostgresSave, cacheVars, observers
<1>3. CASE KeyTaken(h)
  <2>1. c.key # None /\ SameKey(c.who, c.key) # {}
    BY <1>3 DEF KeyTaken
  <2>2. rows' = rows /\ Goto(h, "reread")
    BY <1>3, <2>1 DEF PostgresSave
  <2>3. Arrives(h, "reread", c)
    BY <1>1, <1>2, <2>2 DEF Goto, Arrives, Places, TypeOK
  <2>4. pc'[h] = "reread" /\ call'[h] = c
    BY <2>3 DEF Arrives, TypeOK
  <2>5. CallOK(h)'
    BY <1>1, <1>2, <2>1, <2>2, <2>4 DEF CallOK, Answered, SameKey
  <2>6. /\ used \subseteq used' /\ used' \subseteq Ids /\ txn' \in BOOLEAN
        /\ faults' \in 0..MaxFaults
    BY <1>2 DEF TypeOK
  <2> HIDE DEF c, RunInv
  <2> QED
    BY <1>2, <2>2, <2>3, <2>5, <2>6, LocalStep
<1>4. CASE ~KeyTaken(h)
  <2> DEFINE place == IF c.key = None THEN "keep" ELSE "reread"
  <2>1. Insert(h) /\ Goto(h, place)
    BY <1>4 DEF PostgresSave
  <2>2. place \in {"keep", "reread"} /\ (place = "reread" => c.key # None)
    OBVIOUS
  <2>3. txn' \in BOOLEAN
    BY <1>2 DEF TypeOK
  <2> HIDE DEF place, RunInv
  <2> QED
    BY <1>1, <1>2, <1>4, <2>1, <2>2, <2>3, InsertStep
<1> QED
  BY <1>3, <1>4

\* SQLite's INSERT of a free key.
LEMMA SqliteSaveStep ==
    ASSUME RunInv, NEW h \in Handlers, SqliteSave(h)
    PROVE  RunInv'
<1>1. /\ pc[h] = "save" /\ ~KeyTaken(h) /\ Insert(h) /\ Goto(h, "keep")
      /\ txn' \in BOOLEAN
      /\ UNCHANGED <<runs, idempotency, used, faults, call, answers, reads>>
  BY DEF SqliteSave, cacheVars, observers
<1> QED
  BY <1>1, InsertStep

\* SQLite's refused INSERT changes no row and answers nothing.
LEMMA SqliteSaveRefusedStep ==
    ASSUME RunInv, NEW h \in Handlers, SqliteSaveRefused(h)
    PROVE  RunInv'
<1>1. /\ pc[h] = "save" /\ Done(h) /\ txn' \in BOOLEAN
      /\ UNCHANGED <<rows, runs, idempotency, used, faults, answers, reads>>
  BY DEF SqliteSaveRefused, cacheVars, observers
<1> QED
  BY <1>1, EndStep DEF RunInv, TypeOK

-----------------------------------------------------------------------------
(* Failures *)

\* A restart empties the dictionaries of a replica and ends its requests.
LEMMA RestartStep ==
    ASSUME RunInv, NEW p \in Replicas, Restart(p)
    PROVE  RunInv'
<1> DEFINE gone == {h \in Handlers : call[h] # None /\ call[h].at = p}
<1> USE DEF RunInv
<1>1. /\ pc' = [h \in Handlers |-> IF h \in gone THEN "idle" ELSE pc[h]]
      /\ call' = [h \in Handlers |-> IF h \in gone THEN None ELSE call[h]]
      /\ runs' = [runs EXCEPT ![p] = NoRuns]
      /\ idempotency' = [idempotency EXCEPT ![p] = NoKeys]
      /\ txn' = FALSE /\ faults < MaxFaults /\ faults' = faults + 1
      /\ UNCHANGED <<rows, used, answers, reads>>
  BY DEF Restart, observers
<1>2. TypeOK'
  <2>1. pc' \in [Handlers -> Places] /\ call' \in [Handlers -> Call \cup {None}]
    BY <1>1 DEF TypeOK, Places
  <2>2. runs' \in [Replicas -> [Ids -> StoredRun \cup {None}]]
    BY <1>1 DEF TypeOK, NoRuns
  <2>3. NoKeys \in [Identities \X Keys -> Ids \cup {None}]
    BY DEF NoKeys
  <2>4. idempotency' \in [Replicas -> [Identities \X Keys -> Ids \cup {None}]]
    BY <1>1, <2>3 DEF TypeOK
  <2>5. faults' \in 0..MaxFaults
    BY <1>1, DeploymentAssumption DEF TypeOK
  <2> QED
    BY <1>1, <2>1, <2>2, <2>4, <2>5 DEF TypeOK
<1>3. \A h \in Handlers :
         \/ pc'[h] = "idle" /\ call'[h] = None
         \/ h \notin gone /\ pc'[h] = pc[h] /\ call'[h] = call[h]
  BY <1>1
<1>4. ASSUME NEW h \in Handlers PROVE CallOK(h)'
  <2>1. CASE pc'[h] = "idle" /\ call'[h] = None
    BY <2>1 DEF CallOK
  <2>2. CASE h \notin gone /\ pc'[h] = pc[h] /\ call'[h] = call[h]
    <3>1. CallOK(h)
      BY DEF CallsOK
    <3>2. pc[h] = "index" => runs'[call[h].at] = runs[call[h].at]
      <4> SUFFICES ASSUME pc[h] = "index" PROVE runs'[call[h].at] = runs[call[h].at]
        OBVIOUS
      <4>1. call[h] \in Call /\ call[h] # None
        BY <3>1 DEF CallOK, TypeOK
      <4>2. call[h].at \in Replicas /\ call[h].at # p
        BY <4>1, <2>2, CallFields
      <4> QED
        BY <4>2, <1>1 DEF TypeOK
    <3>4. pc[h] # "idle" /\ call[h].retry => Answered(call[h].who, call[h].key)'
      BY <1>1, <2>2, <3>1 DEF CallOK, Answered
    <3>5. pc[h] = "reread" => SameKey(call[h].who, call[h].key)' # {}
      BY <1>1, <2>2, <3>1 DEF CallOK, SameKey
    <3> QED
      BY <1>1, <2>2, <3>1, <3>2, <3>4, <3>5 DEF CallOK
  <2> QED
    BY <1>3, <2>1, <2>2
<1>5. CallsOK'
  <2>1. ASSUME NEW g \in Handlers, NEW h \in Handlers, g # h,
               pc'[g] = "save", pc'[h] = "save"
        PROVE  call'[g].run.id # call'[h].run.id
    BY <1>3, <2>1 DEF CallsOK
  <2> QED
    BY <1>4, <2>1 DEF CallsOK
<1>6. RowsOK' /\ AnsweredIsStored' /\ ReadByOwner'
  BY <1>1 DEF RowsOK, AnsweredIsStored, ReadByOwner
<1>7. CachesOK'
  BY <1>1 DEF CachesOK, NoRuns, TypeOK
<1>8. IndexResolves'
  <2> SUFFICES ASSUME NEW q \in Replicas, NEW who \in Identities, NEW key \in Keys,
                      idempotency'[q][<<who, key>>] # None
               PROVE  LET j == idempotency'[q][<<who, key>>] IN
                      runs'[q][j] = [id |-> j, who |-> who, key |-> key]
    BY DEF IndexResolves
  <2>1. NoKeys[<<who, key>>] = None
    BY DEF NoKeys
  <2>2. idempotency'[p] = NoKeys
    BY <1>1 DEF TypeOK
  <2>3. q # p
    BY <2>1, <2>2
  <2>4. idempotency'[q] = idempotency[q] /\ runs'[q] = runs[q]
    BY <1>1, <2>3 DEF TypeOK
  <2> QED
    BY <2>4 DEF IndexResolves
<1>9. RetryDoesNotRun'
  BY <1>3 DEF RetryDoesNotRun
<1> QED
  BY <1>2, <1>5, <1>6, <1>7, <1>8, <1>9

-----------------------------------------------------------------------------
(* The theorems *)

\* Every step of a service with a store preserves the invariant.
LEMMA RunStep ==
    ASSUME RunInv, [Next]_vars
    PROVE  RunInv'
<1>1. ASSUME NEW h \in Handlers, Step(h) PROVE RunInv'
  <2>1. CASE RuntimeLocked(h)
    BY <2>1, EndStep
    DEF RuntimeLocked, storeVars, cacheVars, observers, RunInv, TypeOK
  <2>2. CASE \E i \in Ids : Runtime(h, i)
    BY <2>2, RuntimeStep
  <2> QED
    BY <1>1, <2>1, <2>2, CacheHitStep, CacheMissStep, FindStep, SqliteSaveStep,
       SqliteSaveRefusedStep, PostgresSaveStep, RereadStep, KeepRunStep,
       KeepKeyStep, GetCachedStep, LoadStep
    DEF Step
<1>2. ASSUME NEW h \in Handlers, Request(h) PROVE RunInv'
  BY <1>2, ExecuteStep, GetStep DEF Request, Serving
<1>3. ASSUME NEW h \in Handlers, RequestFails(h) PROVE RunInv'
  <2>1. faults' \in 0..MaxFaults
    BY <1>3, DeploymentAssumption DEF RequestFails, RunInv, TypeOK
  <2> QED
    BY <1>3, <2>1, EndStep
    DEF RequestFails, storeVars, cacheVars, observers, RunInv, TypeOK
<1>4. CASE UNCHANGED vars
  <2>1. UNCHANGED <<rows, txn, runs, idempotency, used, faults, pc, call,
                    answers, reads>>
    BY <1>4 DEF vars, storeVars, cacheVars, requestVars, observers
  <2>2. TypeOK'
    BY <2>1 DEF RunInv, TypeOK
  <2>3. RowsOK' /\ CachesOK' /\ IndexResolves'
    BY <2>1 DEF RunInv, RowsOK, CachesOK, IndexResolves
  <2>4. AnsweredIsStored' /\ ReadByOwner' /\ RetryDoesNotRun'
    BY <2>1 DEF RunInv, AnsweredIsStored, ReadByOwner, RetryDoesNotRun
  <2>5. CallsOK'
    BY <2>1 DEF RunInv, CallsOK, CallOK, SameKey, Answered
  <2> QED
    BY <2>2, <2>3, <2>4, <2>5 DEF RunInv
<1> QED
  BY <1>1, <1>2, <1>3, <1>4, RestartStep DEF Next, Serving

\* The invariant holds throughout, over both stores.
THEOREM RunInvariance ==
    Spec => []RunInv
<1>1. RunInv /\ [Next]_vars => RunInv'
  BY RunStep
<1> QED
  BY <1>1, RunInit, PTL DEF Spec

\* Every answer execute gives to one key names the same run: across
\* replicas, races, failures and restarts.
THEOREM OneAnswerPerKey ==
    Spec => []AnswersAgree
<1>1. RunInv => AnswersAgree
  <2> SUFFICES ASSUME RunInv, NEW a \in answers, NEW b \in answers,
                      a[1] = b[1], a[2] = b[2], a[2] # None
               PROVE  a[3] = b[3]
    BY DEF AnswersAgree
  <2>1. /\ a[1] \in Identities /\ a[2] \in Keys \cup {None} /\ a[3] \in Ids
        /\ b[3] \in Ids
    BY DEF RunInv, TypeOK
  <2>2. /\ rows[a[3]] = [id |-> a[3], who |-> a[1], key |-> a[2]]
        /\ rows[b[3]] = [id |-> b[3], who |-> a[1], key |-> a[2]]
    BY DEF RunInv, AnsweredIsStored
  <2>3. rows[a[3]] \in StoredRun /\ rows[b[3]] \in StoredRun
    BY <2>1, <2>2 DEF StoredRun
  <2>4. rows[a[3]] # None /\ rows[b[3]] # None
    BY <2>3, NoneAssumption
  <2> QED
    BY <2>1, <2>2, <2>4 DEF RunInv, RowsOK
<1> QED
  BY <1>1, RunInvariance, PTL

\* A retry of an answered request does not run the agent again.
THEOREM RetriesAreSafe ==
    Spec => []RetryDoesNotRun
<1>1. RunInv => RetryDoesNotRun
  BY DEF RunInv
<1> QED
  BY <1>1, RunInvariance, PTL

\* Every reachable state of the service is well typed.
THEOREM RunTypes ==
    Spec => []TypeOK
<1>1. RunInv => TypeOK
  BY DEF RunInv
<1> QED
  BY <1>1, RunInvariance, PTL

\* What execute answered is in the store, for any replica and after any
\* restart.
THEOREM AnswersAreDurable ==
    Spec => []AnsweredIsStored
<1>1. RunInv => AnsweredIsStored
  BY DEF RunInv
<1> QED
  BY <1>1, RunInvariance, PTL

\* get shows a run to nobody but its owner, through the cache or the store.
THEOREM ReadsAreScoped ==
    Spec => []ReadByOwner
<1>1. RunInv => ReadByOwner
  BY DEF RunInv
<1> QED
  BY <1>1, RunInvariance, PTL

\* An indexed run id is in the dictionary of its replica: the lookup that
\* execute does without a check never raises.
THEOREM CacheIndexResolves ==
    Spec => []IndexResolves
<1>1. RunInv => IndexResolves
  BY DEF RunInv
<1> QED
  BY <1>1, RunInvariance, PTL
=============================================================================
