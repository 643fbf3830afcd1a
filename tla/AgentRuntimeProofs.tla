-------------------------- MODULE AgentRuntimeProofs --------------------------
(***************************************************************************)
(* Theorems about AgentRuntime: what leaves the platform has its reason on *)
(* record, the trail explains the answer, and the run implements           *)
(* RunOutcome, for any number of runs, requests, replies and failures.     *)
(***************************************************************************)
EXTENDS AgentRuntime, TLAPS

-----------------------------------------------------------------------------
(* The inductive invariant *)

\* Places before the run's outcome is known.
Early == {"idle", "create", "policy", "call", "toolspan", "toolrecord", "explain"}

\* Places between a tool call and the terminal event.
Inside == {"toolspan", "toolrecord", "explain", "modelspan", "modelrecord"}

\* In the trail, or in memory and so able to enter the trail later.
Seen(r, kind, detail) == <<r, <<kind, detail>>>> \in memory \cup store

Allowed(r) == Decision(r) = "allow" /\ Stored(r, "policy", "allow")

Checked(r) == Verified(req[r], result[r]) /\ Stored(r, "tool", "verified")

Outcomes == {"allow", "deny", "approval_required"}

Good == {"succeeded", "partial_success"}

\* What the place of a run says about its registers.
RegistersOK(r) ==
    /\ pc[r] # "idle" => req[r] \in Requests
    /\ pc[r] # "done" => answer[r] = None
    /\ answer[r] \in Statuses => pc[r] = "done" /\ verdict[r] = answer[r]
    /\ pc[r] \in Early => verdict[r] = None /\ model[r] = "none" /\ r \notin prompted
    /\ pc[r] \in {"idle", "create", "policy"} => r \notin called
    /\ pc[r] \in Inside => r \in called
    /\ pc[r] \in {"modelspan", "modelrecord"} => verdict[r] \in Good
    /\ pc[r] \in {"finish", "return"} => verdict[r] \in Statuses
    /\ verdict[r] = "blocked" => r \notin called /\ pc[r] \in {"finish", "return", "done"}
    /\ verdict[r] = "partial_success" <=> model[r] = "failed"
    /\ r \in prompted => /\ req[r].consent
                         /\ answer[r] = "raised" \/ model[r] \in {"failed", "completed"}

\* Events that are, or may still come, into the trail.
SeenOK(r) ==
    /\ \A o \in Outcomes : Seen(r, "policy", o) =>
          o = Decision(r) /\ pc[r] \notin {"idle", "create", "policy"}
    /\ \A s \in Statuses : Seen(r, "run", s) =>
          s = verdict[r] /\ pc[r] \in {"return", "done"}
    /\ \A m \in ModelOutcomes : Seen(r, "model", m) => m = model[r] /\ pc[r] \notin Early
    /\ answer[r] # "raised" => \A e \in Events : <<r, e>> \in memory => <<r, e>> \in store

\* Events that are in the trail.
TrailOK(r) ==
    /\ pc[r] \notin {"idle", "create"} /\ answer[r] # "raised" => Stored(r, "run", "created")
    /\ pc[r] \in Inside \cup {"call"} \/ r \in called => Allowed(r)
    /\ pc[r] = "explain" \/ verdict[r] \in Good \/ r \in prompted => Checked(r)
    /\ verdict[r] = "failed" => Stored(r, "tool", "failed") \/ Stored(r, "tool", "unverified")
    /\ /\ \/ pc[r] \in {"finish", "return"} \/ answer[r] \in Statuses
          \/ pc[r] = "modelspan" /\ model[r] = "completed"
       /\ model[r] \in {"failed", "completed"}
       => Stored(r, "model", model[r])
    /\ pc[r] = "return" \/ answer[r] \in Statuses => Stored(r, "run", verdict[r])

RunOK(r) == RegistersOK(r) /\ SeenOK(r) /\ TrailOK(r)

RuntimeInv ==
    /\ TypeOK
    /\ DOMAIN result = Runs
    /\ \A r \in Runs : RunOK(r)

-----------------------------------------------------------------------------
(* Frames *)

\* The registers of a run stay as they are.
Untouched(r) ==
    /\ pc'[r] = pc[r] /\ req'[r] = req[r] /\ result'[r] = result[r]
    /\ verdict'[r] = verdict[r] /\ model'[r] = model[r] /\ answer'[r] = answer[r]
    /\ r \in called' <=> r \in called
    /\ r \in prompted' <=> r \in prompted

\* Nothing enters the trail of a run but what was in memory before.
TrailKept(r) ==
    /\ store \subseteq store'
    /\ \A e : <<r, e>> \in memory' => <<r, e>> \in memory
    /\ \A e : <<r, e>> \in store' => <<r, e>> \in memory \cup store

\* The policy decision and the provenance check depend on the registers only.
LEMMA SameRegisters ==
    ASSUME NEW r \in Runs, req'[r] = req[r], result'[r] = result[r]
    PROVE  /\ Decision(r)' = Decision(r)
           /\ Verified(req[r], result[r])' <=> Verified(req[r], result[r])
BY DEF Decision, Authorize, Verified

\* A step that leaves a run alone, and adds at most what the run itself had
\* appended, keeps its invariant.
LEMMA OtherRun ==
    ASSUME NEW r \in Runs, RunOK(r), Untouched(r), TrailKept(r)
    PROVE  RunOK(r)'
<1>1. /\ Decision(r)' = Decision(r)
      /\ Verified(req[r], result[r])' <=> Verified(req[r], result[r])
  BY SameRegisters DEF Untouched
<1>2. RegistersOK(r)'
  BY DEF RunOK, RegistersOK, Untouched
<1>3. SeenOK(r)'
  BY <1>1 DEF RunOK, SeenOK, Untouched, TrailKept, Seen
<1>4. TrailOK(r)'
  BY <1>1 DEF RunOK, TrailOK, Untouched, TrailKept, Stored, Allowed, Checked
<1> QED  BY <1>2, <1>3, <1>4 DEF RunOK

\* What an append means for another run, and for its own.
LEMMA AppendOthers ==
    ASSUME NEW r \in Runs, NEW s \in Runs, r # s, NEW e, Append(s, e)
    PROVE  TrailKept(r)
BY DEF Append, Late, TrailKept

\* The trail of a run that is under way gets its event and nothing else.
LEMMA AppendOwn ==
    ASSUME NEW r \in Runs, NEW e \in Events, TypeOK, RunOK(r), pc[r] # "done", Append(r, e)
    PROVE  /\ \A f \in Events : <<r, f>> \in store' <=> <<r, f>> \in store \/ f = e
           /\ \A f \in Events : <<r, f>> \in memory' <=> <<r, f>> \in memory \/ f = e
           /\ \A f \in Events : <<r, f>> \in memory' => <<r, f>> \in store'
<1>1. \A f \in Events : <<r, f>> \in memory => <<r, f>> \in store
  BY InputAssumption DEF RunOK, SeenOK, RegistersOK
<1>2. PICK late \in Late : store' = store \cup late \cup {<<r, e>>}
  BY DEF Append
<1>3. \A f \in Events : <<r, f>> \in late => <<r, f>> \in store
  BY <1>1, <1>2 DEF Late
<1> QED  BY <1>1, <1>2, <1>3 DEF Append

-----------------------------------------------------------------------------
(* The events *)

LEMMA EventKinds ==
    /\ \A s \in Statuses \cup {"created"} : <<"run", s>> \in Events
    /\ \A o \in Outcomes : <<"policy", o>> \in Events
    /\ \A g \in {"failed", "unverified", "verified"} : <<"tool", g>> \in Events
    /\ \A m \in ModelOutcomes : <<"model", m>> \in Events
    /\ \A t \in {"tool", "model"} : <<"trace.export_failed", t>> \in Events
BY DEF Events, Outcomes

LEMMA DecisionType ==
    ASSUME NEW r \in Runs
    PROVE  Decision(r) \in Outcomes
BY DEF Decision, Authorize, Outcomes

LEMMA GradeType ==
    ASSUME NEW r \in Runs
    PROVE  /\ Grade(r) \in {"failed", "unverified", "verified"}
           /\ Grade(r) = "verified" => Verified(req[r], result[r])
BY DEF Grade

-----------------------------------------------------------------------------
(* A run's own steps *)

LEMMA OwnStart ==
    ASSUME NEW r \in Runs, RuntimeInv, NEW q \in Requests, Start(r, q)
    PROVE  RunOK(r)'
<1> USE DEF RuntimeInv
<1>1. /\ pc[r] = "idle" /\ pc'[r] = "create" /\ req'[r] = q
      /\ verdict' = verdict /\ model' = model /\ answer' = answer
      /\ memory' = memory /\ store' = store /\ called' = called /\ prompted' = prompted
  BY DEF Start, Goto, auditVars, observers, TypeOK
<1>2. RunOK(r)
  OBVIOUS
<1>3. RegistersOK(r)'
  BY <1>1, <1>2 DEF RunOK, RegistersOK, Early, Inside, Statuses
<1>4. SeenOK(r)'
  BY <1>1, <1>2 DEF RunOK, SeenOK, Seen, Early
<1>5. TrailOK(r)'
  BY <1>1, <1>2, InputAssumption DEF RunOK, RegistersOK, TrailOK, Early, Inside, Good, Statuses
<1> QED  BY <1>3, <1>4, <1>5 DEF RunOK

LEMMA OwnCreate ==
    ASSUME NEW r \in Runs, RuntimeInv, Create(r)
    PROVE  RunOK(r)'
<1> USE DEF RuntimeInv
<1> DEFINE e == <<"run", "created">>
<1>1. /\ pc[r] = "create" /\ req' = req /\ result' = result
      /\ model' = model /\ answer' = answer /\ called' = called /\ prompted' = prompted
      /\ \/ pc'[r] = "policy" /\ verdict'[r] = verdict[r]
         \/ pc'[r] = "finish" /\ verdict'[r] = "blocked"
  BY DEF Create, EndWith, Goto, observers, TypeOK
<1>2. RunOK(r)
  OBVIOUS
<1>3. /\ \A f \in Events : <<r, f>> \in store' <=> <<r, f>> \in store \/ f = e
      /\ \A f \in Events : <<r, f>> \in memory' <=> <<r, f>> \in memory \/ f = e
      /\ \A f \in Events : <<r, f>> \in memory' => <<r, f>> \in store'
  BY <1>1, AppendOwn, EventKinds DEF Create
<1>4. RegistersOK(r)'
  BY <1>1, <1>2 DEF RunOK, RegistersOK, Early, Inside, Statuses, Good
<1>5. SeenOK(r)'
  BY <1>1, <1>2, <1>3, EventKinds, SameRegisters DEF RunOK, SeenOK, Seen, Early, Statuses
<1>6. TrailOK(r)'
  BY <1>1, <1>2, <1>3, EventKinds, InputAssumption, SameRegisters
  DEF RunOK, RegistersOK, TrailOK, Stored, Early, Inside, Good, Statuses
<1> QED  BY <1>4, <1>5, <1>6 DEF RunOK

LEMMA OwnDecide ==
    ASSUME NEW r \in Runs, RuntimeInv, Decide(r)
    PROVE  RunOK(r)'
<1> USE DEF RuntimeInv
<1> DEFINE e == <<"policy", Decision(r)>>
<1>1. /\ pc[r] = "policy" /\ req' = req /\ result' = result
      /\ model' = model /\ answer' = answer /\ called' = called /\ prompted' = prompted
      /\ \/ Decision(r) = "allow" /\ pc'[r] = "call" /\ verdict'[r] = verdict[r]
         \/ pc'[r] = "finish" /\ verdict'[r] = "blocked"
  BY DEF Decide, EndWith, Goto, observers, TypeOK
<1>2. RunOK(r) /\ e \in Events
  BY <1>1, EventKinds, DecisionType, GradeType DEF RunOK, RegistersOK, TypeOK
<1>3. /\ \A f \in Events : <<r, f>> \in store' <=> <<r, f>> \in store \/ f = e
      /\ \A f \in Events : <<r, f>> \in memory' <=> <<r, f>> \in memory \/ f = e
      /\ \A f \in Events : <<r, f>> \in memory' => <<r, f>> \in store'
  BY <1>1, <1>2, AppendOwn DEF Decide
<1>4. RegistersOK(r)'
  BY <1>1, <1>2, DecisionType DEF RunOK, RegistersOK, Early, Inside, Statuses, Good
<1>5. SeenOK(r)'
  BY <1>1, <1>2, <1>3, EventKinds, SameRegisters, DecisionType DEF RunOK, RegistersOK, SeenOK, Seen, Early, Statuses
<1>6. TrailOK(r)'
  BY <1>1, <1>2, <1>3, EventKinds, InputAssumption, SameRegisters, DecisionType
  DEF RunOK, RegistersOK, TrailOK, Stored, Allowed, Checked, Early, Inside, Good, Statuses, Outcomes, ModelOutcomes
<1> QED  BY <1>4, <1>5, <1>6 DEF RunOK

LEMMA OwnToolRecord ==
    ASSUME NEW r \in Runs, RuntimeInv, ToolRecord(r)
    PROVE  RunOK(r)'
<1> USE DEF RuntimeInv
<1> DEFINE e == <<"tool", Grade(r)>>
<1>1. /\ pc[r] = "toolrecord" /\ req' = req /\ result' = result
      /\ model' = model /\ answer' = answer /\ called' = called /\ prompted' = prompted
      /\ \/ Grade(r) = "verified" /\ pc'[r] = "explain" /\ verdict'[r] = verdict[r]
         \/ Grade(r) # "verified" /\ pc'[r] = "finish" /\ verdict'[r] = "failed"
  BY DEF ToolRecord, EndWith, Goto, observers, TypeOK
<1>2. RunOK(r) /\ e \in Events
  BY <1>1, EventKinds, DecisionType, GradeType DEF RunOK, RegistersOK, TypeOK
<1>3. /\ \A f \in Events : <<r, f>> \in store' <=> <<r, f>> \in store \/ f = e
      /\ \A f \in Events : <<r, f>> \in memory' <=> <<r, f>> \in memory \/ f = e
      /\ \A f \in Events : <<r, f>> \in memory' => <<r, f>> \in store'
  BY <1>1, <1>2, AppendOwn DEF ToolRecord
<1>4. RegistersOK(r)'
  BY <1>1, <1>2, GradeType DEF RunOK, RegistersOK, Early, Inside, Statuses, Good
<1>5. SeenOK(r)'
  BY <1>1, <1>2, <1>3, EventKinds, SameRegisters, GradeType DEF RunOK, RegistersOK, SeenOK, Seen, Early, Statuses
<1>6. TrailOK(r)'
  BY <1>1, <1>2, <1>3, EventKinds, InputAssumption, SameRegisters, GradeType
  DEF RunOK, RegistersOK, TrailOK, Stored, Allowed, Checked, Early, Inside, Good, Statuses, Outcomes, ModelOutcomes
<1> QED  BY <1>4, <1>5, <1>6 DEF RunOK

LEMMA OwnModelRecord ==
    ASSUME NEW r \in Runs, RuntimeInv, ModelRecord(r)
    PROVE  RunOK(r)'
<1> USE DEF RuntimeInv
<1> DEFINE e == <<"model", model[r]>>
<1>1. /\ pc[r] = "modelrecord" /\ req' = req /\ result' = result
      /\ model' = model /\ answer' = answer /\ called' = called /\ prompted' = prompted
      /\ verdict' = verdict
      /\ pc'[r] = IF model[r] = "completed" THEN "modelspan" ELSE "finish"
  BY DEF ModelRecord, EndWith, Goto, observers, TypeOK
<1>2. RunOK(r) /\ e \in Events
  BY <1>1, EventKinds, DecisionType, GradeType DEF RunOK, RegistersOK, TypeOK
<1>3. /\ \A f \in Events : <<r, f>> \in store' <=> <<r, f>> \in store \/ f = e
      /\ \A f \in Events : <<r, f>> \in memory' <=> <<r, f>> \in memory \/ f = e
      /\ \A f \in Events : <<r, f>> \in memory' => <<r, f>> \in store'
  BY <1>1, <1>2, AppendOwn DEF ModelRecord
<1>4. RegistersOK(r)'
  BY <1>1, <1>2 DEF RunOK, RegistersOK, Early, Inside, Statuses, Good
<1>5. SeenOK(r)'
  BY <1>1, <1>2, <1>3, EventKinds, SameRegisters DEF RunOK, RegistersOK, SeenOK, Seen, Early, Statuses
<1>6. TrailOK(r)'
  BY <1>1, <1>2, <1>3, EventKinds, InputAssumption, SameRegisters
  DEF RunOK, RegistersOK, TrailOK, Stored, Allowed, Checked, Early, Inside, Good, Statuses, Outcomes, ModelOutcomes
<1> QED  BY <1>4, <1>5, <1>6 DEF RunOK

LEMMA OwnFinish ==
    ASSUME NEW r \in Runs, RuntimeInv, Finish(r)
    PROVE  RunOK(r)'
<1> USE DEF RuntimeInv
<1> DEFINE e == <<"run", verdict[r]>>
<1>1. /\ pc[r] = "finish" /\ req' = req /\ result' = result
      /\ model' = model /\ answer' = answer /\ called' = called /\ prompted' = prompted
      /\ verdict' = verdict
      /\ pc'[r] = "return"
  BY DEF Finish, EndWith, Goto, observers, TypeOK
<1>2. RunOK(r) /\ e \in Events
  BY <1>1, EventKinds, DecisionType, GradeType DEF RunOK, RegistersOK, TypeOK
<1>3. /\ \A f \in Events : <<r, f>> \in store' <=> <<r, f>> \in store \/ f = e
      /\ \A f \in Events : <<r, f>> \in memory' <=> <<r, f>> \in memory \/ f = e
      /\ \A f \in Events : <<r, f>> \in memory' => <<r, f>> \in store'
  BY <1>1, <1>2, AppendOwn DEF Finish
<1>4. RegistersOK(r)'
  BY <1>1, <1>2 DEF RunOK, RegistersOK, Early, Inside, Statuses, Good
<1>5. SeenOK(r)'
  BY <1>1, <1>2, <1>3, EventKinds, SameRegisters DEF RunOK, RegistersOK, SeenOK, Seen, Early, Statuses
<1>6. TrailOK(r)'
  BY <1>1, <1>2, <1>3, EventKinds, InputAssumption, SameRegisters
  DEF RunOK, RegistersOK, TrailOK, Stored, Allowed, Checked, Early, Inside, Good, Statuses, Outcomes, ModelOutcomes
<1> QED  BY <1>4, <1>5, <1>6 DEF RunOK

LEMMA OwnToolSpan ==
    ASSUME NEW r \in Runs, RuntimeInv, ToolSpan(r)
    PROVE  RunOK(r)'
<1> USE DEF RuntimeInv
<1> DEFINE e == <<"trace.export_failed", "tool">>
<1>1. /\ pc[r] = "toolspan" /\ req' = req /\ result' = result /\ verdict' = verdict
      /\ model' = model /\ answer' = answer /\ called' = called /\ prompted' = prompted
      /\ pc'[r] = "toolrecord"
  BY DEF ToolSpan, Goto, observers, TypeOK
<1>2. RunOK(r) /\ e \in Events
  BY EventKinds
<1>3. /\ \A f \in Events : <<r, f>> \in store => <<r, f>> \in store'
      /\ \A f \in Events \ {e} : <<r, f>> \in store' => <<r, f>> \in store
      /\ \A f \in Events \ {e} : <<r, f>> \in memory' => <<r, f>> \in memory
      /\ \A f \in Events : <<r, f>> \in memory' => <<r, f>> \in store'
  <2>1. CASE UNCHANGED auditVars
    BY <1>1, <1>2, <2>1, InputAssumption DEF auditVars, RunOK, SeenOK, RegistersOK
  <2>2. CASE Append(r, e)
    BY <1>1, <1>2, <2>2, AppendOwn
  <2> QED  BY <2>1, <2>2 DEF ToolSpan, Span
<1>4. RegistersOK(r)'
  BY <1>1, <1>2 DEF RunOK, RegistersOK, Early, Inside, Statuses, Good
<1>5. SeenOK(r)'
  BY <1>1, <1>2, <1>3, EventKinds, SameRegisters DEF RunOK, RegistersOK, SeenOK, Seen, Early, Statuses
<1>6. TrailOK(r)'
  BY <1>1, <1>2, <1>3, EventKinds, InputAssumption, SameRegisters
  DEF RunOK, RegistersOK, TrailOK, Stored, Allowed, Checked, Early, Inside, Good, Statuses, Outcomes, ModelOutcomes
<1> QED  BY <1>4, <1>5, <1>6 DEF RunOK

LEMMA OwnModelSpan ==
    ASSUME NEW r \in Runs, RuntimeInv, ModelSpan(r)
    PROVE  RunOK(r)'
<1> USE DEF RuntimeInv
<1> DEFINE e == <<"trace.export_failed", "model">>
<1>1. /\ pc[r] = "modelspan" /\ req' = req /\ result' = result /\ verdict' = verdict
      /\ model' = model /\ answer' = answer /\ called' = called /\ prompted' = prompted
      /\ pc'[r] = IF model[r] = "failed" THEN "modelrecord" ELSE "finish"
  BY DEF ModelSpan, Goto, observers, TypeOK
<1>2. RunOK(r) /\ e \in Events
  BY EventKinds
<1>3. /\ \A f \in Events : <<r, f>> \in store => <<r, f>> \in store'
      /\ \A f \in Events \ {e} : <<r, f>> \in store' => <<r, f>> \in store
      /\ \A f \in Events \ {e} : <<r, f>> \in memory' => <<r, f>> \in memory
      /\ \A f \in Events : <<r, f>> \in memory' => <<r, f>> \in store'
  <2>1. CASE UNCHANGED auditVars
    BY <1>1, <1>2, <2>1, InputAssumption DEF auditVars, RunOK, SeenOK, RegistersOK
  <2>2. CASE Append(r, e)
    BY <1>1, <1>2, <2>2, AppendOwn
  <2> QED  BY <2>1, <2>2 DEF ModelSpan, Span
<1>4. RegistersOK(r)'
  BY <1>1, <1>2 DEF RunOK, RegistersOK, Early, Inside, Statuses, Good
<1>5. SeenOK(r)'
  BY <1>1, <1>2, <1>3, EventKinds, SameRegisters DEF RunOK, RegistersOK, SeenOK, Seen, Early, Statuses
<1>6. TrailOK(r)'
  BY <1>1, <1>2, <1>3, EventKinds, InputAssumption, SameRegisters
  DEF RunOK, RegistersOK, TrailOK, Stored, Allowed, Checked, Early, Inside, Good, Statuses, Outcomes, ModelOutcomes
<1> QED  BY <1>4, <1>5, <1>6 DEF RunOK

LEMMA OwnCallGateway ==
    ASSUME NEW r \in Runs, RuntimeInv, CallGateway(r)
    PROVE  RunOK(r)'
<1> USE DEF RuntimeInv
<1>1. /\ pc[r] = "call" /\ pc'[r] = "toolspan" /\ req' = req
      /\ verdict' = verdict /\ model' = model /\ answer' = answer
      /\ called' = called \cup {r} /\ prompted' = prompted
      /\ memory' = memory /\ store' = store
  BY DEF CallGateway, EndWith, Goto, auditVars, observers, TypeOK
<1>2. RunOK(r)
  OBVIOUS
<1>3. RegistersOK(r)'
  BY <1>1, <1>2, InputAssumption DEF RunOK, RegistersOK, Early, Inside, Statuses, Good
<1>4. SeenOK(r)'
  BY <1>1, <1>2, SameRegisters, InputAssumption DEF RunOK, RegistersOK, SeenOK, Seen, Early, Statuses, Decision
<1>5. TrailOK(r)'
  BY <1>1, <1>2, InputAssumption, SameRegisters
  DEF RunOK, RegistersOK, TrailOK, Stored, Allowed, Checked, Early, Inside, Good, Statuses, Decision
<1> QED  BY <1>3, <1>4, <1>5 DEF RunOK

LEMMA OwnNoProvider ==
    ASSUME NEW r \in Runs, RuntimeInv, NoProvider(r)
    PROVE  RunOK(r)'
<1> USE DEF RuntimeInv
<1>1. /\ pc[r] = "explain" /\ pc'[r] = "finish"
      /\ verdict'[r] = "succeeded" /\ model' = model /\ prompted' = prompted
      /\ req' = req /\ result' = result /\ answer' = answer /\ called' = called
      /\ memory' = memory /\ store' = store
  BY DEF NoProvider, EndWith, Goto, auditVars, observers, TypeOK
<1>2. RunOK(r)
  OBVIOUS
<1>3. RegistersOK(r)'
  BY <1>1, <1>2, InputAssumption DEF RunOK, RegistersOK, Early, Inside, Statuses, Good
<1>4. SeenOK(r)'
  BY <1>1, <1>2, SameRegisters, InputAssumption DEF RunOK, RegistersOK, SeenOK, Seen, Early, Statuses
<1>5. TrailOK(r)'
  BY <1>1, <1>2, InputAssumption, SameRegisters
  DEF RunOK, RegistersOK, TrailOK, Stored, Allowed, Checked, Early, Inside, Good, Statuses
<1> QED  BY <1>3, <1>4, <1>5 DEF RunOK

LEMMA OwnNoConsent ==
    ASSUME NEW r \in Runs, RuntimeInv, NoConsent(r)
    PROVE  RunOK(r)'
<1> USE DEF RuntimeInv
<1>1. /\ pc[r] = "explain" /\ pc'[r] = "modelrecord"
      /\ verdict'[r] = "succeeded" /\ model'[r] = "blocked" /\ prompted' = prompted
      /\ req' = req /\ result' = result /\ answer' = answer /\ called' = called
      /\ memory' = memory /\ store' = store
  BY DEF NoConsent, EndWith, Goto, auditVars, observers, TypeOK
<1>2. RunOK(r)
  OBVIOUS
<1>3. RegistersOK(r)'
  BY <1>1, <1>2, InputAssumption DEF RunOK, RegistersOK, Early, Inside, Statuses, Good
<1>4. SeenOK(r)'
  BY <1>1, <1>2, SameRegisters, InputAssumption DEF RunOK, RegistersOK, SeenOK, Seen, Early, Statuses
<1>5. TrailOK(r)'
  BY <1>1, <1>2, InputAssumption, SameRegisters
  DEF RunOK, RegistersOK, TrailOK, Stored, Allowed, Checked, Early, Inside, Good, Statuses
<1> QED  BY <1>3, <1>4, <1>5 DEF RunOK

LEMMA OwnComplete ==
    ASSUME NEW r \in Runs, RuntimeInv, Complete(r)
    PROVE  RunOK(r)'
<1> USE DEF RuntimeInv
<1>1. /\ pc[r] = "explain" /\ pc'[r] = "modelrecord" /\ req[r].consent
      /\ verdict'[r] = "succeeded" /\ model'[r] = "completed" /\ prompted' = prompted \cup {r}
      /\ req' = req /\ result' = result /\ answer' = answer /\ called' = called
      /\ memory' = memory /\ store' = store
  BY DEF Complete, EndWith, Goto, auditVars, observers, TypeOK
<1>2. RunOK(r)
  OBVIOUS
<1>3. RegistersOK(r)'
  BY <1>1, <1>2, InputAssumption DEF RunOK, RegistersOK, Early, Inside, Statuses, Good
<1>4. SeenOK(r)'
  BY <1>1, <1>2, SameRegisters, InputAssumption DEF RunOK, RegistersOK, SeenOK, Seen, Early, Statuses
<1>5. TrailOK(r)'
  BY <1>1, <1>2, InputAssumption, SameRegisters
  DEF RunOK, RegistersOK, TrailOK, Stored, Allowed, Checked, Early, Inside, Good, Statuses
<1> QED  BY <1>3, <1>4, <1>5 DEF RunOK

LEMMA OwnCompleteFails ==
    ASSUME NEW r \in Runs, RuntimeInv, CompleteFails(r)
    PROVE  RunOK(r)'
<1> USE DEF RuntimeInv
<1>1. /\ pc[r] = "explain" /\ pc'[r] = "modelspan" /\ req[r].consent
      /\ verdict'[r] = "partial_success" /\ model'[r] = "failed" /\ prompted' = prompted \cup {r}
      /\ req' = req /\ result' = result /\ answer' = answer /\ called' = called
      /\ memory' = memory /\ store' = store
  BY DEF CompleteFails, EndWith, Goto, auditVars, observers, TypeOK
<1>2. RunOK(r)
  OBVIOUS
<1>3. RegistersOK(r)'
  BY <1>1, <1>2, InputAssumption DEF RunOK, RegistersOK, Early, Inside, Statuses, Good
<1>4. SeenOK(r)'
  BY <1>1, <1>2, SameRegisters, InputAssumption DEF RunOK, RegistersOK, SeenOK, Seen, Early, Statuses
<1>5. TrailOK(r)'
  BY <1>1, <1>2, InputAssumption, SameRegisters
  DEF RunOK, RegistersOK, TrailOK, Stored, Allowed, Checked, Early, Inside, Good, Statuses
<1> QED  BY <1>3, <1>4, <1>5 DEF RunOK

LEMMA OwnReturn ==
    ASSUME NEW r \in Runs, RuntimeInv, Return(r)
    PROVE  RunOK(r)'
<1> USE DEF RuntimeInv
<1>1. /\ pc[r] = "return" /\ pc'[r] = "done" /\ answer'[r] = verdict[r]
      /\ verdict' = verdict /\ model' = model /\ prompted' = prompted
      /\ req' = req /\ result' = result /\ called' = called
      /\ memory' = memory /\ store' = store
  BY DEF Return, EndWith, Goto, auditVars, observers, TypeOK
<1>2. RunOK(r)
  OBVIOUS
<1>3. RegistersOK(r)'
  BY <1>1, <1>2, InputAssumption DEF RunOK, RegistersOK, Early, Inside, Statuses, Good
<1>4. SeenOK(r)'
  BY <1>1, <1>2, SameRegisters, InputAssumption DEF RunOK, RegistersOK, SeenOK, Seen, Early, Statuses
<1>5. TrailOK(r)'
  BY <1>1, <1>2, InputAssumption, SameRegisters
  DEF RunOK, RegistersOK, TrailOK, Stored, Allowed, Checked, Early, Inside, Good, Statuses
<1> QED  BY <1>3, <1>4, <1>5 DEF RunOK

\* A run that ends by an exception, or with its process, at whatever place.
LEMMA Ended ==
    ASSUME NEW r \in Runs, RuntimeInv,
           pc'[r] = "done", answer'[r] = "raised",
           req'[r] = req[r], result'[r] = result[r],
           verdict'[r] = verdict[r], model'[r] = model[r],
           pc[r] \notin {"idle", "done"},
           r \in called' => r \in called \/ pc[r] = "call",
           r \in prompted' => r \in prompted \/ (pc[r] = "explain" /\ req[r].consent),
           store \subseteq store',
           \A f \in Events : <<r, f>> \in memory' \cup store' =>
               \/ <<r, f>> \in memory \cup store
               \/ f = Due(r) /\ pc[r] \notin {"call", "explain", "return"}
    PROVE  RunOK(r)'
<1>1. RunOK(r)
  BY DEF RuntimeInv
<1>2. RegistersOK(r)'
  BY <1>1 DEF RunOK, RegistersOK, Early, Inside, Statuses, Good
<1>3. \A f \in Events : <<r, f>> \in memory' \cup store' =>
          \/ <<r, f>> \in memory \cup store
          \/ f = <<"run", "created">>
          \/ f = <<"policy", Decision(r)>> /\ pc[r] = "policy"
          \/ f[1] \in {"trace.export_failed", "tool"}
          \/ f = <<"model", model[r]>> /\ pc[r] = "modelrecord"
          \/ f = <<"run", verdict[r]>> /\ pc[r] = "finish"
  BY DEF Due, RuntimeInv, TypeOK, Places
<1>4. SeenOK(r)'
  BY <1>1, <1>3, EventKinds, SameRegisters DEF RunOK, RegistersOK, SeenOK, Seen, Early, Statuses
<1>5. TrailOK(r)'
  BY <1>1, SameRegisters
  DEF RunOK, RegistersOK, TrailOK, Stored, Allowed, Checked, Early, Inside, Good, Statuses
<1> QED  BY <1>2, <1>4, <1>5 DEF RunOK

LEMMA OwnAppendRaises ==
    ASSUME NEW r \in Runs, RuntimeInv, AppendRaises(r)
    PROVE  RunOK(r)'
<1>1. /\ pc'[r] = "done" /\ answer'[r] = "raised" /\ req' = req /\ result' = result
      /\ verdict' = verdict /\ model' = model /\ called' = called /\ prompted' = prompted
      /\ pc[r] \notin {"idle", "done", "call", "explain", "return"}
  BY DEF AppendRaises, Raise, Goto, observers, RuntimeInv, TypeOK
<1>2. /\ store \subseteq store'
      /\ \A f \in Events : <<r, f>> \in memory' \cup store' =>
            <<r, f>> \in memory \cup store \/ f = Due(r)
  BY DEF AppendRaises, Late
<1> QED  BY <1>1, <1>2, Ended

LEMMA OwnCallRaises ==
    ASSUME NEW r \in Runs, RuntimeInv, CallRaises(r)
    PROVE  RunOK(r)'
<1>1. /\ pc'[r] = "done" /\ answer'[r] = "raised" /\ req' = req /\ result' = result
      /\ verdict' = verdict /\ model' = model /\ memory' = memory /\ store' = store
      /\ pc[r] \notin {"idle", "done"}
      /\ r \in called' => r \in called \/ pc[r] = "call"
      /\ r \in prompted' => r \in prompted \/ (pc[r] = "explain" /\ req[r].consent)
  BY DEF CallRaises, Raise, Goto, auditVars, observers, RuntimeInv, TypeOK
<1> QED  BY <1>1, Ended

LEMMA CrashRun ==
    ASSUME NEW r \in Runs, RuntimeInv, Crash
    PROVE  RunOK(r)'
<1>1. /\ memory' = {} /\ store' = store /\ req' = req /\ result' = result
      /\ verdict' = verdict /\ model' = model /\ called' = called /\ prompted' = prompted
  BY DEF Crash, observers
<1>2. CASE r \in InFlight
  BY <1>1, <1>2, Ended DEF Crash, InFlight
<1>3. CASE r \notin InFlight
  BY <1>1, <1>3, OtherRun DEF Crash, Untouched, TrailKept, RuntimeInv
<1> QED  BY <1>2, <1>3

-----------------------------------------------------------------------------
(* The invariant holds *)

\* The event that a run is about to append.
LEMMA DueType ==
    ASSUME NEW r \in Runs, RuntimeInv, pc[r] \notin {"idle", "call", "explain", "return", "done"}
    PROVE  Due(r) \in Events
<1>1. pc[r] \in Places /\ RegistersOK(r) /\ model[r] \in ModelOutcomes
  BY DEF RuntimeInv, TypeOK, RunOK
<1> QED  BY <1>1, EventKinds, DecisionType, GradeType DEF Due, RegistersOK, Places

\* What a run appends is what is due.
LEMMA AppendsDue ==
    ASSUME NEW r \in Runs, RuntimeInv,
           \/ Create(r) \/ Decide(r) \/ ToolSpan(r) \/ ToolRecord(r)
           \/ ModelSpan(r) \/ ModelRecord(r) \/ Finish(r)
    PROVE  /\ Append(r, Due(r)) \/ UNCHANGED auditVars
           /\ pc[r] \notin {"idle", "call", "explain", "return", "done"}
BY DEF Create, Decide, ToolSpan, ToolRecord, ModelSpan, ModelRecord, Finish, Span, Due

LEMMA AuditTypes ==
    ASSUME NEW r \in Runs, RuntimeInv, Step(r)
    PROVE  memory' \subseteq Runs \X Events /\ store' \subseteq Runs \X Events
<1>1. CASE UNCHANGED auditVars
  BY <1>1 DEF auditVars, RuntimeInv, TypeOK
<1>2. CASE \/ Create(r) \/ Decide(r) \/ ToolSpan(r) \/ ToolRecord(r)
           \/ ModelSpan(r) \/ ModelRecord(r) \/ Finish(r)
  <2>1. /\ Append(r, Due(r)) \/ UNCHANGED auditVars
        /\ Due(r) \in Events
    BY <1>2, AppendsDue, DueType
  <2> QED  BY <1>1, <2>1 DEF Append, Late, RuntimeInv, TypeOK
<1>3. CASE AppendRaises(r)
  <2>1. Due(r) \in Events
    BY <1>3, DueType DEF AppendRaises
  <2> QED  BY <1>3, <2>1 DEF AppendRaises, Late, RuntimeInv, TypeOK
<1> QED
  BY <1>1, <1>2, <1>3
  DEF Step, Start, CallGateway, NoProvider, NoConsent, Complete, CompleteFails, Return, CallRaises

LEMMA StepTypes ==
    ASSUME NEW r \in Runs, RuntimeInv, Step(r)
    PROVE  TypeOK' /\ DOMAIN result' = Runs
<1>1. memory' \subseteq Runs \X Events /\ store' \subseteq Runs \X Events
  BY AuditTypes
<1>2. TypeOK /\ RegistersOK(r)
  BY DEF RuntimeInv, RunOK
<1>3. DOMAIN result' = Runs
  BY DEF RuntimeInv, Step, Start, Create, Decide, CallGateway, ToolSpan, ToolRecord, NoProvider,
     NoConsent, Complete, CompleteFails, ModelSpan, ModelRecord, Finish, Return, AppendRaises, CallRaises
<1>4. faults' \in 0..MaxFaults
  <2>1. faults' = faults \/ Fault
    BY DEF Step, Start, Create, Decide, CallGateway, ToolSpan, ToolRecord,
       NoProvider, NoConsent, Complete, CompleteFails, ModelSpan, ModelRecord, Finish, Return,
       AppendRaises, CallRaises
  <2> QED  BY <1>2, <2>1, BoundAssumption DEF TypeOK, Fault
<1> USE DEF Step, Start, Create, Decide, CallGateway, ToolSpan, ToolRecord, NoProvider, NoConsent,
        Complete, CompleteFails, ModelSpan, ModelRecord, Finish, Return, AppendRaises, CallRaises,
        Goto, EndWith, Raise, observers
<1>5. pc' \in [Runs -> Places]
  <2>1. \E place \in Places : pc' = [pc EXCEPT ![r] = place]
    BY DEF Places
  <2> QED  BY <1>2, <2>1 DEF TypeOK
<1>6. req' \in [Runs -> Requests \cup {None}]
  BY <1>2 DEF TypeOK
<1>7. verdict' \in [Runs -> Statuses \cup {None}]
  BY <1>2 DEF TypeOK, Statuses
<1>8. model' \in [Runs -> ModelOutcomes]
  BY <1>2 DEF TypeOK, ModelOutcomes
<1>9. answer' \in [Runs -> Statuses \cup {None, "raised"}]
  BY <1>2 DEF TypeOK
<1>10. called' \subseteq Runs
  BY <1>2 DEF TypeOK
<1>11. prompted' \subseteq called'
  <2>1. r \in prompted' => r \in prompted \/ pc[r] = "explain"
    OBVIOUS
  <2>2. called \subseteq called' /\ prompted' \subseteq prompted \cup {r}
    OBVIOUS
  <2> QED  BY <1>2, <2>1, <2>2 DEF TypeOK, RegistersOK, Inside
<1> QED  BY <1>1, <1>3, <1>4, <1>5, <1>6, <1>7, <1>8, <1>9, <1>10, <1>11 DEF TypeOK

\* A step of one run may bring into the trails of others only what they had
\* appended themselves.
LEMMA StepTrails ==
    ASSUME NEW r \in Runs, NEW s \in Runs, r # s, RuntimeInv, Step(s)
    PROVE  TrailKept(r)
<1>1. CASE UNCHANGED auditVars
  BY <1>1 DEF auditVars, TrailKept
<1>2. CASE \/ Create(s) \/ Decide(s) \/ ToolSpan(s) \/ ToolRecord(s)
           \/ ModelSpan(s) \/ ModelRecord(s) \/ Finish(s)
  BY <1>1, <1>2, AppendsDue, AppendOthers
<1>3. CASE AppendRaises(s)
  BY <1>3 DEF AppendRaises, Late, TrailKept
<1> QED
  BY <1>1, <1>2, <1>3
  DEF Step, Start, CallGateway, NoProvider, NoConsent, Complete, CompleteFails, Return, CallRaises

\* A step of one run leaves the others alone.
LEMMA StepOthers ==
    ASSUME NEW r \in Runs, NEW s \in Runs, r # s, RuntimeInv, Step(s)
    PROVE  RunOK(r)'
<1>1. Untouched(r)
  BY DEF RuntimeInv, TypeOK, Untouched, Step, Start, Create, Decide, CallGateway, ToolSpan,
     ToolRecord, NoProvider, NoConsent, Complete, CompleteFails, ModelSpan, ModelRecord, Finish,
     Return, AppendRaises, CallRaises, Goto, EndWith, Raise, observers
<1> QED  BY <1>1, StepTrails, OtherRun DEF RuntimeInv

LEMMA StepOwn ==
    ASSUME NEW r \in Runs, RuntimeInv, Step(r)
    PROVE  RunOK(r)'
BY OwnStart, OwnCreate, OwnDecide, OwnCallGateway, OwnToolSpan, OwnToolRecord, OwnNoProvider,
   OwnNoConsent, OwnComplete, OwnCompleteFails, OwnModelSpan, OwnModelRecord, OwnFinish,
   OwnReturn, OwnAppendRaises, OwnCallRaises DEF Step

LEMMA CrashTypes ==
    ASSUME RuntimeInv, Crash
    PROVE  TypeOK' /\ DOMAIN result' = Runs
BY BoundAssumption DEF RuntimeInv, TypeOK, Crash, Fault, Places, observers

LEMMA RuntimeInit == Init => RuntimeInv
<1> SUFFICES ASSUME Init PROVE RuntimeInv
  OBVIOUS
<1>1. TypeOK /\ DOMAIN result = Runs
  BY BoundAssumption DEF Init, TypeOK, Places, ModelOutcomes
<1>2. ASSUME NEW r \in Runs PROVE RunOK(r)
  BY InputAssumption DEF Init, RunOK, RegistersOK, SeenOK, TrailOK, Seen, Early, Inside, Good, Statuses
<1> QED  BY <1>1, <1>2 DEF RuntimeInv

LEMMA RuntimeStep == RuntimeInv /\ [Next]_vars => RuntimeInv'
<1> SUFFICES ASSUME RuntimeInv, [Next]_vars PROVE RuntimeInv'
  OBVIOUS
<1>1. CASE UNCHANGED vars
  <2>1. TypeOK' /\ DOMAIN result' = Runs
    BY <1>1 DEF RuntimeInv, TypeOK, vars, auditVars, runVars, observers
  <2>2. ASSUME NEW r \in Runs PROVE RunOK(r)'
    BY <1>1, OtherRun DEF RuntimeInv, Untouched, TrailKept, vars, auditVars, runVars, observers
  <2> QED  BY <2>1, <2>2 DEF RuntimeInv
<1>2. CASE Crash
  BY <1>2, CrashTypes, CrashRun DEF RuntimeInv
<1>3. ASSUME NEW s \in Runs, Step(s) PROVE RuntimeInv'
  BY <1>3, StepTypes, StepOwn, StepOthers DEF RuntimeInv
<1> QED  BY <1>1, <1>2, <1>3 DEF Next

LEMMA AlwaysRuntimeInv == Spec => []RuntimeInv
BY RuntimeInit, RuntimeStep, PTL DEF Spec

-----------------------------------------------------------------------------
(* Theorems *)

\* AgentRuntime.run calls the ERP only when "allow" is in the durable trail,
\* and hands query and evidence to the model only with consent and a verified
\* result on record, for any policy, any remote answers and any failures.
THEOREM OutsideCallsAreAllowed == Spec => []OutsideOnlyWhenAllowed
<1>1. RuntimeInv => OutsideOnlyWhenAllowed
  <2> SUFFICES ASSUME RuntimeInv PROVE OutsideOnlyWhenAllowed
    OBVIOUS
  <2>1. called \subseteq Runs /\ prompted \subseteq Runs
    BY DEF RuntimeInv, TypeOK
  <2>2. ASSUME NEW r \in called
        PROVE  /\ Stored(r, "policy", "allow")
               /\ \A o \in {"deny", "approval_required"} : ~Stored(r, "policy", o)
    BY <2>1, <2>2 DEF RuntimeInv, RunOK, TrailOK, SeenOK, Allowed, Stored, Seen, Outcomes
  <2>3. ASSUME NEW r \in prompted
        PROVE  /\ req[r].consent
               /\ Stored(r, "tool", "verified")
               /\ result[r].tenant = req[r].who.tenant
               /\ result[r].data.order = req[r].order
    BY <2>1, <2>3 DEF RuntimeInv, RunOK, RegistersOK, TrailOK, Checked, Verified
  <2> QED  BY <2>2, <2>3 DEF OutsideOnlyWhenAllowed
<1> QED  BY <1>1, AlwaysRuntimeInv, PTL

\* Success is about the caller's own order, whatever either gateway returns:
\* provenance_verified looked at the very result that is answered.
THEOREM SuccessesAreOwn == Spec => []SuccessIsOwn
<1>1. RuntimeInv => SuccessIsOwn
  BY DEF RuntimeInv, RunOK, RegistersOK, TrailOK, Checked, Verified, SuccessIsOwn, Good, Statuses
<1> QED  BY <1>1, AlwaysRuntimeInv, PTL

\* The durable events of an answered run explain its answer, and the runtime
\* is well typed.
THEOREM TrailsExplainAnswers == Spec => []TrailExplainsAnswer
<1>1. RuntimeInv => TrailExplainsAnswer
  <2> SUFFICES ASSUME RuntimeInv PROVE TrailExplainsAnswer
    OBVIOUS
  <2>1. ASSUME NEW r \in Runs, answer[r] \in Statuses
        PROVE  \A x \in memory : x[1] = r => x \in store
    BY <2>1 DEF RuntimeInv, TypeOK, RunOK, SeenOK, Statuses
  <2>2. ASSUME NEW r \in Runs, answer[r] \in Statuses
        PROVE  /\ Stored(r, "run", "created")
               /\ Stored(r, "run", answer[r])
               /\ answer[r] = "blocked" => r \notin called
               /\ answer[r] = "failed" =>
                     Stored(r, "tool", "failed") \/ Stored(r, "tool", "unverified")
               /\ answer[r] \in {"succeeded", "partial_success"} =>
                     Stored(r, "tool", "verified")
               /\ answer[r] = "partial_success" <=> Stored(r, "model", "failed")
               /\ r \in prompted =>
                     Stored(r, "model", "failed") \/ Stored(r, "model", "completed")
    BY <2>2, ZenonT(40)
    DEF RuntimeInv, TypeOK, RunOK, RegistersOK, SeenOK, TrailOK, Checked, Seen, Stored,
        Statuses, Good, ModelOutcomes
  <2> QED  BY <2>1, <2>2 DEF TrailExplainsAnswer, RuntimeInv
<1> QED  BY <1>1, AlwaysRuntimeInv, PTL

\* The events of an answered run are the same after every step: the run has
\* ended, and nothing of it is in memory only that a later commit could bring.
LEMMA AnsweredTrail ==
    ASSUME RuntimeInv, [Next]_vars, NEW r \in Runs, answer[r] \in Statuses
    PROVE  /\ req'[r] = req[r] /\ answer'[r] = answer[r]
           /\ \A e \in Events : <<r, e>> \in store' <=> <<r, e>> \in store
<1>1. /\ pc[r] = "done" /\ answer[r] # "raised"
      /\ \A e \in Events : <<r, e>> \in memory => <<r, e>> \in store
  BY DEF RuntimeInv, RunOK, RegistersOK, SeenOK, Statuses
<1>2. CASE UNCHANGED vars
  BY <1>2 DEF vars, auditVars, runVars
<1>3. CASE Crash
  BY <1>1, <1>3 DEF Crash, InFlight, RuntimeInv, TypeOK
<1>4. ASSUME NEW s \in Runs, Step(s), s = r PROVE FALSE
  BY <1>1, <1>4 DEF Step, Start, Create, Decide, CallGateway, ToolSpan, ToolRecord, NoProvider,
     NoConsent, Complete, CompleteFails, ModelSpan, ModelRecord, Finish, Return, AppendRaises,
     CallRaises
<1>5. ASSUME NEW s \in Runs, Step(s), s # r
      PROVE  /\ req'[r] = req[r] /\ answer'[r] = answer[r]
             /\ \A e \in Events : <<r, e>> \in store' <=> <<r, e>> \in store
  <2>1. TrailKept(r)
    BY <1>5, StepTrails
  <2>2. req'[r] = req[r] /\ answer'[r] = answer[r]
    BY <1>5 DEF RuntimeInv, TypeOK, Step, Start, Create, Decide, CallGateway, ToolSpan,
       ToolRecord, NoProvider, NoConsent, Complete, CompleteFails, ModelSpan, ModelRecord,
       Finish, Return, AppendRaises, CallRaises, Raise
  <2> QED  BY <1>1, <2>1, <2>2 DEF TrailKept
<1> QED  BY <1>2, <1>3, <1>4, <1>5 DEF Next

\* GET /runs/{run_id}/events gives the same events of an answered run for ever,
\* although events of other runs may be committed late or lost with the process.
THEOREM TrailsAreFinal == Spec => TrailIsFinal
<1>1. ASSUME RuntimeInv, RuntimeInv', [Next]_vars
      PROVE  [\A r \in Runs : answer[r] \in Statuses =>
                \A q \in Requests : GetEvents(r, q.who)' = GetEvents(r, q.who)]_vars
  <2> SUFFICES ASSUME NEW r \in Runs, answer[r] \in Statuses, NEW who
               PROVE  GetEvents(r, who)' = GetEvents(r, who)
    OBVIOUS
  <2>1. /\ req'[r] = req[r] /\ answer'[r] = answer[r]
        /\ \A e \in Events : <<r, e>> \in store' <=> <<r, e>> \in store
    BY <1>1, AnsweredTrail
  <2>2. store \subseteq Runs \X Events /\ store' \subseteq Runs \X Events
    BY <1>1 DEF RuntimeInv, TypeOK
  <2>3. ASSUME NEW x, x[1] = r PROVE x \in store' <=> x \in store
    <3>1. x \in store \cup store' => \E e \in Events : x = <<r, e>>
      BY <2>2, <2>3
    <3> QED  BY <2>1, <3>1
  <2>4. ASSUME NEW x
        PROVE  x \in ListEvents(r, who.workspace, who.tenant)' <=>
                 x \in ListEvents(r, who.workspace, who.tenant)
    BY <2>1, <2>3 DEF ListEvents, StoreListEvents
  <2>5. ListEvents(r, who.workspace, who.tenant)' = ListEvents(r, who.workspace, who.tenant)
    BY <2>4
  <2> QED  BY <2>1, <2>5 DEF GetEvents
<1> QED  BY <1>1, AlwaysRuntimeInv, PTL DEF Spec, TrailIsFinal

-----------------------------------------------------------------------------
(* The runtime implements RunOutcome *)

Recorded == {x \in Runs \X Statuses : <<x[1], <<"run", x[2]>>>> \in store}

\* The trail only grows.
LEMMA StoreGrows ==
    ASSUME NEW r \in Runs, RuntimeInv, Step(r)
    PROVE  store \subseteq store'
<1>1. CASE \/ Create(r) \/ Decide(r) \/ ToolSpan(r) \/ ToolRecord(r)
           \/ ModelSpan(r) \/ ModelRecord(r) \/ Finish(r)
  BY <1>1, AppendsDue DEF Append, auditVars
<1>2. CASE AppendRaises(r)
  BY <1>2 DEF AppendRaises
<1> QED
  BY <1>1, <1>2
  DEF Step, Start, CallGateway, NoProvider, NoConsent, Complete, CompleteFails, Return,
      CallRaises, auditVars

\* Terminal events are recorded for runs without an answer only, and one per
\* run: it says the verdict.
LEMMA RecordsAreTerminal ==
    ASSUME NEW r \in Runs, RuntimeInv, RuntimeInv', Step(r), ~Return(r)
    PROVE  Outcome!Record
<1> DEFINE new == Recorded' \ Recorded
<1>1. Recorded \subseteq Recorded'
  BY StoreGrows DEF Recorded
<1>2. ASSUME NEW x \in new
      PROVE  answer[x[1]] \in {None, "raised"}
  <2>1. /\ x[1] \in Runs /\ x[2] \in Statuses
        /\ <<x[1], <<"run", x[2]>>>> \in store'
        /\ <<x[1], <<"run", x[2]>>>> \notin store
    BY <1>2 DEF Recorded
  <2>2. RunOK(x[1]) /\ answer[x[1]] \in Statuses \cup {None, "raised"}
    BY <2>1 DEF RuntimeInv, TypeOK
  <2>3. CASE x[1] = r
    BY <2>2, <2>3, InputAssumption
    DEF RunOK, RegistersOK, Step, Start, Create, Decide, CallGateway, ToolSpan, ToolRecord,
        NoProvider, NoConsent, Complete, CompleteFails, ModelSpan, ModelRecord, Finish,
        AppendRaises, CallRaises
  <2>4. CASE x[1] # r
    <3>1. <<x[1], <<"run", x[2]>>>> \in memory
      BY <2>1, <2>4, StepTrails DEF TrailKept
    <3> QED  BY <2>1, <2>2, <3>1, EventKinds DEF RunOK, SeenOK, Statuses
  <2> QED  BY <2>3, <2>4
<1>3. ASSUME NEW x \in new, NEW y \in Recorded', x[1] = y[1]
      PROVE  x = y
  <2>1. /\ x \in Runs \X Statuses /\ y \in Runs \X Statuses
        /\ Seen(x[1], "run", x[2])' /\ Seen(y[1], "run", y[2])'
    BY <1>3 DEF Recorded, Seen
  <2>2. SeenOK(x[1])'
    BY <2>1 DEF RuntimeInv, RunOK
  <2>3. x[2] = verdict'[x[1]] /\ y[2] = verdict'[x[1]]
    BY <1>3, <2>1, <2>2 DEF SeenOK
  <2> QED  BY <1>3, <2>1, <2>3
<1>4. \/ UNCHANGED answer
      \/ answer[r] = None /\ answer' = [answer EXCEPT ![r] = "raised"]
  <2>1. pc[r] # "done" => answer[r] = None
    BY DEF RuntimeInv, RunOK, RegistersOK
  <2> QED
    BY <2>1 DEF Step, Start, Create, Decide, CallGateway, ToolSpan, ToolRecord,
        NoProvider, NoConsent, Complete, CompleteFails, ModelSpan, ModelRecord, Finish,
        AppendRaises, CallRaises, Raise
<1>5. new \subseteq Runs \X Statuses
  BY DEF Recorded
<1> QED
  BY <1>1, <1>2, <1>3, <1>4, <1>5 DEF Outcome!Record, Recorded

\* Every step of the runtime is one of RunOutcome, or leaves it alone.
LEMMA OutcomeStep ==
    RuntimeInv /\ RuntimeInv' /\ [Next]_vars => [Outcome!Next]_(Outcome!vars)
<1> SUFFICES ASSUME RuntimeInv, RuntimeInv', [Next]_vars
             PROVE  [Outcome!Next]_(Outcome!vars)
  OBVIOUS
<1>1. CASE UNCHANGED vars
  BY <1>1 DEF vars, auditVars, runVars, Outcome!vars
<1>2. CASE Crash
  <2>1. \A r \in InFlight : answer[r] = None
    BY DEF InFlight, RuntimeInv, RunOK, RegistersOK
  <2>2. Outcome!Abandon(InFlight)
    BY <1>2, <2>1 DEF Crash, Outcome!Abandon
  <2>3. InFlight \in SUBSET Runs
    BY DEF InFlight
  <2> QED  BY <2>2, <2>3 DEF Outcome!Next
<1>3. ASSUME NEW r \in Runs, Return(r)
      PROVE  [Outcome!Next]_(Outcome!vars)
  <2>1. verdict[r] \in Statuses /\ answer[r] = None /\ Stored(r, "run", verdict[r])
    BY <1>3 DEF Return, RuntimeInv, RunOK, RegistersOK, TrailOK
  <2>2. Outcome!Answer(r, verdict[r])
    BY <1>3, <2>1 DEF Return, Stored, auditVars, Outcome!Answer
  <2> QED  BY <2>1, <2>2 DEF Outcome!Next
<1>4. ASSUME NEW r \in Runs, Step(r), ~Return(r)
      PROVE  [Outcome!Next]_(Outcome!vars)
  BY <1>4, RecordsAreTerminal DEF Outcome!Next
<1> QED  BY <1>1, <1>2, <1>3, <1>4 DEF Next

\* The runtime implements RunOutcome: a terminal status is recorded at most
\* once, and durable before the caller is answered with it.
THEOREM RuntimeImplementsRunOutcome == Spec => ImplementsRunOutcome
<1>1. Init => Outcome!Init
  BY DEF Init, Outcome!Init
<1> QED
  BY <1>1, AlwaysRuntimeInv, OutcomeStep, PTL DEF Spec, ImplementsRunOutcome, Outcome!Spec
=============================================================================
