----------------------------- MODULE AgentRuntime -----------------------------
(***************************************************************************)
(* AgentRuntime.run of packages/agent_runtime/runtime.py: policy, tool     *)
(* call, provenance check, model explanation, and the audit events between *)
(* them, over the policy engine, the MCP gateways, the model provider and  *)
(* the audit log.                                                          *)
(*                                                                         *)
(* Runs share the audit log: a list in memory and a durable store.  A step *)
(* is one audit append, with the computation that leads to it, or one call *)
(* to the gateway, the provider or the trace exporter.  Every append may   *)
(* raise, and the exception leaves run().                                  *)
(***************************************************************************)
EXTENDS Naturals

CONSTANTS
    Runs,           \* run ids (uuid4); a bound on the runs
    Requests,       \* what run() is called with: a set of Request
    Risk,           \* the registered tools: a function to their ToolRisk
    Allowlist,      \* PolicyEngine: a function from roles to sets of tools
    Ledger,         \* the in-memory ERP: a function from <<tenant, order>> to Data
    Replies,        \* what a remote MCP server may answer: a set of Reply
    Providers,      \* may a model provider be configured?
    MaxFaults,      \* raising calls and crashes (a bound)
    None            \* Python's None

ASSUME BoundAssumption == MaxFaults \in Nat /\ Providers \subseteq BOOLEAN

Tool == "erp.get_order_status"

Statuses == {"succeeded", "partial_success", "blocked", "failed"}

\* Is a text absent or blank, usable, or longer than its bound?
Text == {"blank", "fine", "long"}

\* The data of a tool result: an order's id, tenant (often absent) and status.
IsData(d) == DOMAIN d = {"order", "tenant", "status"} /\ d.status \in Text

\* run() takes the identity; order None stands for a missing or blank one.
IsRequest(q) ==
    /\ DOMAIN q = {"who", "query", "order", "consent"}
    /\ DOMAIN q.who = {"user", "workspace", "tenant", "role"}
    /\ q.query \in BOOLEAN
    /\ q.consent \in BOOLEAN

\* structuredContent; data None stands for anything that is not an object.
IsReply(y) ==
    /\ DOMAIN y = {"source", "observed", "ref", "workspace", "tenant", "data"}
    /\ y.source \in Text /\ y.observed \in Text
    /\ y.data = None \/ IsData(y.data)

ASSUME InputAssumption ==
    /\ \A q \in Requests : IsRequest(q)
    /\ \A y \in Replies : IsReply(y)
    /\ \A x \in DOMAIN Ledger : IsData(Ledger[x])
    /\ None \notin Requests
    /\ None \notin Statuses \cup {"raised"}

VARIABLES
    memory,     \* AuditLog.events, as <<run, event>>
    store,      \* the durable event store, as <<run, event>>
    faults,
    \* a run
    pc,
    req,        \* its arguments
    result,     \* the ToolResult
    verdict,    \* the status it is going to end with
    model,      \* what became of the model explanation
    answer,     \* what the caller got: None yet, a status, or "raised"
    \* observers, read by no run
    called,     \* runs that have called the gateway
    prompted    \* runs that have handed query and evidence to the provider

auditVars == <<memory, store>>
runVars == <<pc, req, result, verdict, model, answer>>
observers == <<called, prompted>>
vars == <<auditVars, faults, runVars, observers>>

Places == {"idle", "create", "policy", "call", "toolspan", "toolrecord",
           "explain", "modelspan", "modelrecord", "finish", "return", "done"}

Failure == [success |-> FALSE]

ModelOutcomes == {"none", "blocked", "failed", "completed"}

Events ==
    {<<"run", s>> : s \in Statuses \cup {"created"}}
      \cup {<<"policy", o>> : o \in {"allow", "deny", "approval_required"}}
      \cup {<<"tool", g>> : g \in {"failed", "unverified", "verified"}}
      \cup {<<"model", m>> : m \in ModelOutcomes}
      \cup {<<"trace.export_failed", t>> : t \in {"tool", "model"}}

TypeOK ==
    /\ memory \subseteq Runs \X Events
    /\ store \subseteq Runs \X Events
    /\ faults \in 0..MaxFaults
    /\ pc \in [Runs -> Places]
    /\ req \in [Runs -> Requests \cup {None}]
    /\ verdict \in [Runs -> Statuses \cup {None}]
    /\ model \in [Runs -> ModelOutcomes]
    /\ answer \in [Runs -> Statuses \cup {None, "raised"}]
    /\ called \subseteq Runs
    /\ prompted \subseteq called

Init ==
    /\ memory = {}
    /\ store = {}
    /\ faults = 0
    /\ pc = [r \in Runs |-> "idle"]
    /\ req = [r \in Runs |-> None]
    /\ result = [r \in Runs |-> Failure]
    /\ verdict = [r \in Runs |-> None]
    /\ model = [r \in Runs |-> "none"]
    /\ answer = [r \in Runs |-> None]
    /\ called = {}
    /\ prompted = {}

Goto(r, place) == pc' = [pc EXCEPT ![r] = place]

\* Events an earlier append inserted and failed to commit: SQLite's connection
\* is shared and not rolled back, so that the next commit may include them.
Late == SUBSET (memory \ store)

\* AuditLog.append, when the store takes the event.
Append(r, e) ==
    /\ memory' = memory \cup {<<r, e>>}
    /\ \E late \in Late : store' = store \cup late \cup {<<r, e>>}

\* Faulty variant of EndWith: the answer comes before the terminal event.
EndWithUnrecorded(r, status) ==
    /\ verdict' = [verdict EXCEPT ![r] = status]
    /\ Goto(r, "return")

\* The run ends with a status: its terminal event is next.
EndWith(r, status) ==
    /\ verdict' = [verdict EXCEPT ![r] = status]
    /\ Goto(r, "finish")

\* An exception leaves run(): the caller gets no result.
Raise(r) ==
    /\ Goto(r, "done")
    /\ answer' = [answer EXCEPT ![r] = "raised"]

-----------------------------------------------------------------------------
(* Policy, gateways and provenance *)

\* PolicyEngine.authorize.  A role that is not configured has no tools.
Authorize(who, tool, approved) ==
    IF \/ "" \in {who.user, who.workspace, who.tenant, who.role}
       \/ tool \notin DOMAIN Risk
       \/ who.role \notin DOMAIN Allowlist
       \/ tool \notin Allowlist[who.role]
    THEN "deny"
    ELSE IF Risk[tool] = "read" \/ approved THEN "allow"
    ELSE "approval_required"

\* InMemoryMcpGateway.call: a lookup in the caller's tenant.
InMemoryCall(q) ==
    IF <<q.who.tenant, q.order>> \in DOMAIN Ledger
    THEN [success |-> TRUE, source |-> "fine", observed |-> "fine",
          ref |-> q.order, workspace |-> q.who.workspace, tenant |-> q.who.tenant,
          data |-> Ledger[<<q.who.tenant, q.order>>]]
    ELSE Failure

\* StreamableHttpMcpGateway.call, once the body has been parsed.
HttpCall(q, y) ==
    IF /\ y.source = "fine" /\ y.observed = "fine" /\ y.ref # None
       /\ y.workspace = q.who.workspace /\ y.tenant = q.who.tenant
       /\ y.data # None
    THEN [success |-> TRUE, source |-> y.source, observed |-> y.observed,
          ref |-> y.ref, workspace |-> y.workspace, tenant |-> y.tenant,
          data |-> y.data]
    ELSE Failure

\* A remote call may also time out, be refused or return something unreadable.
CallResults(q) ==
    IF Tool \notin DOMAIN Risk THEN {Failure}
    ELSE {Failure, InMemoryCall(q)} \cup {HttpCall(q, y) : y \in Replies}

\* Faulty variant of Verified: the order in the data is not compared.
VerifiedByReference(q, x) ==
    /\ x.success
    /\ x.workspace = q.who.workspace /\ x.tenant = q.who.tenant
    /\ x.ref = q.order
    /\ x.data.status = "fine"
    /\ x.data.tenant \in {None, q.who.tenant}

\* provenance_verified
Verified(q, x) ==
    /\ x.success
    /\ x.workspace = q.who.workspace /\ x.tenant = q.who.tenant
    /\ x.ref = q.order
    /\ x.source # "blank" /\ x.observed # "blank"
    /\ x.data.order = q.order
    /\ x.data.status = "fine"
    /\ x.data.tenant \in {None, q.who.tenant}

Grade(r) ==
    IF ~result[r].success THEN "failed"
    ELSE IF Verified(req[r], result[r]) THEN "verified" ELSE "unverified"

-----------------------------------------------------------------------------
(* The run *)

Start(r, q) ==
    /\ pc[r] = "idle"
    /\ req' = [req EXCEPT ![r] = q]
    /\ Goto(r, "create")
    /\ UNCHANGED <<auditVars, faults, result, verdict, model, answer, observers>>

\* run.created; then the query and the order id have to be there.
Create(r) ==
    /\ pc[r] = "create"
    /\ Append(r, <<"run", "created">>)
    /\ IF req[r].query /\ req[r].order # None
       THEN Goto(r, "policy") /\ UNCHANGED verdict
       ELSE EndWith(r, "blocked")
    /\ UNCHANGED <<faults, req, result, model, answer, observers>>

Decision(r) == Authorize(req[r].who, Tool, FALSE)

\* policy.decided
Decide(r) ==
    /\ pc[r] = "policy"
    /\ Append(r, <<"policy", Decision(r)>>)
    /\ IF Decision(r) = "allow"
       THEN Goto(r, "call") /\ UNCHANGED verdict
       ELSE EndWith(r, "blocked")
    /\ UNCHANGED <<faults, req, result, model, answer, observers>>

CallGateway(r) ==
    /\ pc[r] = "call"
    /\ called' = called \cup {r}
    /\ \E x \in CallResults(req[r]) : result' = [result EXCEPT ![r] = x]
    /\ Goto(r, "toolspan")
    /\ UNCHANGED <<auditVars, faults, req, verdict, model, answer, prompted>>

\* _export_tool_span and _export_model_span: no exporter, a span exported, or
\* a failure that is recorded and otherwise ignored.
Span(r, tool) ==
    \/ UNCHANGED auditVars
    \/ Append(r, <<"trace.export_failed", tool>>)

ToolSpan(r) ==
    /\ pc[r] = "toolspan"
    /\ Span(r, "tool")
    /\ Goto(r, "toolrecord")
    /\ UNCHANGED <<faults, req, result, verdict, model, answer, observers>>

\* tool.completed
ToolRecord(r) ==
    /\ pc[r] = "toolrecord"
    /\ Append(r, <<"tool", Grade(r)>>)
    /\ IF Grade(r) = "verified"
       THEN Goto(r, "explain") /\ UNCHANGED verdict
       ELSE EndWith(r, "failed")
    /\ UNCHANGED <<faults, req, result, model, answer, observers>>

NoProvider(r) ==
    /\ pc[r] = "explain"
    /\ FALSE \in Providers
    /\ EndWith(r, "succeeded")
    /\ UNCHANGED <<auditVars, faults, req, result, model, answer, observers>>

NoConsent(r) ==
    /\ pc[r] = "explain"
    /\ TRUE \in Providers
    /\ ~req[r].consent
    /\ model' = [model EXCEPT ![r] = "blocked"]
    /\ verdict' = [verdict EXCEPT ![r] = "succeeded"]
    /\ Goto(r, "modelrecord")
    /\ UNCHANGED <<auditVars, faults, req, result, answer, observers>>

\* Faulty variant of Complete: consent is not asked for.
CompleteUnasked(r) ==
    /\ pc[r] = "explain"
    /\ prompted' = prompted \cup {r}
    /\ model' = [model EXCEPT ![r] = "completed"]
    /\ verdict' = [verdict EXCEPT ![r] = "succeeded"]
    /\ Goto(r, "modelrecord")
    /\ UNCHANGED <<auditVars, faults, req, result, answer, called>>

\* model_provider.complete returns a completion that run() finds valid.
Complete(r) ==
    /\ pc[r] = "explain"
    /\ TRUE \in Providers
    /\ req[r].consent
    /\ prompted' = prompted \cup {r}
    /\ model' = [model EXCEPT ![r] = "completed"]
    /\ verdict' = [verdict EXCEPT ![r] = "succeeded"]
    /\ Goto(r, "modelrecord")
    /\ UNCHANGED <<auditVars, faults, req, result, answer, called>>

\* Faulty variant of CompleteFails: the failure does not change the status.
CompleteFailsUnnoticed(r) ==
    /\ pc[r] = "explain"
    /\ req[r].consent
    /\ prompted' = prompted \cup {r}
    /\ model' = [model EXCEPT ![r] = "failed"]
    /\ verdict' = [verdict EXCEPT ![r] = "succeeded"]
    /\ Goto(r, "modelspan")
    /\ UNCHANGED <<auditVars, faults, req, result, answer, called>>

\* ModelProviderError: from complete, or for a completion that is not valid.
CompleteFails(r) ==
    /\ pc[r] = "explain"
    /\ TRUE \in Providers
    /\ req[r].consent
    /\ prompted' = prompted \cup {r}
    /\ model' = [model EXCEPT ![r] = "failed"]
    /\ verdict' = [verdict EXCEPT ![r] = "partial_success"]
    /\ Goto(r, "modelspan")
    /\ UNCHANGED <<auditVars, faults, req, result, answer, called>>

\* A failure is traced and then recorded, a completion the other way round.
ModelSpan(r) ==
    /\ pc[r] = "modelspan"
    /\ Span(r, "model")
    /\ Goto(r, IF model[r] = "failed" THEN "modelrecord" ELSE "finish")
    /\ UNCHANGED <<faults, req, result, verdict, model, answer, observers>>

\* model.blocked, model.failed or model.completed
ModelRecord(r) ==
    /\ pc[r] = "modelrecord"
    /\ Append(r, <<"model", model[r]>>)
    /\ Goto(r, IF model[r] = "completed" THEN "modelspan" ELSE "finish")
    /\ UNCHANGED <<faults, req, result, verdict, model, answer, observers>>

\* The terminal event: run.blocked, run.failed, run.succeeded, ...
Finish(r) ==
    /\ pc[r] = "finish"
    /\ Append(r, <<"run", verdict[r]>>)
    /\ Goto(r, "return")
    /\ UNCHANGED <<faults, req, result, verdict, model, answer, observers>>

Return(r) ==
    /\ pc[r] = "return"
    /\ answer' = [answer EXCEPT ![r] = verdict[r]]
    /\ Goto(r, "done")
    /\ UNCHANGED <<auditVars, faults, req, result, verdict, model, observers>>

-----------------------------------------------------------------------------
(* Reading the trail *)

\* list_events of the stores: an empty workspace or tenant restricts nothing.
\* An event carries the workspace and the tenant of its run's caller.
StoreListEvents(r, workspace, tenant) ==
    {x \in store : /\ x[1] = r
                   /\ workspace \in {"", req[x[1]].who.workspace}
                   /\ tenant \in {"", req[x[1]].who.tenant}}

\* AuditLog.list_events looks at the tenant once more.
ListEvents(r, workspace, tenant) ==
    {x \in StoreListEvents(r, workspace, tenant) : req[x[1]].who.tenant = tenant}

\* GET /runs/{run_id}/events, for a run that was answered and so is stored.
\* RunService.get does not compare the role.
GetEvents(r, who) ==
    IF /\ answer[r] \in Statuses
       /\ <<req[r].who.workspace, req[r].who.tenant, req[r].who.user>> =
             <<who.workspace, who.tenant, who.user>>
    THEN ListEvents(r, who.workspace, who.tenant)
    ELSE {}

-----------------------------------------------------------------------------
(* Failures *)

Fault == faults < MaxFaults /\ faults' = faults + 1

\* The event that is to be appended next.
Due(r) ==
    CASE pc[r] = "create"      -> <<"run", "created">>
      [] pc[r] = "policy"      -> <<"policy", Decision(r)>>
      [] pc[r] = "toolspan"    -> <<"trace.export_failed", "tool">>
      [] pc[r] = "toolrecord"  -> <<"tool", Grade(r)>>
      [] pc[r] = "modelspan"   -> <<"trace.export_failed", "model">>
      [] pc[r] = "modelrecord" -> <<"model", model[r]>>
      [] OTHER                 -> <<"run", verdict[r]>>

\* Faulty variant of AppendRaises: a failure at the terminal event is ignored.
AppendRaisesIgnored(r) ==
    /\ pc[r] = "finish"
    /\ Fault
    /\ memory' = memory \cup {<<r, Due(r)>>}
    /\ \E late \in Late : store' \in {store \cup late, store \cup late \cup {<<r, Due(r)>>}}
    /\ Goto(r, "return")
    /\ UNCHANGED <<req, result, verdict, model, answer, observers>>

\* AuditLog.append has the event in memory; the store raises, having
\* committed it or not.
AppendRaises(r) ==
    /\ pc[r] \in {"create", "policy", "toolspan", "toolrecord", "modelspan",
                  "modelrecord", "finish"}
    /\ Fault
    /\ memory' = memory \cup {<<r, Due(r)>>}
    /\ \E late \in Late : store' \in {store \cup late, store \cup late \cup {<<r, Due(r)>>}}
    /\ Raise(r)
    /\ UNCHANGED <<req, result, verdict, model, observers>>

\* The gateway or the provider raises what neither it nor run() catches.
CallRaises(r) ==
    /\ Fault
    /\ \/ pc[r] = "call" /\ called' = called \cup {r} /\ UNCHANGED prompted
       \/ /\ pc[r] = "explain" /\ TRUE \in Providers /\ req[r].consent
          /\ prompted' = prompted \cup {r} /\ UNCHANGED called
    /\ Raise(r)
    /\ UNCHANGED <<auditVars, req, result, verdict, model>>

\* The process ends, with its list of events and the runs in flight.
InFlight == {r \in Runs : pc[r] \notin {"idle", "done"}}

Crash ==
    /\ Fault
    /\ memory' = {}
    /\ pc' = [r \in Runs |-> IF r \in InFlight THEN "done" ELSE pc[r]]
    /\ answer' = [r \in Runs |-> IF r \in InFlight THEN "raised" ELSE answer[r]]
    /\ UNCHANGED <<store, req, result, verdict, model, observers>>

Step(r) ==
    \/ (\E q \in Requests : Start(r, q))
    \/ Create(r) \/ Decide(r)
    \/ CallGateway(r) \/ ToolSpan(r) \/ ToolRecord(r)
    \/ NoProvider(r) \/ NoConsent(r) \/ Complete(r) \/ CompleteFails(r)
    \/ ModelSpan(r) \/ ModelRecord(r)
    \/ Finish(r) \/ Return(r)
    \/ AppendRaises(r) \/ CallRaises(r)

Next == (\E r \in Runs : Step(r)) \/ Crash

Spec == Init /\ [][Next]_vars

-----------------------------------------------------------------------------
(* Properties *)

Stored(r, kind, detail) == <<r, <<kind, detail>>>> \in store

\* What leaves the platform has its reason on durable record first, whatever
\* failed or was interrupted in between: the ERP is called only after "allow",
\* and query and evidence go to the model only with consent, when a result of
\* the caller's tenant and order is recorded as verified.
OutsideOnlyWhenAllowed ==
    /\ \A r \in called :
          /\ Stored(r, "policy", "allow")
          /\ \A o \in {"deny", "approval_required"} : ~Stored(r, "policy", o)
    /\ \A r \in prompted :
          /\ req[r].consent
          /\ Stored(r, "tool", "verified")
          /\ result[r].tenant = req[r].who.tenant
          /\ result[r].data.order = req[r].order

\* A caller that is told of success is told about the order asked for, in its
\* own tenant and workspace, by either gateway and whatever a remote answers.
SuccessIsOwn ==
    \A r \in Runs : answer[r] \in {"succeeded", "partial_success"} =>
        LET x == result[r] who == req[r].who IN
          /\ x.success
          /\ x.workspace = who.workspace
          /\ x.tenant = who.tenant
          /\ x.ref = req[r].order
          /\ x.data.order = req[r].order
          /\ x.data.tenant \in {None, who.tenant}

\* The durable trail of an answered run explains the answer: nothing was
\* called for a blocked run before an allow, a failed one has a tool result
\* on record, and partial success means a failed model call.  Nothing is in
\* memory only, because an append that fails ends its run.  The states are well
\* typed.
TrailExplainsAnswer ==
    /\ TypeOK
    /\ \A r \in Runs : answer[r] \in Statuses =>
          /\ Stored(r, "run", "created")
          /\ Stored(r, "run", answer[r])
          /\ answer[r] = "blocked" => r \notin called
          /\ answer[r] = "failed" =>
                Stored(r, "tool", "failed") \/ Stored(r, "tool", "unverified")
          /\ answer[r] \in {"succeeded", "partial_success"} =>
                Stored(r, "tool", "verified")
          /\ answer[r] = "partial_success" <=> Stored(r, "model", "failed")
          /\ r \in prompted =>
                Stored(r, "model", "failed") \/ Stored(r, "model", "completed")
          /\ \A x \in memory : x[1] = r => x \in store

\* What a caller reads of the trail of an answered run is final: no commit that
\* comes late, no other run and no crash changes it.  (The trail of a run that
\* ended with an exception may still grow.)
TrailIsFinal ==
    [][\A r \in Runs : answer[r] \in Statuses =>
          \A q \in Requests : GetEvents(r, q.who)' = GetEvents(r, q.who)]_vars

\* Audit trail and answers implement RunOutcome: one terminal event per run,
\* durable before the caller hears of it.
Outcome == INSTANCE RunOutcome WITH
    recorded <- {x \in Runs \X Statuses : <<x[1], <<"run", x[2]>>>> \in store},
    answered <- answer

ImplementsRunOutcome == Outcome!Spec
=============================================================================
