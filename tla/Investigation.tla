---------------------------- MODULE Investigation ----------------------------
(***************************************************************************)
(* The governed investigation of one incident (harness/harness.py).  A     *)
(* triage call scopes the incident, its signals fix the tools that may be  *)
(* used and the hypotheses that are raised, and a policy (a script or a    *)
(* language model) then proposes one call after the other.  A call passes  *)
(* the before-hooks, runs, and its evidence passes the after-hooks, which  *)
(* register it, settle hypotheses and decide when to stop.                 *)
(***************************************************************************)
EXTENDS EvidenceContract, Naturals, Sequences, FiniteSetsExt

CONSTANTS
  Setups,   \* the policies and budgets to consider
  Stages,   \* the funnel stages that may be anomalous
  Narrowed  \* per tool, the accepted arguments the script does not use: filters,
            \* a dimension, a row limit, a list of change types

ASSUME SetupsAssumption ==
  Setups \subseteq [policy : {"scripted", "model"}, limit : Nat \ {0}]

MaxBlocked == 3

VARIABLES
  setup,    \* the policy and the budget of this investigation
  stages,   \* the stages the funnel of the incident flags
  missing,  \* whether the data of the incident has gaps
  pc,       \* "triage", "loop", "closing", "done", or "failed"
  calls,    \* the calls that were executed, with the evidence they found
  status,   \* what the hypothesis ledger says of each cause
  linked,   \* the calls whose evidence is registered to each cause
  used,     \* Budget.calls_used
  counted,  \* ToolPolicy._call_count
  seen,     \* ToolPolicy._seen_fingerprints
  blocked,  \* how many calls were refused
  reason    \* why the loop stopped

vars == <<setup, stages, missing, pc, calls, status, linked, used, counted, seen,
          blocked, reason>>

governed == <<setup, stages, missing>>

-----------------------------------------------------------------------------
(* The tools, the queries that can be put to them and what each may find.  *)

Tools == {"funnel", "breakdown", "benefit", "cancel", "events", "config"}

Dimensions == {"payment_channel", "payment_method"}

\* Two of the schemas have no properties.
ASSUME NarrowedAssumption ==
  /\ DOMAIN Narrowed = Tools
  /\ \A tool \in Tools : "names_hypothesis" \notin Narrowed[tool]
  /\ Narrowed["benefit"] = {} /\ Narrowed["cancel"] = {}

\* The arguments the schema of a tool accepts.
ValidArguments(tool) ==
  Narrowed[tool] \cup (IF tool = "breakdown" THEN Dimensions ELSE {"default"})

\* No schema has the argument by which a model names a hypothesis.
Arguments(tool) == ValidArguments(tool) \cup {"names_hypothesis"}

Query(tool, arguments) == [tool |-> tool, arguments |-> arguments]

Queries == UNION {{Query(t, a) : a \in Arguments(t)} : t \in Tools}

TriageQuery == Query("funnel", "default")

\* The whole incident is what triage measured; part of it may differ.
FunnelFinds(q) ==
  LET degraded == {"FUNNEL_STAGE_DEGRADATION"}
      stable   == {"FUNNEL_BASELINE_STABLE"}
  IN  IF q # TriageQuery THEN {degraded, stable}
      ELSE IF stages # {} THEN {degraded} ELSE {stable}

\* The sets of evidence types a query can come back with.
Finds(q) ==
  CASE q.tool = "funnel"    -> FunnelFinds(q)
    [] q.tool = "breakdown" -> {{}, {"DIMENSION_CONTRIBUTION"}}
    [] q.tool = "benefit"   -> {{}, {"BENEFIT_GAP_FRICTION"}}
    [] q.tool = "cancel"    -> {{}, {"CANCEL_REORDER_FLOW"}}
    [] q.tool = "config"    -> {{}, {"CONFIG_CHANGE"}}
    [] OTHER                -> SUBSET {"CHANNEL_TIMEOUT", "ERROR_CODE_CONCENTRATION"}

-----------------------------------------------------------------------------
(* Routing: signals, the tools they open and the hypotheses they raise.     *)

SignalOrder == <<"DATA_INTEGRITY", "AUTH_FAILURE", "CALLBACK_ANOMALY",
                 "DECISION_FRICTION", "CHANNEL_TIMEOUT", "UNKNOWN">>

StagesOfSignal ==
  [AUTH_FAILURE      |-> {"AUTHENTICATION_PASSED"},
   CALLBACK_ANOMALY  |-> {"PLATFORM_CONFIRMED"},
   DECISION_FRICTION |-> {"PAYMENT_OPTIONS_SHOWN", "PAYMENT_METHOD_SELECTED",
                          "PAYMENT_INITIATED"},
   CHANNEL_TIMEOUT   |-> {"CHANNEL_SUCCEEDED"}]

Capabilities ==
  [DATA_INTEGRITY    |-> <<"funnel", "events", "breakdown">>,
   AUTH_FAILURE      |-> <<"events", "breakdown", "funnel">>,
   CALLBACK_ANOMALY  |-> <<"events", "cancel", "funnel">>,
   DECISION_FRICTION |-> <<"benefit", "cancel", "breakdown", "funnel">>,
   CHANNEL_TIMEOUT   |-> <<"events", "breakdown", "funnel", "config">>,
   UNKNOWN           |-> <<"funnel", "breakdown", "benefit", "cancel", "events",
                           "config">>]

CauseOfSignal ==
  [DATA_INTEGRITY    |-> "DATA_QUALITY_ISSUE",
   AUTH_FAILURE      |-> "AUTHENTICATION_FAILURE",
   CALLBACK_ANOMALY  |-> "CALLBACK_FAILURE",
   DECISION_FRICTION |-> "BENEFIT_SELECTION_FRICTION",
   CHANNEL_TIMEOUT   |-> "CHANNEL_TIMEOUT",
   UNKNOWN           |-> "UNKNOWN"]

Causes == {"DATA_QUALITY_ISSUE", "AUTHENTICATION_FAILURE", "CALLBACK_FAILURE",
           "BENEFIT_SELECTION_FRICTION", "CHANNEL_TIMEOUT", "UNKNOWN"}

\* The triage call serves no hypothesis.
None == "NONE"

Detected ==
  {s \in DOMAIN StagesOfSignal : StagesOfSignal[s] \cap stages # {}}
    \cup {s \in {"DATA_INTEGRITY"} : missing}

Signals == IF Detected = {} THEN {"UNKNOWN"} ELSE Detected

Rank(signal) == CHOOSE i \in DOMAIN SignalOrder : SignalOrder[i] = signal

\* The funnel is in the list of every signal.
Allowed(tool) == \E s \in Signals : tool \in Range(Capabilities[s])

\* A tool stands where the first list that names it puts it.
Places(tool) ==
  UNION {{10 * Rank(s) + i : i \in {j \in DOMAIN Capabilities[s] : Capabilities[s][j] = tool}}
           : s \in Signals}

Raised == {CauseOfSignal[s] : s \in Signals}

-----------------------------------------------------------------------------
(* The hypothesis ledger.                                                   *)

Open == {c \in Causes : status[c] = "PROPOSED"}

Conclusive == {"SUPPORTED", "PARTIAL"}

Terminal == Conclusive \cup {"REJECTED", "NEEDS_DATA"}

Statuses == Terminal \cup {"UNRAISED", "PROPOSED"}

RankOfCause(c) == CHOOSE i \in DOMAIN SignalOrder : CauseOfSignal[SignalOrder[i]] = c

FirstOpen == CHOOSE c \in Open : \A d \in Open : RankOfCause(c) <= RankOfCause(d)

Probes ==
  [events  |-> {"CHANNEL_TIMEOUT", "AUTHENTICATION_FAILURE", "CALLBACK_FAILURE"},
   benefit |-> {"BENEFIT_SELECTION_FRICTION"},
   funnel  |-> {"DATA_QUALITY_ISSUE"}]

DesignatedProbe(tool, cause) == tool \in DOMAIN Probes /\ cause \in Probes[tool]

\* The causes that an empty probe rules out.
Confirmable == {"CHANNEL_TIMEOUT", "BENEFIT_SELECTION_FRICTION", "DATA_QUALITY_ISSUE"}

\* Faults: the contract's verdict taken for a status; an empty result of any tool
\* taken for an answer.
EvaluateRaw(cause, tool, found) == ClassifySupport(cause, found)

EvaluateAnyTool(cause, tool, found) ==
  IF ClassifySupport(cause, found) # "UNKNOWN" THEN ClassifySupport(cause, found)
  ELSE IF cause \in Confirmable THEN "REJECTED"
  ELSE "NEEDS_DATA"

\* What the evidence of one call says about an open hypothesis.
Evaluate(cause, tool, found) ==
  IF ClassifySupport(cause, found) # "UNKNOWN" THEN ClassifySupport(cause, found)
  ELSE IF ~DesignatedProbe(tool, cause) THEN "PROPOSED"
  ELSE IF cause \in Confirmable THEN "REJECTED"
  ELSE "NEEDS_DATA"

\* EvidenceRegistrationHook
Registered(cause, found) ==
  IF found # {} /\ status[cause] \notin Conclusive \cup {"REJECTED"}
    THEN [linked EXCEPT ![cause] = @ \cup {Len(calls) + 1}]
    ELSE linked

\* HypothesisResolutionHook
Resolved(cause, tool, found) ==
  IF cause \in Open THEN [status EXCEPT ![cause] = Evaluate(cause, tool, found)]
  ELSE status

\* EarlyExitHook: what it says once a call is paid for and evaluated.
StopReason(paid, verdicts) ==
  IF paid >= setup.limit THEN "BUDGET_EXHAUSTED"
  ELSE IF \A c \in Causes : verdicts[c] # "PROPOSED" THEN "ALL_HYPOTHESES_RESOLVED"
  ELSE "NONE"

-----------------------------------------------------------------------------
(* The policies.                                                            *)

\* A fault: the script remembers only the call before.
CalledLast(tool) == calls[Len(calls)].query.tool = tool

Called(tool) == \E i \in DOMAIN calls : calls[i].query.tool = tool

Executed(q) == \E i \in DOMAIN calls : calls[i].query = q

\* The scripted plan; an incident without an anomaly has nothing to drill into.
Plan ==
  IF stages = {} /\ ~missing THEN {}
  ELSE {q \in {Query("breakdown", d) : d \in Dimensions} :
          Allowed("breakdown") /\ ~Executed(q)}
       \cup {Query(t, "default") : t \in {u \in Tools \ {"breakdown"} : Allowed(u) /\ ~Called(u)}}

PlanOrder(q) ==
  2 * Min(Places(q.tool)) + (IF q.arguments = "payment_method" THEN 1 ELSE 0)

ProbeTarget == [events |-> "CHANNEL_TIMEOUT", benefit |-> "BENEFIT_SELECTION_FRICTION"]

\* The hypothesis the script says a call tests.
Bind(tool) ==
  IF tool \in DOMAIN ProbeTarget /\ ProbeTarget[tool] \in Open THEN ProbeTarget[tool]
  ELSE FirstOpen

Scripted ==
  {[query |-> q, cause |-> Bind(q.tool)] :
     q \in {p \in Plan : Open # {} /\ \A r \in Plan : PlanOrder(p) <= PlanOrder(r)}}

\* A model may ask anything, and is bound to the first open hypothesis unless
\* it names another.  When it cannot be reached the script stands in.
Modelled ==
  {[query |-> q, cause |-> c] : q \in {p \in Queries : p.arguments = "names_hypothesis"},
                                c \in Open}
    \cup {[query |-> q, cause |-> FirstOpen] :
            q \in {p \in Queries : p.arguments # "names_hypothesis"}}

Proposed == Scripted \cup (IF setup.policy = "model" THEN Modelled ELSE {})

-----------------------------------------------------------------------------

\* A fault: no fingerprints.
RefusedUnlessRepeated(q, cause) ==
  \/ ~Allowed(q.tool)
  \/ q.arguments \notin ValidArguments(q.tool)
  \/ used >= setup.limit

\* The before-hooks; a refusal is logged with its code, and any will do.
Refused(q, cause) ==
  \/ ~Allowed(q.tool)
  \/ q.arguments \notin ValidArguments(q.tool)
  \/ used >= setup.limit
  \/ status[cause] = "REJECTED"
  \/ counted >= setup.limit
  \/ q \in seen

Init ==
  /\ setup \in Setups
  /\ stages \in SUBSET Stages
  /\ missing \in BOOLEAN
  /\ pc = "triage"
  /\ calls = <<>>
  /\ status = [c \in Causes |-> "UNRAISED"]
  /\ linked = [c \in Causes |-> {}]
  /\ used = 0
  /\ counted = 0
  /\ seen = {}
  /\ blocked = 0
  /\ reason = "NONE"

\* The last before-hook counts the call and remembers it.
Count(q) ==
  /\ counted' = counted + 1
  /\ seen' = seen \cup {q}

Perform(q, cause, found) ==
  /\ Count(q)
  /\ used' = used + 1
  /\ calls' = Append(calls, [query |-> q, cause |-> cause, found |-> found])

Triage(found) ==
  /\ pc = "triage"
  /\ Perform(TriageQuery, None, found)
  /\ status' = [c \in Causes |-> IF c \in Raised THEN "PROPOSED" ELSE "UNRAISED"]
  /\ pc' = "loop"
  /\ UNCHANGED <<governed, linked, blocked, reason>>

Call(q, cause, found) ==
  /\ ~Refused(q, cause)
  /\ Perform(q, cause, found)
  /\ linked' = Registered(cause, found)
  /\ status' = Resolved(cause, q.tool, found)
  /\ reason' = StopReason(used + 1, status')
  /\ pc' = IF reason' = "NONE" THEN "loop" ELSE "closing"
  /\ UNCHANGED <<governed, blocked>>

\* A fault: the loop continues before it notes the refusal.
RefuseUnnoted(q, cause) ==
  /\ Refused(q, cause)
  /\ pc' = IF blocked >= MaxBlocked THEN "closing" ELSE "loop"
  /\ UNCHANGED <<governed, calls, status, linked, used, counted, seen, blocked, reason>>

Refuse(q, cause) ==
  /\ Refused(q, cause)
  /\ blocked' = blocked + 1
  /\ pc' = IF blocked' >= MaxBlocked THEN "closing" ELSE "loop"
  /\ UNCHANGED <<governed, calls, status, linked, used, counted, seen, reason>>

\* A tool raises: nothing between the hooks and the task catches it.
Raise(q) ==
  /\ Count(q)
  /\ pc' = "failed"
  /\ UNCHANGED <<governed, calls, status, linked, used, blocked, reason>>

TriageRaises == pc = "triage" /\ Raise(TriageQuery)

CallRaises(q, cause) == ~Refused(q, cause) /\ Raise(q)

Finish ==
  /\ pc = "loop"
  /\ setup.policy = "scripted" => Scripted = {}
  /\ pc' = "closing"
  /\ UNCHANGED <<governed, calls, status, linked, used, counted, seen, blocked, reason>>

\* A fault: all hypotheses are closed, not the open ones.
ClosedOutAll(s) == IF s = "UNRAISED" THEN s ELSE "NEEDS_DATA"

ClosedOut(s) == IF s = "PROPOSED" THEN "NEEDS_DATA" ELSE s

Close ==
  /\ pc = "closing"
  /\ status' = [c \in Causes |-> ClosedOut(status[c])]
  /\ reason' = IF reason = "NONE" THEN "POLICY_FINISHED" ELSE reason
  /\ pc' = "done"
  /\ UNCHANGED <<governed, calls, linked, used, counted, seen, blocked>>

Step ==
  \/ \E found \in Finds(TriageQuery) : Triage(found)
  \/ TriageRaises
  \/ pc = "loop" /\ \E call \in Proposed :
       \/ \E found \in Finds(call.query) : Call(call.query, call.cause, found)
       \/ CallRaises(call.query, call.cause)
       \/ Refuse(call.query, call.cause)
  \/ Finish
  \/ Close

Ended == pc \in {"done", "failed"} /\ UNCHANGED vars

Next == Step \/ Ended

Spec == Init /\ [][Next]_vars

\* The loop is sequential code: it goes on as long as it can.
FairSpec == Spec /\ WF_vars(Step)

-----------------------------------------------------------------------------
(* Properties.                                                              *)

CallRecords ==
  [query : Queries, cause : Causes \cup {None}, found : SUBSET EvidenceTypes]

\* Every variable has its type.
TypeOK ==
  /\ setup \in Setups
  /\ stages \in SUBSET Stages
  /\ missing \in BOOLEAN
  /\ pc \in {"triage", "loop", "closing", "done", "failed"}
  /\ calls \in Seq(CallRecords)
  /\ status \in [Causes -> Statuses]
  /\ linked \in [Causes -> SUBSET Nat]
  /\ used \in Nat
  /\ counted \in Nat
  /\ seen \in SUBSET Queries
  /\ blocked \in Nat
  /\ reason \in {"NONE", "BUDGET_EXHAUSTED", "ALL_HYPOTHESES_RESOLVED", "POLICY_FINISHED"}

\* The two budgets of one investigation (Budget of the hooks, ToolPolicy of the
\* tools) agree with each other and with what was executed; whatever the policy
\* asks, no query reaches the data twice and the limit holds.
BudgetHolds ==
  /\ used = Len(calls)
  /\ counted = used + (IF pc = "failed" THEN 1 ELSE 0)
  /\ counted <= setup.limit
  /\ \A i, j \in DOMAIN calls : calls[i].query = calls[j].query => i = j

\* The scripted plan keeps to what the hooks allow, although it knows what was
\* called only by names and signatures: unless triage took the whole budget,
\* none of its calls is refused.
ScriptNotRefused ==
  setup.policy = "scripted" /\ setup.limit > 1 => blocked = 0

LinkedTypes(c) == UNION {calls[i].found : i \in linked[c]}

\* Calls are evaluated one at a time, and yet the ledger never contradicts the
\* evidence contract on everything registered to a hypothesis: it is conclusive
\* exactly when that evidence is, SUPPORTED only when the contract says so, and
\* REJECTED only after a call that was made for it and would have found it.
\* UNKNOWN is left out: it is supported by anything.
VerdictsEarned ==
  \A c \in Causes \ {"UNKNOWN"} :
    /\ status[c] \in Conclusive <=> ClassifySupport(c, LinkedTypes(c)) # "UNKNOWN"
    /\ status[c] = "SUPPORTED" => ClassifySupport(c, LinkedTypes(c)) = "SUPPORTED"
    /\ status[c] = "REJECTED" =>
         \E i \in DOMAIN calls : calls[i].cause = c /\ DesignatedProbe(calls[i].query.tool, c)

\* A settled hypothesis stays settled, and nothing is registered to it any more
\* (ledger.py: a terminal hypothesis does not change state again).
SettledStays ==
  [][\A c \in Causes : status[c] \in Terminal =>
       status'[c] = status[c] /\ linked'[c] = linked[c]]_vars

\* Whatever the policy proposes, the investigation comes to an end: it pays for
\* a call, or is refused at most three times, or finishes.
InvestigationEnds == <>(pc \in {"done", "failed"})

\* ledger.py:68-70: a hypothesis and a claim built from the same evidence can
\* never disagree about how well supported it is.
LedgerAgrees ==
  \A c \in Causes : status[c] \in Conclusive =>
    status[c] = ClassifySupport(c, LinkedTypes(c))

=============================================================================
