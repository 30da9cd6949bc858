------------------------- MODULE InvestigationProofs -------------------------
(***************************************************************************)
(* What one investigation guarantees for every policy, every budget, every *)
(* set of stages and every outcome of the tools.                           *)
(***************************************************************************)
EXTENDS Investigation, SequenceTheorems, TLAPS

(***************************************************************************)
(* The inductive invariant.  A call is made for an open hypothesis (Spared *)
(* says why there is one), a query that was executed is remembered, and    *)
(* the evidence registered to a hypothesis is that of executed calls.      *)
(***************************************************************************)
Remembered ==
  /\ \A i \in DOMAIN calls : calls[i].query \in seen
  /\ pc = "triage" => calls = <<>> /\ seen = {}

Registry ==
  /\ \A c \in Causes : linked[c] \subseteq DOMAIN calls
  /\ \A c \in Causes : status[c] = "UNRAISED" => linked[c] = {}

Within ==
  /\ pc = "triage" =>
       used = 0 /\ \A c \in Causes : linked[c] = {} /\ status[c] = "UNRAISED"
  /\ setup.limit \in Nat \ {0}

Spared == pc = "loop" => Open # {}

Inv == TypeOK /\ BudgetHolds /\ Remembered /\ Registry /\ Within /\ Spared /\ VerdictsEarned

-----------------------------------------------------------------------------
(* The evidence contract, call by call.                                    *)

Hypothesised == Causes \ {"UNKNOWN"}

\* Joining evidence to what left a cause open decides it exactly when the
\* new evidence alone does.
LEMMA OpenUntilConclusive ==
  ASSUME NEW c \in Hypothesised, NEW before, NEW found,
         ClassifySupport(c, before) = "UNKNOWN"
  PROVE  /\ ClassifySupport(c, before \cup found) # "UNKNOWN"
              <=> ClassifySupport(c, found) # "UNKNOWN"
         /\ ClassifySupport(c, found) = "SUPPORTED"
              => ClassifySupport(c, before \cup found) = "SUPPORTED"
<1>1. CASE c = "DATA_QUALITY_ISSUE"
  BY <1>1 DEF ClassifySupport
<1>2. CASE c # "DATA_QUALITY_ISSUE"
  <2>1. \A types : ClassifySupport(c, types) = FaultVerdict(c, types)
    BY <1>2 DEF ClassifySupport, Hypothesised, Causes
  <2>2. \A types : FaultVerdict(c, types) = "UNKNOWN"
                     <=> \/ types \subseteq Negative
                         \/ OwnType(c) # {} /\ OwnType(c) \cap types = {}
    BY DEF FaultVerdict
  <2>3. OwnType(c) = {} \/ \E t : OwnType(c) = {t} /\ t \notin Negative
    BY DEF OwnType, Hypothesised, Causes, Negative
  <2>4. FaultVerdict(c, before \cup found) = "UNKNOWN" <=> FaultVerdict(c, found) = "UNKNOWN"
    BY <2>1, <2>2, <2>3
  <2>5. FaultVerdict(c, found) = "SUPPORTED" => FaultVerdict(c, before \cup found) = "SUPPORTED"
    BY <2>4 DEF FaultVerdict, Specific
  <2>6. QED  BY <2>1, <2>4, <2>5
<1>3. QED  BY <1>1, <1>2

\* Without evidence a cause stays open.
LEMMA NothingFound ==
  ASSUME NEW c \in Hypothesised PROVE ClassifySupport(c, {}) = "UNKNOWN"
BY DEF ClassifySupport, FaultVerdict, Hypothesised, Causes

\* Every verdict is one the contract knows.
LEMMA ClassifyType ==
  ASSUME NEW c \in Causes, NEW types PROVE ClassifySupport(c, types) \in Verdicts
BY DEF ClassifySupport, FaultVerdict, Verdicts

\* A hypothesis is conclusive exactly when the evidence of the call is.
LEMMA EvaluateMeans ==
  ASSUME NEW c \in Causes, NEW tool, NEW found
  PROVE  /\ Evaluate(c, tool, found) \in Statuses \ {"UNRAISED"}
         /\ Evaluate(c, tool, found) \in Conclusive
              <=> ClassifySupport(c, found) # "UNKNOWN"
         /\ Evaluate(c, tool, found) \in Conclusive
              => Evaluate(c, tool, found) = ClassifySupport(c, found)
         /\ Evaluate(c, tool, found) = "REJECTED" => DesignatedProbe(tool, c)
BY ClassifyType DEF Evaluate, Statuses, Terminal, Conclusive, Verdicts

-----------------------------------------------------------------------------
(* A policy proposes calls for open hypotheses.                            *)

\* The order in which the policy takes the causes up.
LEMMA Ranks ==
  /\ RankOfCause("DATA_QUALITY_ISSUE") = 1
  /\ RankOfCause("AUTHENTICATION_FAILURE") = 2
  /\ RankOfCause("CALLBACK_FAILURE") = 3
  /\ RankOfCause("BENEFIT_SELECTION_FRICTION") = 4
  /\ RankOfCause("CHANNEL_TIMEOUT") = 5
  /\ RankOfCause("UNKNOWN") = 6
<1>1. DOMAIN SignalOrder = 1 .. 6
  BY DEF SignalOrder
<1>2. /\ CauseOfSignal[SignalOrder[1]] = "DATA_QUALITY_ISSUE"
      /\ CauseOfSignal[SignalOrder[2]] = "AUTHENTICATION_FAILURE"
      /\ CauseOfSignal[SignalOrder[3]] = "CALLBACK_FAILURE"
      /\ CauseOfSignal[SignalOrder[4]] = "BENEFIT_SELECTION_FRICTION"
      /\ CauseOfSignal[SignalOrder[5]] = "CHANNEL_TIMEOUT"
      /\ CauseOfSignal[SignalOrder[6]] = "UNKNOWN"
  BY DEF SignalOrder, CauseOfSignal
<1>3. QED  BY <1>1, <1>2 DEF RankOfCause

\* An open cause of lowest rank exists whenever one is open.
LEMMA FirstOpenIsOpen ==
  ASSUME Open # {} PROVE FirstOpen \in Open
<1>1. Open \subseteq Causes
  BY DEF Open
<1>2. \E c \in Open : \A d \in Open : RankOfCause(c) <= RankOfCause(d)
  <2> DEFINE First(c) == c \in Open /\ \A d \in Open : RankOfCause(c) <= RankOfCause(d)
  <2>1. CASE "DATA_QUALITY_ISSUE" \in Open
    <3>1. First("DATA_QUALITY_ISSUE")  BY <1>1, <2>1, Ranks DEF Causes
    <3>2. QED  BY <3>1
  <2>2. CASE "DATA_QUALITY_ISSUE" \notin Open /\ "AUTHENTICATION_FAILURE" \in Open
    <3>1. First("AUTHENTICATION_FAILURE")  BY <1>1, <2>2, Ranks DEF Causes
    <3>2. QED  BY <3>1
  <2> DEFINE Late == {"CALLBACK_FAILURE", "BENEFIT_SELECTION_FRICTION", "CHANNEL_TIMEOUT",
                      "UNKNOWN"}
  <2>3. CASE Open \subseteq Late /\ "CALLBACK_FAILURE" \in Open
    <3>1. First("CALLBACK_FAILURE")  BY <2>3, Ranks
    <3>2. QED  BY <3>1
  <2>4. CASE Open \subseteq Late \ {"CALLBACK_FAILURE"} /\ "BENEFIT_SELECTION_FRICTION" \in Open
    <3>1. First("BENEFIT_SELECTION_FRICTION")  BY <2>4, Ranks
    <3>2. QED  BY <3>1
  <2>5. CASE Open \subseteq {"CHANNEL_TIMEOUT", "UNKNOWN"} /\ "CHANNEL_TIMEOUT" \in Open
    <3>1. First("CHANNEL_TIMEOUT")  BY <2>5, Ranks
    <3>2. QED  BY <3>1
  <2>6. CASE Open \subseteq {"UNKNOWN"}
    <3>1. Open = {"UNKNOWN"}  BY <2>6
    <3>2. First("UNKNOWN")  BY <3>1, Ranks
    <3>3. QED  BY <3>2
  <2>7. QED  BY <1>1, <2>1, <2>2, <2>3, <2>4, <2>5, <2>6 DEF Causes
<1>3. QED  BY <1>2 DEF FirstOpen

\* What the policy may propose is a valid query for an open cause.
LEMMA ProposedCalls ==
  ASSUME NEW call \in Proposed, Open # {}
  PROVE  call.query \in Queries /\ call.cause \in Open
<1>1. \A tool : Bind(tool) \in Open
  BY FirstOpenIsOpen DEF Bind
<1>2. Plan \subseteq Queries
  <2>1. \A d \in Dimensions : Query("breakdown", d) \in Queries
    BY DEF Queries, Arguments, ValidArguments, Tools
  <2>2. \A t \in Tools \ {"breakdown"} : Query(t, "default") \in Queries
    BY DEF Queries, Arguments, ValidArguments, Tools
  <2>3. QED  BY <2>1, <2>2 DEF Plan
<1>3. CASE call \in Scripted
  <2>1. PICK q \in Plan : call = [query |-> q, cause |-> Bind(q.tool)]
    BY <1>3 DEF Scripted
  <2>2. call.query = q /\ call.cause = Bind(q.tool)
    BY <2>1
  <2>3. QED  BY <2>2, <1>1, <1>2
<1>4. CASE call \in Modelled
  <2>1. \E q \in Queries, c \in Open : call = [query |-> q, cause |-> c]
    BY <1>4, FirstOpenIsOpen DEF Modelled
  <2>2. QED  BY <2>1
<1>5. QED  BY <1>3, <1>4 DEF Proposed

\* A call finds evidence types only.
LEMMA FoundTypes ==
  ASSUME NEW q \in Queries, NEW found \in Finds(q)
  PROVE  found \subseteq EvidenceTypes
BY DEF Finds, FunnelFinds, EvidenceTypes, Negative, Generic, Observational

\* Triage asks a valid query.
LEMMA TriageIsQuery == TriageQuery \in Queries
BY DEF TriageQuery, Queries, Arguments, ValidArguments, Tools

-----------------------------------------------------------------------------
(* The invariant.                                                           *)

\* It holds at the start.
LEMMA InitInv == Init => Inv
<1> SUFFICES ASSUME Init PROVE Inv
  OBVIOUS
<1> USE DEF Init
<1>1. TypeOK
  <2>1. calls \in Seq(CallRecords)  OBVIOUS
  <2>2. /\ status \in [Causes -> Statuses]
        /\ linked \in [Causes -> SUBSET Nat]
    BY DEF Statuses
  <2>3. QED  BY <2>1, <2>2 DEF TypeOK
<1>2. setup.limit \in Nat \ {0}
  BY SetupsAssumption
<1>3. DOMAIN calls = {}
  OBVIOUS
<1>4. BudgetHolds
  BY <1>2, <1>3 DEF BudgetHolds
<1>5. Remembered /\ Registry /\ Within /\ Spared
  BY <1>2, <1>3 DEF Remembered, Registry, Within, Spared
<1>6. VerdictsEarned
  <2>1. \A c \in Causes : status[c] = "UNRAISED" /\ linked[c] = {}
    OBVIOUS
  <2>2. \A c \in Causes : LinkedTypes(c) = {}
    BY <2>1 DEF LinkedTypes
  <2>3. QED  BY <2>1, <2>2, NothingFound DEF VerdictsEarned, Hypothesised, Conclusive
<1>7. QED  BY <1>1, <1>4, <1>5, <1>6 DEF Inv

\* A call that passes the hooks is paid for once and reaches the data once.
LEMMA PerformStep ==
  ASSUME Inv, NEW q \in Queries, NEW cause \in Causes \cup {None},
         NEW found \in SUBSET EvidenceTypes,
         Perform(q, cause, found), q \notin seen, counted < setup.limit,
         pc # "failed", pc' # "failed", pc' # "triage", setup' = setup
  PROVE  /\ calls' \in Seq(CallRecords)
         /\ Len(calls) \in Nat
         /\ DOMAIN calls = 1 .. Len(calls)
         /\ DOMAIN calls' = 1 .. (Len(calls) + 1)
         /\ \A i \in DOMAIN calls : calls'[i] = calls[i]
         /\ calls'[Len(calls) + 1] = [query |-> q, cause |-> cause, found |-> found]
         /\ used' \in Nat /\ counted' \in Nat /\ seen' \in SUBSET Queries
         /\ BudgetHolds' /\ Remembered'
<1> DEFINE new == [query |-> q, cause |-> cause, found |-> found]
<1>1. new \in CallRecords /\ new.query = q
  BY DEF CallRecords
<1> HIDE DEF new
<1>2. calls \in Seq(CallRecords) /\ calls' = Append(calls, new)
  BY DEF Inv, TypeOK, Perform, new
<1>3. /\ calls' \in Seq(CallRecords)
      /\ Len(calls') = Len(calls) + 1
      /\ \A i \in 1 .. Len(calls) : calls'[i] = calls[i]
      /\ calls'[Len(calls) + 1] = new
  BY <1>1, <1>2, AppendProperties
<1>4. /\ Len(calls) \in Nat
      /\ DOMAIN calls = 1 .. Len(calls)
      /\ DOMAIN calls' = 1 .. (Len(calls) + 1)
  BY <1>2, <1>3
<1>5. /\ used' = used + 1 /\ counted' = counted + 1 /\ seen' = seen \cup {q}
      /\ used \in Nat /\ counted \in Nat /\ seen \subseteq Queries
      /\ used = Len(calls) /\ counted = used
  BY DEF Inv, TypeOK, BudgetHolds, Perform, Count
<1>6. \A i \in DOMAIN calls : calls[i].query \in seen
  BY DEF Inv, Remembered
<1>7. Remembered'
  <2>1. \A i \in DOMAIN calls' : calls'[i].query \in seen'
    <3> SUFFICES ASSUME NEW i \in 1 .. (Len(calls) + 1) PROVE calls'[i].query \in seen'
      BY <1>4
    <3>1. CASE i \in 1 .. Len(calls)  BY <3>1, <1>3, <1>4, <1>5, <1>6
    <3>2. CASE i = Len(calls) + 1  BY <3>2, <1>1, <1>3, <1>5
    <3>3. QED  BY <3>1, <3>2, <1>4
  <2>2. QED  BY <2>1 DEF Remembered
<1>8. \A i, j \in DOMAIN calls' : calls'[i].query = calls'[j].query => i = j
  <2> SUFFICES ASSUME NEW i \in 1 .. (Len(calls) + 1), NEW j \in 1 .. (Len(calls) + 1),
                      calls'[i].query = calls'[j].query
               PROVE  i = j
    BY <1>4
  <2>1. \A k \in 1 .. Len(calls) : calls'[k].query \in seen /\ calls'[k] = calls[k]
    BY <1>3, <1>4, <1>6
  <2>2. calls'[Len(calls) + 1].query = q
    BY <1>1, <1>3
  <2>3. CASE i \in 1 .. Len(calls) /\ j \in 1 .. Len(calls)
    BY <2>1, <2>3, <1>4 DEF Inv, BudgetHolds
  <2>4. CASE i = Len(calls) + 1 \/ j = Len(calls) + 1
    BY <2>1, <2>2, <2>4, <1>4
  <2>5. QED  BY <2>3, <2>4, <1>4
<1>9. BudgetHolds'
  <2>1. used' = Len(calls')  BY <1>3, <1>5
  <2>2. counted' <= setup'.limit
    BY <1>5 DEF Inv, Within
  <2>3. QED  BY <1>5, <1>8, <2>1, <2>2 DEF BudgetHolds
<1>10. QED  BY <1>3, <1>4, <1>5, <1>7, <1>9 DEF new

\* Triage keeps it.
LEMMA TriageInv ==
  ASSUME Inv, NEW found \in Finds(TriageQuery), Triage(found) PROVE Inv'
<1>1. found \in SUBSET EvidenceTypes
  BY FoundTypes, TriageIsQuery
<1>2. /\ pc = "triage" /\ pc' = "loop" /\ Perform(TriageQuery, None, found)
      /\ status' = [c \in Causes |-> IF c \in Raised THEN "PROPOSED" ELSE "UNRAISED"]
      /\ setup' = setup /\ stages' = stages /\ missing' = missing
      /\ linked' = linked /\ blocked' = blocked /\ reason' = reason
  BY DEF Triage, governed
<1>3. /\ seen = {} /\ used = 0 /\ counted = 0 /\ setup.limit \in Nat \ {0}
      /\ \A c \in Causes : linked[c] = {}
  BY <1>2 DEF Inv, Remembered, Within, BudgetHolds
<1>4. /\ calls' \in Seq(CallRecords)
      /\ used' \in Nat /\ counted' \in Nat /\ seen' \in SUBSET Queries
      /\ BudgetHolds' /\ Remembered'
  <2>1. /\ TriageQuery \in Queries /\ None \in Causes \cup {None}
        /\ TriageQuery \notin seen /\ counted < setup.limit
        /\ pc # "failed" /\ pc' # "failed" /\ pc' # "triage"
    BY <1>2, <1>3, TriageIsQuery
  <2>2. QED  BY ONLY Inv, <1>1, <1>2, <2>1, PerformStep
<1>5. TypeOK'
  BY <1>2, <1>4 DEF TypeOK, Inv, Statuses
<1>6. Registry' /\ Within'
  BY <1>2, <1>3 DEF Registry, Within
<1>7. Spared'
  <2>1. Signals # {} /\ Signals \subseteq DOMAIN CauseOfSignal
    BY DEF Signals, Detected, StagesOfSignal, CauseOfSignal
  <2>2. \A s \in DOMAIN CauseOfSignal : CauseOfSignal[s] \in Causes
    BY DEF CauseOfSignal, Causes
  <2>3. \E c \in Causes : c \in Raised
    BY <2>1, <2>2 DEF Raised
  <2>4. \E c \in Causes : status'[c] = "PROPOSED"
    BY <1>2, <2>3
  <2>5. QED  BY <2>4 DEF Spared, Open
<1>8. VerdictsEarned'
  <2>1. \A c \in Causes : LinkedTypes(c)' = {}
    BY <1>2, <1>3 DEF LinkedTypes
  <2>2. \A c \in Causes : status'[c] \in {"PROPOSED", "UNRAISED"}
    BY <1>2
  <2>3. QED  BY <2>1, <2>2, NothingFound DEF VerdictsEarned, Hypothesised, Conclusive
<1>9. QED  BY <1>4, <1>5, <1>6, <1>7, <1>8 DEF Inv

\* A call for an open hypothesis: what it finds is registered and evaluated.
LEMMA CallEffect ==
  ASSUME Inv, NEW q \in Queries, NEW cause \in Open, NEW found \in SUBSET EvidenceTypes,
         Call(q, cause, found)
  PROVE  /\ cause \in Causes /\ status[cause] = "PROPOSED"
         /\ linked' = IF found # {} THEN [linked EXCEPT ![cause] = @ \cup {Len(calls) + 1}]
                      ELSE linked
         /\ status' = [status EXCEPT ![cause] = Evaluate(cause, q.tool, found)]
<1>1. cause \in Causes /\ status[cause] = "PROPOSED"
  BY DEF Open
<1>2. linked' = Registered(cause, found) /\ status' = Resolved(cause, q.tool, found)
  BY DEF Call
<1>3. Registered(cause, found) =
        IF found # {} THEN [linked EXCEPT ![cause] = @ \cup {Len(calls) + 1}] ELSE linked
  BY <1>1 DEF Registered, Conclusive
<1>4. Resolved(cause, q.tool, found) = [status EXCEPT ![cause] = Evaluate(cause, q.tool, found)]
  BY DEF Resolved
<1>5. QED  BY <1>1, <1>2, <1>3, <1>4

\* A call keeps it.
LEMMA CallInv ==
  ASSUME Inv, pc = "loop", NEW q \in Queries, NEW cause \in Open, NEW found \in Finds(q),
         Call(q, cause, found)
  PROVE  Inv'
<1> DEFINE n == Len(calls) + 1
           new == [query |-> q, cause |-> cause, found |-> found]
           verdict == Evaluate(cause, q.tool, found)
<1>1. found \in SUBSET EvidenceTypes
  BY FoundTypes
<1>2. /\ cause \in Causes /\ status[cause] = "PROPOSED"
      /\ linked' = IF found # {} THEN [linked EXCEPT ![cause] = @ \cup {n}] ELSE linked
      /\ status' = [status EXCEPT ![cause] = verdict]
  BY <1>1, CallEffect
<1>3. /\ Perform(q, cause, found) /\ ~Refused(q, cause)
      /\ reason' = StopReason(used + 1, status')
      /\ pc' = IF reason' = "NONE" THEN "loop" ELSE "closing"
      /\ setup' = setup /\ stages' = stages /\ missing' = missing /\ blocked' = blocked
  BY DEF Call, governed
<1>4. /\ calls' \in Seq(CallRecords)
      /\ Len(calls) \in Nat
      /\ DOMAIN calls = 1 .. Len(calls)
      /\ DOMAIN calls' = 1 .. n
      /\ \A i \in DOMAIN calls : calls'[i] = calls[i]
      /\ calls'[n] = new
      /\ used' \in Nat /\ counted' \in Nat /\ seen' \in SUBSET Queries
      /\ BudgetHolds' /\ Remembered'
  <2>1. /\ cause \in Causes \cup {None} /\ q \notin seen
        /\ pc # "failed" /\ pc' # "failed" /\ pc' # "triage"
    BY <1>2, <1>3 DEF Refused
  <2>2. counted < setup.limit
    BY <1>3 DEF Refused, Inv, TypeOK, Within
  <2>3. QED  BY ONLY Inv, q \in Queries, <1>1, <1>3, <2>1, <2>2, PerformStep
<1>5. /\ status \in [Causes -> Statuses] /\ linked \in [Causes -> SUBSET Nat]
      /\ \A c \in Causes : linked[c] \subseteq DOMAIN calls
      /\ \A c \in Causes : status[c] = "UNRAISED" => linked[c] = {}
  BY DEF Inv, TypeOK, Registry
<1>6. /\ verdict \in Statuses \ {"UNRAISED"}
      /\ verdict \in Conclusive <=> ClassifySupport(cause, found) # "UNKNOWN"
      /\ verdict \in Conclusive => verdict = ClassifySupport(cause, found)
      /\ verdict = "REJECTED" => DesignatedProbe(q.tool, cause)
  BY <1>2, EvaluateMeans
<1>7. n \in Nat /\ new.cause = cause /\ new.found = found /\ new.query = q
  BY <1>4
<1> HIDE DEF n, new, verdict
<1>8. /\ status' \in [Causes -> Statuses] /\ status'[cause] = verdict
      /\ \A c \in Causes : c # cause => status'[c] = status[c]
  BY <1>2, <1>5, <1>6
<1>9. /\ linked' \in [Causes -> SUBSET Nat]
      /\ linked'[cause] = IF found # {} THEN linked[cause] \cup {n} ELSE linked[cause]
      /\ \A c \in Causes : c # cause => linked'[c] = linked[c]
  BY <1>2, <1>5, <1>7
<1>10. TypeOK'
  <2>1. /\ reason' \in {"NONE", "BUDGET_EXHAUSTED", "ALL_HYPOTHESES_RESOLVED"}
        /\ pc' \in {"loop", "closing"}
    BY <1>3 DEF StopReason
  <2>2. setup' \in Setups /\ stages' \in SUBSET Stages /\ missing' \in BOOLEAN /\ blocked' \in Nat
    BY <1>3 DEF Inv, TypeOK
  <2>3. QED  BY <1>4, <1>8, <1>9, <2>1, <2>2 DEF TypeOK
<1>11. Registry'
  <2>1. \A c \in Causes : linked'[c] \subseteq DOMAIN calls'
    <3>1. DOMAIN calls \subseteq DOMAIN calls' /\ n \in DOMAIN calls'
      BY <1>4, <1>7 DEF n
    <3>2. QED  BY <1>2, <1>5, <1>9, <3>1
  <2>2. \A c \in Causes : status'[c] = "UNRAISED" => linked'[c] = {}
    BY <1>5, <1>6, <1>8, <1>9
  <2>3. QED  BY <2>1, <2>2 DEF Registry
<1>12. Within'
  <2>1. pc' # "triage"  BY <1>3
  <2>2. QED  BY <1>3, <2>1 DEF Within, Inv
<1>13. Spared'
  <2> SUFFICES ASSUME pc' = "loop" PROVE Open' # {}
    BY DEF Spared
  <2>1. \E c \in Causes : status'[c] = "PROPOSED"
    BY <1>3 DEF StopReason
  <2>2. QED  BY <2>1 DEF Open
<1>14. /\ LinkedTypes(cause)' = LinkedTypes(cause) \cup found
       /\ \A c \in Causes : c # cause => LinkedTypes(c)' = LinkedTypes(c)
  <2>1. \A c \in Causes : \A i \in linked[c] : calls'[i].found = calls[i].found
    BY <1>4, <1>5
  <2>2. LinkedTypes(cause) = UNION {calls'[i].found : i \in linked[cause]}
    BY <1>2, <2>1 DEF LinkedTypes
  <2>3. calls'[n].found = found
    BY <1>4, <1>7
  <2>4. LinkedTypes(cause)' = UNION {calls'[i].found : i \in linked'[cause]}
    BY DEF LinkedTypes
  <2>5. LinkedTypes(cause)' = LinkedTypes(cause) \cup found
    <3>1. CASE found = {}
      BY <3>1, <1>9, <2>2, <2>4
    <3>2. CASE found # {}
      <4>1. linked'[cause] = linked[cause] \cup {n}  BY <3>2, <1>9
      <4>2. QED  BY <4>1, <2>2, <2>3, <2>4
    <3>3. QED  BY <3>1, <3>2
  <2>6. \A c \in Causes : c # cause => LinkedTypes(c)' = LinkedTypes(c)
    BY <2>1, <1>9 DEF LinkedTypes
  <2>7. QED  BY <2>5, <2>6
<1>15. VerdictsEarned'
  <2> SUFFICES ASSUME NEW c \in Hypothesised
               PROVE  /\ status'[c] \in Conclusive
                           <=> ClassifySupport(c, LinkedTypes(c)') # "UNKNOWN"
                      /\ status'[c] = "SUPPORTED"
                           => ClassifySupport(c, LinkedTypes(c)') = "SUPPORTED"
                      /\ status'[c] = "REJECTED" =>
                           \E i \in DOMAIN calls' :
                             calls'[i].cause = c /\ DesignatedProbe(calls'[i].query.tool, c)
    BY DEF VerdictsEarned, Hypothesised
  <2>1. /\ status[c] \in Conclusive <=> ClassifySupport(c, LinkedTypes(c)) # "UNKNOWN"
        /\ status[c] = "SUPPORTED" => ClassifySupport(c, LinkedTypes(c)) = "SUPPORTED"
        /\ status[c] = "REJECTED" =>
             \E i \in DOMAIN calls : calls[i].cause = c /\ DesignatedProbe(calls[i].query.tool, c)
    BY DEF Inv, VerdictsEarned, Hypothesised
  <2>2. CASE c # cause
    <3>1. status'[c] = status[c] /\ LinkedTypes(c)' = LinkedTypes(c)
      BY <2>2, <1>8, <1>14 DEF Hypothesised
    <3>2. DOMAIN calls \subseteq DOMAIN calls'
      BY <1>4, <1>7 DEF n
    <3>3. QED  BY <2>1, <3>1, <3>2, <1>4
  <2>3. CASE c = cause
    <3>1. ClassifySupport(c, LinkedTypes(c)) = "UNKNOWN"
      BY <2>1, <2>3, <1>2 DEF Conclusive
    <3>2. /\ ClassifySupport(c, LinkedTypes(c)') # "UNKNOWN"
               <=> ClassifySupport(c, found) # "UNKNOWN"
          /\ ClassifySupport(c, found) = "SUPPORTED"
               => ClassifySupport(c, LinkedTypes(c)') = "SUPPORTED"
      BY <2>3, <3>1, <1>14, OpenUntilConclusive
    <3>3. status'[c] = verdict
      BY <2>3, <1>8
    <3>4. verdict = "REJECTED" =>
            calls'[n].cause = c /\ DesignatedProbe(calls'[n].query.tool, c)
      BY <2>3, <1>4, <1>6, <1>7
    <3>5. n \in DOMAIN calls'
      BY <1>4, <1>7 DEF n
    <3>6. QED  BY <2>3, <3>2, <3>3, <3>4, <3>5, <1>6 DEF Conclusive
  <2>4. QED  BY <2>2, <2>3
<1>16. QED  BY <1>4, <1>10, <1>11, <1>12, <1>13, <1>15 DEF Inv

\* The steps that leave calls, statuses and registered evidence alone.
LEMMA QuietInv ==
  ASSUME Inv, UNCHANGED <<governed, calls, status, linked>>, pc # "failed", pc' # "triage",
         \/ /\ UNCHANGED <<used, counted, seen, reason>>
            /\ blocked' \in Nat
            /\ pc' \in {"loop", "closing"}
            /\ pc' = "loop" => pc = "loop"
         \/ /\ \E q \in Queries : Count(q)
            /\ UNCHANGED <<used, blocked, reason>>
            /\ pc' = "failed" /\ counted < setup.limit
  PROVE  Inv'
<1>1. /\ setup' = setup /\ stages' = stages /\ missing' = missing
      /\ calls' = calls /\ status' = status /\ linked' = linked /\ used' = used
      /\ reason' = reason
  BY DEF governed
<1>2. TypeOK'
  <2>1. counted' \in Nat /\ seen' \in SUBSET Queries /\ blocked' \in Nat
    BY DEF Inv, TypeOK, Count
  <2>2. pc' \in {"loop", "closing", "failed"}
    OBVIOUS
  <2>3. QED  BY <1>1, <2>1, <2>2 DEF Inv, TypeOK
<1>3. BudgetHolds'
  <2>1. counted' = used' + (IF pc' = "failed" THEN 1 ELSE 0) /\ counted' <= setup'.limit
    BY <1>1 DEF Inv, TypeOK, BudgetHolds, Count, Within
  <2>2. QED  BY <1>1, <2>1 DEF Inv, BudgetHolds
<1>4. Remembered'
  BY <1>1 DEF Inv, Remembered, Count
<1>5. Registry' /\ Within'
  BY <1>1 DEF Inv, Registry, Within
<1>6. Spared'
  BY <1>1 DEF Inv, Spared, Open
<1>7. VerdictsEarned'
  BY <1>1 DEF Inv, VerdictsEarned, LinkedTypes
<1>8. QED  BY <1>2, <1>3, <1>4, <1>5, <1>6, <1>7 DEF Inv

\* Closing keeps it.
LEMMA CloseInv == ASSUME Inv, Close PROVE Inv'
<1>1. /\ setup' = setup /\ stages' = stages /\ missing' = missing
      /\ calls' = calls /\ linked' = linked /\ used' = used /\ counted' = counted
      /\ seen' = seen /\ blocked' = blocked
      /\ pc = "closing" /\ pc' = "done"
      /\ status' = [c \in Causes |-> ClosedOut(status[c])]
      /\ reason' = IF reason = "NONE" THEN "POLICY_FINISHED" ELSE reason
  BY DEF Close, governed
<1>2. \A c \in Causes :
        /\ status'[c] \in Statuses
        /\ status'[c] \in Conclusive <=> status[c] \in Conclusive
        /\ status'[c] = "SUPPORTED" => status[c] = "SUPPORTED"
        /\ status'[c] = "REJECTED" => status[c] = "REJECTED"
        /\ status'[c] = "UNRAISED" => status[c] = "UNRAISED"
  BY <1>1 DEF ClosedOut, Conclusive, Statuses, Terminal, Inv, TypeOK
<1>3. TypeOK'
  <2>1. status' \in [Causes -> Statuses]
    BY <1>1, <1>2
  <2>2. reason' \in {"NONE", "BUDGET_EXHAUSTED", "ALL_HYPOTHESES_RESOLVED", "POLICY_FINISHED"}
    BY <1>1 DEF Inv, TypeOK
  <2>3. QED  BY <1>1, <2>1, <2>2 DEF Inv, TypeOK
<1>4. BudgetHolds' /\ Remembered' /\ Within' /\ Spared'
  BY <1>1 DEF Inv, BudgetHolds, Remembered, Within, Spared
<1>5. Registry'
  BY <1>1, <1>2 DEF Inv, Registry
<1>6. VerdictsEarned'
  <2>1. \A c \in Causes : LinkedTypes(c)' = LinkedTypes(c)
    BY <1>1 DEF LinkedTypes
  <2>2. QED  BY <1>1, <1>2, <2>1 DEF Inv, VerdictsEarned
<1>7. QED  BY <1>3, <1>4, <1>5, <1>6 DEF Inv

\* Every step keeps it.
LEMMA NextInv == Inv /\ [Next]_vars => Inv'
<1> SUFFICES ASSUME Inv, [Next]_vars PROVE Inv'
  OBVIOUS
<1>1. CASE \E found \in Finds(TriageQuery) : Triage(found)
  BY <1>1, TriageInv
<1>2. CASE TriageRaises
  <2>1. counted < setup.limit
    BY <1>2 DEF TriageRaises, Inv, Within, BudgetHolds
  <2>2. QED  BY <1>2, <2>1, TriageIsQuery, QuietInv DEF TriageRaises, Raise
<1>3. CASE pc = "loop" /\ \E call \in Proposed :
             \/ \E found \in Finds(call.query) : Call(call.query, call.cause, found)
             \/ CallRaises(call.query, call.cause)
             \/ Refuse(call.query, call.cause)
  <2>1. PICK call \in Proposed :
             \/ \E found \in Finds(call.query) : Call(call.query, call.cause, found)
             \/ CallRaises(call.query, call.cause)
             \/ Refuse(call.query, call.cause)
    BY <1>3
  <2>2. call.query \in Queries /\ call.cause \in Open
    BY <1>3, ProposedCalls DEF Inv, Spared
  <2>3. CASE \E found \in Finds(call.query) : Call(call.query, call.cause, found)
    BY <1>3, <2>2, <2>3, CallInv
  <2>4. CASE CallRaises(call.query, call.cause)
    <3>1. counted < setup.limit
      BY <2>4 DEF CallRaises, Refused, Inv, TypeOK, Within
    <3>2. QED  BY <1>3, <2>2, <2>4, <3>1, QuietInv DEF CallRaises, Raise
  <2>5. CASE Refuse(call.query, call.cause)
    <3>1. /\ blocked' = blocked + 1 /\ blocked \in Nat
          /\ pc' = IF blocked' >= MaxBlocked THEN "closing" ELSE "loop"
          /\ UNCHANGED <<governed, calls, status, linked, used, counted, seen, reason>>
      BY <2>5 DEF Refuse, Inv, TypeOK
    <3>2. QED  BY <1>3, <3>1, QuietInv
  <2>6. QED  BY <2>1, <2>3, <2>4, <2>5
<1>4. CASE Finish
  <2>1. blocked' \in Nat
    BY <1>4 DEF Finish, Inv, TypeOK
  <2>2. QED  BY <1>4, <2>1, QuietInv DEF Finish
<1>5. CASE Close
  BY <1>5, CloseInv
<1>6. CASE UNCHANGED vars
  <2>1. TypeOK' /\ BudgetHolds' /\ Remembered'
    BY <1>6 DEF vars, Inv, TypeOK, BudgetHolds, Remembered
  <2>2. Registry' /\ Within' /\ Spared'
    BY <1>6 DEF vars, Inv, Registry, Within, Spared, Open
  <2>3. VerdictsEarned'
    BY <1>6 DEF vars, Inv, VerdictsEarned, LinkedTypes
  <2>4. QED  BY <2>1, <2>2, <2>3 DEF Inv
<1>7. QED  BY <1>1, <1>2, <1>3, <1>4, <1>5, <1>6 DEF Next, Step, Ended

\* It holds throughout.
LEMMA SpecInv == Spec => []Inv
BY InitInv, NextInv, PTL DEF Spec

-----------------------------------------------------------------------------

\* Every variable keeps its type.
THEOREM TypeCorrect == Spec => []TypeOK
BY SpecInv, PTL DEF Inv

\* Whatever a policy proposes: both budgets agree with what was executed, the
\* limit holds, and no query is executed twice.
THEOREM BudgetRespected == Spec => []BudgetHolds
BY SpecInv, PTL DEF Inv

\* Evaluating calls one by one never contradicts the contract on all that was
\* registered: conclusive exactly when the evidence is, and rejected only after
\* the designated probe.
THEOREM LedgerIsEarned == Spec => []VerdictsEarned
BY SpecInv, PTL DEF Inv

\* One step leaves a settled cause as it was.
LEMMA SettledStep ==
  ASSUME Inv, [Next]_vars, NEW c \in Causes, status[c] \in Terminal
  PROVE  status'[c] = status[c] /\ linked'[c] = linked[c]
<1>0. status[c] # "PROPOSED" /\ status[c] # "UNRAISED"
  BY DEF Terminal, Conclusive
<1>1. CASE \E found \in Finds(TriageQuery) : Triage(found)
  BY <1>0, <1>1 DEF Triage, Inv, Within
<1>2. CASE pc = "loop" /\ \E call \in Proposed :
             \/ \E found \in Finds(call.query) : Call(call.query, call.cause, found)
             \/ CallRaises(call.query, call.cause)
             \/ Refuse(call.query, call.cause)
  <2>1. PICK call \in Proposed :
             \/ \E found \in Finds(call.query) : Call(call.query, call.cause, found)
             \/ CallRaises(call.query, call.cause)
             \/ Refuse(call.query, call.cause)
    BY <1>2
  <2>2. call.query \in Queries /\ call.cause \in Open
    BY <1>2, ProposedCalls DEF Inv, Spared
  <2>3. CASE \E found \in Finds(call.query) : Call(call.query, call.cause, found)
    <3>1. PICK found \in Finds(call.query) : Call(call.query, call.cause, found)
      BY <2>3
    <3>2. found \in SUBSET EvidenceTypes
      BY <2>2, FoundTypes
    <3>3. PICK q \in Queries, cause \in Open : Call(q, cause, found)
      BY <2>2, <3>1
    <3>4. /\ status[cause] = "PROPOSED"
          /\ linked' = IF found # {} THEN [linked EXCEPT ![cause] = @ \cup {Len(calls) + 1}]
                       ELSE linked
          /\ status' = [status EXCEPT ![cause] = Evaluate(cause, q.tool, found)]
      BY <3>2, <3>3, CallEffect
    <3>5. c # cause /\ status \in [Causes -> Statuses] /\ linked \in [Causes -> SUBSET Nat]
      BY <1>0, <3>4 DEF Inv, TypeOK
    <3>6. QED  BY <3>4, <3>5
  <2>4. CASE CallRaises(call.query, call.cause) \/ Refuse(call.query, call.cause)
    BY <2>4 DEF CallRaises, Raise, Refuse
  <2>5. QED  BY <2>1, <2>3, <2>4
<1>3. CASE TriageRaises \/ Finish \/ UNCHANGED vars
  BY <1>3 DEF TriageRaises, Raise, Finish, vars
<1>4. CASE Close
  BY <1>0, <1>4 DEF Close, ClosedOut
<1>5. QED  BY <1>1, <1>2, <1>3, <1>4 DEF Next, Step, Ended

\* A settled hypothesis stays settled and gets no further evidence.
THEOREM SettledForGood == Spec => SettledStays
<1>1. Inv /\ [Next]_vars =>
        [\A c \in Causes : status[c] \in Terminal =>
           status'[c] = status[c] /\ linked'[c] = linked[c]]_vars
  BY SettledStep
<1>2. QED  BY <1>1, SpecInv, PTL DEF Spec, SettledStays

-----------------------------------------------------------------------------
(* The script and the hooks.  The hooks remember the executed queries and  *)
(* no others, and the loop goes on only while there is budget left.        *)

Affordable ==
  /\ pc # "failed" => seen \subseteq {calls[i].query : i \in DOMAIN calls}
  /\ pc = "loop" /\ setup.limit > 1 => used < setup.limit

\* What the script plans is allowed, has arguments the tool accepts, and was not
\* executed before.
LEMMA PlannedIsNew ==
  ASSUME NEW q \in Plan
  PROVE  Allowed(q.tool) /\ q.arguments \in ValidArguments(q.tool) /\ ~Executed(q)
<1>1. CASE \E d \in Dimensions : q = Query("breakdown", d) /\ Allowed("breakdown") /\ ~Executed(q)
  <2>1. PICK d \in Dimensions : q = Query("breakdown", d) /\ Allowed("breakdown") /\ ~Executed(q)
    BY <1>1
  <2>2. q.tool = "breakdown" /\ q.arguments = d
    BY <2>1 DEF Query
  <2>3. d \in ValidArguments("breakdown")
    BY DEF ValidArguments
  <2> QED BY <2>1, <2>2, <2>3
<1>2. CASE \E t \in Tools \ {"breakdown"} : q = Query(t, "default") /\ Allowed(t) /\ ~Called(t)
  <2>1. PICK t \in Tools \ {"breakdown"} : q = Query(t, "default") /\ Allowed(t) /\ ~Called(t)
    BY <1>2
  <2>2. q.tool = t /\ q.arguments = "default"
    BY <2>1 DEF Query
  <2>3. "default" \in ValidArguments(t)
    BY DEF ValidArguments, Tools
  <2>4. ~Executed(q)
    BY <2>1, <2>2 DEF Called, Executed
  <2> QED BY <2>1, <2>2, <2>3, <2>4
<1>3. \/ \E d \in Dimensions : q = Query("breakdown", d) /\ Allowed("breakdown") /\ ~Executed(q)
      \/ \E t \in Tools \ {"breakdown"} : q = Query(t, "default") /\ Allowed(t) /\ ~Called(t)
  BY Zenon DEF Plan
<1> QED BY <1>1, <1>2, <1>3

\* With budget left, no hook refuses a call of the script.
LEMMA ScriptedPasses ==
  ASSUME Inv, Affordable, pc = "loop", setup.limit > 1, NEW call \in Scripted
  PROVE  ~Refused(call.query, call.cause)
<1>1. PICK q \in Plan : call = [query |-> q, cause |-> Bind(q.tool)]
  BY DEF Scripted
<1>2. call.query = q /\ call.cause = Bind(q.tool)
  BY <1>1
<1>3. Bind(q.tool) \in Open
  BY FirstOpenIsOpen DEF Bind, Inv, Spared
<1>4. status[call.cause] # "REJECTED"
  BY <1>2, <1>3 DEF Open
<1>5. used < setup.limit /\ counted = used /\ used \in Nat /\ setup.limit \in Nat
  BY DEF Affordable, Inv, BudgetHolds, TypeOK, Within
<1>6. q \notin seen
  BY PlannedIsNew DEF Affordable, Executed
<1> QED BY <1>2, <1>4, <1>5, <1>6, PlannedIsNew DEF Refused

\* A call that is performed is on record, so every query seen still is.
LEMMA PerformAffordable ==
  ASSUME calls \in Seq(CallRecords), seen \subseteq {calls[i].query : i \in DOMAIN calls},
         NEW q, NEW cause, NEW found, Perform(q, cause, found)
  PROVE  seen' \subseteq {calls'[i].query : i \in DOMAIN calls'}
<1> DEFINE new == [query |-> q, cause |-> cause, found |-> found]
<1>1. calls' = Append(calls, new) /\ seen' = seen \cup {q} /\ new.query = q
  BY DEF Perform, Count
<1> HIDE DEF new
<1>2. /\ DOMAIN calls = 1 .. Len(calls) /\ Len(calls) \in Nat
      /\ DOMAIN calls' = 1 .. (Len(calls) + 1)
      /\ \A i \in 1 .. Len(calls) : calls'[i] = calls[i]
      /\ calls'[Len(calls) + 1] = new
  BY <1>1
<1> QED BY <1>1, <1>2

\* The scripted policy never meets a refusal, one step further.
LEMMA ScriptStep ==
  ASSUME Inv, Affordable, ScriptNotRefused, [Next]_vars
  PROVE  Affordable' /\ ScriptNotRefused'
<1>0. calls \in Seq(CallRecords) /\ used \in Nat /\ setup.limit \in Nat
  BY DEF Inv, TypeOK, Within
<1>1. CASE \E found \in Finds(TriageQuery) : Triage(found)
  <2>1. PICK found : Triage(found)
    BY <1>1
  <2>2. Affordable'
    BY <1>0, <2>1, PerformAffordable DEF Triage, Perform, governed, Affordable, Inv, Within
  <2> QED BY <2>1, <2>2 DEF Triage, governed, ScriptNotRefused
<1>2. CASE pc = "loop" /\ \E call \in Proposed :
             \/ \E found \in Finds(call.query) : Call(call.query, call.cause, found)
             \/ CallRaises(call.query, call.cause)
             \/ Refuse(call.query, call.cause)
  <2>1. PICK call \in Proposed :
             \/ \E found \in Finds(call.query) : Call(call.query, call.cause, found)
             \/ CallRaises(call.query, call.cause)
             \/ Refuse(call.query, call.cause)
    BY <1>2
  <2>2. ASSUME NEW found, Call(call.query, call.cause, found)
        PROVE  Affordable' /\ ScriptNotRefused'
    <3>1. seen' \subseteq {calls'[i].query : i \in DOMAIN calls'}
      BY <1>0, <1>2, <2>2, PerformAffordable DEF Call, Affordable
    <3>2. pc' = "loop" => used' < setup'.limit
      BY <1>0, <2>2 DEF Call, Perform, governed, StopReason
    <3> QED BY <2>2, <3>1, <3>2 DEF Call, governed, Affordable, ScriptNotRefused
  <2>3. CASE CallRaises(call.query, call.cause)
    BY <2>3 DEF CallRaises, Raise, governed, Affordable, ScriptNotRefused
  <2>4. CASE Refuse(call.query, call.cause)
    <3>1. UNCHANGED <<setup, calls, seen, used>> /\ Refused(call.query, call.cause)
      BY <2>4 DEF Refuse, governed
    <3>2. Affordable'
      BY <1>2, <3>1 DEF Affordable
    <3>3. ~(setup.policy = "scripted" /\ setup.limit > 1)
      BY <1>2, <3>1, ScriptedPasses DEF Proposed
    <3> QED BY <3>1, <3>2, <3>3 DEF ScriptNotRefused
  <2> QED BY <2>1, <2>2, <2>3, <2>4
<1>3. CASE TriageRaises \/ Finish \/ Close \/ UNCHANGED vars
  BY <1>3 DEF TriageRaises, Raise, Finish, Close, vars, governed, Affordable, ScriptNotRefused
<1> QED BY <1>1, <1>2, <1>3 DEF Next, Step, Ended

\* Whatever the stages, the budget and the outcomes of the tools: the script, which
\* remembers names and signatures, never asks what the hooks refuse, which know the
\* signals, the schemas, the queries and the budget.
THEOREM ScriptPasses == Spec => []ScriptNotRefused
<1>1. Init => Affordable /\ ScriptNotRefused
  BY DEF Init, Affordable, ScriptNotRefused
<1>2. Inv /\ Affordable /\ ScriptNotRefused /\ [Next]_vars => Affordable' /\ ScriptNotRefused'
  BY ScriptStep
<1> QED BY <1>1, <1>2, SpecInv, PTL DEF Spec

=============================================================================
