---------------------------- MODULE ReportPipeline ----------------------------
(***************************************************************************)
(* From evidence to a published report.  A report model writes a report,   *)
(* the validator finds issues, the model is asked again while an issue is  *)
(* retryable, the evidence contract is applied to the report that is left, *)
(* the validator runs once more and the orchestrator publishes or raises.  *)
(*                                                                         *)
(* A context maps the evidence codes of the run to records.  A claim cites *)
(* codes, which need not exist.  Both models copy the ids and the validator *)
(* version from the code, so R1 and R12 have nothing to find.              *)
(***************************************************************************)
EXTENDS EvidenceContract, Integers, Sequences, FiniteSetsExt

CONSTANTS
  Contexts,    \* what an investigation can hand over
  Drafts,      \* what the language model can answer in each context; nothing
               \* where the rules are the model
  MaxRetries,  \* correction rounds
  NoLoss,      \* a claim without an estimate
  NoReport

Stages == {"CHANNEL_SUCCEEDED", "PAYMENT_OPTIONS_SHOWN", "PAYMENT_METHOD_SELECTED",
           "PAYMENT_INITIATED", "OTHER", "none"}

Records == [type : EvidenceTypes, stage : Stages, loss : Nat]

Claims == [label : Labels \cup {"BAD_LABEL"}, codes : SUBSET Nat, repeated : BOOLEAN,
           confidence : {"LOW", "MEDIUM", "HIGH"}, loss : Int \cup {NoLoss},
           support : Verdicts]

Reports == [status : {"SUCCEEDED", "NEEDS_DATA"}, causes : Seq(Claims), total : Int,
            explained : Int, unexplained : Int, missing : BOOLEAN]

\* The tools estimate a loss per stage and per value of a dimension.
Estimated == {"FUNNEL_STAGE_DEGRADATION", "DIMENSION_CONTRIBUTION"}

IsContext(c) ==
  /\ DOMAIN c = {"evidence", "missing"}
  /\ DOMAIN c.evidence \subseteq Nat /\ IsFiniteSet(DOMAIN c.evidence)
  /\ \A e \in DOMAIN c.evidence :
       /\ c.evidence[e] \in Records
       /\ c.evidence[e].loss # 0 => c.evidence[e].type \in Estimated
  /\ c.missing \in BOOLEAN

ASSUME PipelineAssumption ==
  /\ \A c \in Contexts : IsContext(c)
  /\ Drafts \in [Contexts -> SUBSET Reports]
  /\ MaxRetries \in Nat
  /\ NoLoss \notin Int
  /\ NoReport \notin Reports

VARIABLES
  ctx,      \* the evidence and the data gaps of the run
  pc,       \* "generate", "contract", "published" or "blocked"
  attempt,  \* correction rounds used
  draft,    \* the model's last answer
  report,   \* the report the orchestrator returns
  issues    \* the validation issues returned with it

vars == <<ctx, pc, attempt, draft, report, issues>>

-----------------------------------------------------------------------------
(* Evidence.                                                               *)

CodesOf(c, type) == {e \in DOMAIN c.evidence : c.evidence[e].type = type}

TypesIn(c) == {c.evidence[e].type : e \in DOMAIN c.evidence}

Valid(claim, c) == claim.codes \cap DOMAIN c.evidence

CitedTypes(claim, c) == {c.evidence[e].type : e \in Valid(claim, c)}

ResolveSupportStatus(claim, c) == ClassifySupport(claim.label, CitedTypes(claim, c))

LossIn(c, codes) ==
  SumFunctionOnSet([e \in DOMAIN c.evidence |-> c.evidence[e].loss], codes)

LossOf(claim) == IF claim.loss = NoLoss THEN 0 ELSE claim.loss

Losses(causes) == [i \in DOMAIN causes |-> LossOf(causes[i])]

Smaller(a, b) == IF a < b THEN a ELSE b
Larger(a, b)  == IF a < b THEN b ELSE a

-----------------------------------------------------------------------------
(* The rule-based model.                                                   *)

FrictionStages == <<"PAYMENT_OPTIONS_SHOWN", "PAYMENT_METHOD_SELECTED", "PAYMENT_INITIATED">>

DegradedAt(c, stage) ==
  {e \in CodesOf(c, "FUNNEL_STAGE_DEGRADATION") : c.evidence[e].stage = stage}

StageCodes(c, stages) == UNION {DegradedAt(c, stages[i]) : i \in DOMAIN stages}

\* The first degraded stage of the family carries the loss; there is one
\* record per stage.
LostAtStages(c, stages) ==
  LET hit == {i \in DOMAIN stages : DegradedAt(c, stages[i]) # {}} IN
  IF hit = {} THEN 0
  ELSE LET first == Min(hit)
           e == Min(DegradedAt(c, stages[first])) IN c.evidence[e].loss

\* A fault: the larger of two overlapping estimates.
OrLarger(a, b) == Larger(a, b)

Or(a, b) == IF a = 0 THEN b ELSE a

\* A fault: the support is read off the whole run and not off the citations.
ClaimFromRun(c, label, codes, confidence, loss) ==
  [label |-> label, codes |-> codes, repeated |-> FALSE, confidence |-> confidence,
   loss |-> loss, support |-> ClassifySupport(label, TypesIn(c))]

Claim(c, label, codes, confidence, loss) ==
  LET claim == [label |-> label, codes |-> codes, repeated |-> FALSE,
                confidence |-> confidence, loss |-> loss, support |-> "UNKNOWN"]
  IN  [claim EXCEPT !.support = ResolveSupportStatus(claim, c)]

TotalLost(c) == LossIn(c, CodesOf(c, "FUNNEL_STAGE_DEGRADATION"))

Capped(loss, total) == IF total > 0 THEN Smaller(loss, total) ELSE loss

TimeoutClaim(c) ==
  LET timeouts == CodesOf(c, "CHANNEL_TIMEOUT")
      dims     == CodesOf(c, "DIMENSION_CONTRIBUTION")
      lost     == Or(LostAtStages(c, <<"CHANNEL_SUCCEEDED">>), LossIn(c, timeouts \cup dims))
  IN  Claim(c, "CHANNEL_TIMEOUT", timeouts \cup StageCodes(c, <<"CHANNEL_SUCCEEDED">>) \cup dims,
            "HIGH", Capped(lost, TotalLost(c)))

BenefitClaim(c) ==
  LET gaps == CodesOf(c, "BENEFIT_GAP_FRICTION")
      lost == Or(LostAtStages(c, FrictionStages),
                 LossIn(c, gaps \cup CodesOf(c, "CANCEL_REORDER_FLOW")))
  IN  Claim(c, "BENEFIT_SELECTION_FRICTION", gaps \cup StageCodes(c, FrictionStages),
            "MEDIUM", Capped(lost, TotalLost(c)))

UnknownClaim(c) ==
  Claim(c, "UNKNOWN", CodesOf(c, "FUNNEL_STAGE_DEGRADATION")
          \cup CodesOf(c, "DIMENSION_CONTRIBUTION") \cup CodesOf(c, "ERROR_CODE_CONCENTRATION"),
        "LOW", TotalLost(c))

NormalClaim(c) ==
  Claim(c, "NORMAL_PAYMENT_FAILURE", CodesOf(c, "FUNNEL_BASELINE_STABLE"), "LOW", 0)

RuleCauses(c) ==
  LET faults == (IF "CHANNEL_TIMEOUT" \in TypesIn(c) THEN <<TimeoutClaim(c)>> ELSE <<>>)
             \o (IF "BENEFIT_GAP_FRICTION" \in TypesIn(c) THEN <<BenefitClaim(c)>> ELSE <<>>)
  IN  CASE faults # <<>> -> faults
        [] faults = <<>> /\ TypesIn(c) \cap {"FUNNEL_STAGE_DEGRADATION", "DIMENSION_CONTRIBUTION"} # {}
             -> <<UnknownClaim(c)>>
        [] OTHER -> <<NormalClaim(c)>>

ClaimedLoss(causes) == SumFunction(Losses(causes))

RuleReport(c) ==
  LET total     == TotalLost(c)
      causes    == IF c.missing THEN <<>> ELSE RuleCauses(c)
      explained == Smaller(ClaimedLoss(causes), total)
  IN  [status |-> IF c.missing THEN "NEEDS_DATA" ELSE "SUCCEEDED", causes |-> causes,
       total |-> total, explained |-> explained, unexplained |-> total - explained,
       missing |-> c.missing]

-----------------------------------------------------------------------------
(* The validator.                                                          *)

Explainable(r, c) ==
  SumFunctionOnSet(Losses(r.causes),
                   {i \in DOMAIN r.causes : ResolveSupportStatus(r.causes[i], c) # "UNKNOWN"})

RoundingTolerance == 2

BreaksReportRule(rule, r, c) ==
  CASE rule = "R5"  -> r.total < 0 \/ r.explained < 0 \/ r.unexplained < 0
    [] rule = "R6"  -> r.total - (r.explained + r.unexplained)
                         \notin -RoundingTolerance .. RoundingTolerance
    [] rule = "R9"  -> r.status = "NEEDS_DATA" /\ ~r.missing
    [] rule = "R15" -> r.explained > Larger(Explainable(r, c), 0)

HasPositiveEvidence(c) == ~(TypesIn(c) \subseteq Negative)

BreaksClaimRule(rule, claim, r, c) ==
  CASE rule = "R2"  -> ~(claim.codes \subseteq DOMAIN c.evidence)
    [] rule = "R3"  -> Valid(claim, c) = {} /\ claim.support # "UNKNOWN"
    [] rule = "R4"  -> claim.label \notin Labels
    [] rule = "R5"  -> LossOf(claim) < 0
    [] rule = "R7"  -> claim.loss # NoLoss /\ claim.loss > r.total
    [] rule = "R8"  -> /\ CitedTypes(claim, c) # {}
                       /\ ResolveSupportStatus(claim, c) = "UNKNOWN"
    [] rule = "R10" -> /\ claim.confidence = "HIGH"
                       /\ claim.label = "NORMAL_PAYMENT_FAILURE" \/ ~HasPositiveEvidence(c)
    [] rule = "R11" -> /\ claim.label = "BENEFIT_SELECTION_FRICTION"
                       /\ CitedTypes(claim, c) = {"BENEFIT_GAP_FRICTION"}
    [] rule = "R13" -> claim.repeated
    [] rule = "R14" -> /\ ResolveSupportStatus(claim, c) = "UNKNOWN"
                       /\ claim.support # "UNKNOWN"

ReportRules == {"R5", "R6", "R9", "R15"}
ClaimRules  == {"R2", "R3", "R4", "R5", "R7", "R8", "R10", "R11", "R13", "R14"}

\* R11 is a warning; under NEEDS_DATA a claim without evidence is final.
CanRetry(rule, r) ==
  /\ rule # "R11"
  /\ rule = "R3" => r.status = "SUCCEEDED"

\* An issue names its rule and its claim, 0 for the report as a whole.
Validate(r, c) ==
  {[rule |-> rule, claim |-> 0, retryable |-> TRUE] :
     rule \in {x \in ReportRules : BreaksReportRule(x, r, c)}}
  \cup
  {[rule |-> p[1], claim |-> p[2], retryable |-> CanRetry(p[1], r)] :
     p \in {x \in ClaimRules \X DOMAIN r.causes :
             BreaksClaimRule(x[1], r.causes[x[2]], r, c)}}

-----------------------------------------------------------------------------
(* The orchestrator.                                                       *)

Resolved(r, c) ==
  [i \in DOMAIN r.causes |->
     [r.causes[i] EXCEPT !.support = ResolveSupportStatus(r.causes[i], c)]]

\* A fault: what is downgraded stays in the explained loss.
DowngradeOnly(r, c) == [r EXCEPT !.causes = Resolved(r, c)]

\* A report without claims is left as it is.
ApplyEvidenceContract(r, c) ==
  LET explained == Smaller(Explainable(r, c), r.total) IN
  IF r.causes = <<>> THEN r
  ELSE [r EXCEPT !.causes = Resolved(r, c), !.explained = explained,
                 !.unexplained = Larger(0, r.total - explained)]

\* A fault: only a claim that loses its standing is noted.
NotesOfUnknown(r, c) ==
  {[rule |-> "R14", claim |-> i, retryable |-> FALSE] :
     i \in {j \in DOMAIN r.causes : /\ r.causes[j].support # "UNKNOWN"
                                   /\ ResolveSupportStatus(r.causes[j], c) = "UNKNOWN"}}

ContractNotes(r, c) ==
  {[rule |-> "R14", claim |-> i, retryable |-> FALSE] :
     i \in {j \in DOMAIN r.causes : r.causes[j].support # ResolveSupportStatus(r.causes[j], c)}}

\* A language model may answer anything; when the call or the parsing fails
\* the rules answer.
Answers == Drafts[ctx] \cup {RuleReport(ctx)}

Init ==
  /\ ctx \in Contexts
  /\ pc = "generate"
  /\ attempt = 0
  /\ draft = NoReport /\ report = NoReport /\ issues = {}

NeedsCorrection(r) == \E i \in Validate(r, ctx) : i.retryable

\* A fault: one round too many.
CorrectOnceMore ==
  /\ pc = "generate" /\ attempt <= MaxRetries
  /\ \E r \in Answers : NeedsCorrection(r)
  /\ attempt' = attempt + 1
  /\ UNCHANGED <<ctx, pc, draft, report, issues>>

\* The model is asked again.  Of its answer only the feedback is left, which
\* the next answer may ignore.
Correct ==
  /\ pc = "generate" /\ attempt < MaxRetries
  /\ \E r \in Answers : NeedsCorrection(r)
  /\ attempt' = attempt + 1
  /\ UNCHANGED <<ctx, pc, draft, report, issues>>

Accept ==
  /\ pc = "generate"
  /\ \E r \in Answers :
       /\ NeedsCorrection(r) => attempt = MaxRetries
       /\ draft' = r
  /\ pc' = "contract"
  /\ UNCHANGED <<ctx, attempt, report, issues>>

Blocking(i) == ~i.retryable /\ i.rule = "R3"

Publish ==
  /\ pc = "contract"
  /\ report' = ApplyEvidenceContract(draft, ctx)
  /\ issues' = Validate(report', ctx) \cup ContractNotes(draft, ctx)
  /\ pc' = IF \E i \in issues' : Blocking(i) THEN "blocked" ELSE "published"
  /\ UNCHANGED <<ctx, attempt, draft>>

Next == Correct \/ Accept \/ Publish

Spec == Init /\ [][Next]_vars

-----------------------------------------------------------------------------
(* Properties.                                                             *)

Issues == [rule : ReportRules \cup ClaimRules, claim : Nat, retryable : BOOLEAN]

\* Every variable holds what the code's locals hold.
TypeOK ==
  /\ IsContext(ctx)
  /\ pc \in {"generate", "contract", "published", "blocked"}
  /\ attempt \in 0 .. MaxRetries
  /\ draft \in Reports \cup {NoReport} /\ report \in Reports \cup {NoReport}
  /\ issues \subseteq Issues

Done == pc \in {"published", "blocked"}

\* Whatever the model answered and however often it was corrected, a claim of
\* the final report that names a fault and is not UNKNOWN rests on a record of
\* this very run that is not negative, and on the fault's own type if it has one.
SupportedIsBacked ==
  Done => \A i \in DOMAIN report.causes :
    LET claim == report.causes[i] IN
    claim.label \in Faults /\ claim.support # "UNKNOWN" =>
      /\ ~(CitedTypes(claim, ctx) \subseteq Negative)
      /\ OwnType(claim.label) \subseteq CitedTypes(claim, ctx)

\* The loss statement of a report with claims balances, and nothing is
\* explained that no claim with a standing accounts for.
ClaimsBalance ==
  pc = "published" /\ report.causes # <<>> =>
    /\ report.explained + report.unexplained = report.total
    /\ report.explained <=
         SumFunctionOnSet(Losses(report.causes),
                          {i \in DOMAIN report.causes : report.causes[i].support # "UNKNOWN"})

\* The contract changes nothing of a claim but its support, and every such
\* change is among the issues of the trace.
NothingSilentlyAltered ==
  Done => \A i \in DOMAIN draft.causes :
    /\ report.causes[i] = [draft.causes[i] EXCEPT !.support = report.causes[i].support]
    /\ report.causes[i].support # draft.causes[i].support =>
         \E issue \in issues : issue.rule = "R14" /\ issue.claim = i

\* The rules write what the contract leaves alone, losses included, and their
\* reports are never blocked: the fallback can always publish.
RulesKeepContract ==
  Done /\ draft = RuleReport(ctx) => pc = "published" /\ report = draft

\* Where the funnel locates the channel's loss, the rules charge no lost intent
\* to two claims.  (Where it does not, the timeout claim takes the losses of the
\* breakdown, which contain those of the friction stages.)
ChargedOnce ==
  Done /\ draft = RuleReport(ctx) /\ LostAtStages(ctx, <<"CHANNEL_SUCCEEDED">>) # 0
    => ClaimedLoss(report.causes) <= report.total

=============================================================================
