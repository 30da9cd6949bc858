------------------------ MODULE ReportPipelineProofs ------------------------
(***************************************************************************)
(* What the report pipeline guarantees for every context, every answer of  *)
(* a language model and every number of corrections.                       *)
(***************************************************************************)
EXTENDS ReportPipeline, SequenceTheorems, SumTheorems, TLAPS

Rank(v) == CASE v = "UNKNOWN" -> 0 [] v = "PARTIAL" -> 1 [] v = "SUPPORTED" -> 2

\* No fault is one of the labels the contract treats apart.
LEMMA FaultNames ==
  \A label \in Faults : /\ label # "UNKNOWN"
                        /\ label # "DATA_QUALITY_ISSUE"
                        /\ label # "NORMAL_PAYMENT_FAILURE"
BY DEF Faults

\* A fault is judged by its own evidence.
LEMMA FaultClassified ==
  ASSUME NEW label \in Faults, NEW types
  PROVE  ClassifySupport(label, types) = FaultVerdict(label, types)
BY FaultNames DEF ClassifySupport

\* More evidence never weakens a claim that names a fault: an investigation
\* that goes on cannot take back what it has established.
THEOREM EvidenceOnlyStrengthens ==
  ASSUME NEW label \in Faults, NEW few, NEW many, few \subseteq many
  PROVE  Rank(ClassifySupport(label, few)) <= Rank(ClassifySupport(label, many))
<1>1. /\ FaultVerdict(label, few) \in Verdicts
      /\ FaultVerdict(label, many) \in Verdicts
  BY DEF FaultVerdict, Verdicts
<1>2. FaultVerdict(label, many) = "UNKNOWN" => FaultVerdict(label, few) = "UNKNOWN"
  BY DEF FaultVerdict
<1>3. FaultVerdict(label, few) = "SUPPORTED" => FaultVerdict(label, many) = "SUPPORTED"
  BY DEF FaultVerdict, Specific
<1>4. QED  BY <1>1, <1>2, <1>3, FaultClassified DEF Rank, Verdicts

\* A fault verdict other than UNKNOWN has what SupportedIsBacked asks for.
LEMMA VerdictBacked ==
  ASSUME NEW label \in Faults, NEW types, ClassifySupport(label, types) # "UNKNOWN"
  PROVE  /\ ~(types \subseteq Negative)
         /\ OwnType(label) \subseteq types
<1>1. FaultVerdict(label, types) # "UNKNOWN"  BY FaultClassified
<1>2. QED  BY <1>1 DEF FaultVerdict, OwnType

-----------------------------------------------------------------------------
(* The shape of what the models answer.                                    *)

Fields == {"label", "codes", "repeated", "confidence", "loss", "support"}

IsClaim(claim) == claim = [label |-> claim.label, codes |-> claim.codes,
                           repeated |-> claim.repeated, confidence |-> claim.confidence,
                           loss |-> claim.loss, support |-> claim.support]

IsReport(r) ==
  /\ r = [status |-> r.status, causes |-> r.causes, total |-> r.total,
          explained |-> r.explained, unexplained |-> r.unexplained, missing |-> r.missing]
  /\ \A i \in DOMAIN r.causes : IsClaim(r.causes[i])

\* A claim the rules draft is a claim.
LEMMA ClaimShape ==
  ASSUME NEW c, NEW label, NEW codes, NEW confidence, NEW loss
  PROVE  IsClaim(Claim(c, label, codes, confidence, loss))
<1> DEFINE base == [label |-> label, codes |-> codes, repeated |-> FALSE,
                    confidence |-> confidence, loss |-> loss, support |-> "UNKNOWN"]
           support == ResolveSupportStatus(base, c)
<1>1. Claim(c, label, codes, confidence, loss) = [base EXCEPT !.support = support]
  BY DEF Claim
<1> HIDE DEF support
<1>2. QED  BY <1>1 DEF IsClaim

\* Two claims, joined.
LEMMA ConcatPair ==
  ASSUME NEW x, NEW y PROVE <<x>> \o <<y>> = <<x, y>>
<1> DEFINE S == {x, y}
           u == <<x>>
           v == <<y>>
           w == u \o v
<1>1. /\ u \in Seq(S) /\ Len(u) = 1 /\ u[1] = x
      /\ v \in Seq(S) /\ Len(v) = 1 /\ v[1] = y
  OBVIOUS
<1> HIDE DEF S, u, v
<1>2. w \in Seq(S) /\ Len(w) = 2  BY <1>1, ConcatProperties
<1>3. \A i \in 1 .. (Len(u) + Len(v)) : w[i] = IF i <= Len(u) THEN u[i] ELSE v[i - Len(u)]
  BY <1>1, ConcatProperties
<1> HIDE DEF w
<1>4. w[1] = x /\ w[2] = y  BY <1>1, <1>3
<1>5. w = <<x, y>>  BY <1>2, <1>4
<1>6. QED  BY <1>5 DEF u, v, w

\* Which claims the rules make: one per fault seen, or else a single one.
LEMMA RuleCausesAre ==
  ASSUME NEW c
  PROVE  LET f == "CHANNEL_TIMEOUT" \in TypesIn(c)
             g == "BENEFIT_GAP_FRICTION" \in TypesIn(c)
         IN  /\ f /\ g => RuleCauses(c) = <<TimeoutClaim(c), BenefitClaim(c)>>
             /\ f /\ ~g => RuleCauses(c) = <<TimeoutClaim(c)>>
             /\ ~f /\ g => RuleCauses(c) = <<BenefitClaim(c)>>
             /\ ~f /\ ~g => RuleCauses(c) \in {<<UnknownClaim(c)>>, <<NormalClaim(c)>>}
<1> DEFINE f == "CHANNEL_TIMEOUT" \in TypesIn(c)
           g == "BENEFIT_GAP_FRICTION" \in TypesIn(c)
           faults == (IF f THEN <<TimeoutClaim(c)>> ELSE <<>>)
                     \o (IF g THEN <<BenefitClaim(c)>> ELSE <<>>)
<1>1. RuleCauses(c) = IF faults # <<>> THEN faults
                      ELSE IF (TypesIn(c) \cap {"FUNNEL_STAGE_DEGRADATION", "DIMENSION_CONTRIBUTION"}) # {}
                      THEN <<UnknownClaim(c)>> ELSE <<NormalClaim(c)>>
  BY DEF RuleCauses
<1>2. CASE ~f /\ ~g
  BY <1>1, <1>2
<1>3. CASE f /\ ~g
  <2>1. faults = <<TimeoutClaim(c)>>  BY <1>3
  <2>2. QED  BY <1>1, <1>3, <2>1
<1>4. CASE ~f /\ g
  <2>1. faults = <<BenefitClaim(c)>>  BY <1>4
  <2>2. QED  BY <1>1, <1>4, <2>1
<1>5. CASE f /\ g
  <2>1. faults = <<TimeoutClaim(c), BenefitClaim(c)>>  BY <1>5, ConcatPair
  <2>2. faults # <<>>  BY <2>1
  <2>3. QED  BY <1>1, <1>5, <2>1, <2>2
<1>6. QED  BY <1>2, <1>3, <1>4, <1>5

\* Where nothing is found, the claim is that nothing is wrong.
LEMMA NothingFoundIsNormal ==
  ASSUME NEW c,
         TypesIn(c) \cap {"CHANNEL_TIMEOUT", "BENEFIT_GAP_FRICTION",
                         "FUNNEL_STAGE_DEGRADATION", "DIMENSION_CONTRIBUTION"} = {}
  PROVE  RuleCauses(c) = <<NormalClaim(c)>>
<1>1. /\ "CHANNEL_TIMEOUT" \notin TypesIn(c) /\ "BENEFIT_GAP_FRICTION" \notin TypesIn(c)
      /\ TypesIn(c) \cap {"FUNNEL_STAGE_DEGRADATION", "DIMENSION_CONTRIBUTION"} = {}
  OBVIOUS
<1>2. <<>> \o <<>> = <<>>
  OBVIOUS
<1> QED BY <1>1, <1>2 DEF RuleCauses

\* Every cause of the rules is a claim.
LEMMA RuleCausesShape ==
  ASSUME NEW c, NEW i \in DOMAIN RuleCauses(c)
  PROVE  IsClaim(RuleCauses(c)[i])
<1>1. /\ IsClaim(TimeoutClaim(c)) /\ IsClaim(BenefitClaim(c))
      /\ IsClaim(UnknownClaim(c)) /\ IsClaim(NormalClaim(c))
  BY ClaimShape DEF TimeoutClaim, BenefitClaim, UnknownClaim, NormalClaim
<1>2. PICK x, y \in {TimeoutClaim(c), BenefitClaim(c), UnknownClaim(c), NormalClaim(c)} :
        RuleCauses(c) \in {<<x>>, <<x, y>>}
  BY RuleCausesAre
<1>3. IsClaim(x) /\ IsClaim(y)  BY <1>1
<1> HIDE DEF IsClaim
<1>4. CASE RuleCauses(c) = <<x>>
  <2>1. i = 1  BY <1>4
  <2>2. QED  BY <2>1, <1>3, <1>4
<1>5. CASE RuleCauses(c) = <<x, y>>
  <2>1. i = 1 \/ i = 2  BY <1>5
  <2>2. QED  BY <2>1, <1>3, <1>5
<1>6. QED  BY <1>2, <1>4, <1>5

\* The rules give a report, whatever the context.
LEMMA RuleReportShape ==
  ASSUME NEW c PROVE IsReport(RuleReport(c))
<1> DEFINE causes == IF c.missing THEN <<>> ELSE RuleCauses(c)
<1>1. RuleReport(c).causes = causes  BY DEF RuleReport
<1>2. \A i \in DOMAIN causes : IsClaim(causes[i])
  BY RuleCausesShape
<1>3. QED  BY <1>1, <1>2 DEF IsReport, RuleReport

\* So does every answer, the model's included.
LEMMA AnswerShape ==
  ASSUME ctx \in Contexts, NEW r \in Answers PROVE IsReport(r)
<1>1. CASE r = RuleReport(ctx)  BY <1>1, RuleReportShape
<1>2. CASE r \in Drafts[ctx]
  <2>1. r \in Reports  BY <1>2, PipelineAssumption
  <2>2. \A i \in DOMAIN r.causes : r.causes[i] \in Claims
    BY <2>1 DEF Reports
  <2>3. QED  BY <2>1, <2>2 DEF IsReport, IsClaim, Reports, Claims
<1>3. QED  BY <1>1, <1>2 DEF Answers

-----------------------------------------------------------------------------
(* What Publish makes of a draft.                                          *)

\* Claim i of the published report, and the note about it.
PublishedClaim(i) ==
  /\ report.causes[i] = [draft.causes[i] EXCEPT
                           !.support = ResolveSupportStatus(draft.causes[i], ctx)]
  /\ ResolveSupportStatus(draft.causes[i], ctx) # draft.causes[i].support =>
       [rule |-> "R14", claim |-> i, retryable |-> FALSE] \in issues

PublishInv ==
  /\ ctx \in Contexts
  /\ pc \in {"contract", "published", "blocked"} => IsReport(draft)
  /\ Done => /\ DOMAIN report.causes = DOMAIN draft.causes
             /\ \A i \in DOMAIN draft.causes : PublishedClaim(i)

\* Nothing is published at the start.
LEMMA PublishInit == Init => PublishInv
BY DEF Init, PublishInv, Done

\* The contract resolves each cause and leaves their order alone.
LEMMA ContractCauses ==
  ASSUME NEW r, NEW c, IsReport(r)
  PROVE  ApplyEvidenceContract(r, c).causes = Resolved(r, c)
<1>1. CASE r.causes = <<>>
  <2>1. DOMAIN r.causes = {}  BY <1>1
  <2>2. Resolved(r, c) = <<>>  BY <2>1 DEF Resolved
  <2>3. QED  BY <1>1, <2>2 DEF ApplyEvidenceContract
<1>2. CASE r.causes # <<>>
  BY <1>2 DEF ApplyEvidenceContract, IsReport
<1>3. QED  BY <1>1, <1>2

\* Every step keeps it.
LEMMA PublishStep == PublishInv /\ [Next]_vars => PublishInv'
<1> SUFFICES ASSUME PublishInv, [Next]_vars PROVE PublishInv'
  OBVIOUS
<1>1. CASE UNCHANGED vars
  BY <1>1 DEF vars, PublishInv, Done, PublishedClaim, IsReport, IsClaim
<1>2. CASE Correct
  BY <1>2 DEF Correct, PublishInv, Done
<1>3. CASE Accept
  <2>1. PICK r \in Answers : draft' = r  BY <1>3 DEF Accept
  <2>2. IsReport(draft')  BY <2>1, AnswerShape DEF PublishInv
  <2>3. pc' = "contract"  BY <1>3 DEF Accept
  <2>4. QED  BY <1>3, <2>2, <2>3 DEF Accept, PublishInv, Done
<1>4. CASE Publish
  <2>1. IsReport(draft) /\ draft' = draft /\ ctx' = ctx  BY <1>4 DEF Publish, PublishInv
  <2>2. report'.causes = Resolved(draft, ctx)
    BY <1>4, <2>1, ContractCauses DEF Publish
  <2>3. DOMAIN report'.causes = DOMAIN draft.causes  BY <2>2 DEF Resolved
  <2>4. ASSUME NEW i \in DOMAIN draft.causes PROVE PublishedClaim(i)'
    <3>1. report'.causes[i] = [draft.causes[i] EXCEPT
                                 !.support = ResolveSupportStatus(draft.causes[i], ctx)]
      BY <2>2 DEF Resolved
    <3>2. ResolveSupportStatus(draft.causes[i], ctx) # draft.causes[i].support =>
            [rule |-> "R14", claim |-> i, retryable |-> FALSE] \in ContractNotes(draft, ctx)
      BY DEF ContractNotes
    <3>3. ContractNotes(draft, ctx) \subseteq issues'  BY <1>4 DEF Publish
    <3>4. QED  BY <2>1, <3>1, <3>2, <3>3 DEF PublishedClaim, ResolveSupportStatus, CitedTypes, Valid
  <2>5. IsReport(draft)'  BY <2>1 DEF IsReport, IsClaim
  <2>6. QED  BY <2>1, <2>3, <2>4, <2>5 DEF PublishInv
<1>5. QED  BY <1>1, <1>2, <1>3, <1>4 DEF Next

\* A claim that the contract let stand cites what its label needs: it keeps
\* the label and the codes it was classified by.
LEMMA PublishedBacked == PublishInv => SupportedIsBacked
<1> SUFFICES ASSUME PublishInv, Done, NEW i \in DOMAIN report.causes,
                    report.causes[i].label \in Faults, report.causes[i].support # "UNKNOWN"
             PROVE  /\ ~(CitedTypes(report.causes[i], ctx) \subseteq Negative)
                    /\ OwnType(report.causes[i].label) \subseteq CitedTypes(report.causes[i], ctx)
  BY DEF SupportedIsBacked
<1> DEFINE claim == draft.causes[i]
           final == report.causes[i]
<1>1. i \in DOMAIN draft.causes /\ PublishedClaim(i)  BY DEF PublishInv
<1>2. IsClaim(claim)  BY <1>1 DEF PublishInv, IsReport, Done
<1>3. /\ final.label = claim.label /\ final.codes = claim.codes
      /\ final.support = ResolveSupportStatus(claim, ctx)
  BY <1>1, <1>2 DEF PublishedClaim, IsClaim
<1>4. CitedTypes(final, ctx) = CitedTypes(claim, ctx)  BY <1>3 DEF CitedTypes, Valid
<1>5. ClassifySupport(claim.label, CitedTypes(claim, ctx)) # "UNKNOWN"
  BY <1>3 DEF ResolveSupportStatus
<1>6. QED  BY <1>3, <1>4, <1>5, VerdictBacked

\* What was published differs from the draft where an issue says so.
LEMMA PublishedNoted == PublishInv => NothingSilentlyAltered
<1> SUFFICES ASSUME PublishInv, Done, NEW i \in DOMAIN draft.causes
             PROVE  /\ report.causes[i] = [draft.causes[i] EXCEPT !.support = report.causes[i].support]
                    /\ report.causes[i].support # draft.causes[i].support =>
                         \E issue \in issues : issue.rule = "R14" /\ issue.claim = i
  BY DEF NothingSilentlyAltered
<1>1. PublishedClaim(i) /\ IsClaim(draft.causes[i])  BY DEF PublishInv, IsReport, Done
<1>2. report.causes[i].support = ResolveSupportStatus(draft.causes[i], ctx)
  BY <1>1 DEF PublishedClaim, IsClaim
<1>3. QED  BY <1>1, <1>2 DEF PublishedClaim

\* Every fault a report asserts is backed by evidence of the run, whatever the
\* language model answered and however often it was asked.
THEOREM FaultsBacked == Spec => []SupportedIsBacked
BY PublishInit, PublishStep, PublishedBacked, PTL DEF Spec

\* The contract alters nothing but supports, and notes every alteration.
THEOREM AlterationsNoted == Spec => []NothingSilentlyAltered
BY PublishInit, PublishStep, PublishedNoted, PTL DEF Spec

-----------------------------------------------------------------------------
(* What the rules compute from a context.                                  *)

LossesOf(c) == [e \in DOMAIN c.evidence |-> c.evidence[e].loss]

\* Losses are counts, and the codes of a type are codes of the context.
LEMMA ContextCounts ==
  ASSUME NEW c, IsContext(c)
  PROVE  /\ IsFiniteSet(DOMAIN c.evidence) /\ DOMAIN c.evidence \subseteq Nat
         /\ \A e \in DOMAIN c.evidence : LossesOf(c)[e] \in Nat /\ LossesOf(c)[e] \in Int
         /\ \A t : CodesOf(c, t) \in SUBSET DOMAIN c.evidence
         /\ \A s : DegradedAt(c, s) \in SUBSET CodesOf(c, "FUNNEL_STAGE_DEGRADATION")
<1>1. \A e \in DOMAIN c.evidence : c.evidence[e].loss \in Nat
  BY DEF IsContext, Records
<1> QED BY <1>1 DEF IsContext, LossesOf, CodesOf, DegradedAt

\* The loss of any records is a count, and that of fewer records no larger.
LEMMA LossInNat ==
  ASSUME NEW c, IsContext(c), NEW codes \in SUBSET DOMAIN c.evidence
  PROVE  /\ LossIn(c, codes) \in Nat
         /\ LossIn(c, codes) = SumFunctionOnSet(LossesOf(c), codes)
         /\ \A some \in SUBSET codes : LossIn(c, some) <= LossIn(c, codes)
<1>1. IsFiniteSet(codes) /\ \A e \in codes : LossesOf(c)[e] \in Nat
  BY ContextCounts, FS_Subset
<1>2. SumFunctionOnSet(LossesOf(c), codes) \in Nat
  BY <1>1, SumNat
<1>3. \A some \in SUBSET codes :
        SumFunctionOnSet(LossesOf(c), some) <= SumFunctionOnSet(LossesOf(c), codes)
  BY <1>1, SumPart
<1> QED BY <1>2, <1>3 DEF LossIn, LossesOf

\* The least element of a set of naturals is in it.
LEMMA MinIn ==
  ASSUME NEW S \in SUBSET Nat, S # {} PROVE Min(S) \in S
<1>1. \E n \in S : \A m \in S : n =< m
  BY LeastNatural
<1> QED BY <1>1 DEF Min

\* What is lost at the stages of a family is a count, and that of a record of
\* one of the stages unless it is zero.
LEMMA LostAtRecord ==
  ASSUME NEW c, IsContext(c), NEW stages, DOMAIN stages \subseteq Nat
  PROVE  /\ LostAtStages(c, stages) \in Nat
         /\ LostAtStages(c, stages) # 0 =>
              \E n \in DOMAIN stages : \E e \in DegradedAt(c, stages[n]) :
                LostAtStages(c, stages) = c.evidence[e].loss
<1> DEFINE hit == {n \in DOMAIN stages : DegradedAt(c, stages[n]) # {}}
<1>1. hit \in SUBSET Nat
  OBVIOUS
<1>2. CASE hit = {}
  BY <1>2 DEF LostAtStages
<1>3. CASE hit # {}
  <2> DEFINE first == Min(hit)
             e == Min(DegradedAt(c, stages[first]))
  <2>1. first \in hit
    <3> HIDE DEF hit
    <3> QED BY <1>1, <1>3, MinIn
  <2>2. DegradedAt(c, stages[first]) \in SUBSET Nat
    BY ContextCounts DEF DegradedAt, CodesOf
  <2>3. e \in DegradedAt(c, stages[first])
    <3>1. DegradedAt(c, stages[first]) # {}
      BY <2>1
    <3> HIDE DEF first
    <3> QED BY <2>2, <3>1, MinIn
  <2>4. LostAtStages(c, stages) = c.evidence[e].loss
    BY <1>3 DEF LostAtStages
  <2>5. e \in DOMAIN c.evidence
    BY <2>3 DEF DegradedAt, CodesOf
  <2>6. c.evidence[e].loss \in Nat
    BY <2>5 DEF IsContext, Records
  <2>7. first \in DOMAIN stages
    BY <2>1
  <2> HIDE DEF e, first
  <2> QED BY <2>3, <2>4, <2>6, <2>7
<1> QED BY <1>2, <1>3

\* Every verdict is one of the three.
LEMMA VerdictTyped ==
  ASSUME NEW label, NEW types PROVE ClassifySupport(label, types) \in Verdicts
BY DEF ClassifySupport, FaultVerdict, Verdicts

\* A claim of the rules is a claim, with the support the contract resolves.
LEMMA ClaimTyped ==
  ASSUME NEW c, IsContext(c), NEW label \in Labels, NEW codes \in SUBSET Nat,
         NEW confidence \in {"LOW", "MEDIUM", "HIGH"}, NEW loss \in Nat
  PROVE  LET claim == Claim(c, label, codes, confidence, loss) IN
         /\ claim \in Claims
         /\ claim.label = label /\ claim.codes = codes /\ claim.loss = loss
         /\ claim.support = ResolveSupportStatus(claim, c)
<1> DEFINE base == [label |-> label, codes |-> codes, repeated |-> FALSE,
                    confidence |-> confidence, loss |-> loss, support |-> "UNKNOWN"]
           support == ResolveSupportStatus(base, c)
           claim == Claim(c, label, codes, confidence, loss)
<1>1. claim = [base EXCEPT !.support = support]
  BY DEF Claim
<1>2. support \in Verdicts
  BY VerdictTyped DEF ResolveSupportStatus
<1>3. support = ClassifySupport(label, {c.evidence[e].type : e \in codes \cap DOMAIN c.evidence})
  BY DEF ResolveSupportStatus, CitedTypes, Valid
<1> HIDE DEF support
<1>4. /\ claim.label = label /\ claim.codes = codes /\ claim.loss = loss
      /\ claim.support = support /\ claim \in Claims
  <2>1. claim = [label |-> label, codes |-> codes, repeated |-> FALSE,
                 confidence |-> confidence, loss |-> loss, support |-> support]
    BY <1>1
  <2>2. loss \in Int \cup {NoLoss}
    OBVIOUS
  <2> HIDE DEF claim
  <2>3. claim \in Claims
    BY <1>2, <2>1, <2>2 DEF Claims
  <2> QED BY <2>1, <2>3
<1> HIDE DEF claim
<1>5. ResolveSupportStatus(claim, c) = support
  BY <1>3, <1>4 DEF ResolveSupportStatus, CitedTypes, Valid
<1> QED BY <1>4, <1>5 DEF claim

\* The four claims of the rules.
LEMMA RuleClaimsTyped ==
  ASSUME NEW c, IsContext(c)
  PROVE  \A claim \in {TimeoutClaim(c), BenefitClaim(c), UnknownClaim(c), NormalClaim(c)} :
           /\ claim \in Claims /\ claim.loss \in Nat
           /\ claim.support = ResolveSupportStatus(claim, c)
<1> DEFINE stage == "FUNNEL_STAGE_DEGRADATION"
<1>1. /\ \A t : CodesOf(c, t) \in SUBSET Nat /\ CodesOf(c, t) \in SUBSET DOMAIN c.evidence
      /\ \A s : DegradedAt(c, s) \in SUBSET Nat
  BY ContextCounts
<1>2. \A stages : StageCodes(c, stages) \in SUBSET Nat
  BY <1>1 DEF StageCodes
<1>3. TotalLost(c) \in Nat
  BY <1>1, LossInNat DEF TotalLost
<1>4. DOMAIN <<"CHANNEL_SUCCEEDED">> \subseteq Nat /\ DOMAIN FrictionStages \subseteq Nat
  BY DEF FrictionStages
<1>5. /\ LostAtStages(c, <<"CHANNEL_SUCCEEDED">>) \in Nat
      /\ LostAtStages(c, FrictionStages) \in Nat
  BY <1>4, LostAtRecord
<1>6. /\ LossIn(c, CodesOf(c, "CHANNEL_TIMEOUT") \cup CodesOf(c, "DIMENSION_CONTRIBUTION")) \in Nat
      /\ LossIn(c, CodesOf(c, "BENEFIT_GAP_FRICTION") \cup CodesOf(c, "CANCEL_REORDER_FLOW")) \in Nat
  <2>1. \A s, t : CodesOf(c, s) \cup CodesOf(c, t) \in SUBSET DOMAIN c.evidence
    BY <1>1
  <2> QED BY <2>1, LossInNat
<1>7. \A m, n \in Nat : Or(m, n) \in Nat /\ Capped(m, n) \in Nat
  BY DEF Or, Capped, Smaller
<1>8. /\ "CHANNEL_TIMEOUT" \in Labels /\ "BENEFIT_SELECTION_FRICTION" \in Labels
      /\ "UNKNOWN" \in Labels /\ "NORMAL_PAYMENT_FAILURE" \in Labels
  BY DEF Labels, Faults
<1> HIDE DEF stage
<1>9. TimeoutClaim(c) \in Claims /\ TimeoutClaim(c).loss \in Nat
      /\ TimeoutClaim(c).support = ResolveSupportStatus(TimeoutClaim(c), c)
  <2> DEFINE codes == CodesOf(c, "CHANNEL_TIMEOUT") \cup StageCodes(c, <<"CHANNEL_SUCCEEDED">>)
                        \cup CodesOf(c, "DIMENSION_CONTRIBUTION")
             loss == Capped(Or(LostAtStages(c, <<"CHANNEL_SUCCEEDED">>),
                               LossIn(c, CodesOf(c, "CHANNEL_TIMEOUT")
                                           \cup CodesOf(c, "DIMENSION_CONTRIBUTION"))), TotalLost(c))
  <2>1. codes \in SUBSET Nat /\ loss \in Nat
    BY <1>1, <1>2, <1>3, <1>5, <1>6, <1>7
  <2>2. TimeoutClaim(c) = Claim(c, "CHANNEL_TIMEOUT", codes, "HIGH", loss)
    BY DEF TimeoutClaim
  <2> HIDE DEF codes, loss
  <2> QED BY <1>8, <2>1, <2>2, ClaimTyped
<1>10. BenefitClaim(c) \in Claims /\ BenefitClaim(c).loss \in Nat
       /\ BenefitClaim(c).support = ResolveSupportStatus(BenefitClaim(c), c)
  <2> DEFINE codes == CodesOf(c, "BENEFIT_GAP_FRICTION") \cup StageCodes(c, FrictionStages)
             loss == Capped(Or(LostAtStages(c, FrictionStages),
                               LossIn(c, CodesOf(c, "BENEFIT_GAP_FRICTION")
                                           \cup CodesOf(c, "CANCEL_REORDER_FLOW"))), TotalLost(c))
  <2>1. codes \in SUBSET Nat /\ loss \in Nat
    BY <1>1, <1>2, <1>3, <1>5, <1>6, <1>7
  <2>2. BenefitClaim(c) = Claim(c, "BENEFIT_SELECTION_FRICTION", codes, "MEDIUM", loss)
    BY DEF BenefitClaim
  <2> HIDE DEF codes, loss
  <2> QED BY <1>8, <2>1, <2>2, ClaimTyped
<1>11. UnknownClaim(c) \in Claims /\ UnknownClaim(c).loss \in Nat
       /\ UnknownClaim(c).support = ResolveSupportStatus(UnknownClaim(c), c)
  <2> DEFINE codes == CodesOf(c, "FUNNEL_STAGE_DEGRADATION")
                        \cup CodesOf(c, "DIMENSION_CONTRIBUTION")
                        \cup CodesOf(c, "ERROR_CODE_CONCENTRATION")
             loss == TotalLost(c)
             low == "LOW"
             unknown == "UNKNOWN"
  <2>1. /\ codes \in SUBSET Nat /\ loss \in Nat
        /\ low \in {"LOW", "MEDIUM", "HIGH"} /\ unknown \in Labels
    BY <1>1, <1>3, <1>8
  <2>2. UnknownClaim(c) = Claim(c, unknown, codes, low, loss)
    BY DEF UnknownClaim
  <2> HIDE DEF codes, loss, low, unknown
  <2> QED BY <2>1, <2>2, ClaimTyped
<1>12. NormalClaim(c) \in Claims /\ NormalClaim(c).loss \in Nat
       /\ NormalClaim(c).support = ResolveSupportStatus(NormalClaim(c), c)
  <2> DEFINE codes == CodesOf(c, "FUNNEL_BASELINE_STABLE")
             loss == 0
             low == "LOW"
  <2>1. codes \in SUBSET Nat /\ loss \in Nat /\ low \in {"LOW", "MEDIUM", "HIGH"}
    BY <1>1
  <2>2. NormalClaim(c) = Claim(c, "NORMAL_PAYMENT_FAILURE", codes, low, loss)
    BY DEF NormalClaim
  <2> HIDE DEF codes, loss, low
  <2> QED BY <1>8, <2>1, <2>2, ClaimTyped
<1> QED BY <1>9, <1>10, <1>11, <1>12

\* The rules make one claim or two, of these four.
LEMMA RuleCausesTyped ==
  ASSUME NEW c, IsContext(c)
  PROVE  /\ RuleCauses(c) \in Seq(Claims)
         /\ \A i \in DOMAIN RuleCauses(c) :
              /\ RuleCauses(c)[i].loss \in Nat
              /\ RuleCauses(c)[i].support = ResolveSupportStatus(RuleCauses(c)[i], c)
<1>1. PICK x, y \in {TimeoutClaim(c), BenefitClaim(c), UnknownClaim(c), NormalClaim(c)} :
        RuleCauses(c) \in {<<x>>, <<x, y>>}
  BY RuleCausesAre
<1>2. \A z \in {x, y} : /\ z \in Claims /\ z.loss \in Nat
                       /\ z.support = ResolveSupportStatus(z, c)
  BY RuleClaimsTyped
<1>3. \A i \in DOMAIN RuleCauses(c) : RuleCauses(c)[i] \in {x, y}
  BY <1>1
<1> QED BY <1>1, <1>2, <1>3

\* The sum of the claimed losses is an integer, also over some of the claims.
LEMMA ClaimedLossInt ==
  ASSUME NEW causes \in Seq(Claims), NEW some \in SUBSET DOMAIN causes
  PROVE  /\ IsFiniteSet(some)
         /\ \A i \in DOMAIN causes : Losses(causes)[i] \in Int
         /\ SumFunctionOnSet(Losses(causes), some) \in Int
<1>1. IsFiniteSet(DOMAIN causes)
  <2>1. DOMAIN causes = 1 .. Len(causes) /\ Len(causes) \in Nat
    OBVIOUS
  <2> QED BY <2>1, FS_Interval
<1>2. IsFiniteSet(some)
  BY <1>1, FS_Subset
<1>3. ASSUME NEW i \in DOMAIN causes PROVE Losses(causes)[i] \in Int
  <2>1. causes[i] \in Claims
    OBVIOUS
  <2>2. causes[i].loss \in Int \cup {NoLoss}
    BY <2>1 DEF Claims
  <2>3. Losses(causes)[i] = IF causes[i].loss = NoLoss THEN 0 ELSE causes[i].loss
    BY DEF Losses, LossOf
  <2> QED BY <2>2, <2>3
<1> QED BY <1>2, <1>3, SumInt

\* A report of the rules is one, for any context.
LEMMA RuleReportTyped ==
  ASSUME NEW c, IsContext(c)
  PROVE  /\ RuleReport(c) \in Reports
         /\ RuleReport(c).total = TotalLost(c)
         /\ RuleReport(c).causes = IF c.missing THEN <<>> ELSE RuleCauses(c)
         /\ RuleReport(c).status = IF c.missing THEN "NEEDS_DATA" ELSE "SUCCEEDED"
         /\ RuleReport(c).explained = Smaller(ClaimedLoss(RuleReport(c).causes), TotalLost(c))
         /\ RuleReport(c).unexplained = TotalLost(c) - RuleReport(c).explained
<1> DEFINE causes == IF c.missing THEN <<>> ELSE RuleCauses(c)
           explained == Smaller(ClaimedLoss(causes), TotalLost(c))
<1>1. TotalLost(c) \in Nat
  BY ContextCounts, LossInNat DEF TotalLost
<1>2. causes \in Seq(Claims)
  BY RuleCausesTyped
<1>3. ClaimedLoss(causes) \in Int
  BY <1>2, ClaimedLossInt DEF ClaimedLoss, SumFunction, Losses
<1>4. explained \in Int
  BY <1>1, <1>3 DEF Smaller
<1>5. c.missing \in BOOLEAN
  BY DEF IsContext
<1>6. RuleReport(c) = [status |-> IF c.missing THEN "NEEDS_DATA" ELSE "SUCCEEDED",
                       causes |-> causes, total |-> TotalLost(c), explained |-> explained,
                       unexplained |-> TotalLost(c) - explained, missing |-> c.missing]
  BY DEF RuleReport
<1> HIDE DEF causes
<1>7. RuleReport(c).causes = causes /\ RuleReport(c).explained = explained
  BY <1>6
<1> HIDE DEF explained
<1>8. RuleReport(c) \in Reports
  BY <1>1, <1>2, <1>4, <1>5, <1>6 DEF Reports
<1> QED BY <1>6, <1>7, <1>8 DEF causes, explained

-----------------------------------------------------------------------------
(* What the contract makes of a report.                                    *)

\* The sum of what the claims with a standing account for is an integer.
LEMMA ExplainableInt ==
  ASSUME NEW c, NEW r \in Reports
  PROVE  Explainable(r, c) \in Int
<1> DEFINE some == {i \in DOMAIN r.causes : ResolveSupportStatus(r.causes[i], c) # "UNKNOWN"}
<1>1. r.causes \in Seq(Claims) /\ some \in SUBSET DOMAIN r.causes
  BY DEF Reports
<1> HIDE DEF some
<1>2. SumFunctionOnSet(Losses(r.causes), some) \in Int
  BY <1>1, ClaimedLossInt
<1> QED BY <1>2 DEF Explainable, some

\* The contract makes a report of a report, and says what it is.
LEMMA ContractTyped ==
  ASSUME NEW c, NEW r \in Reports
  PROVE  /\ ApplyEvidenceContract(r, c) \in Reports
         /\ r.causes = <<>> => ApplyEvidenceContract(r, c) = r
         /\ r.causes # <<>> =>
              ApplyEvidenceContract(r, c) =
                [status |-> r.status, causes |-> Resolved(r, c), total |-> r.total,
                 explained |-> Smaller(Explainable(r, c), r.total),
                 unexplained |-> r.total - Smaller(Explainable(r, c), r.total),
                 missing |-> r.missing]
<1> DEFINE explained == Smaller(Explainable(r, c), r.total)
           rest      == Larger(0, r.total - explained)
           causes    == Resolved(r, c)
<1>1. /\ r.causes \in Seq(Claims) /\ r.total \in Int
      /\ r = [status |-> r.status, causes |-> r.causes, total |-> r.total,
              explained |-> r.explained, unexplained |-> r.unexplained, missing |-> r.missing]
      /\ r.status \in {"SUCCEEDED", "NEEDS_DATA"} /\ r.missing \in BOOLEAN
  BY DEF Reports
<1>2. explained \in Int /\ rest \in Int /\ rest = r.total - explained
  BY <1>1, ExplainableInt DEF Smaller, Larger
<1>3. causes \in Seq(Claims)
  <2>1. ASSUME NEW i \in DOMAIN r.causes PROVE causes[i] \in Claims
    <3>1. r.causes[i] \in Claims
      BY <1>1
    <3>2. ResolveSupportStatus(r.causes[i], c) \in Verdicts
      BY VerdictTyped DEF ResolveSupportStatus
    <3>3. causes[i] = [r.causes[i] EXCEPT !.support = ResolveSupportStatus(r.causes[i], c)]
      BY DEF Resolved
    <3> QED BY <3>1, <3>2, <3>3 DEF Claims
  <2>2. DOMAIN causes = 1 .. Len(r.causes) /\ DOMAIN causes = DOMAIN r.causes
    BY <1>1 DEF Resolved
  <2>3. causes = [i \in 1 .. Len(r.causes) |-> causes[i]] /\ Len(r.causes) \in Nat
    BY <1>1, <2>2 DEF Resolved
  <2> HIDE DEF causes
  <2>4. causes \in [1 .. Len(r.causes) -> Claims]
    BY <2>1, <2>2, <2>3
  <2> QED BY <2>3, <2>4, SeqDef
<1>4. CASE r.causes = <<>>
  BY <1>4 DEF ApplyEvidenceContract
<1>5. CASE r.causes # <<>>
  <2>1. ApplyEvidenceContract(r, c) = [r EXCEPT !.causes = causes, !.explained = explained,
                                                !.unexplained = rest]
    BY <1>5 DEF ApplyEvidenceContract
  <2> HIDE DEF causes, explained, rest
  <2>2. ApplyEvidenceContract(r, c) =
          [status |-> r.status, causes |-> causes, total |-> r.total,
           explained |-> explained, unexplained |-> rest, missing |-> r.missing]
    BY <1>1, <2>1
  <2>3. ApplyEvidenceContract(r, c) \in Reports
    BY <1>1, <1>2, <1>3, <2>2 DEF Reports
  <2> QED BY <1>2, <1>5, <2>2, <2>3 DEF causes, explained, rest
<1> QED BY <1>4, <1>5

\* An issue names a claim of the report or the report as a whole.
LEMMA IssuesTyped ==
  ASSUME NEW c, NEW r \in Reports
  PROVE  Validate(r, c) \subseteq Issues /\ ContractNotes(r, c) \subseteq Issues
<1>1. r.causes \in Seq(Claims) /\ DOMAIN r.causes \subseteq Nat
  BY DEF Reports
<1>2. \A rule : CanRetry(rule, r) \in BOOLEAN
  BY DEF CanRetry
<1>3. "R14" \in ClaimRules
  BY DEF ClaimRules
<1>4. ASSUME NEW x \in ContractNotes(r, c) PROVE x \in Issues
  <2>1. PICK n \in DOMAIN r.causes : x = [rule |-> "R14", claim |-> n, retryable |-> FALSE]
    BY DEF ContractNotes
  <2> QED BY <1>1, <1>3, <2>1 DEF Issues
<1>5. ASSUME NEW x \in Validate(r, c) PROVE x \in Issues
  <2>1. CASE \E rule \in ReportRules : x = [rule |-> rule, claim |-> 0, retryable |-> TRUE]
    BY <2>1 DEF Issues
  <2>2. CASE \E p \in ClaimRules \X DOMAIN r.causes :
               x = [rule |-> p[1], claim |-> p[2], retryable |-> CanRetry(p[1], r)]
    BY <1>1, <1>2, <2>2 DEF Issues
  <2> QED BY <1>5, <2>1, <2>2 DEF Validate
<1> QED BY <1>4, <1>5

-----------------------------------------------------------------------------
(* The inductive invariant: what is returned is what the contract and the  *)
(* validator make of the last answer.                                      *)

OutcomeInv ==
  /\ ctx \in Contexts
  /\ pc \in {"generate", "contract", "published", "blocked"}
  /\ attempt \in 0 .. MaxRetries
  /\ pc = "generate" => draft = NoReport
  /\ pc # "generate" => draft \in Reports
  /\ ~Done => report = NoReport /\ issues = {}
  /\ Done => /\ report = ApplyEvidenceContract(draft, ctx)
             /\ issues = Validate(report, ctx) \cup ContractNotes(draft, ctx)
             /\ pc = "blocked" => \E i \in issues : Blocking(i)

\* No outcome at the start.
LEMMA OutcomeInit == Init => OutcomeInv
BY PipelineAssumption DEF Init, OutcomeInv, Done

\* An answer is a report, whoever gave it.
LEMMA AnswerTyped ==
  ASSUME ctx \in Contexts, NEW r \in Answers PROVE r \in Reports
<1>1. IsContext(ctx) /\ Drafts[ctx] \in SUBSET Reports
  BY PipelineAssumption
<1> QED BY <1>1, RuleReportTyped DEF Answers

\* Every step keeps the outcome in order.
LEMMA OutcomeStep == OutcomeInv /\ [Next]_vars => OutcomeInv'
<1> SUFFICES ASSUME OutcomeInv, [Next]_vars PROVE OutcomeInv'
  OBVIOUS
<1>1. CASE UNCHANGED vars
  <2>1. /\ Done' <=> Done
        /\ issues' = issues /\ report' = report /\ ctx' = ctx /\ draft' = draft
        /\ pc' = pc /\ attempt' = attempt
    BY <1>1 DEF vars, Done
  <2>2. Validate(report, ctx)' = Validate(report, ctx)
    BY <2>1
  <2> QED BY <2>1, <2>2 DEF OutcomeInv
<1>2. CASE Correct
  BY <1>2, PipelineAssumption DEF Correct, OutcomeInv, Done
<1>3. CASE Accept
  <2>1. PICK r \in Answers : draft' = r
    BY <1>3 DEF Accept
  <2>2. draft' \in Reports
    BY <2>1, AnswerTyped DEF OutcomeInv
  <2> QED BY <1>3, <2>2 DEF Accept, OutcomeInv, Done
<1>4. CASE Publish
  <2>1. /\ ctx' = ctx /\ draft' = draft /\ attempt' = attempt /\ draft \in Reports
        /\ pc' \in {"published", "blocked"}
    BY <1>4 DEF Publish, OutcomeInv
  <2>2. /\ report' = ApplyEvidenceContract(draft, ctx)
        /\ issues' = Validate(report', ctx) \cup ContractNotes(draft, ctx)
        /\ pc' = "blocked" => \E i \in issues' : Blocking(i)
    BY <1>4 DEF Publish
  <2>3. /\ (report = ApplyEvidenceContract(draft, ctx))'
        /\ (issues = Validate(report, ctx) \cup ContractNotes(draft, ctx))'
        /\ (pc = "blocked" => \E i \in issues : Blocking(i))'
    BY <2>1, <2>2 DEF Blocking
  <2> QED BY <2>1, <2>3 DEF OutcomeInv, Done
<1>5. QED  BY <1>1, <1>2, <1>3, <1>4 DEF Next

\* The types, from the outcome invariant.
LEMMA OutcomeTyped == OutcomeInv => TypeOK
<1> SUFFICES ASSUME OutcomeInv PROVE TypeOK
  OBVIOUS
<1>1. IsContext(ctx)
  BY PipelineAssumption DEF OutcomeInv
<1>2. draft \in Reports \cup {NoReport}
  BY DEF OutcomeInv
<1>3. CASE ~Done
  BY <1>1, <1>2, <1>3 DEF OutcomeInv, TypeOK
<1>4. CASE Done
  <2>1. report \in Reports
    BY <1>4, ContractTyped DEF OutcomeInv, Done
  <2>2. issues \subseteq Issues
    BY <1>4, <2>1, IssuesTyped DEF OutcomeInv, Done
  <2> QED BY <1>1, <1>2, <2>1, <2>2 DEF OutcomeInv, TypeOK
<1> QED BY <1>3, <1>4

\* The claims of the two faults the rules know keep their standing: each cites
\* the record that raised it.
LEMMA FaultClaimsStand ==
  ASSUME NEW c, IsContext(c)
  PROVE  /\ "CHANNEL_TIMEOUT" \in TypesIn(c) => TimeoutClaim(c).support # "UNKNOWN"
         /\ "BENEFIT_GAP_FRICTION" \in TypesIn(c) => BenefitClaim(c).support # "UNKNOWN"
         /\ TimeoutClaim(c).label = "CHANNEL_TIMEOUT"
         /\ BenefitClaim(c).label = "BENEFIT_SELECTION_FRICTION"
<1>1. "CHANNEL_TIMEOUT" \in TypesIn(c) => TimeoutClaim(c).support # "UNKNOWN"
  <2> SUFFICES ASSUME "CHANNEL_TIMEOUT" \in TypesIn(c)
               PROVE  TimeoutClaim(c).support # "UNKNOWN"
    OBVIOUS
  <2>1. PICK e \in DOMAIN c.evidence : c.evidence[e].type = "CHANNEL_TIMEOUT"
    BY DEF TypesIn
  <2>2. TimeoutClaim(c).label = "CHANNEL_TIMEOUT" /\ e \in TimeoutClaim(c).codes
    <3> DEFINE codes == CodesOf(c, "CHANNEL_TIMEOUT") \cup StageCodes(c, <<"CHANNEL_SUCCEEDED">>)
                          \cup CodesOf(c, "DIMENSION_CONTRIBUTION")
               loss == Capped(Or(LostAtStages(c, <<"CHANNEL_SUCCEEDED">>),
                                 LossIn(c, CodesOf(c, "CHANNEL_TIMEOUT")
                                             \cup CodesOf(c, "DIMENSION_CONTRIBUTION"))), TotalLost(c))
    <3>1. TimeoutClaim(c) = Claim(c, "CHANNEL_TIMEOUT", codes, "HIGH", loss)
      BY DEF TimeoutClaim
    <3>2. e \in codes
      BY <2>1 DEF CodesOf
    <3> HIDE DEF codes, loss
    <3> QED BY <3>1, <3>2 DEF Claim
  <2>3. TimeoutClaim(c).support = ResolveSupportStatus(TimeoutClaim(c), c)
    BY RuleClaimsTyped
  <2>4. "CHANNEL_TIMEOUT" \in CitedTypes(TimeoutClaim(c), c)
    BY <2>1, <2>2 DEF CitedTypes, Valid
  <2>5. ResolveSupportStatus(TimeoutClaim(c), c)
          = FaultVerdict("CHANNEL_TIMEOUT", CitedTypes(TimeoutClaim(c), c))
    BY <2>2 DEF ResolveSupportStatus, ClassifySupport
  <2> QED BY <2>3, <2>4, <2>5 DEF FaultVerdict, OwnType, Negative
<1>2. "BENEFIT_GAP_FRICTION" \in TypesIn(c) => BenefitClaim(c).support # "UNKNOWN"
  <2> SUFFICES ASSUME "BENEFIT_GAP_FRICTION" \in TypesIn(c)
               PROVE  BenefitClaim(c).support # "UNKNOWN"
    OBVIOUS
  <2>1. PICK e \in DOMAIN c.evidence : c.evidence[e].type = "BENEFIT_GAP_FRICTION"
    BY DEF TypesIn
  <2>2. /\ BenefitClaim(c).label = "BENEFIT_SELECTION_FRICTION"
        /\ e \in BenefitClaim(c).codes
    <3> DEFINE codes == CodesOf(c, "BENEFIT_GAP_FRICTION") \cup StageCodes(c, FrictionStages)
               loss == Capped(Or(LostAtStages(c, FrictionStages),
                                 LossIn(c, CodesOf(c, "BENEFIT_GAP_FRICTION")
                                             \cup CodesOf(c, "CANCEL_REORDER_FLOW"))), TotalLost(c))
    <3>1. BenefitClaim(c) = Claim(c, "BENEFIT_SELECTION_FRICTION", codes, "MEDIUM", loss)
      BY DEF BenefitClaim
    <3>2. e \in codes
      BY <2>1 DEF CodesOf
    <3> HIDE DEF codes, loss
    <3> QED BY <3>1, <3>2 DEF Claim
  <2>3. BenefitClaim(c).support = ResolveSupportStatus(BenefitClaim(c), c)
    BY RuleClaimsTyped
  <2>4. "BENEFIT_GAP_FRICTION" \in CitedTypes(BenefitClaim(c), c)
    BY <2>1, <2>2 DEF CitedTypes, Valid
  <2>5. ResolveSupportStatus(BenefitClaim(c), c)
          = FaultVerdict("BENEFIT_SELECTION_FRICTION", CitedTypes(BenefitClaim(c), c))
    BY <2>2 DEF ResolveSupportStatus, ClassifySupport
  <2> QED BY <2>3, <2>4, <2>5 DEF FaultVerdict, OwnType, Negative
<1>3. TimeoutClaim(c).label = "CHANNEL_TIMEOUT"
  BY DEF TimeoutClaim, Claim
<1>4. BenefitClaim(c).label = "BENEFIT_SELECTION_FRICTION"
  BY DEF BenefitClaim, Claim
<1> QED BY <1>1, <1>2, <1>3, <1>4

\* So does the claim that nothing is wrong, where the funnel is stable.
LEMMA NormalClaimStands ==
  ASSUME NEW c, IsContext(c), "FUNNEL_BASELINE_STABLE" \in TypesIn(c)
  PROVE  NormalClaim(c).label = "NORMAL_PAYMENT_FAILURE" /\ NormalClaim(c).support # "UNKNOWN"
<1>1. PICK e \in DOMAIN c.evidence : c.evidence[e].type = "FUNNEL_BASELINE_STABLE"
  BY DEF TypesIn
<1>2. /\ NormalClaim(c).label = "NORMAL_PAYMENT_FAILURE"
      /\ NormalClaim(c).codes = CodesOf(c, "FUNNEL_BASELINE_STABLE")
  BY DEF NormalClaim, Claim
<1>3. CitedTypes(NormalClaim(c), c) = {"FUNNEL_BASELINE_STABLE"}
  BY <1>1, <1>2 DEF CitedTypes, Valid, CodesOf
<1>4. NormalClaim(c).support = ResolveSupportStatus(NormalClaim(c), c)
  BY RuleClaimsTyped
<1> QED BY <1>2, <1>3, <1>4 DEF ResolveSupportStatus, ClassifySupport, Negative

\* A claim of a report of the rules that no evidence backs has no loss.
LEMMA UnknownUncharged ==
  ASSUME NEW c, IsContext(c), NEW i \in DOMAIN RuleCauses(c),
         RuleCauses(c)[i].support = "UNKNOWN"
  PROVE  RuleCauses(c)[i].loss = 0
<1> DEFINE f == "CHANNEL_TIMEOUT" \in TypesIn(c)
           g == "BENEFIT_GAP_FRICTION" \in TypesIn(c)
<1>2. f => TimeoutClaim(c).support # "UNKNOWN"
  BY FaultClaimsStand
<1>3. g => BenefitClaim(c).support # "UNKNOWN"
  BY FaultClaimsStand
<1>4. UnknownClaim(c).support = "SUPPORTED"
  <2>1. UnknownClaim(c).label = "UNKNOWN"
    BY DEF UnknownClaim, Claim
  <2>2. UnknownClaim(c).support = ResolveSupportStatus(UnknownClaim(c), c)
    BY RuleClaimsTyped
  <2> QED BY <2>1, <2>2 DEF ResolveSupportStatus, ClassifySupport
<1>5. NormalClaim(c).loss = 0
  BY DEF NormalClaim, Claim
<1>6. RuleCauses(c)[i] \in
        (IF f THEN {TimeoutClaim(c)} ELSE {}) \cup (IF g THEN {BenefitClaim(c)} ELSE {})
          \cup {UnknownClaim(c), NormalClaim(c)}
  <2> HIDE DEF f, g
  <2>1. CASE f /\ g
    <3>1. RuleCauses(c) = <<TimeoutClaim(c), BenefitClaim(c)>>
      BY <2>1, RuleCausesAre DEF f, g
    <3> QED BY <2>1, <3>1
  <2>2. CASE f /\ ~g
    <3>1. RuleCauses(c) = <<TimeoutClaim(c)>>
      BY <2>2, RuleCausesAre DEF f, g
    <3> QED BY <2>2, <3>1
  <2>3. CASE ~f /\ g
    <3>1. RuleCauses(c) = <<BenefitClaim(c)>>
      BY <2>3, RuleCausesAre DEF f, g
    <3> QED BY <2>3, <3>1
  <2>4. CASE ~f /\ ~g
    <3>1. RuleCauses(c) \in {<<UnknownClaim(c)>>, <<NormalClaim(c)>>}
      BY <2>4, RuleCausesAre DEF f, g
    <3> QED BY <3>1
  <2> QED BY <2>1, <2>2, <2>3, <2>4
<1> QED BY <1>2, <1>3, <1>4, <1>5, <1>6

\* What the contract leaves explained is accounted for by claims with a standing.
LEMMA OutcomeBalances == OutcomeInv => ClaimsBalance
<1> SUFFICES ASSUME OutcomeInv, pc = "published", report.causes # <<>>
             PROVE  /\ report.explained + report.unexplained = report.total
                    /\ report.explained <=
                         SumFunctionOnSet(Losses(report.causes),
                           {i \in DOMAIN report.causes : report.causes[i].support # "UNKNOWN"})
  BY DEF ClaimsBalance
<1> DEFINE sum == Explainable(draft, ctx)
           standing == {i \in DOMAIN draft.causes :
                          ResolveSupportStatus(draft.causes[i], ctx) # "UNKNOWN"}
<1>1. draft \in Reports /\ report = ApplyEvidenceContract(draft, ctx)
  BY DEF OutcomeInv, Done
<1>2. draft.causes # <<>>
  BY <1>1, ContractTyped
<1>3. report = [status |-> draft.status, causes |-> Resolved(draft, ctx), total |-> draft.total,
                explained |-> Smaller(sum, draft.total),
                unexplained |-> draft.total - Smaller(sum, draft.total),
                missing |-> draft.missing]
  BY <1>1, <1>2, ContractTyped
<1>4. sum \in Int /\ draft.total \in Int /\ draft.causes \in Seq(Claims)
  BY <1>1, ExplainableInt DEF Reports
<1>5. /\ report.explained = Smaller(sum, draft.total)
      /\ report.unexplained = draft.total - Smaller(sum, draft.total)
      /\ report.total = draft.total /\ report.causes = Resolved(draft, ctx)
  BY <1>3
<1> HIDE DEF sum
<1>6. report.explained + report.unexplained = report.total /\ report.explained <= sum
  BY <1>4, <1>5 DEF Smaller
<1>7. ASSUME NEW i \in DOMAIN draft.causes
      PROVE  /\ report.causes[i].support = ResolveSupportStatus(draft.causes[i], ctx)
             /\ LossOf(report.causes[i]) = LossOf(draft.causes[i])
  <2>1. draft.causes[i] \in Claims
    BY <1>4
  <2>2. report.causes[i] = [draft.causes[i] EXCEPT
                              !.support = ResolveSupportStatus(draft.causes[i], ctx)]
    BY <1>5 DEF Resolved
  <2> QED BY <2>1, <2>2 DEF Claims, LossOf
<1>8. DOMAIN report.causes = DOMAIN draft.causes
  BY <1>5 DEF Resolved
<1>9. {i \in DOMAIN report.causes : report.causes[i].support # "UNKNOWN"} = standing
  BY <1>7, <1>8
<1>10. Losses(report.causes) = Losses(draft.causes)
  BY <1>7, <1>8 DEF Losses
<1>11. sum = SumFunctionOnSet(Losses(draft.causes), standing)
  BY DEF sum, Explainable
<1> QED BY <1>6, <1>9, <1>10, <1>11

\* The contract leaves what the rules wrote alone.
LEMMA ContractKeepsRules ==
  ASSUME NEW c, IsContext(c)
  PROVE  ApplyEvidenceContract(RuleReport(c), c) = RuleReport(c)
<1> DEFINE r == RuleReport(c)
           causes == RuleCauses(c)
           standing == {i \in DOMAIN causes : ResolveSupportStatus(causes[i], c) # "UNKNOWN"}
<1>1. CASE r.causes = <<>>
  BY <1>1 DEF ApplyEvidenceContract
<1>2. CASE r.causes # <<>>
  <2>1. /\ r \in Reports /\ r.causes = causes /\ ~c.missing
        /\ r.total = TotalLost(c)
        /\ r.explained = Smaller(ClaimedLoss(causes), TotalLost(c))
        /\ r.unexplained = TotalLost(c) - r.explained
    <3> HIDE DEF r
    <3>1. ~c.missing
      BY <1>2, RuleReportTyped DEF r
    <3> QED BY <3>1, RuleReportTyped DEF r
  <2>2. /\ causes \in Seq(Claims)
        /\ \A i \in DOMAIN causes :
             /\ causes[i].loss \in Nat
             /\ causes[i].support = ResolveSupportStatus(causes[i], c)
    BY RuleCausesTyped
  <2>3. Resolved(r, c) = causes
    <3>1. \A i \in DOMAIN causes :
            [causes[i] EXCEPT !.support = ResolveSupportStatus(causes[i], c)] = causes[i]
      <4> SUFFICES ASSUME NEW i \in DOMAIN causes
                   PROVE  [causes[i] EXCEPT !.support = ResolveSupportStatus(causes[i], c)] = causes[i]
        OBVIOUS
      <4>1. causes[i] \in Claims /\ causes[i].support = ResolveSupportStatus(causes[i], c)
        BY <2>2
      <4> HIDE DEF causes
      <4> QED BY <4>1 DEF Claims
    <3>2. causes = [i \in DOMAIN causes |-> causes[i]]
      BY <2>2
    <3> HIDE DEF causes, r
    <3> QED BY <2>1, <3>1, <3>2 DEF Resolved
  <2>4. Explainable(r, c) = ClaimedLoss(causes)
    <3>1. /\ IsFiniteSet(DOMAIN causes) /\ standing \in SUBSET DOMAIN causes
          /\ \A i \in DOMAIN causes : Losses(causes)[i] \in Int
      BY <2>2, ClaimedLossInt
    <3>2. \A i \in DOMAIN causes \ standing : Losses(causes)[i] = 0
      <4> SUFFICES ASSUME NEW i \in DOMAIN causes \ standing PROVE Losses(causes)[i] = 0
        OBVIOUS
      <4>1. causes[i].support = "UNKNOWN"
        BY <2>2
      <4>2. causes[i].loss = 0
        BY <4>1, UnknownUncharged
      <4> QED BY <4>2 DEF Losses, LossOf
    <3> HIDE DEF standing, causes, r
    <3>3. SumFunctionOnSet(Losses(causes), standing)
            = SumFunctionOnSet(Losses(causes), DOMAIN causes)
      BY <3>1, <3>2, SumSupport
    <3>4. DOMAIN Losses(causes) = DOMAIN causes
      BY DEF Losses
    <3> QED BY <2>1, <3>3, <3>4 DEF Explainable, ClaimedLoss, SumFunction, standing
  <2>5. r = [status |-> r.status, causes |-> r.causes, total |-> r.total,
             explained |-> r.explained, unexplained |-> r.unexplained, missing |-> r.missing]
    <3> HIDE DEF r
    <3> QED BY <2>1 DEF Reports
  <2>6. ApplyEvidenceContract(r, c) =
          [status |-> r.status, causes |-> Resolved(r, c), total |-> r.total,
           explained |-> Smaller(Explainable(r, c), r.total),
           unexplained |-> r.total - Smaller(Explainable(r, c), r.total), missing |-> r.missing]
    <3> HIDE DEF r
    <3> QED BY <1>2, <2>1, ContractTyped
  <2> HIDE DEF r, causes
  <2> QED BY <2>1, <2>3, <2>4, <2>5, <2>6 DEF r
<1> QED BY <1>1, <1>2

\* The rules keep the contract.
LEMMA OutcomeKeepsRules == OutcomeInv => RulesKeepContract
<1> SUFFICES ASSUME OutcomeInv, Done, draft = RuleReport(ctx)
             PROVE  pc = "published" /\ report = draft
  BY DEF RulesKeepContract
<1>1. IsContext(ctx)
  BY PipelineAssumption DEF OutcomeInv
<1>2. report = draft
  BY <1>1, ContractKeepsRules DEF OutcomeInv
<1>3. ASSUME NEW x \in issues, Blocking(x) PROVE FALSE
  <2>1. x \in Validate(draft, ctx)
    <3>1. x \notin ContractNotes(draft, ctx)
      BY <1>3 DEF Blocking, ContractNotes
    <3> QED BY <1>2, <1>3, <3>1 DEF OutcomeInv
  <2>2. PICK p \in ClaimRules \X DOMAIN draft.causes :
          x = [rule |-> p[1], claim |-> p[2], retryable |-> CanRetry(p[1], draft)]
    BY <1>3, <2>1 DEF Validate, Blocking
  <2>3. draft.causes # <<>>
    BY <2>2
  <2>4. draft.status = "SUCCEEDED"
    BY <1>1, <2>3, RuleReportTyped
  <2>5. p[1] = "R3" /\ ~CanRetry(p[1], draft)
    BY <1>3, <2>2 DEF Blocking
  <2> QED BY <2>4, <2>5 DEF CanRetry
<1> QED BY <1>2, <1>3 DEF OutcomeInv, Done

\* The loss of one or two claims.
LEMMA ClaimedLossOf ==
  ASSUME NEW x, NEW y, x.loss \in Nat, y.loss \in Nat
  PROVE  /\ ClaimedLoss(<<>>) = 0
         /\ ClaimedLoss(<<x>>) = x.loss
         /\ ClaimedLoss(<<x, y>>) = x.loss + y.loss
<1>1. LossOf(x) = x.loss /\ LossOf(y) = y.loss
  BY PipelineAssumption DEF LossOf
<1>2. ClaimedLoss(<<>>) = 0
  <2>1. DOMAIN Losses(<<>>) = {}
    BY DEF Losses
  <2> QED BY <2>1, SumEmpty DEF ClaimedLoss, SumFunction
<1>3. ClaimedLoss(<<x>>) = x.loss
  <2> DEFINE f == Losses(<<x>>)
  <2>1. DOMAIN f = {1} /\ f[1] = x.loss
    BY <1>1 DEF Losses
  <2> HIDE DEF f
  <2>2. SumFunctionOnSet(f, {1}) = x.loss
    BY <2>1, SumSingle
  <2> QED BY <2>1, <2>2 DEF ClaimedLoss, SumFunction, f
<1>4. ClaimedLoss(<<x, y>>) = x.loss + y.loss
  <2> DEFINE f == Losses(<<x, y>>)
  <2>1. DOMAIN f = {2} \cup {1} /\ f[1] = x.loss /\ f[2] = y.loss
    BY <1>1 DEF Losses
  <2> HIDE DEF f
  <2>2. SumFunctionOnSet(f, {2}) = y.loss
    BY <2>1, SumSingle
  <2>3. IsFiniteSet({2}) /\ 1 \notin {2} /\ \A n \in {2} \cup {1} : f[n] \in Int
    BY <2>1, FS_Singleton
  <2>4. SumFunctionOnSet(f, {2} \cup {1}) = f[1] + SumFunctionOnSet(f, {2})
    BY <2>3, SumAdd
  <2>5. SumFunctionOnSet(f, DOMAIN f) = x.loss + y.loss
    BY <2>1, <2>2, <2>4
  <2> QED BY <2>5 DEF ClaimedLoss, SumFunction, f
<1> QED BY <1>2, <1>3, <1>4

\* The losses of two records of the funnel are part of the total.
LEMMA TwoRecords ==
  ASSUME NEW c, IsContext(c), NEW d, NEW e, d # e,
         d \in CodesOf(c, "FUNNEL_STAGE_DEGRADATION"),
         e \in CodesOf(c, "FUNNEL_STAGE_DEGRADATION")
  PROVE  c.evidence[d].loss + c.evidence[e].loss <= TotalLost(c)
<1> DEFINE codes == CodesOf(c, "FUNNEL_STAGE_DEGRADATION")
           f == LossesOf(c)
<1>1. codes \in SUBSET DOMAIN c.evidence /\ \A x \in codes : f[x] \in Nat /\ f[x] \in Int
  BY ContextCounts
<1>2. TotalLost(c) = SumFunctionOnSet(f, codes)
  BY <1>1, LossInNat DEF TotalLost
<1>3. f[d] = c.evidence[d].loss /\ f[e] = c.evidence[e].loss
  BY <1>1 DEF LossesOf
<1>4. IsFiniteSet(codes)
  BY <1>1, ContextCounts, FS_Subset
<1> HIDE DEF f, codes
<1>5. d \in codes /\ e \in codes
  BY DEF codes
<1>6. SumFunctionOnSet(f, {d} \cup {e}) = f[e] + SumFunctionOnSet(f, {d})
  BY <1>1, <1>5, FS_Singleton, SumAdd
<1>7. SumFunctionOnSet(f, {d}) = f[d]
  BY <1>1, <1>5, SumSingle
<1>8. SumFunctionOnSet(f, {d} \cup {e}) <= SumFunctionOnSet(f, codes)
  <2>1. {d} \cup {e} \in SUBSET codes
    BY <1>5
  <2> QED BY <1>1, <1>4, <2>1, SumPart
<1>9. f[d] \in Nat /\ f[e] \in Nat
  BY <1>1, <1>5
<1>10. f[e] + f[d] <= TotalLost(c)
  BY <1>2, <1>6, <1>7, <1>8
<1>11. f[d] + f[e] <= TotalLost(c)
  BY <1>9, <1>10
<1> QED BY <1>3, <1>11

\* The channel's loss and that of the friction are different records' losses.
LEMMA StagesShareNothing ==
  ASSUME NEW c, IsContext(c), LostAtStages(c, <<"CHANNEL_SUCCEEDED">>) # 0
  PROVE  /\ TotalLost(c) > 0
         /\ LostAtStages(c, <<"CHANNEL_SUCCEEDED">>) + LostAtStages(c, FrictionStages)
              <= TotalLost(c)
<1> DEFINE a == LostAtStages(c, <<"CHANNEL_SUCCEEDED">>)
           b == LostAtStages(c, FrictionStages)
           codes == CodesOf(c, "FUNNEL_STAGE_DEGRADATION")
<1>1. /\ DOMAIN <<"CHANNEL_SUCCEEDED">> = {1} /\ DOMAIN FrictionStages = {1, 2, 3}
      /\ \A n \in {1, 2, 3} : FrictionStages[n] # "CHANNEL_SUCCEEDED"
  BY DEF FrictionStages
<1>2. a \in Nat /\ b \in Nat /\ TotalLost(c) \in Nat
  BY <1>1, LostAtRecord, ContextCounts, LossInNat DEF TotalLost
<1>3. PICK d \in DegradedAt(c, "CHANNEL_SUCCEEDED") : a = c.evidence[d].loss
  <2>1. PICK n \in {1} : \E e \in DegradedAt(c, <<"CHANNEL_SUCCEEDED">>[n]) : a = c.evidence[e].loss
    BY <1>1, LostAtRecord
  <2>2. <<"CHANNEL_SUCCEEDED">>[n] = "CHANNEL_SUCCEEDED"
    OBVIOUS
  <2> QED BY <2>1, <2>2
<1>4. d \in codes /\ c.evidence[d].stage = "CHANNEL_SUCCEEDED"
  BY <1>3 DEF DegradedAt
<1>5. a <= TotalLost(c)
  <2>1. codes \in SUBSET DOMAIN c.evidence /\ LossesOf(c)[d] = a
    BY <1>3, <1>4, ContextCounts DEF LossesOf
  <2>2. IsFiniteSet(codes) /\ \A x \in codes : LossesOf(c)[x] \in Nat
    BY <2>1, ContextCounts, FS_Subset
  <2>3. TotalLost(c) = SumFunctionOnSet(LossesOf(c), codes)
    BY <2>1, LossInNat DEF TotalLost
  <2> HIDE DEF a, codes
  <2> QED BY <1>4, <2>1, <2>2, <2>3, SumMember
<1>6. CASE b = 0
  BY <1>2, <1>5, <1>6
<1>7. CASE b # 0
  <2>1. PICK n \in {1, 2, 3} : \E e \in DegradedAt(c, FrictionStages[n]) : b = c.evidence[e].loss
    BY <1>1, <1>7, LostAtRecord
  <2>2. PICK e \in DegradedAt(c, FrictionStages[n]) : b = c.evidence[e].loss
    BY <2>1
  <2>3. e \in codes /\ e # d
    BY <1>1, <1>4, <2>2 DEF DegradedAt
  <2>4. c.evidence[d].loss + c.evidence[e].loss <= TotalLost(c)
    BY <1>4, <2>3, TwoRecords
  <2> QED BY <1>2, <1>3, <1>5, <2>2, <2>4
<1> QED BY <1>6, <1>7

\* The losses the rules claim.
LEMMA RulesChargeOnce ==
  ASSUME NEW c, IsContext(c), LostAtStages(c, <<"CHANNEL_SUCCEEDED">>) # 0
  PROVE  ClaimedLoss(RuleReport(c).causes) <= TotalLost(c)
<1> DEFINE a == LostAtStages(c, <<"CHANNEL_SUCCEEDED">>)
           b == LostAtStages(c, FrictionStages)
           total == TotalLost(c)
           flows == CodesOf(c, "BENEFIT_GAP_FRICTION") \cup CodesOf(c, "CANCEL_REORDER_FLOW")
           T == TimeoutClaim(c)
           B == BenefitClaim(c)
           U == UnknownClaim(c)
           N == NormalClaim(c)
<1>1. a \in Nat /\ b \in Nat /\ total \in Nat /\ total > 0 /\ a + b <= total
  <2>1. DOMAIN <<"CHANNEL_SUCCEEDED">> \subseteq Nat /\ DOMAIN FrictionStages \subseteq Nat
    BY DEF FrictionStages
  <2>2. total \in Nat
    BY ContextCounts, LossInNat DEF TotalLost
  <2> QED BY <2>1, <2>2, LostAtRecord, StagesShareNothing
<1>2. LossIn(c, flows) = 0
  <2>1. flows \in SUBSET DOMAIN c.evidence /\ IsFiniteSet(flows)
    BY ContextCounts, FS_Subset
  <2>2. \A e \in flows : LossesOf(c)[e] = 0
    BY DEF IsContext, Estimated, LossesOf, CodesOf
  <2> HIDE DEF flows
  <2> QED BY <2>1, <2>2, LossInNat, SumZero
<1>3. T.loss = Smaller(a, total)
  <2>1. T.loss = Capped(Or(a, LossIn(c, CodesOf(c, "CHANNEL_TIMEOUT")
                                          \cup CodesOf(c, "DIMENSION_CONTRIBUTION"))), total)
    BY DEF TimeoutClaim, Claim
  <2> QED BY <1>1, <2>1 DEF Or, Capped
<1>4. B.loss = Smaller(b, total)
  <2>1. B.loss = Capped(Or(b, LossIn(c, flows)), total)
    BY DEF BenefitClaim, Claim
  <2> QED BY <1>1, <1>2, <2>1 DEF Or, Capped
<1>5. U.loss = total /\ N.loss = 0
  BY DEF UnknownClaim, NormalClaim, Claim
<1> HIDE DEF a, b, total, T, B, U, N
<1>6. /\ T.loss \in Nat /\ B.loss \in Nat /\ U.loss \in Nat /\ N.loss \in Nat
      /\ T.loss + B.loss <= total /\ T.loss <= total /\ B.loss <= total
  BY <1>1, <1>3, <1>4, <1>5 DEF Smaller
<1>7. RuleReport(c).causes \in {<<>>, <<T, B>>, <<T>>, <<B>>, <<U>>, <<N>>}
  BY RuleReportTyped, RuleCausesAre DEF T, B, U, N
<1>8. /\ ClaimedLoss(<<>>) = 0 /\ ClaimedLoss(<<T, B>>) = T.loss + B.loss
      /\ ClaimedLoss(<<T>>) = T.loss /\ ClaimedLoss(<<B>>) = B.loss
      /\ ClaimedLoss(<<U>>) = U.loss /\ ClaimedLoss(<<N>>) = N.loss
  BY <1>6, ClaimedLossOf
<1>9. ClaimedLoss(RuleReport(c).causes) <= total
  BY <1>1, <1>5, <1>6, <1>7, <1>8
<1> QED BY <1>9 DEF total

\* Where the funnel locates the channel's loss no intent is claimed twice.
LEMMA OutcomeChargedOnce == OutcomeInv => ChargedOnce
<1> SUFFICES ASSUME OutcomeInv, Done, draft = RuleReport(ctx),
                    LostAtStages(ctx, <<"CHANNEL_SUCCEEDED">>) # 0
             PROVE  ClaimedLoss(report.causes) <= report.total
  BY DEF ChargedOnce
<1>1. IsContext(ctx)
  BY PipelineAssumption DEF OutcomeInv
<1>2. report = RuleReport(ctx)
  BY <1>1, ContractKeepsRules DEF OutcomeInv
<1> QED BY <1>1, <1>2, RulesChargeOnce, RuleReportTyped

\* The pipeline keeps its invariant, whatever a model answers.
LEMMA OutcomeHolds == Spec => []OutcomeInv
BY OutcomeInit, OutcomeStep, PTL DEF Spec

\* Type correctness, for every context and every answer.
THEOREM TypeCorrect == Spec => []TypeOK
BY OutcomeHolds, OutcomeTyped, PTL

\* The losses of a published report balance, and what it calls explained is
\* claimed by claims with a standing, for any number of claims of any loss.
THEOREM LossesBalance == Spec => []ClaimsBalance
BY OutcomeHolds, OutcomeBalances, PTL

\* The rules' reports pass the contract unchanged and are never blocked, for
\* any ledger: the fallback of every model can always publish.
THEOREM RulesArePublished == Spec => []RulesKeepContract
BY OutcomeHolds, OutcomeKeepsRules, PTL

\* No lost intent is charged to two claims of the rules.
THEOREM RulesCharge == Spec => []ChargedOnce
BY OutcomeHolds, OutcomeChargedOnce, PTL

=============================================================================
