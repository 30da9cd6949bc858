------------------------------ MODULE Analytics ------------------------------
(***************************************************************************)
(* The queries of DuckDBAnalyticsSource, the evidence the tools raise from *)
(* their results, and the fixed workflow that puts the evidence in order.  *)
(* Rates are exact fractions here and floats in the code; a comparison of  *)
(* two of them is cross-multiplied.                                        *)
(***************************************************************************)
EXTENDS ScenarioData

\* a / b to the nearest integer, to the even one of two.
Round(a, b) ==
  LET q == a \div b
      r == a % b
  IN  IF 2 * r < b \/ (2 * r = b /\ q % 2 = 0) THEN q ELSE q + 1

-----------------------------------------------------------------------------
(* get_funnel.  b and i give the intents that reached each stage in the    *)
(* baseline and in the incident.                                           *)

ReachedCounts(d, period) ==
  LET dropped == DropStages(d.kind, period)
      N(s) == Count(d[period], LAMBDA x : s \in Progressed(x, dropped))
  IN  <<N(1), N(2), N(3), N(4), N(5), N(6), N(7), N(8), N(9)>>

HasStepRates(b, i, s) == s > 1 /\ b[s - 1] # 0 /\ i[s - 1] # 0

\* The shortfall of the step rate, as a multiple of 1 / (b[s - 1] * i[s - 1]).
Shortfall(b, i, s) == b[s] * i[s - 1] - i[s] * b[s - 1]

\* |rate_delta| > 0.05
IsAnomalous(b, i, s) ==
  /\ HasStepRates(b, i, s)
  /\ \/ 20 * Shortfall(b, i, s) > b[s - 1] * i[s - 1]
     \/ 20 * Shortfall(b, i, s) < -(b[s - 1] * i[s - 1])

AnomalousStages(b, i) == {s \in FunnelStages : IsAnomalous(b, i, s)}

\* A fault: every shortfall is charged, flagged or not.
LostWherever(b, i, s) ==
  IF HasStepRates(b, i, s) /\ Shortfall(b, i, s) > 0
  THEN Round(Shortfall(b, i, s), b[s - 1]) ELSE 0

\* A fault: the loss of a stage is that of the overall rate.
LostOverall(b, i, s) ==
  LET shortfall == b[s] * i[1] - i[s] * b[1] IN
  IF IsAnomalous(b, i, s) /\ shortfall > 0 THEN Round(shortfall, b[1]) ELSE 0

\* The intents that failed the transition, charged where it is flagged.
EstimatedLost(b, i, s) ==
  IF IsAnomalous(b, i, s) /\ Shortfall(b, i, s) > 0
  THEN Round(Shortfall(b, i, s), b[s - 1]) ELSE 0

FunnelLoss(b, i) ==
  EstimatedLost(b, i, 1) + EstimatedLost(b, i, 2) + EstimatedLost(b, i, 3)
    + EstimatedLost(b, i, 4) + EstimatedLost(b, i, 5) + EstimatedLost(b, i, 6)
    + EstimatedLost(b, i, 7) + EstimatedLost(b, i, 8) + EstimatedLost(b, i, 9)

-----------------------------------------------------------------------------
(* breakdown_loss: conversion per value of a dimension.                    *)

ValuesOf(dim) == IF dim = "channel" THEN PaymentChannels ELSE PaymentMethods

\* The intents with the value that were confirmed and those that completed.
Conversion(d, period, dim, v) ==
  LET dropped == DropStages(d.kind, period)
      Converted(s) == Count(d[period], LAMBDA x : x[dim] = v /\ s \in Progressed(x, dropped))
  IN  [first |-> Converted(Confirmed), last |-> Converted(Completed)]

RowLoss(b, i) ==
  IF b.first = 0 \/ i.first = 0 \/ b.last * i.first <= i.last * b.first THEN 0
  ELSE Round(b.last * i.first - i.last * b.first, b.first)

\* rate_delta < -0.05; a rate over no intents is 0.
RowDegraded(b, i) ==
  /\ b.first # 0
  /\ IF i.first = 0 THEN 20 * b.last > b.first
     ELSE 20 * (b.last * i.first - i.last * b.first) > b.first * i.first

-----------------------------------------------------------------------------
(* analyze_benefit_gap, inspect_payment_events, trace_cancel_and_reorder.  *)

GapBuckets == {"0-300", "300-1000", ">=1000"}

InBucket(x, bucket) ==
  CASE bucket = "0-300"    -> 0 <= x.gap /\ x.gap < 300
    [] bucket = "300-1000" -> 300 <= x.gap /\ x.gap < 1000
    [] bucket = ">=1000"   -> x.gap >= 1000

Recovered(d, period, x) ==
  x.reordered /\ Completed \in Progressed(x, DropStages(d.kind, period))

BucketStats(d, period, bucket) ==
  [intents    |-> Count(d[period], LAMBDA x : InBucket(x, bucket)),
   cancels    |-> Count(d[period], LAMBDA x : InBucket(x, bucket) /\ x.cancelled),
   reorders   |-> Count(d[period], LAMBDA x : InBucket(x, bucket) /\ x.reordered),
   recoveries |-> Count(d[period], LAMBDA x : InBucket(x, bucket) /\ Recovered(d, period, x))]

\* The shift of the mean gap is above the threshold of the tool.
GapShifted(d) ==
  LET n == Size(d.incident)
      m == Size(d.baseline)
      GapsIn(period) == Weighted(d[period], LAMBDA x : x.gap)
  IN  GapsIn("incident") * m - GapsIn("baseline") * n > 100 * m * n

\* The incident has events of status TIMEOUT; their error code names it too.
TimeoutsSeen(d) == \E x \in DOMAIN d.incident : x.timedOut

CancelReorderMetrics(d, period) ==
  [total     |-> Size(d[period]),
   cancelled |-> Count(d[period], LAMBDA x : x.cancelled),
   reordered |-> Count(d[period], LAMBDA x : x.reordered),
   recovered |-> Count(d[period], LAMBDA x : Recovered(d, period, x))]

CancelsRose(d) ==
  LET b == CancelReorderMetrics(d, "baseline")
      i == CancelReorderMetrics(d, "incident")
  IN  20 * (i.cancelled * b.total - b.cancelled * i.total) > b.total * i.total

PaymentRelevant == {"promo_rule", "routing", "risk_control"}

-----------------------------------------------------------------------------
(* validate_dataset: what the report has to list as missing.  Event ids    *)
(* are made of the intent and the stage or branch, hence never repeated.   *)

Present(d, period) ==
  {s \in FunnelStages : \E x \in DOMAIN d[period] :
     s \in Progressed(x, DropStages(d.kind, period))}

\* A fault: a stage is missing when no period has it.
MissingFromAll(d) ==
  IF FunnelStages \subseteq UNION {Present(d, p) : p \in Periods} THEN {} ELSE {"stages"}

\* A stage is missing when a period that has events has none of it.
MissingStages(d) ==
  LET periods == {p \in Periods : Present(d, p) # {}} IN
  IF \E p \in periods : ~(FunnelStages \subseteq Present(d, p)) THEN {"stages"} ELSE {}

\* More than half of the events carry no benefit.
HighNullRate(d) ==
  LET Events(p)  == Weighted(d[p], LAMBDA x : EventCount(x, DropStages(d.kind, p)))
      NoBenefit(p) == Weighted(d[p], LAMBDA x : IF x.noBenefit
                                 THEN EventCount(x, DropStages(d.kind, p)) ELSE 0)
  IN  2 * (NoBenefit("baseline") + NoBenefit("incident")) > Events("baseline") + Events("incident")

Warnings(d) == MissingStages(d) \cup (IF HighNullRate(d) THEN {"benefit_id"} ELSE {})

-----------------------------------------------------------------------------
(* The fixed workflow.                                                     *)

StageName(s) ==
  CASE s = 3 -> "PAYMENT_OPTIONS_SHOWN"
    [] s = MethodSelected -> "PAYMENT_METHOD_SELECTED"
    [] s = Initiated -> "PAYMENT_INITIATED"
    [] s = ChannelSucceeded -> "CHANNEL_SUCCEEDED"
    [] OTHER -> "OTHER"

EvidenceDraft(type, stage, loss) == [type |-> type, stage |-> stage, loss |-> loss]

Raised(condition, type) ==
  IF condition THEN <<EvidenceDraft(type, "none", 0)>> ELSE <<>>

\* One draft for each value.  The code lists them in an order of its own, which
\* reaches no claim.
Drafted(values, Draft(_)) ==
  LET listed == SetToSeq(values) IN [n \in DOMAIN listed |-> Draft(listed[n])]

StageEvidence(b, i, s) ==
  IF IsAnomalous(b, i, s)
  THEN <<EvidenceDraft("FUNNEL_STAGE_DEGRADATION", StageName(s), EstimatedLost(b, i, s))>>
  ELSE <<>>

FunnelEvidence(b, i) ==
  StageEvidence(b, i, 1) \o StageEvidence(b, i, 2) \o StageEvidence(b, i, 3)
    \o StageEvidence(b, i, 4) \o StageEvidence(b, i, 5) \o StageEvidence(b, i, 6)
    \o StageEvidence(b, i, 7) \o StageEvidence(b, i, 8) \o StageEvidence(b, i, 9)
    \o Raised(AnomalousStages(b, i) = {}, "FUNNEL_BASELINE_STABLE")

BreakdownEvidence(d, dim) ==
  LET Row(period, v) == Conversion(d, period, dim, v)
      Degraded(v)    == RowDegraded(Row("baseline", v), Row("incident", v))
      Lost(v)        == RowLoss(Row("baseline", v), Row("incident", v))
  IN  Drafted({v \in Elements(ValuesOf(dim)) : Degraded(v) /\ Lost(v) > 0},
              LAMBDA v : EvidenceDraft("DIMENSION_CONTRIBUTION", "none", Lost(v)))

ConfigEvidence(d) ==
  Drafted(Elements(ConfigChangeTypes(d.kind)) \cap PaymentRelevant,
          LAMBDA t : EvidenceDraft("CONFIG_CHANGE", "none", 0))

\* Five tools always, the breakdown where a stage is anomalous.  The n-th record
\* of the ledger has code n.
ToolEvidence(d) ==
  LET b == ReachedCounts(d, "baseline")
      i == ReachedCounts(d, "incident")
  IN  FunnelEvidence(b, i)
        \o Raised(GapShifted(d), "BENEFIT_GAP_FRICTION")
        \o Raised(TimeoutsSeen(d), "CHANNEL_TIMEOUT")
        \o Raised(CancelsRose(d), "CANCEL_REORDER_FLOW")
        \o ConfigEvidence(d)
        \o IF AnomalousStages(b, i) = {} THEN <<>>
           ELSE BreakdownEvidence(d, "channel") \o BreakdownEvidence(d, "method")

BuildContext(d) == [evidence |-> ToolEvidence(d), missing |-> Warnings(d) # {}]

=============================================================================
