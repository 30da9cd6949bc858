---------------------------- MODULE ScenarioReport ----------------------------
(***************************************************************************)
(* From a data set to a published report: ReportPipeline, run on what the  *)
(* fixed workflow finds in a generated data set.  Beside them, as before,  *)
(* any evidence at all, with no data set behind it.                        *)
(***************************************************************************)
EXTENDS ReportPipeline, Analytics

CONSTANTS
  Datasets,
  NoData     \* the evidence comes from elsewhere

ASSUME DatasetsAssumption ==
  /\ \A d \in Datasets : IsDataset(d)
  /\ \A d \in Datasets : BuildContext(d) \in Contexts
  /\ NoData \notin Datasets

VARIABLE data  \* the file the run reads

dataVars == <<vars, data>>

ScenarioInit ==
  /\ data \in Datasets \cup {NoData}
  /\ data # NoData => ctx = BuildContext(data)
  /\ Init

\* The diagnosis reads the data set and never writes it.
ScenarioNext == Next /\ UNCHANGED data

ScenarioSpec == ScenarioInit /\ [][ScenarioNext]_dataVars

-----------------------------------------------------------------------------
(* The score of the report.                                                *)

FlaggedStages(d) == AnomalousStages(ReachedCounts(d, "baseline"), ReachedCounts(d, "incident"))

ExpectedRootCauses(kind) ==
  (IF kind \in FrictionKinds THEN {"BENEFIT_SELECTION_FRICTION"} ELSE {})
    \cup (IF kind \in TimeoutKinds THEN {"CHANNEL_TIMEOUT"} ELSE {})
    \cup (IF kind = "data_gap" THEN {"DATA_QUALITY_ISSUE"} ELSE {})
    \cup (IF kind \in FrictionKinds \cup TimeoutKinds \cup {"data_gap"} THEN {}
          ELSE {"NORMAL_PAYMENT_FAILURE"})

ExpectedGaps(kind) == IF kind = "data_gap" THEN {"stages", "benefit_id"} ELSE {}

PredictedCauses(r) == {r.causes[n].label : n \in DOMAIN r.causes}

\* The error of the loss is above a quarter of the true one, of one intent at least.
LossMisjudged(total, lost) ==
  4 * (IF total > lost THEN total - lost ELSE lost - total) > Larger(lost, 1)

\* What score_scenario holds against a report.  Where data are missing only the
\* gaps are compared.
Badcases(d, r) ==
  LET judged    == r.status # "NEEDS_DATA"
      stages    == FlaggedStages(d)
      causes    == PredictedCauses(r)
      Bad(b, name) == IF b THEN {name} ELSE {}
  IN  Bad(judged /\ ~(ExpectedStages(d.kind) \subseteq stages), "STAGE_MISS")
      \cup Bad(judged /\ ~(stages \subseteq ExpectedStages(d.kind)), "STAGE_FALSE_POSITIVE")
      \cup Bad(judged /\ ~(ExpectedRootCauses(d.kind) \subseteq causes), "ROOT_CAUSE_MISS")
      \cup Bad(judged /\ ~(causes \subseteq ExpectedRootCauses(d.kind)), "ROOT_CAUSE_FALSE_POSITIVE")
      \cup Bad(judged /\ \E n \in DOMAIN r.causes : r.causes[n].support = "UNKNOWN",
               "UNSUPPORTED_CLAIM")
      \cup Bad(judged /\ LossMisjudged(r.total, ExpectedLostIntents(d)), "LOSS_ATTRIBUTION_ERROR")
      \cup Bad(~(ExpectedGaps(d.kind) \subseteq IF r.missing THEN Warnings(d) ELSE {}),
               "DATA_GAP_MISS")

-----------------------------------------------------------------------------
(* Properties.                                                             *)

\* The rules' report on a data set is out.  (A language model's may state any loss.)
Finished == Done /\ data # NoData /\ draft = RuleReport(ctx)

Incident == ReachedCounts(data, "incident")
Baseline == ReachedCounts(data, "baseline")

\* No intent is charged twice and none that completed: where no data are missing,
\* the losses a report sums up over the stages are no more than the intents of
\* the incident that did not complete, and the loss of a dimension's value no
\* more than those of the value (get_funnel: "Step rates are disjoint").
LossWithinAttrition ==
  Finished /\ ~ctx.missing =>
    /\ report.total <= Incident[Confirmed] - Incident[Completed]
    /\ \A dim \in {"channel", "method"} : \A v \in Elements(ValuesOf(dim)) :
         LET row == Conversion(data, "incident", dim, v) IN
         RowLoss(Conversion(data, "baseline", dim, v), row) <= row.first - row.last

\* The funnel the page shows charges, over all stages, what the report states,
\* although the report sees flagged stages only.
FunnelAgreesWithReport == Finished => report.total = FunnelLoss(Baseline, Incident)

\* The loss the ground truth names is the counterfactual one: with it, as many
\* intents complete as would have without the fault, each counted once.
TruthIsCounterfactual ==
  data # NoData =>
    ExpectedLostIntents(data) + Count(data.incident, LAMBDA x : Reached(x) = Completed)
      = Count(data.incident, WouldHaveCompleted)

\* The tools that read one file agree on it: the buckets of the benefit query
\* divide the intents, cancellations, re-orders and recoveries that the trace
\* counts, and nobody recovers who did not order again after cancelling.
QueriesAgree ==
  data # NoData =>
    \A period \in Periods :
      LET trace == CancelReorderMetrics(data, period)
          Total(field) == SumFunction([b \in GapBuckets |-> BucketStats(data, period, b)[field]])
      IN  /\ Total("intents") = trace.total
          /\ Total("cancels") = trace.cancelled
          /\ Total("reorders") = trace.reordered
          /\ Total("recoveries") = trace.recovered
          /\ trace.recovered <= trace.reordered /\ trace.reordered <= trace.cancelled

\* Both: whichever tool or page one looks at, one data set has one set of numbers.
ViewsAgree == FunnelAgreesWithReport /\ QueriesAgree

\* Events withheld in one period only make a report ask for data and blame
\* nobody, however large the drop they cause in the funnel.
GapNeverBlamed ==
  Finished /\ data.kind = "data_gap" =>
    pc = "published" /\ report.status = "NEEDS_DATA" /\ report.causes = <<>>

\* The faults are all that tells the incident from the baseline: without them
\* every intent completes, and the gaps are the same on average.
FaultsAlone(d) ==
  /\ \A p \in Periods : \A x \in DOMAIN d[p] : WouldHaveCompleted(x)
  /\ LET Original(x) == IF d.kind \in FrictionKinds THEN x.gap - GapShift ELSE x.gap IN
     Weighted(d.incident, Original) = Weighted(d.baseline, LAMBDA x : x.gap)

\* Where the faults alone disturb the incident, no stage is flagged but one the
\* ground truth expects, and no more is charged than it names; and where they
\* reach the threshold at every such stage, the diagnosis is right in every
\* respect that is scored and its loss is exact.  The stage a fault is injected
\* at, the stage the funnel flags, the claim made from it and the truth share one
\* convention (_ground_truth_for), and no intent is lost to two faults.
FaultsAreFound ==
  Finished /\ ~ctx.missing /\ FaultsAlone(data) =>
    /\ FlaggedStages(data) \subseteq ExpectedStages(data.kind)
    /\ report.total <= ExpectedLostIntents(data)
    /\ ExpectedStages(data.kind) \subseteq FlaggedStages(data) =>
         Badcases(data, report) = {} /\ report.total = ExpectedLostIntents(data)

=============================================================================
