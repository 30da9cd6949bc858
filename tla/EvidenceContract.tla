-------------------------- MODULE EvidenceContract --------------------------
(***************************************************************************)
(* What a set of evidence types allows one claim to say.  The rule is      *)
(* shared by the report validator, by the orchestrator that downgrades     *)
(* claims, and by the ledger of the investigation harness.                 *)
(***************************************************************************)

Negative == {"DATA_GAP", "FUNNEL_BASELINE_STABLE"}

Generic == {"FUNNEL_STAGE_DEGRADATION", "DIMENSION_CONTRIBUTION",
            "ERROR_CODE_CONCENTRATION"}

Observational == {"BENEFIT_GAP_FRICTION", "CONFIG_CHANGE", "CANCEL_REORDER_FLOW"}

EvidenceTypes == Negative \cup Generic \cup Observational \cup {"CHANNEL_TIMEOUT"}

Faults == {"BENEFIT_SELECTION_FRICTION", "AUTHENTICATION_FAILURE", "CHANNEL_TIMEOUT",
           "CALLBACK_FAILURE"}

Labels == Faults \cup {"NORMAL_PAYMENT_FAILURE", "DATA_QUALITY_ISSUE", "UNKNOWN"}

\* The labels that have an evidence type of their own.
OwnType(label) == CASE label = "CHANNEL_TIMEOUT"            -> {"CHANNEL_TIMEOUT"}
                    [] label = "BENEFIT_SELECTION_FRICTION" -> {"BENEFIT_GAP_FRICTION"}
                    [] OTHER                                -> {}

Verdicts == {"SUPPORTED", "PARTIAL", "UNKNOWN"}

Specific(types) == types \ (Negative \cup Generic)

\* A fault: the label's own evidence is not asked for.
AnyEvidenceVerdict(label, types) ==
  IF types \subseteq Negative THEN "UNKNOWN"
  ELSE IF Specific(types) # {} THEN "SUPPORTED" ELSE "PARTIAL"

\* A label that names a fault, or one the ontology does not know.
FaultVerdict(label, types) ==
  IF \/ types \subseteq Negative
     \/ OwnType(label) # {} /\ OwnType(label) \cap types = {}
    THEN "UNKNOWN"
  ELSE IF \/ \E s \in Specific(types) : s \notin Observational
          \/ \E s, t \in Specific(types) : s # t
    THEN "SUPPORTED"
  ELSE "PARTIAL"

ClassifySupport(label, types) ==
  CASE label = "UNKNOWN" -> "SUPPORTED"
    [] label = "DATA_QUALITY_ISSUE" ->
         IF "DATA_GAP" \in types THEN "SUPPORTED" ELSE "UNKNOWN"
    [] label = "NORMAL_PAYMENT_FAILURE" ->
         IF types # {} /\ types \subseteq Negative THEN "SUPPORTED" ELSE "UNKNOWN"
    [] OTHER -> FaultVerdict(label, types)

=============================================================================
