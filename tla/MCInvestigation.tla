--------------------------- MODULE MCInvestigation ---------------------------
(***************************************************************************)
(* Instances of Investigation: the deployed budget with the script, small  *)
(* budgets with a model, and one stage for each signal plus one for none.  *)
(***************************************************************************)
EXTENDS Investigation

MCScripted == {[policy |-> "scripted", limit |-> n] : n \in {1, 3, 8}}

MCSetups == MCScripted \cup {[policy |-> "model", limit |-> 3]}

\* A funnel can be filtered in two ways, of which neither is a repetition of the other.
MCNarrowed ==
  [funnel |-> {"filtered", "filtered_otherwise"}, breakdown |-> {"narrowed"},
   events |-> {"narrowed"}, config |-> {"narrowed"}, benefit |-> {}, cancel |-> {}]

MCStages == {"AUTHENTICATION_PASSED", "PLATFORM_CONFIRMED", "PAYMENT_INITIATED",
             "CHANNEL_SUCCEEDED", "ORDER_COMPLETED"}

=============================================================================
