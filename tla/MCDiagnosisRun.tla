--------------------------- MODULE MCDiagnosisRun ---------------------------
(***************************************************************************)
(* Finite instances of DiagnosisRun for TLC.                               *)
(***************************************************************************)
EXTENDS DiagnosisRun

\* All the runs belong to one incident, so any of them can be retried as another.
OneIncident == [r \in Runs |-> "incident"]

=============================================================================
