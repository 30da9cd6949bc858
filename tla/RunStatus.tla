----------------------------- MODULE RunStatus ------------------------------
(***************************************************************************)
(* The status vocabulary of a DiagnosisRun and the transition table that   *)
(* the incident service validates against.  "NONE" is the absence of a row *)
(* and no status of the program.                                           *)
(***************************************************************************)

Terminal  == {"SUCCEEDED", "NEEDS_DATA", "FAILED", "CANCELLED"}
Completed == {"SUCCEEDED", "NEEDS_DATA"}

\* A fault: a scan that also took PENDING runs would leave the table.
ScannedPending == {"RUNNING", "QUEUED", "COLLECTING_EVIDENCE", "GENERATING_REPORT",
                   "VALIDATING", "PENDING"}

\* What the stale scan looks for.  PENDING and DISPATCH_FAILED are absent.
Scanned == {"RUNNING", "QUEUED", "COLLECTING_EVIDENCE", "GENERATING_REPORT",
            "VALIDATING"}

\* What the retry endpoint accepts as the original run.
Retryable == {"FAILED", "DISPATCH_FAILED", "CANCELLED", "NEEDS_DATA"}

Statuses == Terminal \cup Scanned \cup {"PENDING", "DISPATCH_FAILED"}

\* The states every working status may be left for.
Abort == {"FAILED", "CANCELLED"}

\* A fault: a table without the second way to complete.
AllowedWithoutNeedsData(from) ==
  CASE from = "PENDING" -> {"DISPATCH_FAILED", "QUEUED", "CANCELLED"}
    [] from = "QUEUED"  -> Abort \cup {"RUNNING"}
    [] from = "RUNNING" -> Abort \cup {"SUCCEEDED", "COLLECTING_EVIDENCE"}
    [] OTHER            -> {}

Allowed(from) ==
  CASE from = "PENDING"             -> {"DISPATCH_FAILED", "QUEUED", "CANCELLED"}
    [] from = "DISPATCH_FAILED"     -> {"QUEUED", "CANCELLED"}
    [] from = "QUEUED"              -> Abort \cup {"RUNNING"}
    [] from = "RUNNING"             -> Abort \cup Completed \cup {"COLLECTING_EVIDENCE"}
    [] from = "COLLECTING_EVIDENCE" -> Abort \cup {"GENERATING_REPORT"}
    [] from = "GENERATING_REPORT"   -> Abort \cup {"VALIDATING"}
    [] from = "VALIDATING"          -> Abort \cup Completed
    [] OTHER                        -> {}

CanTransition(from, to) == from = to \/ to \in Allowed(from)

=============================================================================
