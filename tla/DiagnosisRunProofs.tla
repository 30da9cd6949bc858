------------------------- MODULE DiagnosisRunProofs -------------------------
(***************************************************************************)
(* What holds of DiagnosisRun for any number of runs, requests, workers,   *)
(* retries and message copies, and what one worker adds.                   *)
(***************************************************************************)
EXTENDS DiagnosisRun, TLAPS

\* The statuses of the program, as one set of names.
LEMMA StatusNames ==
  /\ Statuses = {"SUCCEEDED", "NEEDS_DATA", "FAILED", "CANCELLED", "RUNNING", "QUEUED",
                 "COLLECTING_EVIDENCE", "GENERATING_REPORT", "VALIDATING", "PENDING",
                 "DISPATCH_FAILED"}
  /\ Completed \subseteq Terminal /\ Terminal \subseteq Statuses
  /\ "QUEUED" \in Statuses /\ "RUNNING" \in Statuses /\ "FAILED" \in Statuses
BY DEF Statuses, Terminal, Completed, Scanned

\* The code's attempt to record a failed publish is refused by its own table.
LEMMA NoDispatchFailure == ~CanTransition("QUEUED", "DISPATCH_FAILED")
BY DEF CanTransition, Allowed, Abort

LEMMA FlushType ==
  ASSUME NEW r \in Runs, NEW seen, NEW new \in Statuses,
         status \in [Runs -> Statuses \cup {"NONE"}], Flush(r, seen, new)
  PROVE  status' \in [Runs -> Statuses \cup {"NONE"}]
BY DEF Flush

LEMMA EventsType ==
  ASSUME NEW r \in Runs, NEW events \in Seq(EventTypes),
         log \in [Runs -> Seq(EventTypes)], WriteEvents(r, events)
  PROVE  log' \in [Runs -> Seq(EventTypes)]
BY DEF WriteEvents

LEMMA CompletionEventsType ==
  ASSUME NEW o PROVE CompletionEvents(o) \in Seq(EventTypes)
<1> DEFINE done == IF o = "SUCCEEDED" THEN "run_succeeded" ELSE "run_needs_data"
<1>1. done \in EventTypes /\ "harness_routed" \in EventTypes /\ "tool_completed" \in EventTypes
  BY DEF EventTypes
<1>2. CompletionEvents(o) = IF AgentMode = "B2"
                              THEN <<"harness_routed", done, "tool_completed">>
                              ELSE <<done, "tool_completed">>
  BY DEF CompletionEvents
<1> HIDE DEF done
<1>3. QED  BY <1>1, <1>2

\* The record updates of the actions stay in the record types.
LEMMA ReqFields ==
  /\ \A q \in Reqs : [q EXCEPT !.pc = "queued"] \in Reqs
  /\ \A q \in Reqs : [q EXCEPT !.pc = "published"] \in Reqs
  /\ \A r \in Runs : [pc |-> "created", run |-> r] \in Reqs
  /\ IdleReq \in Reqs
BY RunAssumption DEF Reqs, IdleReq

LEMMA TaskFields ==
  ASSUME NEW t \in Tasks, NEW s \in Statuses \cup {"NONE"},
         NEW o \in Completed \cup {"FAILED"}
  PROVE  /\ [t EXCEPT !.pc = "executing", !.seen = "NONE", !.seenStarted = "never"] \in Tasks
         /\ [t EXCEPT !.pc = "finishing", !.outcome = o, !.seen = s] \in Tasks
         /\ [t EXCEPT !.pc = "scanning"] \in Tasks
BY DEF Tasks, Pcs

LEMMA TaskLoaded ==
  ASSUME NEW r \in Runs, NEW a \in Attempts, NEW s \in Statuses \cup {"NONE"},
         NEW st \in {"never", "recent", "old"}
  PROVE  [pc |-> "loaded", run |-> r, attempt |-> a, seen |-> s, seenStarted |-> st,
          outcome |-> "none"] \in Tasks
BY DEF Tasks, Pcs

LEMMA IdleTyped == IdleTask \in Tasks /\ IdleTask.pc = "idle" /\ IdleTask.run = NoRun
BY RunAssumption DEF IdleTask, Tasks, Attempts, Pcs

\* A request or a worker that is in the middle of something has a run, which
\* the record types alone do not say.
HoldsRun ==
  /\ \A c \in Clients : req[c].pc # "idle" => req[c].run \in Runs
  /\ \A w \in Workers : task[w].pc \in {"loaded", "executing", "finishing"}
                          => task[w].run \in Runs
  /\ \A w \in Workers : task[w].pc = "finishing" => task[w].outcome # "none"

TypeInv == TypeOK /\ HoldsRun

LEMMA InitType == Init => TypeInv
BY RunAssumption, IdleTyped, ReqFields
   DEF Init, TypeInv, TypeOK, HoldsRun, IdleReq, IdleTask, Attempts, Pcs

LEMMA RequestType ==
  ASSUME TypeInv, NEW c \in Clients, RequestStep(c)
  PROVE  TypeInv'
<1> USE RunAssumption, StatusNames DEF TypeInv, TypeOK
<1>1. ASSUME NEW r \in Runs, NEW o \in Runs \cup {NoRun}, InsertRun(c, r, o) PROVE TypeInv'
  <2>1. req' \in [Clients -> Reqs]  BY <1>1, ReqFields DEF InsertRun
  <2>2. HoldsRun'  BY <1>1 DEF InsertRun, HoldsRun
  <2>3. QED  BY <1>1, <2>1, <2>2 DEF InsertRun
<1>2. CASE CommitQueued(c)
  <2>1. req[c].run \in Runs  BY <1>2 DEF CommitQueued, HoldsRun
  <2>2. status' \in [Runs -> Statuses \cup {"NONE"}]  BY <1>2, <2>1, FlushType DEF CommitQueued
  <2>3. log' \in [Runs -> Seq(EventTypes)]  BY <1>2, <2>1 DEF CommitQueued, WriteEvents, EventTypes
  <2>4. req' \in [Clients -> Reqs]  BY <1>2, ReqFields DEF CommitQueued
  <2>5. HoldsRun'  BY <1>2, <2>1 DEF CommitQueued, HoldsRun
  <2>6. QED  BY <1>2, <2>2, <2>3, <2>4, <2>5 DEF CommitQueued, Touch
<1>3. CASE Publish(c)
  <2>1. queue' \in [Runs -> [Attempts -> Nat]]
    <3>1. req[c].run \in Runs /\ 0 \in Attempts  BY <1>3 DEF Publish, HoldsRun, Attempts
    <3>2. PICK n \in 1 .. MaxCopies : queue' = [queue EXCEPT ![req[c].run][0] = @ + n]
      BY <1>3 DEF Publish
    <3>3. queue[req[c].run][0] + n \in Nat  BY <3>1
    <3>4. QED  BY <3>1, <3>2, <3>3
  <2>2. req' \in [Clients -> Reqs]  BY <1>3, ReqFields DEF Publish
  <2>3. HoldsRun'  BY <1>3 DEF Publish, HoldsRun
  <2>4. QED  BY <1>3, <2>1, <2>2, <2>3 DEF Publish, rowVars
<1>4. CASE PublishFails(c)
  <2>1. queue' \in [Runs -> [Attempts -> Nat]]
    <3>1. req[c].run \in Runs /\ 0 \in Attempts  BY <1>4 DEF PublishFails, HoldsRun, Attempts
    <3>2. PICK n \in 0 .. MaxCopies : queue' = [queue EXCEPT ![req[c].run][0] = @ + n]
      BY <1>4 DEF PublishFails
    <3>3. queue[req[c].run][0] + n \in Nat  BY <3>1
    <3>4. QED  BY <3>1, <3>2, <3>3
  <2>2. req' \in [Clients -> Reqs]  BY <1>4, ReqFields DEF PublishFails
  <2>3. HoldsRun'  BY <1>4 DEF PublishFails, HoldsRun, IdleReq
  <2>4. UNCHANGED <<status, idle, log>>  BY <1>4, NoDispatchFailure DEF PublishFails
  <2>5. QED  BY <1>4, <2>1, <2>2, <2>3, <2>4 DEF PublishFails
<1>5. CASE RecordTaskId(c)
  <2>1. req' \in [Clients -> Reqs]  BY <1>5, ReqFields DEF RecordTaskId
  <2>2. HoldsRun'  BY <1>5 DEF RecordTaskId, HoldsRun, IdleReq
  <2>3. QED  BY <1>5, <2>1, <2>2 DEF RecordTaskId, Touch
<1>6. CASE RequestDies(c)
  <2>1. req' \in [Clients -> Reqs]  BY <1>6, ReqFields DEF RequestDies
  <2>2. HoldsRun'  BY <1>6 DEF RequestDies, HoldsRun, IdleReq
  <2>3. QED  BY <1>6, <2>1, <2>2 DEF RequestDies, rowVars
<1>7. QED
  BY <1>1, <1>2, <1>3, <1>4, <1>5, <1>6 DEF RequestStep, TriggerDiagnosis, RetryDiagnosis

LEMMA TaskType ==
  ASSUME TypeInv, NEW w \in Workers, TaskStep(w)
  PROVE  TypeInv'
<1> USE RunAssumption, StatusNames DEF TypeInv, TypeOK
<1>1. ASSUME NEW r \in Runs, NEW a \in Attempts, TakeMessage(w, r, a) PROVE TypeInv'
  <2>1. queue' \in [Runs -> [Attempts -> Nat]]
    <3>1. queue[r][a] - 1 \in Nat  BY <1>1 DEF TakeMessage
    <3>2. QED  BY <1>1, <3>1 DEF TakeMessage
  <2>2. task' \in [Workers -> Tasks]  BY <1>1, TaskLoaded DEF TakeMessage
  <2>3. HoldsRun'  BY <1>1 DEF TakeMessage, HoldsRun
  <2>4. QED  BY <1>1, <2>1, <2>2, <2>3 DEF TakeMessage, rowVars
<1>2. CASE Claim(w)
  <2>1. task[w].run \in Runs  BY <1>2 DEF Claim, HoldsRun
  <2>2. status' \in [Runs -> Statuses \cup {"NONE"}]  BY <1>2, <2>1, FlushType DEF Claim
  <2>3. log' \in [Runs -> Seq(EventTypes)]  BY <1>2, <2>1 DEF Claim, WriteEvents, EventTypes
  <2>4. task' \in [Workers -> Tasks]  BY <1>2, TaskFields DEF Claim
  <2>5. HoldsRun'  BY <1>2, <2>1 DEF Claim, HoldsRun
  <2>6. QED  BY <1>2, <2>1, <2>2, <2>3, <2>4, <2>5 DEF Claim, Touch
<1>3. ASSUME NEW o \in Completed \cup {"FAILED"}, Execute(w, o) PROVE TypeInv'
  <2>1. task[w].run \in Runs  BY <1>3 DEF Execute, HoldsRun
  <2>2. task' \in [Workers -> Tasks]  BY <1>3, <2>1, TaskFields DEF Execute
  <2>3. HoldsRun'  BY <1>3, <2>1 DEF Execute, HoldsRun, Completed
  <2>4. QED  BY <1>3, <2>2, <2>3 DEF Execute, rowVars
<1>4. CASE RetryLater(w)
  <2>1. task[w].run \in Runs  BY <1>4 DEF RetryLater, HoldsRun
  <2>2. log' \in [Runs -> Seq(EventTypes)]
    <3>1. PICK events \in {<<>>, <<"run_retrying">>} : WriteEvents(task[w].run, events)
      BY <1>4 DEF RetryLater
    <3>2. <<>> \in Seq(EventTypes) /\ <<"run_retrying">> \in Seq(EventTypes)  BY DEF EventTypes
    <3>3. QED  BY <2>1, <3>1, <3>2, EventsType
  <2>3. queue' \in [Runs -> [Attempts -> Nat]]
    <3>1. task[w].attempt \in Attempts  BY DEF Tasks
    <3>2. CASE task[w].attempt < MaxRetries
      <4>1. task[w].attempt + 1 \in Attempts  BY <3>1, <3>2 DEF Attempts
      <4>2. queue[task[w].run][task[w].attempt + 1] + 1 \in Nat  BY <2>1, <4>1
      <4>3. QED  BY <1>4, <2>1, <3>2, <4>1, <4>2 DEF RetryLater
    <3>3. CASE ~(task[w].attempt < MaxRetries)
      BY <1>4, <3>3 DEF RetryLater
    <3>4. QED  BY <3>2, <3>3
  <2>4. task' \in [Workers -> Tasks]  BY <1>4, IdleTyped DEF RetryLater
  <2>5. HoldsRun'  BY <1>4, IdleTyped DEF RetryLater, HoldsRun
  <2>6. QED  BY <1>4, <2>2, <2>3, <2>4, <2>5 DEF RetryLater
<1>5. CASE PersistReport(w)
  <2>1. task[w].run \in Runs  BY <1>5 DEF PersistReport, HoldsRun
  <2>2. status' \in [Runs -> Statuses \cup {"NONE"}]  BY <1>5, <2>1, FlushType DEF PersistReport
  <2>3. log' \in [Runs -> Seq(EventTypes)]
    BY <1>5, <2>1, EventsType, CompletionEventsType DEF PersistReport
  <2>4. task' \in [Workers -> Tasks]  BY <1>5, IdleTyped DEF PersistReport
  <2>5. HoldsRun'  BY <1>5, IdleTyped DEF PersistReport, HoldsRun
  <2>6. QED  BY <1>5, <2>1, <2>2, <2>3, <2>4, <2>5 DEF PersistReport, Touch
<1>6. CASE PersistFailure(w)
  <2>1. task[w].run \in Runs  BY <1>6 DEF PersistFailure, HoldsRun
  <2>2. status' \in [Runs -> Statuses \cup {"NONE"}]  BY <1>6, <2>1, FlushType DEF PersistFailure
  <2>3. log' \in [Runs -> Seq(EventTypes)]
    BY <1>6, <2>1 DEF PersistFailure, WriteEvents, EventTypes
  <2>4. task' \in [Workers -> Tasks]  BY <1>6, IdleTyped DEF PersistFailure
  <2>5. HoldsRun'  BY <1>6, IdleTyped DEF PersistFailure, HoldsRun
  <2>6. QED  BY <1>6, <2>1, <2>2, <2>3, <2>4, <2>5 DEF PersistFailure, Touch
<1>7. CASE Refused(w)
  <2>1. task' \in [Workers -> Tasks]  BY <1>7, IdleTyped DEF Refused
  <2>2. HoldsRun'  BY <1>7, IdleTyped DEF Refused, HoldsRun
  <2>3. QED  BY <1>7, <2>1, <2>2 DEF Refused, rowVars
<1>8. QED
  BY <1>1, <1>2, <1>3, <1>4, <1>5, <1>6, <1>7 DEF TaskStep

LEMMA OtherType ==
  ASSUME TypeInv
  PROVE  /\ \A w \in Workers : ScanStep(w) \/ TaskDies(w) => TypeInv'
         /\ TimePasses => TypeInv'
         /\ UNCHANGED vars => TypeInv'
<1> USE RunAssumption, StatusNames DEF TypeInv, TypeOK
<1>1. ASSUME NEW w \in Workers, ScanRead(w) PROVE TypeInv'
  <2>1. task' \in [Workers -> Tasks]  BY <1>1, TaskFields DEF ScanRead
  <2>2. batch' \in [Workers -> SUBSET Runs]  BY <1>1 DEF ScanRead, Stale
  <2>3. HoldsRun'  BY <1>1 DEF ScanRead, HoldsRun
  <2>4. QED  BY <1>1, <2>1, <2>2, <2>3 DEF ScanRead, rowVars
<1>2. ASSUME NEW w \in Workers, ScanCommit(w) PROVE TypeInv'
  <2>1. task' \in [Workers -> Tasks]  BY <1>2, IdleTyped DEF ScanCommit
  <2>2. HoldsRun'  BY <1>2, IdleTyped DEF ScanCommit, HoldsRun
  <2>3. QED  BY <1>2, <2>1, <2>2 DEF ScanCommit
<1>3. ASSUME NEW w \in Workers, TaskDies(w) PROVE TypeInv'
  <2>1. task' \in [Workers -> Tasks]  BY <1>3, IdleTyped DEF TaskDies
  <2>2. HoldsRun'  BY <1>3, IdleTyped DEF TaskDies, HoldsRun
  <2>3. QED  BY <1>3, <2>1, <2>2 DEF TaskDies, rowVars
<1>4. ASSUME TimePasses PROVE TypeInv'
  BY <1>4 DEF TimePasses, StartedAges, BecomesIdle, HoldsRun
<1>5. ASSUME UNCHANGED vars PROVE TypeInv'
  BY <1>5 DEF vars, HoldsRun
<1>6. QED
  BY <1>1, <1>2, <1>3, <1>4, <1>5 DEF ScanStep

LEMMA StepType == TypeInv /\ [Next]_vars => TypeInv'
BY RequestType, TaskType, OtherType DEF Next

\* Type correctness: every column and every local variable of the run
\* lifecycle keeps its type, for all constants.
THEOREM TypeCorrect == Spec => []TypeOK
<1>1. TypeInv => TypeOK  BY DEF TypeInv
<1>2. QED  BY <1>1, InitType, StepType, PTL DEF Spec

-----------------------------------------------------------------------------
(* Results.  The event log and the report tell the same story because the  *)
(* unique constraint makes a second result fail as a whole.                *)

\* Appending events keeps the completions of the log and adds those appended.
LEMMA AppendedCompletions ==
  ASSUME NEW s \in Seq(EventTypes), NEW e \in Seq(EventTypes), NEW i \in DOMAIN (s \o e)
  PROVE  /\ i <= Len(s) => i \in DOMAIN s /\ (s \o e)[i] = s[i]
         /\ i > Len(s) => i - Len(s) \in DOMAIN e /\ (s \o e)[i] = e[i - Len(s)]
OBVIOUS

LEMMA PrefixKept ==
  ASSUME NEW s \in Seq(EventTypes), NEW e \in Seq(EventTypes), NEW i \in DOMAIN s
  PROVE  i \in DOMAIN (s \o e) /\ (s \o e)[i] = s[i]
OBVIOUS

\* The same positions and the same results as before.
SameCompletions(r) ==
  \A i : /\ i \in Completions(r)' <=> i \in Completions(r)
         /\ i \in Completions(r) => log'[r][i] = log[r][i]

Quiet(events) == \A i \in DOMAIN events : CompletionOf(events[i]) = "none"

LEMMA QuietAppend ==
  ASSUME TypeOK, NEW q \in Runs, NEW r \in Runs, NEW events \in Seq(EventTypes),
         Quiet(events), WriteEvents(q, events)
  PROVE  SameCompletions(r)
<1>1. log[r] \in Seq(EventTypes)  BY DEF TypeOK
<1>2. CASE q # r
  BY <1>1, <1>2 DEF WriteEvents, SameCompletions, Completions, TypeOK
<1>3. CASE q = r
  <2>1. log'[r] = log[r] \o events  BY <1>3 DEF WriteEvents, TypeOK
  <2>2. ASSUME NEW i, i \in Completions(r)' PROVE i \in Completions(r) /\ log'[r][i] = log[r][i]
    BY <1>1, <2>1, <2>2, AppendedCompletions DEF Completions, Quiet
  <2>3. ASSUME NEW i, i \in Completions(r) PROVE i \in Completions(r)' /\ log'[r][i] = log[r][i]
    BY <1>1, <2>1, <2>3, PrefixKept DEF Completions
  <2>4. QED  BY <2>2, <2>3 DEF SameCompletions
<1>4. QED  BY <1>2, <1>3

LEMMA QuietEvents ==
  \A e \in {"run_queued", "dispatch_failed", "run_started", "run_retrying", "run_failed"} :
    <<e>> \in Seq(EventTypes) /\ Quiet(<<e>>)
BY DEF EventTypes, Quiet, CompletionOf

\* The events of a completed diagnosis contain exactly one result, its own.
LEMMA OneCompletion ==
  ASSUME NEW o \in Completed
  PROVE  \E k \in DOMAIN CompletionEvents(o) :
           /\ CompletionOf(CompletionEvents(o)[k]) = o
           /\ \A j \in DOMAIN CompletionEvents(o) :
                CompletionOf(CompletionEvents(o)[j]) # "none" => j = k
<1> DEFINE done == IF o = "SUCCEEDED" THEN "run_succeeded" ELSE "run_needs_data"
<1>1. CompletionOf(done) = o  BY DEF Completed, CompletionOf
<1>2. CompletionEvents(o) = IF AgentMode = "B2"
                              THEN <<"harness_routed", done, "tool_completed">>
                              ELSE <<done, "tool_completed">>
  BY DEF CompletionEvents
<1> HIDE DEF done
<1>3. QED  BY <1>1, <1>2 DEF CompletionOf

ResultInv == CompletedHasReport /\ ResultAnnouncedOnce

\* What is left of the invariant when a step brings no result.
LEMMA NoResultStep ==
  ASSUME TypeOK, ResultInv, UNCHANGED report,
         \A r \in Runs : SameCompletions(r),
         \A r \in Runs : status'[r] \in Completed => status'[r] = status[r]
  PROVE  ResultInv'
BY DEF ResultInv, CompletedHasReport, ResultAnnouncedOnce, SameCompletions

LEMMA UnchangedLog ==
  ASSUME UNCHANGED log, NEW r \in Runs PROVE SameCompletions(r)
BY DEF SameCompletions, Completions

LEMMA ResultStep ==
  ASSUME TypeInv, ResultInv, NEW w \in Workers, PersistReport(w)
  PROVE  ResultInv'
<1> PICK q \in Runs : q = task[w].run
  BY DEF TypeInv, HoldsRun, PersistReport
<1> PICK o \in Completed : o = task[w].outcome
  BY DEF PersistReport
<1> DEFINE e == CompletionEvents(o)
           s == log[q]
<1>1. report[q] = "none"
  BY DEF PersistReport
<1>2. /\ report' = [report EXCEPT ![q] = o]
      /\ log' = [log EXCEPT ![q] = @ \o e]
      /\ Flush(q, task[w].seen, o)
  BY DEF PersistReport, WriteEvents
<1>3. /\ log \in [Runs -> Seq(EventTypes)] /\ e \in Seq(EventTypes) /\ s \in Seq(EventTypes)
      /\ status \in [Runs -> Statuses \cup {"NONE"}]
      /\ report \in [Runs -> Completed \cup {"none"}]
  BY CompletionEventsType DEF TypeInv, TypeOK
<1>4. "none" \notin Completed  BY DEF Completed
<1>5. ASSUME NEW r \in Runs, r # q
      PROVE  /\ SameCompletions(r) /\ report'[r] = report[r] /\ status'[r] = status[r]
  BY <1>2, <1>3, <1>5 DEF SameCompletions, Completions, Flush
<1>6. report'[q] = o /\ log'[q] = s \o e
  BY <1>2, <1>3
<1>7. Completions(q) = {}  BY <1>1 DEF ResultInv, ResultAnnouncedOnce
<1>8. PICK k \in DOMAIN e : /\ CompletionOf(e[k]) = o
                            /\ \A j \in DOMAIN e : CompletionOf(e[j]) # "none" => j = k
  BY OneCompletion
<1>9. /\ \A i \in DOMAIN s : CompletionOf(s[i]) = "none"
      /\ Completions(q)' = {i \in DOMAIN (s \o e) : CompletionOf((s \o e)[i]) # "none"}
  BY <1>6, <1>7 DEF Completions
<1> HIDE DEF s, e
<1>10. Completions(q)' = {Len(s) + k} /\ CompletionOf(log'[q][Len(s) + k]) = o
  <2>1. Len(s) + k \in DOMAIN (s \o e) /\ (s \o e)[Len(s) + k] = e[k]
    BY <1>3
  <2>2. ASSUME NEW i \in DOMAIN (s \o e), CompletionOf((s \o e)[i]) # "none"
        PROVE  i = Len(s) + k
    <3>1. i > Len(s)  BY <1>3, <1>9, <2>2, AppendedCompletions
    <3>2. i - Len(s) = k  BY <1>3, <1>8, <2>2, <3>1, AppendedCompletions
    <3>3. QED  BY <1>3, <3>2
  <2>3. CompletionOf((s \o e)[Len(s) + k]) # "none"  BY <1>4, <1>8, <2>1
  <2>4. QED  BY <1>6, <1>8, <1>9, <2>1, <2>2, <2>3
<1>11. CompletedHasReport'
  <2>1. status[q] \notin Completed
    BY <1>1, <1>4 DEF ResultInv, CompletedHasReport
  <2>2. status'[q] \in Completed => status'[q] = o
    BY <1>2, <1>3, <2>1 DEF Flush
  <2>3. QED  BY <1>5, <1>6, <2>2 DEF ResultInv, CompletedHasReport
<1>12. ResultAnnouncedOnce'
  <2>1. ASSUME NEW r \in Runs
        PROVE  /\ Completions(r)' = {} <=> report'[r] = "none"
               /\ \A i, j \in Completions(r)' : i = j /\ CompletionOf(log'[r][i]) = report'[r]
    <3>1. CASE r = q
      BY <1>4, <1>6, <1>10, <3>1
    <3>2. CASE r # q
      BY <1>5, <3>2 DEF ResultInv, ResultAnnouncedOnce, SameCompletions
    <3>3. QED  BY <3>1, <3>2
  <2>2. QED  BY <2>1 DEF ResultAnnouncedOnce
<1>13. QED  BY <1>11, <1>12 DEF ResultInv

LEMMA ResultInit == Init => ResultInv
BY DEF Init, ResultInv, CompletedHasReport, ResultAnnouncedOnce, Completions, Completed

\* Every other action leaves the report alone and writes no completed status.
LEMMA ResultInvStep ==
  ASSUME TypeInv, ResultInv, [Next]_vars
  PROVE  ResultInv'
<1> USE NoResultStep, UnchangedLog
<1>0. TypeOK /\ HoldsRun /\ "QUEUED" \notin Completed /\ "RUNNING" \notin Completed
      /\ "FAILED" \notin Completed /\ "PENDING" \notin Completed
  BY DEF TypeInv, Completed
<1>1. ASSUME NEW c \in Clients, RequestStep(c) PROVE ResultInv'
  <2>1. ASSUME NEW r \in Runs, NEW o, InsertRun(c, r, o) PROVE ResultInv'
    BY <1>0, <2>1 DEF InsertRun, TypeOK
  <2>2. CASE CommitQueued(c)
    <3> PICK q \in Runs : q = req[c].run  BY <1>0, <2>2 DEF CommitQueued, HoldsRun
    <3>1. \A r \in Runs : SameCompletions(r)
      BY <1>0, <2>2, QuietAppend, QuietEvents DEF CommitQueued
    <3>2. QED  BY <1>0, <2>2, <3>1 DEF CommitQueued, Flush, TypeOK
  <2>3. CASE Publish(c) \/ RecordTaskId(c) \/ RequestDies(c)
    BY <1>0, <2>3 DEF Publish, RecordTaskId, RequestDies, rowVars
  <2>4. CASE PublishFails(c)
    BY <1>0, <2>4, NoDispatchFailure DEF PublishFails
  <2>5. QED
    BY <1>1, <2>1, <2>2, <2>3, <2>4 DEF RequestStep, TriggerDiagnosis, RetryDiagnosis
<1>2. ASSUME NEW w \in Workers, TaskStep(w) PROVE ResultInv'
  <2>1. CASE \/ \E r \in Runs, a \in Attempts : TakeMessage(w, r, a)
             \/ \E o \in Completed \cup {"FAILED"} : Execute(w, o)
             \/ Refused(w)
    BY <1>0, <2>1 DEF TakeMessage, Execute, Refused, rowVars
  <2>2. CASE Claim(w)
    <3> PICK q \in Runs : q = task[w].run  BY <1>0, <2>2 DEF Claim, HoldsRun
    <3>1. \A r \in Runs : SameCompletions(r)
      BY <1>0, <2>2, QuietAppend, QuietEvents DEF Claim
    <3>2. QED  BY <1>0, <2>2, <3>1 DEF Claim, Flush, TypeOK
  <2>3. CASE RetryLater(w)
    <3> PICK q \in Runs : q = task[w].run  BY <1>0, <2>3 DEF RetryLater, HoldsRun
    <3>1. <<>> \in Seq(EventTypes) /\ Quiet(<<>>)  BY DEF Quiet
    <3>2. PICK events \in {<<>>, <<"run_retrying">>} : WriteEvents(q, events)
      BY <2>3 DEF RetryLater
    <3>3. \A r \in Runs : SameCompletions(r)
      BY <1>0, <3>1, <3>2, QuietAppend, QuietEvents
    <3>4. QED  BY <1>0, <2>3, <3>3 DEF RetryLater
  <2>4. CASE PersistReport(w)
    BY <2>4, ResultStep
  <2>5. CASE PersistFailure(w)
    <3> PICK q \in Runs : q = task[w].run  BY <1>0, <2>5 DEF PersistFailure, HoldsRun
    <3>1. \A r \in Runs : SameCompletions(r)
      BY <1>0, <2>5, QuietAppend, QuietEvents DEF PersistFailure
    <3>2. QED  BY <1>0, <2>5, <3>1 DEF PersistFailure, Flush, TypeOK
  <2>6. QED  BY <1>2, <2>1, <2>2, <2>3, <2>4, <2>5 DEF TaskStep
<1>3. ASSUME NEW w \in Workers, ScanStep(w) \/ TaskDies(w) PROVE ResultInv'
  BY <1>0, <1>3 DEF ScanStep, ScanRead, ScanCommit, TaskDies, rowVars
<1>4. CASE TimePasses
  BY <1>0, <1>4 DEF TimePasses, StartedAges, BecomesIdle
<1>5. CASE UNCHANGED vars
  BY <1>0, <1>5 DEF vars
<1>6. QED  BY <1>1, <1>2, <1>3, <1>4, <1>5 DEF Next

\* However deliveries, retries and scans are interleaved, over any number of
\* workers and copies of a message: a completed run shows the report it has,
\* and its log announces one result exactly when that report exists.
THEOREM ResultsConsistent == Spec => [](CompletedHasReport /\ ResultAnnouncedOnce)
<1>1. ResultInv => CompletedHasReport /\ ResultAnnouncedOnce  BY DEF ResultInv
<1>2. QED  BY <1>1, InitType, StepType, ResultInit, ResultInvStep, PTL DEF Spec

\* The announcement alone: however often a run is executed, its log announces
\* one result, that of its only report.
THEOREM AnnouncedOnce == Spec => []ResultAnnouncedOnce
BY ResultsConsistent, PTL

-----------------------------------------------------------------------------
(* Dispatch.  A task exists only for a run whose QUEUED status is already  *)
(* committed, and each run is held by at most one API request.             *)

Unsent == {"NONE", "PENDING", "DISPATCH_FAILED"}

\* The statuses the program writes; the others of the table are reserved.
Used == {"NONE", "PENDING", "QUEUED", "RUNNING", "SUCCEEDED", "NEEDS_DATA", "FAILED"}

DispatchInv ==
  /\ \A r \in Runs : status[r] \in Used
  /\ \A r \in Runs, c \in Clients : req[c].pc = "created" /\ req[c].run = r =>
       status[r] = "PENDING" /\ ~InFlight(r)
  /\ \A r \in Runs, c \in Clients : req[c].pc \in {"queued", "published"} /\ req[c].run = r =>
       status[r] \notin Unsent
  /\ \A r \in Runs : InFlight(r) => status[r] \notin Unsent
  /\ \A w \in Workers : \A r \in batch[w] : status[r] \notin Unsent
  /\ \A r \in Runs, c, d \in Clients :
       /\ req[c].pc # "idle" /\ req[c].run = r
       /\ req[d].pc # "idle" /\ req[d].run = r
       => c = d

LEMMA DispatchInit == Init => DispatchInv
BY RunAssumption DEF Init, DispatchInv, InFlight, Working, IdleReq, IdleTask, Used, Unsent

\* A step that only moves on rows that were sent, of tasks that were in flight.
LEMMA SentStep ==
  ASSUME DispatchInv, UNCHANGED req,
         \A r \in Runs : InFlight(r)' => InFlight(r),
         \A r \in Runs : status'[r] # status[r] =>
            status[r] \notin Unsent /\ status'[r] \in Used \ Unsent,
         \A w \in Workers : \A r \in batch'[w] : r \in Runs /\ status[r] \notin Unsent
  PROVE  DispatchInv'
<1>1. \A r \in Runs : /\ status'[r] \in Used
                      /\ status[r] \notin Unsent => status'[r] \notin Unsent
                      /\ status[r] = "PENDING" => status'[r] = "PENDING"
  BY DEF DispatchInv, Unsent
<1>2. \A r \in Runs, c \in Clients : req'[c].pc = "created" /\ req'[c].run = r =>
       status'[r] = "PENDING" /\ ~InFlight(r)'
  BY <1>1 DEF DispatchInv
<1>3. \A r \in Runs, c \in Clients :
         req'[c].pc \in {"queued", "published"} /\ req'[c].run = r => status'[r] \notin Unsent
  BY <1>1 DEF DispatchInv
<1>4. \A r \in Runs : InFlight(r)' => status'[r] \notin Unsent
  BY <1>1 DEF DispatchInv
<1>5. \A w \in Workers : \A r \in batch'[w] : status'[r] \notin Unsent
  BY <1>1
<1>6. QED  BY <1>1, <1>2, <1>3, <1>4, <1>5 DEF DispatchInv

\* A request that only ends.
LEMMA RequestEnds ==
  ASSUME TypeOK, DispatchInv, NEW c \in Clients,
         UNCHANGED <<status, batch>>, \A r \in Runs : InFlight(r)' = InFlight(r),
         req' = [req EXCEPT ![c] = IdleReq]
  PROVE  DispatchInv'
<1>1. \A d \in Clients : req'[d].pc # "idle" => req'[d] = req[d]
  BY DEF IdleReq, TypeOK
<1>2. QED  BY <1>1 DEF DispatchInv

LEMMA DispatchRequest ==
  ASSUME TypeInv, DispatchInv, NEW c \in Clients, RequestStep(c)
  PROVE  DispatchInv'
<1>0. TypeOK /\ HoldsRun  BY DEF TypeInv
<1>1. ASSUME NEW r \in Runs, NEW o, InsertRun(c, r, o) PROVE DispatchInv'
  <2>1. \A q \in Runs : InFlight(q)' = InFlight(q)
    BY <1>1 DEF InsertRun, InFlight, Working
  <2>2. /\ ~InFlight(r) /\ \A w \in Workers : r \notin batch[w]
        /\ \A d \in Clients : req[d].pc = "idle" \/ req[d].run # r
    BY <1>0, <1>1 DEF InsertRun, DispatchInv, Unsent, TypeOK, Reqs
  <2>3. /\ status' = [status EXCEPT ![r] = "PENDING"] /\ batch' = batch
        /\ req' = [req EXCEPT ![c] = [pc |-> "created", run |-> r]]
        /\ status[r] = "NONE"
    BY <1>1 DEF InsertRun
  <2>4. status \in [Runs -> Statuses \cup {"NONE"}] /\ req \in [Clients -> Reqs]
    BY <1>0 DEF TypeOK
  <2>5. QED  BY <2>1, <2>2, <2>3, <2>4 DEF DispatchInv, Unsent, Used
<1>2. CASE CommitQueued(c)
  <2> PICK q \in Runs : q = req[c].run  BY <1>0, <1>2 DEF CommitQueued, HoldsRun
  <2>1. \A r \in Runs : InFlight(r)' = InFlight(r)
    BY <1>2 DEF CommitQueued, InFlight, Working
  <2>2. /\ status' = [status EXCEPT ![q] = "QUEUED"] /\ batch' = batch
        /\ req' = [req EXCEPT ![c].pc = "queued"] /\ req[c].pc = "created"
    BY <1>2 DEF CommitQueued, Flush
  <2>3. \A d \in Clients : d # c => req[d].pc = "idle" \/ req[d].run # q
    BY <2>2 DEF DispatchInv
  <2>4. status \in [Runs -> Statuses \cup {"NONE"}] /\ req \in [Clients -> Reqs]
    BY <1>0 DEF TypeOK
  <2>5. /\ \A d \in Clients : req'[d] = IF d = c THEN [req[d] EXCEPT !.pc = "queued"] ELSE req[d]
        /\ \A r \in Runs : status'[r] = IF r = q THEN "QUEUED" ELSE status[r]
        /\ req'[c].pc = "queued" /\ req'[c].run = q
    BY <2>2, <2>4 DEF Reqs
  <2>6. QED  BY <2>1, <2>2, <2>3, <2>5 DEF DispatchInv, Unsent, Used
<1>3. CASE Publish(c)
  <2> PICK q \in Runs : q = req[c].run  BY <1>0, <1>3 DEF Publish, HoldsRun
  <2>1. \A r \in Runs : InFlight(r)' => InFlight(r) \/ r = q
    BY <1>0, <1>3 DEF Publish, InFlight, Working, TypeOK
  <2>2. /\ status' = status /\ batch' = batch /\ req[c].pc = "queued"
        /\ req' = [req EXCEPT ![c].pc = "published"]
    BY <1>3 DEF Publish, rowVars
  <2>3. status[q] \notin Unsent /\ \A d \in Clients : d # c => req[d].pc = "idle" \/ req[d].run # q
    BY <2>2 DEF DispatchInv
  <2>4. \A d \in Clients : req'[d].run = req[d].run /\ (d # c => req'[d].pc = req[d].pc)
    BY <1>0, <2>2 DEF TypeOK, Reqs
  <2>5. req'[c].pc = "published"
    BY <1>0, <2>2 DEF TypeOK, Reqs
  <2>6. QED  BY <2>1, <2>2, <2>3, <2>4, <2>5 DEF DispatchInv
<1>4. CASE PublishFails(c)
  <2> PICK q \in Runs : q = req[c].run  BY <1>0, <1>4 DEF PublishFails, HoldsRun
  <2>1. \A r \in Runs : InFlight(r)' => InFlight(r) \/ r = q
    BY <1>0, <1>4 DEF PublishFails, InFlight, Working, TypeOK
  <2>2. /\ status' = status /\ batch' = batch /\ req[c].pc = "queued"
        /\ req' = [req EXCEPT ![c] = IdleReq]
    BY <1>4, NoDispatchFailure DEF PublishFails
  <2>3. status[q] \notin Unsent  BY <2>2 DEF DispatchInv
  <2>4. \A d \in Clients : req'[d].pc # "idle" => d # c /\ req'[d] = req[d]
    BY <1>0, <2>2 DEF IdleReq, TypeOK
  <2>5. \A d \in Clients : d # c => req[d].pc = "idle" \/ req[d].run # q
    BY <2>2 DEF DispatchInv
  <2>6. QED  BY <2>1, <2>2, <2>3, <2>4, <2>5 DEF DispatchInv
<1>5. CASE RecordTaskId(c) \/ RequestDies(c)
  <2>1. UNCHANGED <<status, batch, queue, task>> /\ req' = [req EXCEPT ![c] = IdleReq]
    BY <1>5 DEF RecordTaskId, RequestDies, rowVars
  <2>2. \A r \in Runs : InFlight(r)' = InFlight(r)  BY <2>1 DEF InFlight, Working
  <2>3. QED  BY <1>0, <2>1, <2>2, RequestEnds
<1>6. QED
  BY <1>1, <1>2, <1>3, <1>4, <1>5 DEF RequestStep, TriggerDiagnosis, RetryDiagnosis

\* A worker works only on runs that were sent.
LEMMA WorkSent ==
  ASSUME TypeInv, DispatchInv, NEW w \in Workers, NEW q \in Runs, q = task[w].run
  PROVE  status[q] \notin Unsent
BY DEF DispatchInv, InFlight, Working

\* What one worker's step leaves of the runs in flight.
LEMMA FlightShrinks ==
  ASSUME TypeOK, NEW w \in Workers, NEW t \in Tasks,
         task' = [task EXCEPT ![w] = t], t.run \in {NoRun, task[w].run},
         \A r \in Runs, a \in Attempts : queue'[r][a] > 0 => queue[r][a] > 0 \/ task[w].run = r
  PROVE  \A r \in Runs : InFlight(r)' => InFlight(r)
BY RunAssumption DEF TypeOK, InFlight, Working

LEMMA DispatchStep ==
  ASSUME TypeInv, DispatchInv, [Next]_vars
  PROVE  DispatchInv'
<1>0. TypeOK /\ HoldsRun  BY DEF TypeInv
<1>1. ASSUME NEW c \in Clients, RequestStep(c) PROVE DispatchInv'
  BY <1>1, DispatchRequest
<1>2. ASSUME NEW w \in Workers, TaskStep(w) PROVE DispatchInv'
  <2>0. \A r \in batch[w] : r \in Runs  BY <1>0 DEF TypeOK
  <2>1. ASSUME NEW r \in Runs, NEW a \in Attempts, TakeMessage(w, r, a) PROVE DispatchInv'
    <3>1. \A p \in Runs, b \in Attempts : queue'[p][b] > 0 => queue[p][b] > 0
      BY <1>0, <2>1 DEF TakeMessage, TypeOK
    <3>2. \A p \in Runs : InFlight(p)' => InFlight(p)
      BY <1>0, <2>1, <3>1 DEF TakeMessage, InFlight, Working, TypeOK
    <3>3. QED  BY <1>0, <2>1, <3>2, SentStep DEF TakeMessage, rowVars, DispatchInv, TypeOK
  <2>2. CASE Claim(w) \/ PersistReport(w) \/ PersistFailure(w)
    <3> PICK q \in Runs : q = task[w].run
      BY <1>0, <2>2 DEF Claim, PersistReport, PersistFailure, HoldsRun
    <3>1. PICK new \in Used \ Unsent : Flush(q, task[w].seen, new)
      BY <2>2 DEF Claim, PersistReport, PersistFailure, Used, Unsent, Completed
    <3>2. UNCHANGED <<queue, req, batch>>
      BY <2>2 DEF Claim, PersistReport, PersistFailure
    <3>3. PICK t \in Tasks : task' = [task EXCEPT ![w] = t] /\ t.run \in {NoRun, task[w].run}
      <4>1. CASE Claim(w)
        <5> DEFINE t == [task[w] EXCEPT !.pc = "executing", !.seen = "NONE", !.seenStarted = "never"]
        <5>1. task[w] \in Tasks /\ task \in [Workers -> Tasks]  BY <1>0 DEF TypeOK
        <5>2. t \in Tasks  BY <5>1, TaskFields, "NONE" \in Statuses \cup {"NONE"}
        <5>3. task' = [task EXCEPT ![w] = t]  BY <4>1, <5>1 DEF Claim
        <5>4. t.run = task[w].run  BY <5>1 DEF Tasks
        <5>5. QED  BY <5>2, <5>3, <5>4
      <4>2. CASE PersistReport(w) \/ PersistFailure(w)
        BY <4>2, IdleTyped DEF PersistReport, PersistFailure
      <4>3. QED  BY <2>2, <4>1, <4>2
    <3>4. \A r \in Runs : InFlight(r)' => InFlight(r)
      BY <1>0, <3>2, <3>3, FlightShrinks
    <3>5. \A r \in Runs : status'[r] # status[r] =>
            status[r] \notin Unsent /\ status'[r] \in Used \ Unsent
      BY <1>0, <3>1, WorkSent DEF Flush, TypeOK
    <3>6. QED  BY <1>0, <3>2, <3>4, <3>5, SentStep DEF DispatchInv, TypeOK
  <2>3. ASSUME NEW o \in Completed \cup {"FAILED"}, Execute(w, o) PROVE DispatchInv'
    <3>1. \A r \in Runs : InFlight(r)' => InFlight(r)
      BY <1>0, <2>3 DEF Execute, InFlight, Working, TypeOK, Tasks
    <3>2. QED  BY <1>0, <2>3, <3>1, SentStep DEF Execute, rowVars, DispatchInv, TypeOK
  <2>4. CASE RetryLater(w)
    <3> PICK q \in Runs : q = task[w].run  BY <1>0, <2>4 DEF RetryLater, HoldsRun
    <3>1. \A r \in Runs, a \in Attempts :
             queue'[r][a] > 0 => queue[r][a] > 0 \/ task[w].run = r
      BY <1>0, <2>4 DEF RetryLater, TypeOK
    <3>2. task' = [task EXCEPT ![w] = IdleTask]  BY <2>4 DEF RetryLater
    <3>3. \A r \in Runs : InFlight(r)' => InFlight(r)
      BY <1>0, <3>1, <3>2, IdleTyped, FlightShrinks
    <3>4. QED  BY <1>0, <2>4, <3>3, SentStep DEF RetryLater, DispatchInv, TypeOK
  <2>5. CASE Refused(w)
    <3>1. \A r \in Runs : InFlight(r)' => InFlight(r)
      BY <1>0, <2>5, IdleTyped, FlightShrinks DEF Refused
    <3>2. QED  BY <1>0, <2>5, <3>1, SentStep DEF Refused, rowVars, DispatchInv, TypeOK
  <2>6. QED  BY <1>2, <2>1, <2>2, <2>3, <2>4, <2>5 DEF TaskStep
<1>3. ASSUME NEW w \in Workers, ScanStep(w) \/ TaskDies(w) PROVE DispatchInv'
  <2>1. CASE ScanRead(w)
    <3>1. \A r \in Runs : InFlight(r)' => InFlight(r)
      BY <1>0, <2>1 DEF ScanRead, InFlight, Working, TypeOK, Tasks
    <3>2. \A r \in Stale : r \in Runs /\ status[r] \notin Unsent
      BY DEF Stale, Scanned, Unsent
    <3>3. QED  BY <1>0, <2>1, <3>1, <3>2, SentStep DEF ScanRead, rowVars, DispatchInv, TypeOK
  <2>2. CASE ScanCommit(w)
    <3>1. \A r \in Runs : InFlight(r)' => InFlight(r)
      BY <1>0, <2>2, IdleTyped, FlightShrinks DEF ScanCommit
    <3>2. \A r \in Runs : status'[r] # status[r] =>
            status[r] \notin Unsent /\ status'[r] \in Used \ Unsent
      BY <2>2 DEF ScanCommit, DispatchInv, Used, Unsent
    <3>3. QED  BY <1>0, <2>2, <3>1, <3>2, SentStep DEF ScanCommit, DispatchInv, TypeOK
  <2>3. CASE TaskDies(w)
    <3>1. \A r \in Runs : InFlight(r)' => InFlight(r)
      BY <1>0, <2>3, IdleTyped, FlightShrinks DEF TaskDies
    <3>2. QED  BY <1>0, <2>3, <3>1, SentStep DEF TaskDies, rowVars, DispatchInv, TypeOK
  <2>4. QED  BY <1>3, <2>1, <2>2, <2>3 DEF ScanStep
<1>4. CASE TimePasses
  BY <1>0, <1>4, SentStep DEF TimePasses, StartedAges, BecomesIdle, DispatchInv, InFlight, Working, TypeOK
<1>5. CASE UNCHANGED vars
  BY <1>0, <1>5 DEF vars, DispatchInv, InFlight, Working
<1>6. QED  BY <1>1, <1>2, <1>3, <1>4, <1>5 DEF Next

\* No worker and no message is ever ahead of the commit of QUEUED, for any
\* number of requests, workers and copies, whichever of them die.
THEOREM QueuedFirst == Spec => []QueuedBeforeDispatch
<1>1. DispatchInv => QueuedBeforeDispatch
  BY DEF DispatchInv, QueuedBeforeDispatch, Unsent
<1>2. QED  BY <1>1, InitType, StepType, DispatchInit, DispatchStep, PTL DEF Spec

-----------------------------------------------------------------------------
(* Deliveries.  While a publish leaves one message, a run is in one place: *)
(* with the request that will publish it, in the broker or at a worker.    *)

OneCopy == MaxCopies = 1

SingleInv ==
  /\ SingleDelivery
  /\ \A r \in Runs, c \in Clients : req[c].pc = "queued" /\ req[c].run = r => ~InFlight(r)

LEMMA SingleInit == Init => SingleInv
BY RunAssumption DEF Init, SingleInv, SingleDelivery, InFlight, Working, IdleReq, IdleTask

\* A step that brings no run to a new place.
LEMMA FewerDeliveries ==
  ASSUME TypeOK, (TypeOK)', SingleInv,
         \A r \in Runs, a \in Attempts : queue'[r][a] <= queue[r][a],
         \A w \in Workers, r \in Runs : task'[w].run = r => task[w].run = r,
         \A c \in Clients : req'[c].pc = "queued" => req'[c] = req[c]
  PROVE  SingleInv'
<1>1. \A r \in Runs, a \in Attempts :
        queue[r][a] \in Nat /\ queue'[r][a] \in Nat /\ (queue'[r][a] > 0 => queue[r][a] > 0)
  BY DEF TypeOK
<1>2. \A r \in Runs : InFlight(r)' => InFlight(r)
  BY <1>1 DEF InFlight, Working
<1>3. SingleDelivery'
  BY <1>1 DEF SingleInv, SingleDelivery, Working
<1>4. QED  BY <1>2, <1>3 DEF SingleInv

\* A step that leaves a message of a run nobody else holds.
LEMMA NewMessage ==
  ASSUME TypeOK, SingleInv, NEW q \in Runs, NEW b \in Attempts,
         \A r \in Runs, a \in Attempts : (r # q \/ a # b) => queue'[r][a] = queue[r][a],
         queue'[q][b] \in {0, 1},
         \A a \in Attempts : queue[q][a] = 0,
         \A w \in Workers, r \in Runs : task'[w].run = r => task[w].run = r /\ r # q,
         \A c \in Clients : req'[c].pc = "queued" => req'[c] = req[c] /\ req[c].run # q
  PROVE  SingleInv'
<1>1. \A r \in Runs, a \in Attempts : queue[r][a] \in Nat
  BY DEF TypeOK
<1>2. \A r \in Runs : r # q => (InFlight(r)' => InFlight(r))
  BY DEF InFlight, Working
<1>3. \A a \in Attempts : a # b => queue'[q][a] = 0
  OBVIOUS
<1>4. SingleDelivery'
  <2> SUFFICES ASSUME NEW r \in Runs
      PROVE  /\ \A v, w \in Workers : Working(v, r)' /\ Working(w, r)' => v = w
             /\ \A a, d \in Attempts : queue'[r][a] > 0 /\ queue'[r][d] > 0 => a = d
             /\ \A a \in Attempts : queue'[r][a] <= 1
             /\ (\E w \in Workers : Working(w, r)') => \A a \in Attempts : queue'[r][a] = 0
    BY DEF SingleDelivery
  <2>1. CASE r = q  BY <1>3, <2>1 DEF Working
  <2>2. CASE r # q
    <3>1. \A a \in Attempts : queue'[r][a] = queue[r][a]  BY <2>2
    <3>2. QED  BY <3>1 DEF SingleInv, SingleDelivery, Working
  <2>3. QED  BY <2>1, <2>2
<1>5. QED  BY <1>2, <1>4 DEF SingleInv

LEMMA SingleRequest ==
  ASSUME OneCopy, TypeInv, (TypeOK)', DispatchInv, SingleInv, NEW c \in Clients, RequestStep(c)
  PROVE  SingleInv'
<1>0. /\ TypeOK /\ HoldsRun /\ IdleReq.pc = "idle" /\ req \in [Clients -> Reqs]
      /\ \A r \in Runs, a \in Attempts : queue[r][a] \in Nat
  BY DEF TypeInv, TypeOK, IdleReq
<1>1. CASE Publish(c) \/ PublishFails(c)
  <2> PICK q \in Runs : q = req[c].run  BY <1>0, <1>1 DEF Publish, PublishFails, HoldsRun
  <2>1. req[c].pc = "queued" /\ 0 \in Attempts
    BY <1>1, RunAssumption DEF Publish, PublishFails, Attempts
  <2>2. ~InFlight(q)  BY <2>1 DEF SingleInv
  <2>3. /\ \A a \in Attempts : queue[q][a] = 0
        /\ \A w \in Workers : task[w].run # q
    BY <1>0, <2>2 DEF InFlight, Working
  <2>4. PICK n \in 0 .. 1 : queue' = [queue EXCEPT ![q][0] = @ + n]
    BY <1>1 DEF Publish, PublishFails, OneCopy
  <2>5. /\ \A r \in Runs, a \in Attempts : (r # q \/ a # 0) => queue'[r][a] = queue[r][a]
        /\ queue'[q][0] \in {0, 1}
    BY <1>0, <2>1, <2>3, <2>4 DEF TypeOK
  <2>6. \A d \in Clients : d # c => req[d].pc = "idle" \/ req[d].run # q
    BY <2>1 DEF DispatchInv
  <2>7. /\ task' = task
        /\ \A d \in Clients : req'[d].pc = "queued" => d # c /\ req'[d] = req[d]
    BY <1>0, <1>1 DEF Publish, PublishFails, Reqs
  <2>8. \A d \in Clients : req'[d].pc = "queued" => req'[d] = req[d] /\ req[d].run # q
    BY <2>6, <2>7
  <2>9. QED  BY <1>0, <2>1, <2>3, <2>5, <2>7, <2>8, NewMessage
<1>2. CASE CommitQueued(c)
  <2>1. UNCHANGED <<queue, task>> /\ req' = [req EXCEPT ![c].pc = "queued"] /\ req[c].pc = "created"
    BY <1>2 DEF CommitQueued
  <2>2. \A r \in Runs : req[c].run = r => ~InFlight(r)
    BY <2>1 DEF DispatchInv
  <2>3. \A d \in Clients : req'[d].run = req[d].run /\ (d # c => req'[d] = req[d])
    BY <1>0, <2>1 DEF Reqs
  <2>4. QED  BY <2>1, <2>2, <2>3 DEF SingleInv, SingleDelivery, InFlight, Working
<1>3. CASE RecordTaskId(c) \/ RequestDies(c)
  <2>1. UNCHANGED <<queue, task>> /\ req' = [req EXCEPT ![c] = IdleReq]
    BY <1>3 DEF RecordTaskId, RequestDies
  <2>2. QED  BY <1>0, <2>1, FewerDeliveries
<1>4. ASSUME NEW r \in Runs, NEW o, InsertRun(c, r, o) PROVE SingleInv'
  <2>1. /\ UNCHANGED <<queue, task>>
        /\ \A d \in Clients : req'[d].pc = "queued" => req'[d] = req[d]
    BY <1>0, <1>4 DEF InsertRun
  <2>2. QED  BY <1>0, <2>1, FewerDeliveries
<1>5. QED
  BY <1>1, <1>2, <1>3, <1>4 DEF RequestStep, TriggerDiagnosis, RetryDiagnosis

LEMMA SingleTask ==
  ASSUME TypeInv, (TypeOK)', SingleInv, NEW w \in Workers, TaskStep(w) \/ ScanStep(w) \/ TaskDies(w)
  PROVE  SingleInv'
<1>0. /\ TypeOK /\ HoldsRun /\ task \in [Workers -> Tasks]
      /\ IdleTask.run = NoRun /\ NoRun \notin Runs /\ IdleTask.pc = "idle"
      /\ \A r \in Runs, a \in Attempts : queue[r][a] \in Nat
  BY RunAssumption DEF TypeInv, TypeOK, IdleTask
<1>1. ASSUME NEW r \in Runs, NEW a \in Attempts, TakeMessage(w, r, a) PROVE SingleInv'
  <2>1. /\ queue[r][a] > 0 /\ queue' = [queue EXCEPT ![r][a] = @ - 1] /\ req' = req
        /\ task[w] = IdleTask
    BY <1>1 DEF TakeMessage
  <2>2. /\ \A p \in Runs, b \in Attempts : queue'[p][b] <= queue[p][b]
        /\ queue'[r][a] = queue[r][a] - 1
    BY <1>0, <2>1 DEF TypeOK
  <2>3. CASE task' = task
    BY <1>0, <2>1, <2>2, <2>3, FewerDeliveries
  <2>4. CASE task' # task
    <3>1. /\ task'[w].run = r
          /\ \A v \in Workers : v # w => task'[v] = task[v]
      BY <1>0, <1>1, <2>4 DEF TakeMessage
    <3>2. \A v \in Workers : task[v].run # r
      BY <1>0, <2>1 DEF SingleInv, SingleDelivery, Working
    <3>3. \A b \in Attempts : queue'[r][b] = 0
      <4>1. \A b \in Attempts : b # a => queue[r][b] = 0
        BY <1>0, <2>1 DEF SingleInv, SingleDelivery
      <4>2. queue[r][a] = 1
        BY <1>0, <2>1 DEF SingleInv, SingleDelivery
      <4>3. \A b \in Attempts : queue'[r][b] \in Nat  BY DEF TypeOK
      <4>4. QED  BY <1>0, <2>2, <4>1, <4>2, <4>3
    <3>4. \A p \in Runs, b \in Attempts : p # r => queue'[p][b] = queue[p][b]
      BY <1>0, <2>1 DEF TypeOK
    <3>5. \A p \in Runs, v \in Workers : p # r => (Working(v, p)' <=> Working(v, p))
      BY <1>0, <2>1, <3>1 DEF Working
    <3>6. \A v \in Workers : Working(v, r)' => v = w
      BY <3>1, <3>2 DEF Working
    <3>7. SingleDelivery'
      <4> SUFFICES ASSUME NEW p \in Runs
          PROVE  /\ \A u, v \in Workers : Working(u, p)' /\ Working(v, p)' => u = v
                 /\ \A d, b \in Attempts : queue'[p][d] > 0 /\ queue'[p][b] > 0 => d = b
                 /\ \A b \in Attempts : queue'[p][b] <= 1
                 /\ (\E v \in Workers : Working(v, p)') => \A b \in Attempts : queue'[p][b] = 0
        BY DEF SingleDelivery
      <4>1. CASE p = r  BY <3>3, <3>6, <4>1
      <4>2. CASE p # r
        <5>1. \A b \in Attempts : queue'[p][b] = queue[p][b]  BY <3>4, <4>2
        <5>2. \A v \in Workers : Working(v, p)' <=> Working(v, p)  BY <3>5, <4>2
        <5>3. QED  BY <5>1, <5>2 DEF SingleInv, SingleDelivery
      <4>3. QED  BY <4>1, <4>2
    <3>8. \A p \in Runs, c \in Clients : req'[c].pc = "queued" /\ req'[c].run = p => ~InFlight(p)'
      <4> SUFFICES ASSUME NEW p \in Runs, NEW c \in Clients, req[c].pc = "queued", req[c].run = p
                   PROVE  ~InFlight(p)'
        BY <2>1
      <4>1. ~InFlight(p)  BY DEF SingleInv
      <4>2. p # r  BY <2>1, <4>1 DEF InFlight
      <4>3. QED  BY <3>4, <3>5, <4>1, <4>2 DEF InFlight
    <3>9. QED  BY <3>7, <3>8 DEF SingleInv
  <2>5. QED  BY <2>3, <2>4
<1>2. CASE RetryLater(w)
  <2> PICK q \in Runs : q = task[w].run  BY <1>0, <1>2 DEF RetryLater, HoldsRun
  <2>1. /\ \A a \in Attempts : queue[q][a] = 0
        /\ \A v \in Workers : v # w => task[v].run # q
    BY DEF SingleInv, SingleDelivery, Working
  <2>2. \A v \in Workers, r \in Runs : task'[v].run = r => task[v].run = r /\ r # q
    BY <1>0, <1>2, <2>1 DEF RetryLater
  <2>3. req' = req /\ \A c \in Clients : req[c].pc = "queued" => req[c].run # q
    BY <1>2 DEF RetryLater, SingleInv, InFlight, Working
  <2>4. CASE queue' = queue
    BY <1>0, <2>2, <2>3, <2>4, FewerDeliveries
  <2>5. CASE task[w].attempt < MaxRetries /\ queue' = [queue EXCEPT ![q][task[w].attempt + 1] = @ + 1]
    <3>1. task[w].attempt + 1 \in Attempts
      BY <1>0, <2>5, RunAssumption DEF Tasks, Attempts
    <3>2. /\ \A r \in Runs, a \in Attempts :
               (r # q \/ a # task[w].attempt + 1) => queue'[r][a] = queue[r][a]
          /\ queue'[q][task[w].attempt + 1] = 1
      BY <1>0, <2>1, <2>5, <3>1 DEF TypeOK
    <3>3. QED  BY <1>0, <2>1, <2>2, <2>3, <3>1, <3>2, NewMessage
  <2>6. QED  BY <1>2, <2>4, <2>5 DEF RetryLater
<1>3. CASE \/ Claim(w) \/ (\E o \in Completed \cup {"FAILED"} : Execute(w, o))
           \/ PersistReport(w) \/ PersistFailure(w) \/ Refused(w)
           \/ ScanStep(w) \/ TaskDies(w)
  <2>1. UNCHANGED <<queue, req>>
    BY <1>3 DEF Claim, Execute, PersistReport, PersistFailure, Refused, ScanStep, ScanRead,
                ScanCommit, TaskDies
  <2>2. \A v \in Workers, r \in Runs : task'[v].run = r => task[v].run = r
    <3>1. CASE task' = [task EXCEPT ![w] = IdleTask]
      BY <1>0, <3>1
    <3>2. CASE Claim(w)
      BY <1>0, <3>2 DEF Claim, Tasks
    <3>3. CASE ScanRead(w)
      BY <1>0, <3>3 DEF ScanRead, Tasks
    <3>4. ASSUME NEW o \in Completed \cup {"FAILED"}, Execute(w, o)
          PROVE  \A v \in Workers, r \in Runs : task'[v].run = r => task[v].run = r
      BY <1>0, <3>4 DEF Execute, Tasks
    <3>5. QED
      BY <1>3, <3>1, <3>2, <3>3, <3>4 DEF PersistReport, PersistFailure, Refused, ScanStep, ScanCommit, TaskDies
  <2>3. QED  BY <1>0, <2>1, <2>2, FewerDeliveries
<1>4. QED  BY <1>1, <1>2, <1>3 DEF TaskStep

LEMMA SingleStep ==
  ASSUME OneCopy, TypeInv, TypeInv', DispatchInv, SingleInv, [Next]_vars
  PROVE  SingleInv'
<1>0. TypeOK /\ (TypeOK)'  BY DEF TypeInv
<1>1. CASE TimePasses \/ UNCHANGED vars
  <2>1. UNCHANGED <<queue, task, req>>
    BY <1>1 DEF TimePasses, StartedAges, BecomesIdle, vars
  <2>2. \A r \in Runs, a \in Attempts : queue[r][a] \in Nat  BY <1>0 DEF TypeOK
  <2>3. QED  BY <1>0, <2>1, <2>2, FewerDeliveries
<1>2. QED  BY <1>0, <1>1, SingleRequest, SingleTask DEF Next

\* While a publish leaves one message, no two deliveries of a run are alive
\* together, for any number of workers, requests and Celery retries.
THEOREM DeliveredSingly == ASSUME OneCopy PROVE Spec => []SingleDelivery
<1>1. SingleInv => SingleDelivery  BY DEF SingleInv
<1>2. QED
  BY <1>1, OneCopy, InitType, StepType, DispatchInit, DispatchStep, SingleInit, SingleStep, PTL DEF Spec

-----------------------------------------------------------------------------
(* One worker, as deployed (-P solo).  What a transaction read is then     *)
(* still true when it commits, because nothing else moves a run that was   *)
(* sent: the program keeps the abstract lifecycle.                         *)

OneWorker == \A v, w \in Workers : v = w

SoloInv ==
  /\ \A w \in Workers, r \in Runs : task[w].run = r =>
       /\ task[w].pc = "loaded"    => task[w].seen = status[r]
       /\ task[w].pc = "executing" => status[r] = "RUNNING"
       /\ task[w].pc = "finishing" => task[w].seen = "RUNNING" /\ status[r] = "RUNNING"
  /\ \A w \in Workers : batch[w] # {} => task[w].pc = "scanning"
  /\ \A w \in Workers : \A r \in batch[w] : status[r] \in Scanned
  /\ \A r \in Runs : report[r] # "none" => status[r] \in Completed
  /\ RetryOfSettledRun

LEMMA SoloInit == Init => SoloInv
BY RunAssumption DEF Init, SoloInv, RetryOfSettledRun, IdleTask

\* The abstract moves, in the words of the table.
LEMMA AbstractMoves ==
  \A old, new : Lifecycle!Moves(old, new) <=>
      \/ old = "NONE" /\ new = "PENDING"
      \/ old # "NONE" /\ CanTransition(old, new)
BY DEF Lifecycle!Moves, Lifecycle!CanTransition, Lifecycle!Allowed, Lifecycle!Abort,
       Lifecycle!Completed, CanTransition, Allowed, Abort, Completed

\* The table lets the scan fail whatever it selects, and lets nothing else
\* happen to a run that is over.
LEMMA TableFacts ==
  /\ \A s \in Scanned : CanTransition(s, "FAILED") /\ s \notin Unsent /\ s \notin Terminal
  /\ \A s \in Terminal : s \notin Unsent /\ \A new : CanTransition(s, new) => new = s
  /\ \A s \in Retryable \cap Used : s \in Terminal
  /\ CanTransition("PENDING", "QUEUED")
  /\ Completed \subseteq Terminal \cap Used
  /\ \A o \in Completed \cup {"FAILED"} : CanTransition("RUNNING", o) /\ o \in Terminal
BY DEF Scanned, Terminal, Completed, Retryable, Used, Unsent, CanTransition, Allowed, Abort

\* A request moves only the run it created, which no worker has seen.
LEMMA RequestKeepsSent ==
  ASSUME TypeInv, DispatchInv, NEW c \in Clients, RequestStep(c)
  PROVE  /\ UNCHANGED <<task, batch, report>>
         /\ \A r \in Runs : status'[r] # status[r] =>
              /\ status[r] \in Unsent
              /\ Lifecycle!Moves(status[r], status'[r])
         /\ \A r \in Runs : origin'[r] # origin[r] => status[origin'[r]] \in Retryable
                                                      \/ origin'[r] = NoRun
<1>0. TypeOK /\ HoldsRun  BY DEF TypeInv
<1>1. ASSUME NEW r \in Runs, NEW o, InsertRun(c, r, o), o = NoRun \/ status[o] \in Retryable
      PROVE  /\ UNCHANGED <<task, batch, report>>
             /\ \A q \in Runs : status'[q] # status[q] =>
                  status[q] \in Unsent /\ Lifecycle!Moves(status[q], status'[q])
             /\ \A q \in Runs : origin'[q] # origin[q] => status[origin'[q]] \in Retryable
                                                          \/ origin'[q] = NoRun
  BY <1>0, <1>1, AbstractMoves DEF InsertRun, TypeOK, Unsent
<1>2. CASE CommitQueued(c)
  <2> PICK q \in Runs : q = req[c].run  BY <1>0, <1>2 DEF CommitQueued, HoldsRun
  <2>1. status[q] = "PENDING"  BY <1>2 DEF CommitQueued, DispatchInv
  <2>2. status' = [status EXCEPT ![q] = "QUEUED"] /\ UNCHANGED <<task, batch, report, origin>>
    BY <1>2 DEF CommitQueued, Flush
  <2>3. QED  BY <1>0, <2>1, <2>2, AbstractMoves, TableFacts DEF TypeOK, Unsent
<1>3. CASE Publish(c) \/ PublishFails(c) \/ RecordTaskId(c) \/ RequestDies(c)
  BY <1>3, NoDispatchFailure DEF Publish, PublishFails, RecordTaskId, RequestDies, rowVars
<1>4. QED
  BY <1>1, <1>2, <1>3 DEF RequestStep, TriggerDiagnosis, RetryDiagnosis

\* A run the worker has claimed is where the worker thinks it is, so its
\* commits are moves of the table.
LEMMA TaskMoves ==
  ASSUME TypeInv, DispatchInv, SoloInv, NEW w \in Workers, TaskStep(w) \/ ScanStep(w)
  PROVE  \A r \in Runs : status'[r] # status[r] => Lifecycle!Moves(status[r], status'[r])
<1>0. TypeOK /\ HoldsRun  BY DEF TypeInv
<1>1. CASE Claim(w) \/ PersistReport(w) \/ PersistFailure(w)
  <2> PICK q \in Runs : q = task[w].run
    BY <1>0, <1>1 DEF Claim, PersistReport, PersistFailure, HoldsRun
  <2>1. PICK new : Flush(q, status[q], new) /\ CanTransition(status[q], new)
    BY <1>1 DEF Claim, PersistReport, PersistFailure, SoloInv
  <2>2. status[q] \notin Unsent  BY WorkSent
  <2>3. QED  BY <1>0, <2>1, <2>2, AbstractMoves DEF Flush, TypeOK, Unsent
<1>2. CASE ScanCommit(w)
  BY <1>2, AbstractMoves, TableFacts DEF ScanCommit, SoloInv, Unsent
<1>3. CASE \/ \E r \in Runs, a \in Attempts : TakeMessage(w, r, a)
           \/ \E o \in Completed \cup {"FAILED"} : Execute(w, o)
           \/ RetryLater(w) \/ Refused(w) \/ ScanRead(w)
  BY <1>3 DEF TakeMessage, Execute, RetryLater, Refused, ScanRead, rowVars
<1>4. QED  BY <1>1, <1>2, <1>3 DEF TaskStep, ScanStep

LEMMA StepMoves ==
  ASSUME TypeInv, DispatchInv, SoloInv, [Next]_vars
  PROVE  \A r \in Runs : status'[r] # status[r] => Lifecycle!Moves(status[r], status'[r])
BY RequestKeepsSent, TaskMoves
   DEF Next, vars, TaskDies, rowVars, TimePasses, StartedAges, BecomesIdle

\* Runs that are over stay as they are, and so do the runs they were retried as.
LEMMA SettledStays ==
  ASSUME TypeInv, DispatchInv, SoloInv, [Next]_vars, NEW r \in Runs, status[r] \in Terminal
  PROVE  status'[r] = status[r]
BY StepMoves, AbstractMoves, TableFacts DEF Unsent

LEMMA OriginsStay ==
  ASSUME TypeInv, DispatchInv, SoloInv, [Next]_vars
  PROVE  RetryOfSettledRun'
<1>0. TypeOK  BY DEF TypeInv
<1>1. \A r \in Runs : origin'[r] # NoRun => status[origin'[r]] \in Retryable
  <2>1. ASSUME NEW c \in Clients, RequestStep(c)
        PROVE  \A r \in Runs : origin'[r] # NoRun => status[origin'[r]] \in Retryable
    BY <2>1, RequestKeepsSent DEF SoloInv, RetryOfSettledRun
  <2>2. CASE ~\E c \in Clients : RequestStep(c)
    <3>1. UNCHANGED origin
      BY <2>2 DEF Next, TaskStep, TakeMessage, Claim, Execute, RetryLater, PersistReport,
                  PersistFailure, Refused, ScanStep, ScanRead, ScanCommit, TaskDies,
                  TimePasses, StartedAges, BecomesIdle, rowVars, vars
    <3>2. QED  BY <3>1 DEF SoloInv, RetryOfSettledRun
  <2>3. QED  BY <2>1, <2>2
<1>2. \A r \in Runs : origin'[r] # NoRun => origin'[r] \in Runs
  BY StepType DEF TypeInv, TypeOK
<1>3. ASSUME NEW r \in Runs, origin'[r] # NoRun
      PROVE  status'[origin'[r]] \in Retryable
  <2> PICK o \in Runs : o = origin'[r]  BY <1>2, <1>3
  <2>1. status[o] \in Retryable \cap Used  BY <1>1, <1>3 DEF DispatchInv
  <2>2. status'[o] = status[o]  BY <2>1, TableFacts, SettledStays
  <2>3. QED  BY <2>1, <2>2
<1>4. QED  BY <1>3 DEF RetryOfSettledRun

\* The conjuncts of SoloInv that speak of the workers.
SoloWorkers ==
  /\ \A w \in Workers, r \in Runs : task[w].run = r =>
       /\ task[w].pc = "loaded"    => task[w].seen = status[r]
       /\ task[w].pc = "executing" => status[r] = "RUNNING"
       /\ task[w].pc = "finishing" => task[w].seen = "RUNNING" /\ status[r] = "RUNNING"
  /\ \A w \in Workers : batch[w] # {} => task[w].pc = "scanning"
  /\ \A w \in Workers : \A r \in batch[w] : status[r] \in Scanned

LEMMA SoloRequest ==
  ASSUME TypeInv, DispatchInv, SoloInv, NEW c \in Clients, RequestStep(c)
  PROVE  SoloWorkers'
<1>1. /\ UNCHANGED <<task, batch>>
      /\ \A r \in Runs : status[r] \notin Unsent => status'[r] = status[r]
  BY RequestKeepsSent
<1>2. \A w \in Workers, r \in Runs : task[w].run = r => status'[r] = status[r]
  BY <1>1, WorkSent
<1>3. \A w \in Workers : \A r \in batch[w] : r \in Runs /\ status'[r] = status[r]
  BY <1>1 DEF DispatchInv, TypeInv, TypeOK
<1>4. QED  BY <1>1, <1>2, <1>3 DEF SoloInv, SoloWorkers

LEMMA SoloTask ==
  ASSUME OneWorker, TypeInv, DispatchInv, SoloInv, NEW w \in Workers, TaskStep(w)
  PROVE  SoloWorkers'
<1>0. /\ TypeOK /\ HoldsRun /\ Workers = {w}
      /\ task \in [Workers -> Tasks] /\ status \in [Runs -> Statuses \cup {"NONE"}]
      /\ IdleTask.pc = "idle"
  BY IdleTyped DEF TypeInv, TypeOK, OneWorker
<1>1. batch' = batch /\ (task[w].pc # "scanning" => batch[w] = {})
  BY DEF TaskStep, TakeMessage, Claim, Execute, RetryLater, PersistReport, PersistFailure,
         Refused, rowVars, SoloInv
<1>2. ASSUME task' = [task EXCEPT ![w] = IdleTask], task[w].pc # "scanning"
      PROVE  SoloWorkers'
  BY <1>0, <1>1, <1>2 DEF SoloWorkers
<1>3. CASE RetryLater(w) \/ PersistReport(w) \/ PersistFailure(w) \/ Refused(w)
  BY <1>2, <1>3 DEF RetryLater, PersistReport, PersistFailure, Refused
<1>4. ASSUME NEW r \in Runs, NEW a \in Attempts, TakeMessage(w, r, a) PROVE SoloWorkers'
  <2>1. task[w].pc = "idle" /\ status' = status
    BY <1>0, <1>4 DEF TakeMessage, rowVars
  <2>2. CASE task' = task
    BY <1>0, <1>1, <2>1, <2>2 DEF SoloWorkers, SoloInv
  <2>3. CASE task' # task
    <3>1. /\ task'[w].pc = "loaded" /\ task'[w].run = r /\ task'[w].seen = status[r]
      BY <1>0, <1>4, <2>3 DEF TakeMessage
    <3>2. QED  BY <1>0, <1>1, <2>1, <3>1 DEF SoloWorkers
  <2>4. QED  BY <2>2, <2>3
<1>5. CASE Claim(w)
  <2> PICK q \in Runs : q = task[w].run  BY <1>0, <1>5 DEF Claim, HoldsRun
  <2>1. task[w].seen = status[q] /\ task[w].pc = "loaded"
    BY <1>5 DEF Claim, SoloInv
  <2>2. status'[q] = "RUNNING"
    BY <1>0, <1>5, <2>1 DEF Claim, Flush
  <2>3. task'[w].pc = "executing" /\ task'[w].run = q
    BY <1>0, <1>5 DEF Claim, Tasks
  <2>4. QED  BY <1>0, <1>1, <2>1, <2>2, <2>3 DEF SoloWorkers
<1>6. ASSUME NEW o \in Completed \cup {"FAILED"}, Execute(w, o) PROVE SoloWorkers'
  <2> PICK q \in Runs : q = task[w].run  BY <1>0, <1>6 DEF Execute, HoldsRun
  <2>1. /\ status[q] = "RUNNING" /\ status' = status /\ task[w].pc = "executing"
        /\ task'[w].pc = "finishing" /\ task'[w].run = q /\ task'[w].seen = status[q]
    BY <1>0, <1>6 DEF Execute, Tasks, rowVars, SoloInv
  <2>2. QED  BY <1>0, <1>1, <2>1 DEF SoloWorkers
<1>7. QED  BY <1>3, <1>4, <1>5, <1>6 DEF TaskStep

LEMMA SoloOther ==
  ASSUME OneWorker, TypeInv, DispatchInv, SoloInv,
         \/ \E w \in Workers : ScanStep(w) \/ TaskDies(w)
         \/ TimePasses \/ UNCHANGED vars
  PROVE  SoloWorkers'
<1>0. /\ task \in [Workers -> Tasks] /\ status \in [Runs -> Statuses \cup {"NONE"}]
      /\ batch \in [Workers -> SUBSET Runs] /\ IdleTask.pc = "idle"
  BY IdleTyped DEF TypeInv, TypeOK
<1>1. ASSUME NEW w \in Workers, ScanRead(w) PROVE SoloWorkers'
  <2>1. Workers = {w}  BY DEF OneWorker
  <2>2. task'[w].pc = "scanning" /\ batch'[w] = Stale /\ status' = status
    BY <1>0, <1>1 DEF ScanRead, rowVars, Tasks
  <2>3. QED  BY <2>1, <2>2 DEF SoloWorkers, Stale
<1>2. ASSUME NEW w \in Workers, ScanCommit(w) \/ TaskDies(w) PROVE SoloWorkers'
  <2>1. Workers = {w}  BY DEF OneWorker
  <2>2. task'[w].pc = "idle" /\ batch'[w] = {}
    BY <1>0, <1>2 DEF ScanCommit, TaskDies
  <2>3. QED  BY <2>1, <2>2 DEF SoloWorkers
<1>3. CASE TimePasses \/ UNCHANGED vars
  BY <1>3 DEF TimePasses, StartedAges, BecomesIdle, vars, SoloInv, SoloWorkers
<1>4. QED  BY <1>1, <1>2, <1>3 DEF ScanStep

\* A report belongs to a run that completed, and a completed run is over.
LEMMA ReportsSettled ==
  ASSUME TypeInv, DispatchInv, SoloInv, [Next]_vars
  PROVE  \A r \in Runs : report'[r] # "none" => status'[r] \in Completed
<1>0. TypeOK /\ HoldsRun  BY DEF TypeInv
<1>1. CASE UNCHANGED report
  BY <1>1, SettledStays, TableFacts DEF SoloInv
<1>2. ASSUME NEW w \in Workers, PersistReport(w)
      PROVE  \A r \in Runs : report'[r] # "none" => status'[r] \in Completed
  <2> PICK q \in Runs : q = task[w].run  BY <1>0, <1>2 DEF PersistReport, HoldsRun
  <2>1. /\ status[q] = "RUNNING" /\ task[w].outcome \in Completed
        /\ Flush(q, "RUNNING", task[w].outcome)
        /\ report' = [report EXCEPT ![q] = task[w].outcome]
    BY <1>2 DEF PersistReport, SoloInv
  <2>2. status' = [status EXCEPT ![q] = task[w].outcome]
    BY <2>1 DEF Flush, Completed
  <2>3. QED  BY <1>0, <2>1, <2>2 DEF TypeOK, SoloInv
<1>3. UNCHANGED report \/ \E w \in Workers : PersistReport(w)
  BY RequestKeepsSent
     DEF Next, TaskStep, TakeMessage, Claim, Execute, RetryLater, PersistFailure, Refused,
         ScanStep, ScanRead, ScanCommit, TaskDies, TimePasses, StartedAges, BecomesIdle,
         rowVars, vars
<1>4. QED  BY <1>1, <1>2, <1>3

LEMMA SoloStep ==
  ASSUME OneWorker, TypeInv, DispatchInv, SoloInv, [Next]_vars
  PROVE  SoloInv'
<1>1. SoloWorkers'
  BY SoloRequest, SoloTask, SoloOther DEF Next
<1>2. QED  BY <1>1, OriginsStay, ReportsSettled DEF SoloInv, SoloWorkers

LEMMA AbstractStep ==
  ASSUME TypeInv, TypeInv', DispatchInv, SoloInv, [Next]_vars
  PROVE  [Lifecycle!Next]_status
<1>1. status' \in [Runs -> Lifecycle!Statuses \cup {"NONE"}]
  BY DEF TypeInv, TypeOK, Lifecycle!Statuses, Lifecycle!Terminal, Lifecycle!Scanned,
         Statuses, Terminal, Scanned
<1>2. QED  BY <1>1, StepMoves DEF Lifecycle!Next

\* With one worker the whole service - requests, broker, task, scan, time -
\* implements RunLifecycle: the scan's write past the table is harmless.
THEOREM SoloLifecycle == ASSUME OneWorker PROVE Spec => KeepsLifecycle
<1>1. Init => Lifecycle!Init  BY DEF Init, Lifecycle!Init
<1>2. QED
  BY <1>1, OneWorker, InitType, StepType, DispatchInit, DispatchStep, SoloInit, SoloStep, AbstractStep, PTL
     DEF Spec, KeepsLifecycle, Lifecycle!Spec

\* With one worker no computed result is refused, a recorded one stays what the
\* run shows, and the original of a retry keeps the status it was retried for,
\* however many copies a publish leaves.
THEOREM SoloResults ==
  ASSUME OneWorker PROVE Spec => [](NoResultLost /\ RetryOfSettledRun)
<1>1. TypeInv /\ SoloInv /\ CompletedHasReport => NoResultLost /\ RetryOfSettledRun
  <2> SUFFICES ASSUME TypeInv, SoloInv, CompletedHasReport PROVE NoResultLost
    BY DEF SoloInv
  <2>1. ASSUME NEW w \in Workers, task[w].pc = "finishing"
        PROVE  CanTransition(task[w].seen, task[w].outcome) /\ report[task[w].run] = "none"
    <3> PICK q \in Runs : q = task[w].run  BY <2>1 DEF TypeInv, HoldsRun
    <3>1. task[w].seen = "RUNNING" /\ status[q] = "RUNNING"  BY <2>1 DEF SoloInv
    <3>2. task[w].outcome \in Completed \cup {"FAILED"}
      BY <2>1 DEF TypeInv, TypeOK, HoldsRun, Tasks
    <3>3. report[q] = "none"  BY <3>1 DEF SoloInv, Completed
    <3>4. QED  BY <3>1, <3>2, <3>3, TableFacts
  <2>2. \A r \in Runs : report[r] # "none" => status[r] = report[r]
    BY DEF SoloInv, CompletedHasReport
  <2>3. QED  BY <2>1, <2>2 DEF NoResultLost
<1>2. QED
  BY <1>1, OneWorker, InitType, StepType, DispatchInit, DispatchStep, SoloInit, SoloStep,
     ResultsConsistent, PTL DEF Spec

\* Retries alone: with one worker no late result turns the original of a retry
\* into anything else than what it was retried for.
THEOREM RetriedRunsSettled == ASSUME OneWorker PROVE Spec => []RetryOfSettledRun
BY SoloResults, PTL

=============================================================================
