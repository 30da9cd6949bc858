---------------------------- MODULE DiagnosisRun ----------------------------
(***************************************************************************)
(* The life of a DiagnosisRun: the API request that creates and dispatches *)
(* it, the broker that delivers its task, the Celery workers that execute  *)
(* it in three transactions, and the stale scan that fails what stopped    *)
(* moving.  All of them share the row of the run.                          *)
(*                                                                         *)
(* PostgreSQL runs at READ COMMITTED and no transaction locks the row when *)
(* it reads it, so a transaction is two steps: the read, which fixes what  *)
(* the code decides on, and the commit, which writes the columns the ORM   *)
(* saw change.  What happens between the two is the subject of this        *)
(* module.  write_event does lock the row, so an event is appended         *)
(* atomically with the commit that carries it.                             *)
(*                                                                         *)
(* A run is named by its (incident_id, idempotency_key) pair: the unique   *)
(* constraint makes that pair a name.  A request for a pair that has a row *)
(* returns the row and changes nothing, so it is no action here.           *)
(***************************************************************************)
EXTENDS RunStatus, Integers, Sequences

CONSTANTS
  Runs,        \* the (incident, idempotency key) pairs
  IncidentOf,  \* the incident of each pair
  Clients,     \* concurrent API requests
  Workers,     \* Celery worker processes, one task at a time (-P solo)
  MaxRetries,  \* max_retries of the task
  MaxCopies,   \* how many copies of a message one publish may leave
  AgentMode,   \* "B0" or "B2"
  NoRun

ASSUME RunAssumption ==
  /\ NoRun \notin Runs
  /\ MaxRetries \in Nat
  /\ MaxCopies \in Nat \ {0}
  /\ AgentMode \in {"B0", "B2"}

VARIABLES
  status,   \* status column; "NONE" while there is no row
  started,  \* started_at: never set, within the last ten minutes, or older
  idle,     \* updated_at is more than ten minutes old
  log,      \* event_type of the run's events, in sequence order
  report,   \* status of the persisted report, "none" while there is none
  origin,   \* the run a retry was made from
  queue,    \* messages in the broker, per run and Celery attempt
  req,      \* the API requests under way
  task,     \* what each worker is doing
  batch     \* the runs a scanning worker has selected

rowVars == <<status, started, idle, log, report, origin>>
vars == <<status, started, idle, log, report, origin, queue, req, task, batch>>

-----------------------------------------------------------------------------
IdleReq  == [pc |-> "idle", run |-> NoRun]
IdleTask == [pc |-> "idle", run |-> NoRun, attempt |-> 0, seen |-> "NONE",
             seenStarted |-> "never", outcome |-> "none"]
Attempts == 0 .. MaxRetries

EventTypes == {"run_queued", "dispatch_failed", "run_started", "run_retrying",
               "run_failed", "run_succeeded", "run_needs_data",
               "harness_routed", "tool_completed"}

\* An ORM flush writes the column only when the value differs from the one read.
Flush(r, seen, new) ==
  status' = IF seen = new THEN status ELSE [status EXCEPT ![r] = new]

Touch(r) == idle' = [idle EXCEPT ![r] = FALSE]

WriteEvents(r, events) == log' = [log EXCEPT ![r] = @ \o events]

Init ==
  /\ status  = [r \in Runs |-> "NONE"]
  /\ started = [r \in Runs |-> "never"]
  /\ idle    = [r \in Runs |-> FALSE]
  /\ log     = [r \in Runs |-> <<>>]
  /\ report  = [r \in Runs |-> "none"]
  /\ origin  = [r \in Runs |-> NoRun]
  /\ queue   = [r \in Runs |-> [a \in Attempts |-> 0]]
  /\ req     = [c \in Clients |-> IdleReq]
  /\ task    = [w \in Workers |-> IdleTask]
  /\ batch   = [w \in Workers |-> {}]

-----------------------------------------------------------------------------
(* The API request: create, commit QUEUED, publish, record the task id.    *)

InsertRun(c, r, o) ==
  /\ req[c] = IdleReq
  /\ status[r] = "NONE"
  /\ status' = [status EXCEPT ![r] = "PENDING"]
  /\ origin' = [origin EXCEPT ![r] = o]
  /\ req' = [req EXCEPT ![c] = [pc |-> "created", run |-> r]]
  /\ UNCHANGED <<started, idle, log, report, queue, task, batch>>

TriggerDiagnosis(c, r) == InsertRun(c, r, NoRun)

\* The original is read before the insert commits.  Whatever happens to it in
\* between can as well happen after: the request does not look again.
RetryDiagnosis(c, r, o) ==
  /\ status[o] \in Retryable
  /\ IncidentOf[o] = IncidentOf[r]
  /\ InsertRun(c, r, o)

CommitQueued(c) ==
  LET r == req[c].run IN
  /\ req[c].pc = "created"
  /\ Flush(r, "PENDING", "QUEUED")
  /\ Touch(r)
  /\ WriteEvents(r, <<"run_queued">>)
  /\ req' = [req EXCEPT ![c].pc = "queued"]
  /\ UNCHANGED <<started, report, origin, queue, task, batch>>

\* A fault: the task is published before QUEUED is committed.
PublishBeforeCommit(c) ==
  /\ req[c].pc = "created"
  /\ \E n \in 1 .. MaxCopies : queue' = [queue EXCEPT ![req[c].run][0] = @ + n]
  /\ req' = [req EXCEPT ![c].pc = "published"]
  /\ UNCHANGED <<rowVars, task, batch>>

\* The broker may store the message more than once: kombu publishes again
\* when the connection breaks before the answer.
Publish(c) ==
  /\ req[c].pc = "queued"
  /\ \E n \in 1 .. MaxCopies : queue' = [queue EXCEPT ![req[c].run][0] = @ + n]
  /\ req' = [req EXCEPT ![c].pc = "published"]
  /\ UNCHANGED <<rowVars, task, batch>>

\* delay() raises; when only the answer was lost, the message is there all the
\* same.  The handler asks for DISPATCH_FAILED on the run it left QUEUED;
\* update_run_status raises when the table has no such transition.
PublishFails(c) ==
  LET r == req[c].run IN
  /\ req[c].pc = "queued"
  /\ IF CanTransition("QUEUED", "DISPATCH_FAILED")
       THEN /\ Flush(r, "QUEUED", "DISPATCH_FAILED")
            /\ Touch(r)
            /\ WriteEvents(r, <<"dispatch_failed">>)
       ELSE UNCHANGED <<status, idle, log>>
  /\ \E n \in 0 .. MaxCopies : queue' = [queue EXCEPT ![r][0] = @ + n]
  /\ req' = [req EXCEPT ![c] = IdleReq]
  /\ UNCHANGED <<started, report, origin, task, batch>>

RecordTaskId(c) ==
  /\ req[c].pc = "published"
  /\ Touch(req[c].run)
  /\ req' = [req EXCEPT ![c] = IdleReq]
  /\ UNCHANGED <<status, started, log, report, origin, queue, task, batch>>

\* The API process dies, or the database refuses a commit.
RequestDies(c) ==
  /\ req[c].pc # "idle"
  /\ req' = [req EXCEPT ![c] = IdleReq]
  /\ UNCHANGED <<rowVars, queue, task, batch>>

-----------------------------------------------------------------------------
(* The diagnosis task.  Its message is acknowledged when it is taken       *)
(* (acks_late=False), so a task that dies is not delivered again.          *)

\* The run is over, or another delivery seems to be executing it.
Skips(r) ==
  \/ status[r] \in Terminal
  \/ status[r] = "RUNNING" /\ started[r] = "recent"

\* A fault: the task trusts that the run is as it was when it was published.
TakeMessageUnread(w, r, a) ==
  /\ task[w] = IdleTask
  /\ queue[r][a] > 0
  /\ queue' = [queue EXCEPT ![r][a] = @ - 1]
  /\ task' = [task EXCEPT ![w] =
                [pc |-> "loaded", run |-> r, attempt |-> a, seen |-> "QUEUED",
                 seenStarted |-> started[r], outcome |-> "none"]]
  /\ UNCHANGED <<rowVars, req, batch>>

TakeMessage(w, r, a) ==
  /\ task[w] = IdleTask
  /\ queue[r][a] > 0
  /\ queue' = [queue EXCEPT ![r][a] = @ - 1]
  /\ task' = IF Skips(r) THEN task
             ELSE [task EXCEPT ![w] =
                     [pc |-> "loaded", run |-> r, attempt |-> a, seen |-> status[r],
                      seenStarted |-> started[r], outcome |-> "none"]]
  /\ UNCHANGED <<rowVars, req, batch>>

\* Commit RUNNING.  started_at is set only by the first claim.  The incident is
\* there: nothing deletes one, so the branch that fails a run without is dead.
Claim(w) ==
  LET t == task[w] IN
  /\ t.pc = "loaded"
  /\ CanTransition(t.seen, "RUNNING")
  /\ Flush(t.run, t.seen, "RUNNING")
  /\ started' = IF t.seenStarted = "never"
                  THEN [started EXCEPT ![t.run] = "recent"] ELSE started
  /\ Touch(t.run)
  /\ WriteEvents(t.run, <<"run_started">>)
  /\ task' = [task EXCEPT ![w].pc = "executing", ![w].seen = "NONE",
                          ![w].seenStarted = "never"]
  /\ UNCHANGED <<report, origin, queue, req, batch>>

\* The orchestrator returns a report, or raises a failure it does not retry;
\* the last transaction reads the row.
Execute(w, o) ==
  /\ task[w].pc = "executing"
  /\ task' = [task EXCEPT ![w].pc = "finishing", ![w].outcome = o,
                          ![w].seen = status[task[w].run]]
  /\ UNCHANGED <<rowVars, queue, req, batch>>

\* A fault: the retry is published but not raised, so the task goes on.
RetryNotRaised(w) ==
  LET t == task[w] IN
  /\ t.pc = "executing"
  /\ queue' = IF t.attempt < MaxRetries
                THEN [queue EXCEPT ![t.run][t.attempt + 1] = @ + 1] ELSE queue
  /\ task' = [task EXCEPT ![w].pc = "finishing", ![w].outcome = "FAILED",
                          ![w].seen = status[t.run]]
  /\ UNCHANGED <<rowVars, req, batch>>

\* Any other exception: a best-effort event, then Celery publishes the next
\* attempt unless the retries are used up.  The row is left as it is.
RetryLater(w) ==
  LET t == task[w] IN
  /\ t.pc = "executing"
  /\ \E events \in {<<>>, <<"run_retrying">>} : WriteEvents(t.run, events)
  /\ queue' = IF t.attempt < MaxRetries
                THEN [queue EXCEPT ![t.run][t.attempt + 1] = @ + 1] ELSE queue
  /\ task' = [task EXCEPT ![w] = IdleTask]
  /\ UNCHANGED <<status, started, idle, report, origin, req, batch>>

\* A fault: an event type the vocabulary does not have.
MisnamedEvents(o) == <<"run_completed", "tool_completed">>

CompletionEvents(o) ==
  LET done == IF o = "SUCCEEDED" THEN "run_succeeded" ELSE "run_needs_data" IN
  IF AgentMode = "B2" THEN <<"harness_routed", done, "tool_completed">>
                      ELSE <<done, "tool_completed">>

\* Two faults: a second report is ignored, or replaces the first.
PersistAs(w, rep) ==
  LET t == task[w] IN
  /\ t.pc = "finishing" /\ t.outcome \in Completed
  /\ CanTransition(t.seen, t.outcome)
  /\ Flush(t.run, t.seen, t.outcome)
  /\ Touch(t.run)
  /\ WriteEvents(t.run, CompletionEvents(t.outcome))
  /\ report' = [report EXCEPT ![t.run] = rep]
  /\ task' = [task EXCEPT ![w] = IdleTask]
  /\ UNCHANGED <<started, origin, queue, req, batch>>

PersistReplacing(w) == PersistAs(w, task[w].outcome)
PersistIgnoring(w) ==
  PersistAs(w, IF report[task[w].run] = "none" THEN task[w].outcome ELSE report[task[w].run])

\* Status, events, trace and report in one transaction.
PersistReport(w) ==
  LET t == task[w] IN
  /\ t.pc = "finishing" /\ t.outcome \in Completed
  /\ CanTransition(t.seen, t.outcome)
  /\ report[t.run] = "none"
  /\ Flush(t.run, t.seen, t.outcome)
  /\ Touch(t.run)
  /\ WriteEvents(t.run, CompletionEvents(t.outcome))
  /\ report' = [report EXCEPT ![t.run] = t.outcome]
  /\ task' = [task EXCEPT ![w] = IdleTask]
  /\ UNCHANGED <<started, origin, queue, req, batch>>

PersistFailure(w) ==
  LET t == task[w] IN
  /\ t.pc = "finishing" /\ t.outcome = "FAILED"
  /\ CanTransition(t.seen, "FAILED")
  /\ Flush(t.run, t.seen, "FAILED")
  /\ Touch(t.run)
  /\ WriteEvents(t.run, <<"run_failed">>)
  /\ task' = [task EXCEPT ![w] = IdleTask]
  /\ UNCHANGED <<started, report, origin, queue, req, batch>>

\* update_run_status raises, or the unique constraints of the trace and the
\* report reject a second result: the transaction is rolled back, the task fails.
Refused(w) ==
  LET t == task[w] IN
  /\ \/ t.pc = "loaded" /\ ~CanTransition(t.seen, "RUNNING")
     \/ t.pc = "finishing" /\ ~CanTransition(t.seen, t.outcome)
     \/ t.pc = "finishing" /\ t.outcome \in Completed /\ report[t.run] # "none"
  /\ task' = [task EXCEPT ![w] = IdleTask]
  /\ UNCHANGED <<rowVars, queue, req, batch>>

\* The worker process dies or loses the database: its transaction is rolled
\* back and its message, long acknowledged, is gone.
TaskDies(w) ==
  /\ task[w].pc # "idle"
  /\ task' = [task EXCEPT ![w] = IdleTask]
  /\ batch' = [batch EXCEPT ![w] = {}]
  /\ UNCHANGED <<rowVars, queue, req>>

-----------------------------------------------------------------------------
(* The stale scan, run by beat every five minutes and by a worker that has *)
(* just started.  A scan that selects nothing changes nothing.             *)

\* A fault: only what is executing counts as stuck.
StaleExecuting == {r \in Runs : status[r] = "RUNNING" /\ idle[r]}

Stale == {r \in Runs : status[r] \in Scanned /\ idle[r]}

ScanRead(w) ==
  /\ task[w] = IdleTask
  /\ Stale # {}
  /\ task' = [task EXCEPT ![w].pc = "scanning"]
  /\ batch' = [batch EXCEPT ![w] = Stale]
  /\ UNCHANGED <<rowVars, queue, req>>

\* No look at the row again, no transition table, no event.
ScanCommit(w) ==
  /\ task[w].pc = "scanning"
  /\ status' = [r \in Runs |-> IF r \in batch[w] THEN "FAILED" ELSE status[r]]
  /\ idle' = [r \in Runs |-> idle[r] /\ r \notin batch[w]]
  /\ task' = [task EXCEPT ![w] = IdleTask]
  /\ batch' = [batch EXCEPT ![w] = {}]
  /\ UNCHANGED <<started, log, report, origin, queue, req>>

-----------------------------------------------------------------------------
(* Time.  started_at is never later than updated_at, so the row is idle    *)
(* only when started_at is old.  The age of a row the scan does not look   *)
(* at decides nothing.                                                     *)

StartedAges(r) ==
  /\ status[r] \in Scanned /\ started[r] = "recent"
  /\ started' = [started EXCEPT ![r] = "old"]
  /\ UNCHANGED <<status, idle, log, report, origin, queue, req, task, batch>>

BecomesIdle(r) ==
  /\ status[r] \in Scanned /\ started[r] # "recent" /\ ~idle[r]
  /\ idle' = [idle EXCEPT ![r] = TRUE]
  /\ UNCHANGED <<status, started, log, report, origin, queue, req, task, batch>>

-----------------------------------------------------------------------------
RequestStep(c) ==
  \/ \E r \in Runs : TriggerDiagnosis(c, r)
  \/ \E r, o \in Runs : RetryDiagnosis(c, r, o)
  \/ CommitQueued(c) \/ Publish(c) \/ PublishFails(c) \/ RecordTaskId(c)
  \/ RequestDies(c)

TaskStep(w) ==
  \/ \E r \in Runs, a \in Attempts : TakeMessage(w, r, a)
  \/ Claim(w)
  \/ \E o \in Completed \cup {"FAILED"} : Execute(w, o)
  \/ RetryLater(w) \/ PersistReport(w) \/ PersistFailure(w) \/ Refused(w)

ScanStep(w) == ScanRead(w) \/ ScanCommit(w)

TimePasses == \E r \in Runs : StartedAges(r) \/ BecomesIdle(r)

Next ==
  \/ \E c \in Clients : RequestStep(c)
  \/ \E w \in Workers : TaskStep(w) \/ ScanStep(w) \/ TaskDies(w)
  \/ TimePasses

\* Time passes for every run, a task that is running returns, and beat keeps
\* asking for scans: a worker does not lose every scan it starts.
Fairness ==
  /\ \A r \in Runs : WF_vars(StartedAges(r)) /\ WF_vars(BecomesIdle(r))
  /\ \A w \in Workers : WF_vars(TaskStep(w)) /\ SF_vars(ScanCommit(w))
  /\ \A w \in Workers : WF_vars(ScanRead(w))

Spec == Init /\ [][Next]_vars

FairSpec == Spec /\ Fairness

-----------------------------------------------------------------------------
(* Properties.                                                             *)

Reqs  == [pc : {"idle", "created", "queued", "published"}, run : Runs \cup {NoRun}]
Pcs   == {"idle", "loaded", "executing", "finishing", "scanning"}
Tasks == [pc : Pcs, run : Runs \cup {NoRun}, attempt : Attempts,
          seen : Statuses \cup {"NONE"}, seenStarted : {"never", "recent", "old"},
          outcome : Completed \cup {"FAILED", "none"}]

\* The variables hold values of the columns and of the code's local state.
TypeOK ==
  /\ status \in [Runs -> Statuses \cup {"NONE"}]
  /\ started \in [Runs -> {"never", "recent", "old"}]
  /\ idle \in [Runs -> BOOLEAN]
  /\ log \in [Runs -> Seq(EventTypes)]
  /\ report \in [Runs -> Completed \cup {"none"}]
  /\ origin \in [Runs -> Runs \cup {NoRun}]
  /\ queue \in [Runs -> [Attempts -> Nat]]
  /\ req \in [Clients -> Reqs]
  /\ task \in [Workers -> Tasks]
  /\ batch \in [Workers -> SUBSET Runs]

Working(w, r) == task[w].run = r
InFlight(r) == \/ \E a \in Attempts : queue[r][a] > 0
               \/ \E w \in Workers : Working(w, r)

\* No worker holds a task, and the broker no message, of a run that is still
\* PENDING: QUEUED is committed before the task is published.
QueuedBeforeDispatch ==
  \A r \in Runs : InFlight(r) => status[r] \notin {"NONE", "PENDING", "DISPATCH_FAILED"}

\* A run that reads SUCCEEDED or NEEDS_DATA has a report of that status,
\* whatever deliveries and scans were interleaved: the report page of a
\* completed run is never empty and never contradicts it.
CompletedHasReport ==
  \A r \in Runs : status[r] \in Completed => report[r] = status[r]

CompletionOf(e) == CASE e = "run_succeeded"  -> "SUCCEEDED"
                     [] e = "run_needs_data" -> "NEEDS_DATA"
                     [] OTHER                -> "none"

Completions(r) == {i \in DOMAIN log[r] : CompletionOf(log[r][i]) # "none"}

\* However often a run is executed, its event log announces at most one result,
\* the one of the only report, and announces it exactly when the report exists.
ResultAnnouncedOnce ==
  \A r \in Runs :
    /\ Completions(r) = {} <=> report[r] = "none"
    /\ \A i, j \in Completions(r) : i = j /\ CompletionOf(log[r][i]) = report[r]

\* While a publish leaves one message, no two deliveries of a run are alive
\* together, over every attempt: retries do not multiply a run.
SingleDelivery ==
  \A r \in Runs :
    /\ \A v, w \in Workers : Working(v, r) /\ Working(w, r) => v = w
    /\ \A a, b \in Attempts : queue[r][a] > 0 /\ queue[r][b] > 0 => a = b
    /\ \A a \in Attempts : queue[r][a] <= 1
    /\ (\E w \in Workers : Working(w, r)) => \A a \in Attempts : queue[r][a] = 0

\* A run was retried because it had failed or lacked data, and that is still
\* what it shows: no late result turns the original of a retry into a success.
RetryOfSettledRun ==
  \A r \in Runs : origin[r] # NoRun => status[origin[r]] \in Retryable

\* One worker: a result that was computed is not refused by the transition table
\* or by the unique constraints, and one that was recorded is what the run goes on
\* to show: no scan, late delivery or retry writes another status over it.
NoResultLost ==
  /\ \A w \in Workers : task[w].pc = "finishing" =>
       /\ CanTransition(task[w].seen, task[w].outcome)
       /\ report[task[w].run] = "none"
  /\ \A r \in Runs : report[r] # "none" => status[r] = report[r]

Lifecycle == INSTANCE RunLifecycle

\* One worker: the run service keeps the promise of RunLifecycle, although the
\* scan bypasses the transition table.
KeepsLifecycle == Lifecycle!Spec

\* No run is QUEUED or RUNNING for ever, whatever was lost on the way.
RunsSettle == \A r \in Runs : <>[](status[r] \notin Scanned)

\* A run whose task could not be published is recorded as DISPATCH_FAILED.
DispatchFailureRecorded ==
  [][\A c \in Clients : PublishFails(c) => status'[req[c].run] = "DISPATCH_FAILED"]_vars

\* A retry of a run that is not over is executed, not skipped.
RetryExecutes ==
  [][\A w \in Workers, r \in Runs, a \in Attempts \ {0} :
       TakeMessage(w, r, a) /\ status[r] \notin Terminal
         => task'[w].pc = "loaded"]_vars

=============================================================================
