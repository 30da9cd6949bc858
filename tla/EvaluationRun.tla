---------------------------- MODULE EvaluationRun ----------------------------
(***************************************************************************)
(* The life of an EvaluationRun: the request that creates and dispatches   *)
(* it, the task that executes it, stores the two report objects and        *)
(* records them in the row, and the stale scan.                            *)
(*                                                                         *)
(* As in DiagnosisRun a transaction is a read and a commit, nothing locks  *)
(* the row between them, and a session keeps the status it has read: the   *)
(* sessions are made with expire_on_commit=False.  A run is named by its   *)
(* idempotency key.  What an execution computes is known by its number:    *)
(* the reports hold latencies, so no two are the same.                     *)
(***************************************************************************)
EXTENDS Integers, FiniteSets

CONSTANTS
  Runs,       \* the idempotency keys
  Clients,    \* concurrent API requests
  Workers,    \* Celery worker processes, one task at a time
  MaxCopies,  \* how many copies of a message one publish may leave
  MaxLeft,    \* how many copies a publish that raises may leave
  NoRun

ASSUME EvaluationAssumption ==
  /\ NoRun \notin Runs
  /\ IsFiniteSet(Workers)
  /\ MaxCopies \in Nat \ {0}
  /\ MaxLeft \in 0 .. MaxCopies

VARIABLES
  status,   \* status column; "NONE" while there is no row
  idle,     \* updated_at is more than ten minutes old
  records,  \* the executions whose artifact records and keys are committed
  objects,  \* the stored bytes per format: the execution that wrote them, or 0
  begun,    \* how many executions there have been
  queue,    \* messages in the broker
  req,      \* the API requests under way
  task,     \* what each worker is doing
  batch     \* the runs a scanning worker has selected

rowVars == <<status, idle, records>>
vars == <<status, idle, records, objects, begun, queue, req, task, batch>>

-----------------------------------------------------------------------------
(* Statuses.                                                               *)

Terminal == {"SUCCEEDED", "FAILED", "CANCELLED"}

Scanned == {"RUNNING", "QUEUED"}

Statuses == Terminal \cup Scanned \cup {"PENDING", "DISPATCH_FAILED"}

Allowed(from) ==
  CASE from = "PENDING"         -> {"DISPATCH_FAILED", "QUEUED", "CANCELLED"}
    [] from = "DISPATCH_FAILED" -> {"QUEUED", "CANCELLED"}
    [] from = "QUEUED"          -> {"RUNNING", "FAILED", "DISPATCH_FAILED", "CANCELLED"}
    [] from = "RUNNING"         -> {"SUCCEEDED", "FAILED", "CANCELLED"}
    [] OTHER                    -> {}

\* A fault: the table is not consulted.
AnyTransition(from, to) == TRUE

CanTransition(from, to) == from = to \/ to \in Allowed(from)

\* An ORM flush writes the column only when the value differs from the one read.
Flush(r, seen, new) ==
  status' = IF seen = new THEN status ELSE [status EXCEPT ![r] = new]

Touch(r) == idle' = [idle EXCEPT ![r] = FALSE]

Formats == {"json", "markdown"}

IdleReq  == [pc |-> "idle", run |-> NoRun]
IdleTask == [pc |-> "idle", run |-> NoRun, seen |-> "NONE", made |-> 0]

Init ==
  /\ status  = [r \in Runs |-> "NONE"]
  /\ idle    = [r \in Runs |-> FALSE]
  /\ records = [r \in Runs |-> {}]
  /\ objects = [r \in Runs |-> [f \in Formats |-> 0]]
  /\ begun   = [r \in Runs |-> 0]
  /\ queue   = [r \in Runs |-> 0]
  /\ req     = [c \in Clients |-> IdleReq]
  /\ task    = [w \in Workers |-> IdleTask]
  /\ batch   = [w \in Workers |-> {}]

-----------------------------------------------------------------------------
(* The request.  An insert whose key another transaction is inserting      *)
(* waits for it; when the row is there, the request returns it and that is *)
(* no step here.                                                           *)

Inserting(r) == \E c \in Clients : req[c] = [pc |-> "inserting", run |-> r]

\* A fault: no unique key to wait for.
InsertUnchecked(c, r) ==
  /\ req[c] = IdleReq
  /\ status[r] = "NONE"
  /\ req' = [req EXCEPT ![c] = [pc |-> "inserting", run |-> r]]
  /\ UNCHANGED <<rowVars, objects, begun, queue, task, batch>>

Insert(c, r) ==
  /\ req[c] = IdleReq
  /\ status[r] = "NONE" /\ ~Inserting(r)
  /\ req' = [req EXCEPT ![c] = [pc |-> "inserting", run |-> r]]
  /\ UNCHANGED <<rowVars, objects, begun, queue, task, batch>>

CommitInsert(c) ==
  /\ req[c].pc = "inserting"
  /\ status' = [status EXCEPT ![req[c].run] = "PENDING"]
  /\ req' = [req EXCEPT ![c].pc = "created"]
  /\ UNCHANGED <<idle, records, objects, begun, queue, task, batch>>

CommitQueued(c) ==
  /\ req[c].pc = "created"
  /\ Flush(req[c].run, "PENDING", "QUEUED")
  /\ Touch(req[c].run)
  /\ req' = [req EXCEPT ![c].pc = "queued"]
  /\ UNCHANGED <<records, objects, begun, queue, task, batch>>

Publish(c) ==
  /\ req[c].pc = "queued"
  /\ \E n \in 1 .. MaxCopies : queue' = [queue EXCEPT ![req[c].run] = @ + n]
  /\ req' = [req EXCEPT ![c].pc = "published"]
  /\ UNCHANGED <<rowVars, objects, begun, task, batch>>

\* delay() raises; when an answer was lost, the message may be there all the same.
PublishRaises(c) ==
  /\ req[c].pc = "queued"
  /\ \E n \in 0 .. MaxLeft : queue' = [queue EXCEPT ![req[c].run] = @ + n]
  /\ req' = [req EXCEPT ![c].pc = "undone"]
  /\ UNCHANGED <<rowVars, objects, begun, task, batch>>

\* The session still holds the QUEUED it wrote.
CommitDispatchFailed(c) ==
  /\ req[c].pc = "undone"
  /\ Flush(req[c].run, "QUEUED", "DISPATCH_FAILED")
  /\ Touch(req[c].run)
  /\ req' = [req EXCEPT ![c] = IdleReq]
  /\ UNCHANGED <<records, objects, begun, queue, task, batch>>

RecordTaskId(c) ==
  /\ req[c].pc = "published"
  /\ Touch(req[c].run)
  /\ req' = [req EXCEPT ![c] = IdleReq]
  /\ UNCHANGED <<status, records, objects, begun, queue, task, batch>>

\* The API process dies, or the database refuses a commit.
RequestDies(c) ==
  /\ req[c].pc # "idle"
  /\ req' = [req EXCEPT ![c] = IdleReq]
  /\ UNCHANGED <<rowVars, objects, begun, queue, task, batch>>

-----------------------------------------------------------------------------
(* The task.  Its message is acknowledged when it is taken, and it is      *)
(* never retried.                                                          *)

TakeMessage(w, r) ==
  /\ task[w] = IdleTask
  /\ queue[r] > 0
  /\ queue' = [queue EXCEPT ![r] = @ - 1]
  /\ task' = IF ~CanTransition(status[r], "RUNNING") THEN task
             ELSE [task EXCEPT ![w] =
                     [pc |-> "loaded", run |-> r, seen |-> status[r], made |-> 0]]
  /\ UNCHANGED <<rowVars, objects, begun, req, batch>>

\* A run that is RUNNING is claimed again, however long it has been so.
Claim(w) ==
  LET r == task[w].run IN
  /\ task[w].pc = "loaded"
  /\ Flush(r, task[w].seen, "RUNNING")
  /\ Touch(r)
  /\ begun' = [begun EXCEPT ![r] = @ + 1]
  /\ task' = [task EXCEPT ![w].pc = "executing", ![w].seen = "NONE", ![w].made = begun'[r]]
  /\ UNCHANGED <<records, objects, queue, req, batch>>

Store(w, f, next) ==
  /\ objects' = [objects EXCEPT ![task[w].run][f] = task[w].made]
  /\ task' = [task EXCEPT ![w].pc = next]
  /\ UNCHANGED <<rowVars, begun, queue, req, batch>>

\* The scenarios have been run and scored: the report is stored.
StoreJson(w) == task[w].pc = "executing" /\ Store(w, "json", "half")

StoreMarkdown(w) == task[w].pc = "half" /\ Store(w, "markdown", "stored")

\* The last transaction reads the row.
ReadRow(w, next) ==
  /\ task' = [task EXCEPT ![w].pc = next, ![w].seen = status[task[w].run]]
  /\ UNCHANGED <<rowVars, objects, begun, queue, req, batch>>

\* A fault: the report is committed before its second format is stored.
FinishEarly(w) == task[w].pc = "half" /\ ReadRow(w, "succeeding")

Finish(w) == task[w].pc = "stored" /\ ReadRow(w, "succeeding")

\* The runner or the object store raises; a put that raises may have stored its bytes.
Fail(w) == task[w].pc \in {"executing", "half", "stored"} /\ ReadRow(w, "failing")

\* Artifact records, metrics, keys and status in one transaction.
PersistReport(w) ==
  LET t == task[w] IN
  /\ t.pc = "succeeding" /\ CanTransition(t.seen, "SUCCEEDED")
  /\ Flush(t.run, t.seen, "SUCCEEDED")
  /\ Touch(t.run)
  /\ records' = [records EXCEPT ![t.run] = @ \cup {t.made}]
  /\ task' = [task EXCEPT ![w] = IdleTask]
  /\ UNCHANGED <<objects, begun, queue, req, batch>>

PersistFailure(w) ==
  LET t == task[w] IN
  /\ t.pc = "failing" /\ CanTransition(t.seen, "FAILED")
  /\ Flush(t.run, t.seen, "FAILED")
  /\ Touch(t.run)
  /\ task' = [task EXCEPT ![w] = IdleTask]
  /\ UNCHANGED <<records, objects, begun, queue, req, batch>>

\* update_status raises, and the transaction is rolled back.
Refused(w) ==
  /\ \/ task[w].pc = "succeeding" /\ ~CanTransition(task[w].seen, "SUCCEEDED")
     \/ task[w].pc = "failing" /\ ~CanTransition(task[w].seen, "FAILED")
  /\ task' = [task EXCEPT ![w] = IdleTask]
  /\ UNCHANGED <<rowVars, objects, begun, queue, req, batch>>

\* The worker process dies or loses the database.
TaskDies(w) ==
  /\ task[w].pc # "idle"
  /\ task' = [task EXCEPT ![w] = IdleTask]
  /\ batch' = [batch EXCEPT ![w] = {}]
  /\ UNCHANGED <<rowVars, objects, begun, queue, req>>

-----------------------------------------------------------------------------
(* The stale scan and time.                                                *)

\* A fault: only what is executing counts as stuck.
StaleExecuting == {r \in Runs : status[r] = "RUNNING" /\ idle[r]}

Stale == {r \in Runs : status[r] \in Scanned /\ idle[r]}

ScanRead(w) ==
  /\ task[w] = IdleTask
  /\ Stale # {}
  /\ task' = [task EXCEPT ![w].pc = "scanning"]
  /\ batch' = [batch EXCEPT ![w] = Stale]
  /\ UNCHANGED <<rowVars, objects, begun, queue, req>>

\* A fault: the scan's error type is written where the status belongs.
ScanCommitError(w) ==
  /\ task[w].pc = "scanning"
  /\ status' = [r \in Runs |-> IF r \in batch[w] THEN "STALE_RUN_TIMEOUT" ELSE status[r]]
  /\ task' = [task EXCEPT ![w] = IdleTask]
  /\ batch' = [batch EXCEPT ![w] = {}]
  /\ UNCHANGED <<idle, records, objects, begun, queue, req>>

ScanCommit(w) ==
  /\ task[w].pc = "scanning"
  /\ status' = [r \in Runs |-> IF r \in batch[w] THEN "FAILED" ELSE status[r]]
  /\ idle' = [r \in Runs |-> idle[r] /\ r \notin batch[w]]
  /\ task' = [task EXCEPT ![w] = IdleTask]
  /\ batch' = [batch EXCEPT ![w] = {}]
  /\ UNCHANGED <<records, objects, begun, queue, req>>

\* The age of a row the scan does not look at decides nothing.
BecomesIdle(r) ==
  /\ status[r] \in Scanned /\ ~idle[r]
  /\ idle' = [idle EXCEPT ![r] = TRUE]
  /\ UNCHANGED <<status, records, objects, begun, queue, req, task, batch>>

-----------------------------------------------------------------------------
RequestStep(c) ==
  \/ \E r \in Runs : Insert(c, r)
  \/ CommitInsert(c) \/ CommitQueued(c) \/ Publish(c) \/ RecordTaskId(c)
  \/ PublishRaises(c) \/ CommitDispatchFailed(c)
  \/ RequestDies(c)

TaskStep(w) ==
  \/ \E r \in Runs : TakeMessage(w, r)
  \/ Claim(w)
  \/ StoreJson(w) \/ StoreMarkdown(w) \/ Finish(w) \/ Fail(w)
  \/ PersistReport(w) \/ PersistFailure(w) \/ Refused(w)

ScanStep(w) == ScanRead(w) \/ ScanCommit(w)

Next ==
  \/ \E c \in Clients : RequestStep(c)
  \/ \E w \in Workers : TaskStep(w) \/ ScanStep(w) \/ TaskDies(w)
  \/ \E r \in Runs : BecomesIdle(r)

\* As for diagnosis runs: time, a task that returns, and scans that go on.
Fairness ==
  /\ \A r \in Runs : WF_vars(BecomesIdle(r))
  /\ \A w \in Workers : WF_vars(TaskStep(w)) /\ SF_vars(ScanCommit(w)) /\ WF_vars(ScanRead(w))

Spec == Init /\ [][Next]_vars

FairSpec == Spec /\ Fairness

-----------------------------------------------------------------------------
(* Properties.                                                             *)

Reqs  == [pc : {"idle", "inserting", "created", "queued", "undone", "published"},
          run : Runs \cup {NoRun}]
Tasks == [pc : {"idle", "loaded", "executing", "half", "stored", "succeeding", "failing",
                "scanning"},
          run : Runs \cup {NoRun}, seen : Statuses \cup {"NONE"}, made : Nat]

\* The variables hold values of the columns, the store and the local state.
TypeOK ==
  /\ status \in [Runs -> Statuses \cup {"NONE"}]
  /\ idle \in [Runs -> BOOLEAN]
  /\ records \in [Runs -> SUBSET Nat]
  /\ objects \in [Runs -> [Formats -> Nat]]
  /\ begun \in [Runs -> Nat]
  /\ queue \in [Runs -> Nat]
  /\ req \in [Clients -> Reqs]
  /\ task \in [Workers -> Tasks]
  /\ batch \in [Workers -> SUBSET Runs]

\* One worker.  A report that the row points to can be downloaded in both
\* formats, whatever was delivered twice or died: the stored bytes are those whose
\* checksum is recorded, because nothing overwrites the objects of a run once
\* their record is committed.
ReportDownloads ==
  \A r \in Runs, f \in Formats : \A n \in records[r] : objects[r][f] = n

\* However many requests come for one key at the same time, one of them creates
\* and dispatches the run: it is executed at most as often as one publish left
\* messages.
DispatchedOnce ==
  \A r \in Runs : queue[r] + begun[r] <= MaxCopies

\* One worker.  A run that reads SUCCEEDED has a report, and a run with a report
\* reads SUCCEEDED: neither a second delivery nor the scan takes the status from
\* under it.  Only a request can, whose publish raised although the message was
\* stored.
SucceededHasReport ==
  \A r \in Runs :
    /\ status[r] = "SUCCEEDED" => records[r] # {}
    /\ records[r] # {} => status[r] \in {"SUCCEEDED", "DISPATCH_FAILED"}

\* No evaluation is QUEUED or RUNNING for ever.
EvaluationsSettle == \A r \in Runs : <>[](status[r] \notin Scanned)

=============================================================================
