------------------------ MODULE EvaluationRunProofs ------------------------
(***************************************************************************)
(* What holds of EvaluationRun for any number of keys, requests, workers   *)
(* and message copies, and what one worker adds.                           *)
(***************************************************************************)
EXTENDS EvaluationRun, FiniteSetTheorems, TLAPS

LEMMA StatusNames ==
  /\ Statuses = {"SUCCEEDED", "FAILED", "CANCELLED", "RUNNING", "QUEUED", "PENDING",
                 "DISPATCH_FAILED"}
  /\ "NONE" \notin Statuses
BY DEF Statuses, Terminal, Scanned

\* What the table lets the task do.
LEMMA TableFacts ==
  /\ \A s \in Statuses : CanTransition(s, "RUNNING") => s \in {"QUEUED", "RUNNING"}
  /\ \A s \in Statuses : CanTransition(s, "SUCCEEDED") => s \in {"RUNNING", "SUCCEEDED"}
BY StatusNames DEF CanTransition, Allowed

LEMMA FlushType ==
  ASSUME NEW r \in Runs, NEW seen, NEW new \in Statuses,
         status \in [Runs -> Statuses \cup {"NONE"}], Flush(r, seen, new)
  PROVE  /\ status' \in [Runs -> Statuses \cup {"NONE"}]
         /\ \A q \in Runs : status'[q] = status[q] \/ (q = r /\ seen # new /\ status'[q] = new)
<1>1. CASE seen = new  BY <1>1 DEF Flush
<1>2. CASE seen # new  BY <1>2 DEF Flush
<1>3. QED  BY <1>1, <1>2

\* The record updates of the actions stay in the record types.
LEMMA ReqFields ==
  /\ \A q \in Reqs, p \in {"created", "queued", "undone", "published"} : [q EXCEPT !.pc = p] \in Reqs
  /\ \A r \in Runs : [pc |-> "inserting", run |-> r] \in Reqs
  /\ IdleReq \in Reqs
BY DEF Reqs, IdleReq

TaskPcs == {"loaded", "executing", "half", "stored", "succeeding", "failing"}

LEMMA TaskFields ==
  ASSUME NEW t \in Tasks, NEW s \in Statuses \cup {"NONE"}, NEW n \in Nat,
         NEW p \in TaskPcs \cup {"scanning"}
  PROVE  /\ [t EXCEPT !.pc = p] \in Tasks
         /\ [t EXCEPT !.pc = p, !.seen = s] \in Tasks
         /\ [t EXCEPT !.pc = p, !.seen = s, !.made = n] \in Tasks
BY DEF Tasks, TaskPcs

LEMMA TaskLoaded ==
  ASSUME NEW r \in Runs, NEW s \in Statuses \cup {"NONE"}
  PROVE  [pc |-> "loaded", run |-> r, seen |-> s, made |-> 0] \in Tasks
BY DEF Tasks

LEMMA IdleTyped == IdleTask \in Tasks /\ IdleTask.pc = "idle"
BY DEF IdleTask, Tasks

\* A request or a worker that is in the middle of something has a run, which
\* the record types alone do not say.
HoldsRun ==
  /\ \A c \in Clients : req[c].pc # "idle" => req[c].run \in Runs
  /\ \A w \in Workers : task[w].pc \in TaskPcs => task[w].run \in Runs

TypeInv == TypeOK /\ HoldsRun

LEMMA InitType == Init => TypeInv
<1> SUFFICES ASSUME Init PROVE TypeInv
  OBVIOUS
<1>1. HoldsRun  BY DEF Init, HoldsRun, IdleReq, IdleTask, TaskPcs
<1>2. req \in [Clients -> Reqs] /\ task \in [Workers -> Tasks]
  BY IdleTyped, ReqFields DEF Init
<1>3. objects \in [Runs -> [Formats -> Nat]]  BY DEF Init
<1>4. QED  BY <1>1, <1>2, <1>3 DEF Init, TypeInv, TypeOK

LEMMA RequestType ==
  ASSUME TypeInv, NEW c \in Clients, RequestStep(c)
  PROVE  TypeInv'
<1> USE EvaluationAssumption, StatusNames DEF TypeInv, TypeOK
<1>1. ASSUME NEW r \in Runs, Insert(c, r) PROVE TypeInv'
  <2>1. req' \in [Clients -> Reqs]  BY <1>1, ReqFields DEF Insert
  <2>2. HoldsRun'  BY <1>1 DEF Insert, HoldsRun
  <2>3. QED  BY <1>1, <2>1, <2>2 DEF Insert, rowVars
<1>2. CASE CommitInsert(c)
  <2>1. req[c].run \in Runs  BY <1>2 DEF CommitInsert, HoldsRun
  <2>2. req' \in [Clients -> Reqs]  BY <1>2, ReqFields DEF CommitInsert
  <2>3. HoldsRun'  BY <1>2, <2>1 DEF CommitInsert, HoldsRun
  <2>4. QED  BY <1>2, <2>1, <2>2, <2>3 DEF CommitInsert
<1>3. CASE CommitQueued(c)
  <2>1. req[c].run \in Runs  BY <1>3 DEF CommitQueued, HoldsRun
  <2>2. status' \in [Runs -> Statuses \cup {"NONE"}]  BY <1>3, <2>1, FlushType DEF CommitQueued
  <2>3. req' \in [Clients -> Reqs]  BY <1>3, ReqFields DEF CommitQueued
  <2>4. HoldsRun'  BY <1>3, <2>1 DEF CommitQueued, HoldsRun
  <2>5. QED  BY <1>3, <2>2, <2>3, <2>4 DEF CommitQueued, Touch
<1>4. ASSUME NEW p \in {"published", "undone"}, NEW n \in Nat, req[c].pc = "queued",
             queue' = [queue EXCEPT ![req[c].run] = @ + n], req' = [req EXCEPT ![c].pc = p],
             UNCHANGED <<rowVars, objects, begun, task, batch>>
      PROVE  TypeInv'
  <2>1. req[c].run \in Runs  BY <1>4 DEF HoldsRun
  <2>2. queue[req[c].run] + n \in Nat  BY <1>4, <2>1
  <2>3. queue' \in [Runs -> Nat]  BY <1>4, <2>2
  <2>4. req' \in [Clients -> Reqs]  BY <1>4, ReqFields
  <2>5. HoldsRun'  BY <1>4, <2>1 DEF HoldsRun
  <2>6. QED  BY <1>4, <2>3, <2>4, <2>5 DEF rowVars
<1>5. CASE Publish(c) \/ PublishRaises(c)
  BY <1>4, <1>5 DEF Publish, PublishRaises
<1>6. CASE CommitDispatchFailed(c)
  <2>1. req[c].run \in Runs  BY <1>6 DEF CommitDispatchFailed, HoldsRun
  <2>2. status' \in [Runs -> Statuses \cup {"NONE"}]
    BY <1>6, <2>1, FlushType DEF CommitDispatchFailed
  <2>3. req' \in [Clients -> Reqs]  BY <1>6, ReqFields DEF CommitDispatchFailed
  <2>4. HoldsRun'  BY <1>6, <2>1 DEF CommitDispatchFailed, HoldsRun, IdleReq
  <2>5. QED  BY <1>6, <2>2, <2>3, <2>4 DEF CommitDispatchFailed, Touch
<1>7. CASE RecordTaskId(c) \/ RequestDies(c)
  <2>1. req' \in [Clients -> Reqs]  BY <1>7, ReqFields DEF RecordTaskId, RequestDies
  <2>2. HoldsRun'  BY <1>7 DEF RecordTaskId, RequestDies, HoldsRun, IdleReq
  <2>3. QED  BY <1>7, <2>1, <2>2 DEF RecordTaskId, RequestDies, Touch, rowVars
<1>8. QED
  BY <1>1, <1>2, <1>3, <1>5, <1>6, <1>7 DEF RequestStep

LEMMA TaskType ==
  ASSUME TypeInv, NEW w \in Workers, TaskStep(w)
  PROVE  TypeInv'
<1> USE EvaluationAssumption, StatusNames DEF TypeInv, TypeOK
<1>1. ASSUME NEW r \in Runs, TakeMessage(w, r) PROVE TypeInv'
  <2>1. queue' \in [Runs -> Nat]
    <3>1. queue[r] - 1 \in Nat  BY <1>1 DEF TakeMessage
    <3>2. QED  BY <1>1, <3>1 DEF TakeMessage
  <2>2. task' \in [Workers -> Tasks]  BY <1>1, TaskLoaded DEF TakeMessage
  <2>3. HoldsRun'  BY <1>1 DEF TakeMessage, HoldsRun
  <2>4. QED  BY <1>1, <2>1, <2>2, <2>3 DEF TakeMessage, rowVars
<1>2. CASE Claim(w)
  <2>1. task[w].run \in Runs  BY <1>2 DEF Claim, HoldsRun, TaskPcs
  <2>2. status' \in [Runs -> Statuses \cup {"NONE"}]  BY <1>2, <2>1, FlushType DEF Claim
  <2>3. begun' \in [Runs -> Nat]
    <3>1. begun[task[w].run] + 1 \in Nat  BY <2>1
    <3>2. QED  BY <1>2, <3>1 DEF Claim
  <2>4. task' \in [Workers -> Tasks]
    <3> DEFINE t == [task[w] EXCEPT !.pc = "executing", !.seen = "NONE",
                                    !.made = begun'[task[w].run]]
    <3>1. task[w] \in Tasks /\ begun'[task[w].run] \in Nat  BY <2>1, <2>3
    <3>2. t \in Tasks  BY <3>1, TaskFields, "executing" \in TaskPcs DEF TaskPcs
    <3>3. PICK n \in Nat : n = begun'[task[w].run]  BY <3>1
    <3>4. task' = [task EXCEPT ![w].pc = "executing", ![w].seen = "NONE", ![w].made = n]
      BY <1>2, <3>3 DEF Claim
    <3>5. task \in [Workers -> Tasks]  OBVIOUS
    <3> HIDE DEF TypeInv, TypeOK
    <3>6. task' = [task EXCEPT ![w] = [task[w] EXCEPT !.pc = "executing", !.seen = "NONE", !.made = n]]
      BY <3>4, <3>5 DEF Tasks
    <3>7. QED  BY <3>2, <3>3, <3>5, <3>6
  <2>5. HoldsRun'  BY <1>2, <2>1 DEF Claim, HoldsRun
  <2>6. QED  BY <1>2, <2>2, <2>3, <2>4, <2>5 DEF Claim, Touch
<1>3. ASSUME NEW f \in Formats, NEW p \in {"half", "stored"}, Store(w, f, p),
             task[w].pc \in TaskPcs
      PROVE  TypeInv'
  <2>1. task[w].run \in Runs  BY <1>3 DEF HoldsRun
  <2>2. task' \in [Workers -> Tasks]  BY <1>3, TaskFields DEF Store, TaskPcs
  <2>3. objects' \in [Runs -> [Formats -> Nat]]  BY <1>3, <2>1 DEF Store, Tasks
  <2>4. HoldsRun'  BY <1>3, <2>1 DEF Store, HoldsRun
  <2>5. QED  BY <1>3, <2>2, <2>3, <2>4 DEF Store, rowVars
<1>4. CASE StoreJson(w) \/ StoreMarkdown(w)
  BY <1>3, <1>4 DEF StoreJson, StoreMarkdown, Formats, TaskPcs
<1>5. ASSUME NEW p \in {"succeeding", "failing"}, ReadRow(w, p), task[w].pc \in TaskPcs
      PROVE  TypeInv'
  <2>1. task[w].run \in Runs  BY <1>5 DEF HoldsRun
  <2>2. task' \in [Workers -> Tasks]  BY <1>5, <2>1, TaskFields DEF ReadRow, TaskPcs
  <2>3. HoldsRun'  BY <1>5, <2>1 DEF ReadRow, HoldsRun
  <2>4. QED  BY <1>5, <2>2, <2>3 DEF ReadRow, rowVars
<1>6. CASE Finish(w) \/ Fail(w)
  BY <1>5, <1>6 DEF Finish, Fail, TaskPcs
<1>7. CASE PersistReport(w) \/ PersistFailure(w) \/ Refused(w)
  <2>1. task[w].run \in Runs
    BY <1>7 DEF PersistReport, PersistFailure, Refused, HoldsRun, TaskPcs
  <2>2. status' \in [Runs -> Statuses \cup {"NONE"}]
    BY <1>7, <2>1, FlushType DEF PersistReport, PersistFailure, Refused, rowVars
  <2>3. records' \in [Runs -> SUBSET Nat]
    <3>1. task[w].made \in Nat  BY DEF Tasks
    <3>2. QED  BY <1>7, <2>1, <3>1 DEF PersistReport, PersistFailure, Refused, rowVars
  <2>4. task' = [task EXCEPT ![w] = IdleTask]
    BY <1>7 DEF PersistReport, PersistFailure, Refused
  <2>5. task' \in [Workers -> Tasks]  BY <2>4, IdleTyped
  <2>6. HoldsRun'
    BY <1>7, <2>4, IdleTyped DEF PersistReport, PersistFailure, Refused, HoldsRun, TaskPcs
  <2>7. idle' \in [Runs -> BOOLEAN]
    BY <1>7 DEF PersistReport, PersistFailure, Refused, Touch, rowVars
  <2>8. QED
    BY <1>7, <2>2, <2>3, <2>5, <2>6, <2>7 DEF PersistReport, PersistFailure, Refused
<1>8. QED
  BY <1>1, <1>2, <1>4, <1>6, <1>7 DEF TaskStep

LEMMA OtherType ==
  ASSUME TypeInv,
         \/ \E w \in Workers : ScanStep(w) \/ TaskDies(w)
         \/ \E r \in Runs : BecomesIdle(r)
         \/ UNCHANGED vars
  PROVE  TypeInv'
<1> USE StatusNames DEF TypeInv, TypeOK
<1>1. ASSUME NEW w \in Workers, ScanRead(w) PROVE TypeInv'
  <2>1. task' \in [Workers -> Tasks]  BY <1>1, TaskFields DEF ScanRead
  <2>2. HoldsRun'  BY <1>1 DEF ScanRead, HoldsRun, TaskPcs
  <2>3. QED  BY <1>1, <2>1, <2>2 DEF ScanRead, Stale, rowVars
<1>2. ASSUME NEW w \in Workers, ScanCommit(w) PROVE TypeInv'
  <2>1. task' \in [Workers -> Tasks]  BY <1>2, IdleTyped DEF ScanCommit
  <2>2. HoldsRun'  BY <1>2, IdleTyped DEF ScanCommit, HoldsRun, TaskPcs
  <2>3. QED  BY <1>2, <2>1, <2>2 DEF ScanCommit
<1>3. ASSUME NEW w \in Workers, TaskDies(w) PROVE TypeInv'
  <2>1. task' \in [Workers -> Tasks]  BY <1>3, IdleTyped DEF TaskDies
  <2>2. HoldsRun'  BY <1>3, IdleTyped DEF TaskDies, HoldsRun, TaskPcs
  <2>3. QED  BY <1>3, <2>1, <2>2 DEF TaskDies, rowVars
<1>4. ASSUME NEW r \in Runs, BecomesIdle(r) PROVE TypeInv'
  BY <1>4 DEF BecomesIdle, HoldsRun
<1>5. CASE UNCHANGED vars
  BY <1>5 DEF vars, rowVars, HoldsRun
<1>6. QED  BY <1>1, <1>2, <1>3, <1>4, <1>5 DEF ScanStep

LEMMA StepType == TypeInv /\ [Next]_vars => TypeInv'
BY RequestType, TaskType, OtherType DEF Next

\* Every column, object and local variable keeps its type, for any number of
\* keys, requests, workers and copies.
THEOREM TypeCorrect == Spec => []TypeOK
<1>1. TypeInv => TypeOK  BY DEF TypeInv
<1>2. QED  BY <1>1, InitType, StepType, PTL DEF Spec

-----------------------------------------------------------------------------
(* One request creates and dispatches a key.  What is counted is a run's   *)
(* messages, the claims that are on their way and its executions: the      *)
(* count is zero until the one publish and never grows after it.           *)

Loaded(r) == {w \in Workers : task[w].pc = "loaded" /\ task[w].run = r}

Total(r) == queue[r] + begun[r] + Cardinality(Loaded(r))

OnceInv ==
  /\ \A c \in Clients : req[c].pc = "inserting" => status[req[c].run] = "NONE"
  /\ \A c \in Clients : req[c].pc \in {"created", "queued", "undone", "published"}
                          => status[req[c].run] # "NONE"
  /\ \A c, d \in Clients : c # d /\ req[c].pc # "idle" /\ req[d].pc # "idle"
                             => req[c].run # req[d].run
  /\ \A w \in Workers : task[w].pc \in TaskPcs => status[task[w].run] # "NONE"
  /\ \A w \in Workers : \A r \in batch[w] : status[r] # "NONE"
  /\ \A r \in Runs : Total(r) <= MaxCopies
  /\ \A r \in Runs : status[r] = "NONE" => Total(r) = 0
  /\ \A c \in Clients, r \in Runs :
       req[c].pc \in {"created", "queued"} /\ req[c].run = r => Total(r) = 0

LEMMA LoadedFinite ==
  ASSUME NEW r
  PROVE  IsFiniteSet(Loaded(r)) /\ Cardinality(Loaded(r)) \in Nat
<1>1. Loaded(r) \in SUBSET Workers  BY DEF Loaded
<1>2. IsFiniteSet(Loaded(r))  BY <1>1, EvaluationAssumption, FS_Subset
<1>3. QED  BY <1>2, FS_CardinalityType

LEMMA LoadedFiniteNext ==
  ASSUME NEW r
  PROVE  IsFiniteSet(Loaded(r)') /\ Cardinality(Loaded(r)') \in Nat
<1>1. Loaded(r)' \in SUBSET Workers  BY DEF Loaded
<1>2. IsFiniteSet(Loaded(r)')  BY <1>1, EvaluationAssumption, FS_Subset
<1>3. QED  BY <1>2, FS_CardinalityType

LEMMA TotalType == TypeOK => \A r \in Runs : Total(r) \in Nat
BY LoadedFinite DEF TypeOK, Total

LEMMA TotalTypeNext == TypeOK' => \A r \in Runs : Total(r)' \in Nat
BY LoadedFiniteNext DEF TypeOK, Total

\* A step that loads nothing and neither publishes nor begins an execution.
LEMMA TotalStays ==
  ASSUME TypeOK, NEW r \in Runs, queue'[r] \in Nat, queue'[r] <= queue[r],
         begun'[r] = begun[r], Loaded(r)' \subseteq Loaded(r)
  PROVE  Total(r)' <= Total(r)
<1>1. Cardinality(Loaded(r)') <= Cardinality(Loaded(r))
  BY LoadedFinite, FS_Subset
<1>2. QED
  BY <1>1, LoadedFinite, LoadedFiniteNext DEF Total, TypeOK

\* Taking a message, claiming a run and everything after it only pass the run on.
LEMMA TaskTotal ==
  ASSUME TypeInv, NEW w \in Workers, TaskStep(w) \/ ScanStep(w) \/ TaskDies(w)
  PROVE  \A r \in Runs : Total(r)' <= Total(r)
<1>0. TypeOK /\ HoldsRun  BY DEF TypeInv
<1>1. ASSUME NEW q \in Runs, TakeMessage(w, q), NEW r \in Runs PROVE Total(r)' <= Total(r)
  <2>0. queue[q] \in Nat /\ queue[q] > 0 /\ queue' = [queue EXCEPT ![q] = @ - 1] /\ begun' = begun
        /\ task[w].pc = "idle"
    BY <1>0, <1>1 DEF TakeMessage, TypeOK, IdleTask
  <2>1. CASE r = q /\ task' # task
    <3>1. /\ task' = [task EXCEPT ![w] = [pc |-> "loaded", run |-> q, seen |-> status[q], made |-> 0]]
      BY <1>1, <2>1 DEF TakeMessage
    <3>2. Loaded(r)' = Loaded(r) \cup {w} /\ w \notin Loaded(r)
      BY <1>0, <2>0, <2>1, <3>1 DEF Loaded, TypeOK
    <3>3. Cardinality(Loaded(r)') = Cardinality(Loaded(r)) + 1
      BY <3>2, LoadedFinite, FS_AddElement
    <3>4. queue'[r] = queue[r] - 1  BY <1>0, <2>0, <2>1 DEF TypeOK
    <3>5. QED  BY <1>0, <2>0, <2>1, <3>3, <3>4, LoadedFinite DEF Total, TypeOK
  <2>2. CASE r # q \/ task' = task
    <3>1. Loaded(r)' = Loaded(r)
      BY <1>0, <1>1, <2>0, <2>2 DEF TakeMessage, Loaded, TypeOK
    <3>2. queue'[r] \in Nat /\ queue'[r] <= queue[r] /\ begun'[r] = begun[r]
      BY <1>0, <2>0 DEF TypeOK
    <3>3. QED  BY <1>0, <3>1, <3>2, TotalStays
  <2>3. QED  BY <2>1, <2>2
<1>2. ASSUME Claim(w), NEW r \in Runs PROVE Total(r)' <= Total(r)
  <2> PICK q \in Runs : q = task[w].run  BY <1>0, <1>2 DEF Claim, HoldsRun, TaskPcs
  <2>1. /\ begun' = [begun EXCEPT ![q] = @ + 1] /\ queue' = queue /\ task[w].pc = "loaded"
    BY <1>2 DEF Claim
  <2>2. /\ task'[w].pc = "executing"
        /\ \A v \in Workers \ {w} : task'[v] = task[v]
    BY <1>0, <1>2 DEF Claim, TypeOK, Tasks
  <2>3. Loaded(r)' = IF r = q THEN Loaded(r) \ {w} ELSE Loaded(r)
    BY <2>1, <2>2 DEF Loaded
  <2>4. CASE r = q
    <3>1. w \in Loaded(r)  BY <2>1, <2>4 DEF Loaded
    <3>2. Cardinality(Loaded(r)') = Cardinality(Loaded(r)) - 1
      BY <2>3, <2>4, <3>1, LoadedFinite, FS_RemoveElement
    <3>3. begun'[r] = begun[r] + 1  BY <1>0, <2>1, <2>4 DEF TypeOK
    <3>4. QED  BY <1>0, <2>1, <3>2, <3>3, LoadedFinite DEF Total, TypeOK
  <2>5. CASE r # q
    BY <1>0, <2>1, <2>3, <2>5, TotalStays DEF TypeOK
  <2>6. QED  BY <2>4, <2>5
<1>3. ASSUME UNCHANGED <<queue, begun>>, task'[w].pc # "loaded",
             \A v \in Workers \ {w} : task'[v] = task[v], NEW r \in Runs
      PROVE  Total(r)' <= Total(r)
  <2>1. Loaded(r)' \subseteq Loaded(r)  BY <1>3 DEF Loaded
  <2>2. QED  BY <1>0, <1>3, <2>1, TotalStays DEF TypeOK
<1>4. CASE StoreJson(w) \/ StoreMarkdown(w) \/ Finish(w) \/ Fail(w)
  <2>1. PICK p \in {"half", "stored", "succeeding", "failing"} : task'[w].pc = p
    BY <1>0, <1>4 DEF StoreJson, StoreMarkdown, Store, Finish, Fail, ReadRow, TypeOK, Tasks
  <2>2. /\ UNCHANGED <<queue, begun>>
        /\ \A v \in Workers \ {w} : task'[v] = task[v]
    BY <1>0, <1>4 DEF StoreJson, StoreMarkdown, Store, Finish, Fail, ReadRow, TypeOK
  <2>3. QED  BY <1>3, <2>1, <2>2
<1>5. CASE PersistReport(w) \/ PersistFailure(w) \/ Refused(w) \/ ScanCommit(w) \/ TaskDies(w)
  <2>1. UNCHANGED <<queue, begun>> /\ task' = [task EXCEPT ![w] = IdleTask]
    BY <1>5 DEF PersistReport, PersistFailure, Refused, ScanCommit, TaskDies
  <2>2. QED  BY <1>0, <1>3, <2>1, IdleTyped DEF TypeOK
<1>6. CASE ScanRead(w)
  <2>1. task'[w].pc = "scanning"  BY <1>0, <1>6 DEF ScanRead, TypeOK, Tasks
  <2>2. UNCHANGED <<queue, begun>> /\ \A v \in Workers \ {w} : task'[v] = task[v]
    BY <1>0, <1>6 DEF ScanRead, TypeOK
  <2>3. QED  BY <1>3, <2>1, <2>2
<1>7. QED  BY <1>1, <1>2, <1>4, <1>5, <1>6 DEF TaskStep, ScanStep

LEMMA OnceInit == Init => OnceInv
<1> SUFFICES ASSUME Init PROVE OnceInv
  OBVIOUS
<1>1. \A c \in Clients : req[c].pc = "idle"  BY DEF Init, IdleReq
<1>2. \A w \in Workers : task[w].pc = "idle" /\ batch[w] = {}  BY IdleTyped DEF Init
<1>3. \A r \in Runs : Total(r) = 0
  <2> TAKE r \in Runs
  <2>1. Loaded(r) = {}  BY <1>2 DEF Loaded
  <2>2. QED  BY <2>1, FS_EmptySet DEF Init, Total
<1>4. QED  BY <1>1, <1>2, <1>3, EvaluationAssumption DEF OnceInv, TaskPcs

\* What a step of a worker or of time must leave alone.
LEMMA OnceFrame ==
  ASSUME TypeInv, TypeInv', OnceInv, UNCHANGED req,
         \A r \in Runs : Total(r)' <= Total(r),
         \A r \in Runs : status'[r] = "NONE" <=> status[r] = "NONE",
         \A w \in Workers : task'[w].pc \in TaskPcs => status[task'[w].run] # "NONE",
         \A w \in Workers : \A r \in batch'[w] : status[r] # "NONE"
  PROVE  OnceInv'
<1>1. \A r \in Runs : Total(r) \in Nat /\ Total(r)' \in Nat
  BY TotalType, TotalTypeNext DEF TypeInv
<1>2. \A r \in Runs : Total(r)' <= MaxCopies /\ (Total(r) = 0 => Total(r)' = 0)
  BY <1>1, EvaluationAssumption DEF OnceInv
<1>3. \A w \in Workers : task'[w].pc \in TaskPcs => task'[w].run \in Runs
  BY DEF TypeInv, HoldsRun
<1>4. \A w \in Workers : \A r \in batch'[w] : r \in Runs  BY DEF TypeInv, TypeOK
<1>5. \A c \in Clients : req[c].pc # "idle" => req[c].run \in Runs  BY DEF TypeInv, HoldsRun
<1>6. QED  BY <1>2, <1>3, <1>4, <1>5 DEF OnceInv

\* A run with a message or a worker is in the table.
LEMMA CountedExists ==
  ASSUME TypeInv, OnceInv, NEW r \in Runs, queue[r] > 0
  PROVE  status[r] # "NONE"
BY LoadedFinite DEF TypeInv, TypeOK, OnceInv, Total

LEMMA OnceTask ==
  ASSUME TypeInv, TypeInv', OnceInv, NEW w \in Workers, TaskStep(w) \/ ScanStep(w) \/ TaskDies(w)
  PROVE  OnceInv'
<1>0. TypeOK /\ HoldsRun  BY DEF TypeInv
<1>1. UNCHANGED req
  BY DEF TaskStep, ScanStep, TaskDies, TakeMessage, Claim, StoreJson, StoreMarkdown, Store,
         Finish, Fail, ReadRow, PersistReport, PersistFailure, Refused, ScanRead, ScanCommit
<1>2. \A r \in Runs : Total(r)' <= Total(r)  BY TaskTotal
<1>3. \A r \in Runs : status'[r] = "NONE" <=> status[r] = "NONE"
  <2>1. ASSUME NEW seen, NEW new \in Statuses, Flush(task[w].run, seen, new), task[w].pc \in TaskPcs
        PROVE  \A r \in Runs : status'[r] = "NONE" <=> status[r] = "NONE"
    <3>1. task[w].run \in Runs /\ status[task[w].run] # "NONE"
      BY <1>0, <2>1 DEF HoldsRun, OnceInv
    <3>2. QED  BY <1>0, <2>1, <3>1, FlushType, StatusNames DEF TypeOK
  <2>2. CASE Claim(w) \/ PersistReport(w) \/ PersistFailure(w)
    BY <2>1, <2>2, StatusNames DEF Claim, PersistReport, PersistFailure, TaskPcs
  <2>3. CASE ScanCommit(w)
    BY <2>3 DEF ScanCommit, OnceInv
  <2>4. ASSUME UNCHANGED rowVars
        PROVE  \A r \in Runs : status'[r] = "NONE" <=> status[r] = "NONE"
    BY <2>4 DEF rowVars
  <2>5. QED
    BY <2>2, <2>3, <2>4 DEF TaskStep, ScanStep, TaskDies, TakeMessage, StoreJson, StoreMarkdown,
         Store, Finish, Fail, ReadRow, Refused, ScanRead
<1>4. \A v \in Workers : task'[v].pc \in TaskPcs => status[task'[v].run] # "NONE"
  <2>1. \A v \in Workers \ {w} : task'[v] = task[v]
    BY <1>0 DEF TypeOK, TaskStep, ScanStep, TaskDies, TakeMessage, Claim, StoreJson, StoreMarkdown,
         Store, Finish, Fail, ReadRow, PersistReport, PersistFailure, Refused, ScanRead, ScanCommit
  <2>2. task'[w].pc \in TaskPcs => status[task'[w].run] # "NONE"
    <3>1. ASSUME NEW r \in Runs, TakeMessage(w, r)
          PROVE  task'[w].pc \in TaskPcs => status[task'[w].run] # "NONE"
      BY <1>0, <3>1, CountedExists DEF TakeMessage, TypeOK, OnceInv
    <3>2. CASE Claim(w) \/ StoreJson(w) \/ StoreMarkdown(w) \/ Finish(w) \/ Fail(w)
      <4>1. task[w].pc \in TaskPcs /\ task'[w].run = task[w].run
        BY <1>0, <3>2 DEF Claim, StoreJson, StoreMarkdown, Store, Finish, Fail, ReadRow,
                         TaskPcs, TypeOK, Tasks
      <4>2. QED  BY <4>1 DEF OnceInv
    <3>3. CASE PersistReport(w) \/ PersistFailure(w) \/ Refused(w) \/ ScanCommit(w) \/ TaskDies(w)
      BY <1>0, <3>3, IdleTyped
         DEF PersistReport, PersistFailure, Refused, ScanCommit, TaskDies, TypeOK, TaskPcs
    <3>4. CASE ScanRead(w)
      BY <1>0, <3>4 DEF ScanRead, TypeOK, TaskPcs, Tasks
    <3>5. QED  BY <3>1, <3>2, <3>3, <3>4 DEF TaskStep, ScanStep
  <2>3. QED  BY <2>1, <2>2 DEF OnceInv
<1>5. \A v \in Workers : \A r \in batch'[v] : status[r] # "NONE"
  <2>1. CASE ScanRead(w)
    BY <1>0, <2>1 DEF ScanRead, Stale, Scanned, OnceInv, TypeOK
  <2>2. CASE ScanCommit(w) \/ TaskDies(w)
    BY <1>0, <2>2 DEF ScanCommit, TaskDies, OnceInv, TypeOK
  <2>3. CASE TaskStep(w)
    <3>1. UNCHANGED batch
      BY <2>3 DEF TaskStep, TakeMessage, Claim, StoreJson, StoreMarkdown, Store,
         Finish, Fail, ReadRow, PersistReport, PersistFailure, Refused
    <3>2. QED  BY <3>1 DEF OnceInv
  <2>4. QED  BY <2>1, <2>2, <2>3 DEF ScanStep
<1>6. QED  BY <1>1, <1>2, <1>3, <1>4, <1>5, OnceFrame

\* A request whose run is in the table and keeps its claim on it, or ends.
LEMMA RequestGoesOn ==
  ASSUME TypeInv, OnceInv, NEW c \in Clients, req[c].pc # "idle", UNCHANGED <<task, batch>>,
         \A r \in Runs : Total(r)' = Total(r),
         \A r \in Runs : status'[r] = status[r] \/ (r = req[c].run /\ status'[r] # "NONE"),
         \A d \in Clients \ {c} : req'[d] = req[d],
         \/ req'[c].pc = "idle"
         \/ /\ req'[c].run = req[c].run /\ status'[req[c].run] # "NONE"
            /\ req'[c].pc \in {"created", "queued", "undone", "published"}
            /\ req'[c].pc \in {"created", "queued"} => Total(req[c].run) = 0
  PROVE  OnceInv'
<1>1. \A d \in Clients : req[d].pc # "idle" => req[d].run \in Runs  BY DEF TypeInv, HoldsRun
<1>2. \A d \in Clients \ {c} : req[d].pc # "idle" => req[d].run # req[c].run  BY DEF OnceInv
<1>3. \A w \in Workers : task[w].pc \in TaskPcs => task[w].run \in Runs  BY DEF TypeInv, HoldsRun
<1>4. \A w \in Workers : \A r \in batch[w] : r \in Runs  BY DEF TypeInv, TypeOK
<1>5. /\ \A d \in Clients : req'[d].pc = "inserting" => status'[req'[d].run] = "NONE"
      /\ \A d \in Clients : req'[d].pc \in {"created", "queued", "undone", "published"}
                              => status'[req'[d].run] # "NONE"
  BY <1>1, <1>2 DEF OnceInv
<1>6. \A d, e \in Clients : d # e /\ req'[d].pc # "idle" /\ req'[e].pc # "idle"
                              => req'[d].run # req'[e].run
  BY <1>2 DEF OnceInv
<1>7. \A d \in Clients, r \in Runs :
        req'[d].pc \in {"created", "queued"} /\ req'[d].run = r => Total(r) = 0
  BY <1>1 DEF OnceInv
<1>8. \A d \in Clients, r \in Runs :
        req'[d].pc \in {"created", "queued"} /\ req'[d].run = r => Total(r)' = 0
  BY <1>7
<1>9. QED  BY <1>1, <1>3, <1>4, <1>5, <1>6, <1>8 DEF OnceInv

LEMMA OnceRequest ==
  ASSUME TypeInv, TypeInv', OnceInv, NEW c \in Clients, RequestStep(c)
  PROVE  OnceInv'
<1>0. TypeOK /\ HoldsRun  BY DEF TypeInv
<1>1. ASSUME NEW q \in Runs, Insert(c, q) PROVE OnceInv'
  <2>1. /\ UNCHANGED <<status, queue, begun, task, batch>> /\ req[c].pc = "idle"
        /\ req' = [req EXCEPT ![c] = [pc |-> "inserting", run |-> q]]
        /\ status[q] = "NONE" /\ ~Inserting(q)
    BY <1>1 DEF Insert, rowVars, IdleReq
  <2>2. \A d \in Clients : req[d].pc # "idle" => req[d].run # q
    <3> SUFFICES ASSUME NEW d \in Clients, req[d].pc # "idle", req[d].run = q PROVE FALSE
      OBVIOUS
    <3>1. req[d].pc = "inserting"  BY <1>0, <2>1 DEF OnceInv, TypeOK, Reqs
    <3>2. req[d] = [pc |-> "inserting", run |-> q]  BY <1>0, <3>1 DEF TypeOK, Reqs
    <3>3. QED  BY <2>1, <3>2 DEF Inserting
  <2>3. \A r \in Runs : Total(r)' = Total(r)  BY <2>1 DEF Total, Loaded
  <2>4. \A d \in Clients : req'[d] = IF d = c THEN [pc |-> "inserting", run |-> q] ELSE req[d]
    BY <1>0, <2>1 DEF TypeOK
  <2>5. \A d \in Clients : req[d].pc # "idle" => req[d].run \in Runs  BY <1>0 DEF HoldsRun
  <2>6. QED  BY <2>1, <2>2, <2>3, <2>4, <2>5 DEF OnceInv
<1>2. CASE CommitInsert(c) \/ CommitQueued(c) \/ CommitDispatchFailed(c) \/ RecordTaskId(c) \/ RequestDies(c)
  <2> PICK q \in Runs : q = req[c].run
    BY <1>0, <1>2 DEF CommitInsert, CommitQueued, CommitDispatchFailed, RecordTaskId, RequestDies, HoldsRun
  <2>1. UNCHANGED <<queue, begun, task, batch>> /\ req[c].pc # "idle"
    BY <1>2 DEF CommitInsert, CommitQueued, CommitDispatchFailed, RecordTaskId, RequestDies
  <2>2. \A r \in Runs : Total(r)' = Total(r)  BY <2>1 DEF Total, Loaded
  <2>3. \A d \in Clients \ {c} : req'[d] = req[d]
    BY <1>0, <1>2 DEF CommitInsert, CommitQueued, CommitDispatchFailed, RecordTaskId, RequestDies, TypeOK
  <2>4. CASE CommitInsert(c)
    <3>1. /\ status' = [status EXCEPT ![q] = "PENDING"]
          /\ req'[c].pc = "created" /\ req'[c].run = q
      BY <1>0, <2>4 DEF CommitInsert, TypeOK, Reqs
    <3>2. Total(q) = 0  BY <2>4 DEF CommitInsert, OnceInv
    <3>3. /\ status'[q] # "NONE"
          /\ \A r \in Runs : status'[r] = status[r] \/ (r = q /\ status'[r] # "NONE")
      BY <1>0, <3>1 DEF TypeOK
    <3>4. QED  BY <2>1, <2>2, <2>3, <3>1, <3>2, <3>3, RequestGoesOn
  <2>5. CASE CommitQueued(c)
    <3>1. /\ status' = [status EXCEPT ![q] = "QUEUED"]
          /\ req'[c].pc = "queued" /\ req'[c].run = q
      BY <1>0, <2>5 DEF CommitQueued, Flush, TypeOK, Reqs
    <3>2. Total(q) = 0  BY <2>5 DEF CommitQueued, OnceInv
    <3>3. /\ status'[q] # "NONE"
          /\ \A r \in Runs : status'[r] = status[r] \/ (r = q /\ status'[r] # "NONE")
      BY <1>0, <3>1 DEF TypeOK
    <3>4. QED  BY <2>1, <2>2, <2>3, <3>1, <3>2, <3>3, RequestGoesOn
  <2>6. CASE CommitDispatchFailed(c)
    <3>1. status' = [status EXCEPT ![q] = "DISPATCH_FAILED"]
      BY <2>6 DEF CommitDispatchFailed, Flush
    <3>2. req'[c].pc = "idle"  BY <1>0, <2>6 DEF CommitDispatchFailed, IdleReq, TypeOK
    <3>3. \A r \in Runs : status'[r] = status[r] \/ (r = q /\ status'[r] # "NONE")
      BY <1>0, <3>1 DEF TypeOK
    <3>4. QED  BY <2>1, <2>2, <2>3, <3>2, <3>3, RequestGoesOn
  <2>7. CASE RecordTaskId(c) \/ RequestDies(c)
    <3>1. status' = status  BY <2>7 DEF RecordTaskId, RequestDies, rowVars
    <3>2. req'[c].pc = "idle"  BY <1>0, <2>7 DEF RecordTaskId, RequestDies, IdleReq, TypeOK
    <3>3. QED  BY <2>1, <2>2, <2>3, <3>1, <3>2, RequestGoesOn
  <2>8. QED  BY <1>2, <2>4, <2>5, <2>6, <2>7
<1>3. CASE Publish(c) \/ PublishRaises(c)
  <2> PICK q \in Runs : q = req[c].run  BY <1>0, <1>3 DEF Publish, PublishRaises, HoldsRun
  <2>1. UNCHANGED <<status, begun, task, batch>> /\ req[c].pc = "queued"
    BY <1>3 DEF Publish, PublishRaises, rowVars
  <2>2. PICK n \in 0 .. MaxCopies : queue' = [queue EXCEPT ![q] = @ + n]
    BY <1>3, EvaluationAssumption DEF Publish, PublishRaises
  <2>3. PICK p \in {"published", "undone"} : req' = [req EXCEPT ![c].pc = p]
    BY <1>3 DEF Publish, PublishRaises
  <2>4. /\ Total(q) = 0 /\ status[q] # "NONE"
        /\ \A d \in Clients \ {c} : req[d].pc # "idle" => req[d].run # q
    BY <2>1 DEF OnceInv
  <2>5. Total(q)' <= MaxCopies /\ \A r \in Runs \ {q} : Total(r)' = Total(r)
    <3>1. \A r \in Runs : Loaded(r)' = Loaded(r)  BY <2>1 DEF Loaded
    <3>2. queue'[q] = queue[q] + n /\ \A r \in Runs \ {q} : queue'[r] = queue[r]
      BY <1>0, <2>2 DEF TypeOK
    <3>3. queue[q] + begun[q] + Cardinality(Loaded(q)) = 0  BY <2>4 DEF Total
    <3>4. Total(q)' = queue[q] + n + begun[q] + Cardinality(Loaded(q))
      BY <2>1, <3>1, <3>2 DEF Total
    <3>5. Total(q)' = n
      <4>1. queue[q] \in Nat /\ begun[q] \in Nat /\ Cardinality(Loaded(q)) \in Nat
        BY <1>0, LoadedFinite DEF TypeOK
      <4>2. QED  BY <3>3, <3>4, <4>1
    <3>6. \A r \in Runs \ {q} : Total(r)' = Total(r)  BY <2>1, <3>1, <3>2 DEF Total
    <3>7. QED  BY <3>5, <3>6, EvaluationAssumption
  <2>6. /\ \A d \in Clients \ {c} : req'[d] = req[d]
        /\ req'[c].pc = p /\ req'[c].run = q
    BY <1>0, <2>3 DEF TypeOK, Reqs
  <2>7. \A d \in Clients : req[d].pc # "idle" => req[d].run \in Runs  BY <1>0 DEF HoldsRun
  <2>8. /\ \A d \in Clients, r \in Runs :
             req'[d].pc \in {"created", "queued"} /\ req'[d].run = r => Total(r)' = 0
        /\ \A r \in Runs : Total(r)' <= MaxCopies /\ (status'[r] = "NONE" => Total(r)' = 0)
    BY <2>1, <2>4, <2>5, <2>6, <2>7 DEF OnceInv
  <2>9. QED  BY <2>1, <2>4, <2>6, <2>8 DEF OnceInv
<1>4. QED  BY <1>1, <1>2, <1>3 DEF RequestStep

LEMMA OnceStep ==
  ASSUME TypeInv, TypeInv', OnceInv, [Next]_vars
  PROVE  OnceInv'
<1>1. CASE \E r \in Runs : BecomesIdle(r)
  BY <1>1 DEF BecomesIdle, OnceInv, Total, Loaded
<1>2. CASE UNCHANGED vars
  BY <1>2 DEF vars, rowVars, OnceInv, Total, Loaded
<1>3. QED  BY <1>1, <1>2, OnceRequest, OnceTask DEF Next

\* However many requests race for a key and whichever of them die, the run is
\* executed at most as often as one publish left messages.
THEOREM OnceDispatched == Spec => []DispatchedOnce
<1>1. TypeInv /\ OnceInv => DispatchedOnce
  <2> SUFFICES ASSUME TypeInv, OnceInv, NEW r \in Runs PROVE queue[r] + begun[r] <= MaxCopies
    BY DEF DispatchedOnce
  <2>1. queue[r] \in Nat /\ begun[r] \in Nat  BY DEF TypeInv, TypeOK
  <2>2. QED  BY <2>1, LoadedFinite, EvaluationAssumption DEF OnceInv, Total
<1>2. QED  BY <1>1, InitType, StepType, OnceInit, OnceStep, PTL DEF Spec

-----------------------------------------------------------------------------
(* One worker.  The run of a task under way has no report yet, so nothing  *)
(* rewrites objects that are recorded, and neither the task nor the scan   *)
(* moves a run that has its report.                                        *)

OneWorker == \A v, w \in Workers : v = w

Running == {"executing", "half", "stored", "succeeding", "failing"}

SoloInv ==
  /\ \A w \in Workers : task[w].pc \in TaskPcs => records[task[w].run] = {}
  /\ \A w \in Workers : task[w].pc \in Running => begun[task[w].run] > 0
  /\ \A w \in Workers : task[w].pc # "scanning" => batch[w] = {}
  /\ \A w \in Workers : \A r \in batch[w] : records[r] = {}
  /\ \A w \in Workers : task[w].pc \in {"succeeding", "failing"} => task[w].seen # "SUCCEEDED"
  /\ \A w \in Workers : task[w].pc \in {"half", "stored", "succeeding"}
                          => objects[task[w].run]["json"] = task[w].made
  /\ \A w \in Workers : task[w].pc \in {"stored", "succeeding"}
                          => objects[task[w].run]["markdown"] = task[w].made
  /\ \A r \in Runs : records[r] # {} => begun[r] > 0
  /\ SucceededHasReport
  /\ ReportDownloads

LEMMA SoloInit == Init => SoloInv
<1> SUFFICES ASSUME Init PROVE SoloInv
  OBVIOUS
<1>1. \A w \in Workers : task[w].pc = "idle" /\ batch[w] = {}  BY IdleTyped DEF Init
<1>2. \A r \in Runs : records[r] = {} /\ status[r] = "NONE"  BY DEF Init
<1>3. QED  BY <1>1, <1>2 DEF SoloInv, TaskPcs, Running, SucceededHasReport, ReportDownloads

LEMMA NoReportYet ==
  ASSUME TypeInv, SoloInv, NEW r \in Runs, Total(r) = 0
  PROVE  records[r] = {}
<1>1. queue[r] \in Nat /\ begun[r] \in Nat  BY DEF TypeInv, TypeOK
<1>2. begun[r] = 0  BY <1>1, LoadedFinite DEF Total
<1>3. QED  BY <1>2 DEF SoloInv

LEMMA SoloRequest ==
  ASSUME TypeInv, OnceInv, SoloInv, NEW c \in Clients, RequestStep(c)
  PROVE  SoloInv'
<1>0. TypeOK /\ HoldsRun  BY DEF TypeInv
<1>1. UNCHANGED <<records, objects, begun, task, batch>>
  BY DEF RequestStep, Insert, CommitInsert, CommitQueued, Publish, RecordTaskId, PublishRaises,
         CommitDispatchFailed, RequestDies, rowVars
<1>2. \A r \in Runs : \/ status'[r] = status[r]
                      \/ status'[r] = "DISPATCH_FAILED"
                      \/ records[r] = {} /\ status'[r] \in {"PENDING", "QUEUED"}
  <2>1. CASE CommitInsert(c) \/ CommitQueued(c)
    <3> PICK q \in Runs : q = req[c].run  BY <1>0, <2>1 DEF CommitInsert, CommitQueued, HoldsRun
    <3>1. Total(q) = 0  BY <2>1 DEF CommitInsert, CommitQueued, OnceInv
    <3>2. records[q] = {}  BY <3>1, NoReportYet
    <3>3. PICK s \in {"PENDING", "QUEUED"} : status' = [status EXCEPT ![q] = s]
      BY <2>1 DEF CommitInsert, CommitQueued, Flush
    <3>4. QED  BY <1>0, <3>2, <3>3 DEF TypeOK
  <2>2. CASE CommitDispatchFailed(c)
    BY <1>0, <2>2 DEF CommitDispatchFailed, Flush, TypeOK
  <2>3. ASSUME UNCHANGED rowVars \/ UNCHANGED status
        PROVE  \A r \in Runs : status'[r] = status[r]
    BY <2>3 DEF rowVars
  <2>4. QED
    BY <2>1, <2>2, <2>3 DEF RequestStep, Insert, Publish, RecordTaskId, PublishRaises, RequestDies
<1>3. SucceededHasReport' /\ ReportDownloads'
  BY <1>1, <1>2 DEF SoloInv, SucceededHasReport, ReportDownloads
<1>4. QED  BY <1>1, <1>3 DEF SoloInv

\* What the only worker leaves behind when it is idle again.
LEMMA SoloIdle ==
  ASSUME TypeInv, NEW w \in Workers, Workers = {w}, task' = [task EXCEPT ![w] = IdleTask],
         batch'[w] = {}, \A r \in Runs : records'[r] # {} => begun'[r] > 0,
         SucceededHasReport', ReportDownloads'
  PROVE  SoloInv'
<1>1. task'[w].pc = "idle"  BY IdleTyped DEF TypeInv, TypeOK
<1>2. QED  BY <1>1 DEF SoloInv, TaskPcs, Running

\* A status the task or the scan writes over a run without a report.
LEMMA SoloStatus ==
  ASSUME TypeInv, SoloInv, NEW q, UNCHANGED <<records, objects>>, records[q] = {},
         \A r \in Runs : status'[r] = status[r] \/ (r = q /\ status'[r] # "SUCCEEDED")
  PROVE  SucceededHasReport' /\ ReportDownloads'
BY DEF SoloInv, SucceededHasReport, ReportDownloads

LEMMA SoloTask ==
  ASSUME OneWorker, TypeInv, SoloInv, NEW w \in Workers, TaskStep(w)
  PROVE  SoloInv'
<1>0. TypeOK /\ HoldsRun /\ Workers = {w}  BY DEF TypeInv, OneWorker
<1>1. ASSUME NEW r \in Runs, TakeMessage(w, r) PROVE SoloInv'
  <2>1. UNCHANGED <<status, records, objects, begun, batch>> /\ task[w].pc = "idle"
    BY <1>1 DEF TakeMessage, rowVars, IdleTask
  <2>2. CASE task' = task
    BY <2>1, <2>2 DEF SoloInv, SucceededHasReport, ReportDownloads
  <2>3. CASE task' # task
    <3>1. task'[w].pc = "loaded" /\ task'[w].run = r /\ CanTransition(status[r], "RUNNING")
      BY <1>0, <1>1, <2>3 DEF TakeMessage, TypeOK
    <3>2. status[r] # "NONE"  BY <3>1 DEF CanTransition, Allowed
    <3>3. records[r] = {}
      BY <1>0, <3>1, <3>2, TableFacts, StatusNames DEF SoloInv, SucceededHasReport, TypeOK
    <3>4. QED
      BY <1>0, <2>1, <3>1, <3>3 DEF SoloInv, SucceededHasReport, ReportDownloads, Running
  <2>4. QED  BY <2>2, <2>3
<1>2. CASE Claim(w)
  <2> PICK q \in Runs : q = task[w].run  BY <1>0, <1>2 DEF Claim, HoldsRun, TaskPcs
  <2>1. /\ UNCHANGED <<records, objects, batch>> /\ Flush(q, task[w].seen, "RUNNING")
        /\ task[w].pc = "loaded" /\ begun' = [begun EXCEPT ![q] = @ + 1]
    BY <1>2 DEF Claim
  <2>2. task'[w].pc = "executing" /\ task'[w].run = q
    BY <1>0, <1>2 DEF Claim, TypeOK, Tasks
  <2>3. records[q] = {}  BY <2>1 DEF SoloInv, TaskPcs
  <2>4. \A r \in Runs : status'[r] = status[r] \/ (r = q /\ status'[r] # "SUCCEEDED")
    BY <1>0, <2>1, FlushType, StatusNames DEF TypeOK
  <2>5. SucceededHasReport' /\ ReportDownloads'  BY <2>1, <2>3, <2>4, SoloStatus
  <2>6. begun'[q] > 0 /\ \A r \in Runs \ {q} : begun'[r] = begun[r]
    BY <1>0, <2>1 DEF TypeOK
  <2>7. \A r \in Runs : records[r] # {} => begun'[r] > 0
    BY <2>3, <2>6 DEF SoloInv
  <2>8. QED  BY <1>0, <2>1, <2>2, <2>3, <2>5, <2>6, <2>7 DEF SoloInv, Running
<1>3. CASE StoreJson(w) \/ StoreMarkdown(w)
  <2> PICK q \in Runs : q = task[w].run
    BY <1>0, <1>3 DEF StoreJson, StoreMarkdown, HoldsRun, TaskPcs
  <2>1. /\ UNCHANGED <<status, records, begun, batch>>
        /\ task[w].pc \in TaskPcs \cap Running /\ task[w].pc # "scanning"
    BY <1>3 DEF StoreJson, StoreMarkdown, Store, rowVars, TaskPcs, Running
  <2>2. /\ records[q] = {} /\ begun[q] > 0 /\ batch[w] = {}
        /\ task'[w].run = q /\ task'[w].made = task[w].made
    BY <1>0, <1>3, <2>1 DEF StoreJson, StoreMarkdown, Store, SoloInv, TypeOK, Tasks
  <2>3. \A r \in Runs, f \in Formats : r # q => objects'[r][f] = objects[r][f]
    BY <1>0, <1>3 DEF StoreJson, StoreMarkdown, Store, TypeOK
  <2>4. SucceededHasReport' /\ ReportDownloads'
    BY <2>1, <2>2, <2>3 DEF SoloInv, SucceededHasReport, ReportDownloads
  <2>5. /\ task'[w].pc \in {"half", "stored"}
        /\ objects'[q]["json"] = task[w].made
        /\ task'[w].pc = "stored" => objects'[q]["markdown"] = task[w].made
    BY <1>0, <1>3 DEF StoreJson, StoreMarkdown, Store, SoloInv, TypeOK, Tasks, Formats
  <2>6. QED  BY <1>0, <2>1, <2>2, <2>4, <2>5 DEF SoloInv
<1>4. CASE Finish(w) \/ Fail(w)
  <2> PICK q \in Runs : q = task[w].run  BY <1>0, <1>4 DEF Finish, Fail, HoldsRun, TaskPcs
  <2>1. /\ UNCHANGED <<status, records, objects, begun, batch>>
        /\ task[w].pc \in TaskPcs \cap Running /\ task[w].pc # "scanning"
    BY <1>4 DEF Finish, Fail, ReadRow, rowVars, TaskPcs, Running
  <2>2. /\ task'[w].pc \in {"succeeding", "failing"} /\ task'[w].run = q
        /\ task'[w].made = task[w].made /\ task'[w].seen = status[q]
        /\ task'[w].pc = "succeeding" => task[w].pc = "stored"
    BY <1>0, <1>4 DEF Finish, Fail, ReadRow, TypeOK, Tasks
  <2>3. records[q] = {} /\ begun[q] > 0 /\ batch[w] = {} /\ status[q] # "SUCCEEDED"
    BY <2>1 DEF SoloInv, SucceededHasReport
  <2>4. QED  BY <1>0, <2>1, <2>2, <2>3 DEF SoloInv, SucceededHasReport, ReportDownloads
<1>5. CASE PersistReport(w)
  <2> PICK q \in Runs : q = task[w].run  BY <1>0, <1>5 DEF PersistReport, HoldsRun, TaskPcs
  <2>1. /\ task[w].pc = "succeeding" /\ CanTransition(task[w].seen, "SUCCEEDED")
        /\ Flush(q, task[w].seen, "SUCCEEDED") /\ UNCHANGED <<objects, begun, batch>>
        /\ records' = [records EXCEPT ![q] = @ \cup {task[w].made}]
        /\ task' = [task EXCEPT ![w] = IdleTask]
    BY <1>5 DEF PersistReport
  <2>2. /\ records[q] = {} /\ begun[q] > 0 /\ batch[w] = {} /\ task[w].seen # "SUCCEEDED"
        /\ objects[q]["json"] = task[w].made /\ objects[q]["markdown"] = task[w].made
    BY <2>1 DEF SoloInv, TaskPcs, Running
  <2>3. status'[q] = "SUCCEEDED" /\ \A r \in Runs \ {q} : status'[r] = status[r]
    BY <1>0, <2>1, <2>2 DEF Flush, TypeOK
  <2>4. records'[q] = {task[w].made} /\ \A r \in Runs \ {q} : records'[r] = records[r]
    BY <1>0, <2>1, <2>2 DEF TypeOK
  <2>5. SucceededHasReport'  BY <2>3, <2>4 DEF SoloInv, SucceededHasReport
  <2>6. ReportDownloads'
    BY <2>1, <2>2, <2>4 DEF SoloInv, ReportDownloads, Formats
  <2>7. \A r \in Runs : records'[r] # {} => begun'[r] > 0
    BY <2>1, <2>2, <2>4 DEF SoloInv
  <2>8. QED  BY <1>0, <2>1, <2>2, <2>5, <2>6, <2>7, SoloIdle
<1>6. CASE PersistFailure(w) \/ Refused(w)
  <2> PICK q \in Runs : q = task[w].run
    BY <1>0, <1>6 DEF PersistFailure, Refused, HoldsRun, TaskPcs
  <2>1. /\ UNCHANGED <<records, objects, begun, batch>>
        /\ task' = [task EXCEPT ![w] = IdleTask] /\ task[w].pc \in {"succeeding", "failing"}
    BY <1>6 DEF PersistFailure, Refused, rowVars
  <2>2. records[q] = {} /\ batch[w] = {}  BY <2>1 DEF SoloInv, TaskPcs
  <2>3. \A r \in Runs : status'[r] = status[r] \/ (r = q /\ status'[r] # "SUCCEEDED")
    <3>1. CASE PersistFailure(w)
      BY <1>0, <3>1, FlushType, StatusNames DEF PersistFailure, TypeOK
    <3>2. CASE Refused(w)  BY <3>2 DEF Refused, rowVars
    <3>3. QED  BY <1>6, <3>1, <3>2
  <2>4. SucceededHasReport' /\ ReportDownloads'  BY <2>1, <2>2, <2>3, SoloStatus
  <2>5. \A r \in Runs : records'[r] # {} => begun'[r] > 0  BY <2>1 DEF SoloInv
  <2>6. QED  BY <1>0, <2>1, <2>2, <2>4, <2>5, SoloIdle
<1>7. QED  BY <1>1, <1>2, <1>3, <1>4, <1>5, <1>6 DEF TaskStep

LEMMA SoloOther ==
  ASSUME OneWorker, TypeInv, SoloInv,
         \/ \E w \in Workers : ScanStep(w) \/ TaskDies(w)
         \/ \E r \in Runs : BecomesIdle(r)
         \/ UNCHANGED vars
  PROVE  SoloInv'
<1>0. TypeOK  BY DEF TypeInv
<1>1. ASSUME NEW w \in Workers, ScanRead(w) PROVE SoloInv'
  <2>1. Workers = {w} /\ UNCHANGED <<status, records, objects, begun>>
    BY <1>1 DEF OneWorker, ScanRead, rowVars
  <2>2. task'[w].pc = "scanning" /\ batch'[w] = Stale
    BY <1>0, <1>1 DEF ScanRead, TypeOK, Tasks
  <2>3. \A r \in Stale : records[r] = {}
    BY DEF Stale, Scanned, SoloInv, SucceededHasReport
  <2>4. QED
    BY <2>1, <2>2, <2>3 DEF SoloInv, TaskPcs, Running, SucceededHasReport, ReportDownloads
<1>2. ASSUME NEW w \in Workers, ScanCommit(w) PROVE SoloInv'
  <2>1. /\ Workers = {w} /\ UNCHANGED <<records, objects, begun>>
        /\ task' = [task EXCEPT ![w] = IdleTask] /\ batch'[w] = {}
    BY <1>0, <1>2 DEF OneWorker, ScanCommit, TypeOK
  <2>2. \A r \in Runs : status'[r] = status[r] \/ (records[r] = {} /\ status'[r] = "FAILED")
    BY <1>2 DEF ScanCommit, SoloInv
  <2>3. SucceededHasReport' /\ ReportDownloads'
    BY <2>1, <2>2 DEF SoloInv, SucceededHasReport, ReportDownloads
  <2>4. \A r \in Runs : records'[r] # {} => begun'[r] > 0  BY <2>1 DEF SoloInv
  <2>5. QED  BY <2>1, <2>3, <2>4, SoloIdle
<1>3. ASSUME NEW w \in Workers, TaskDies(w) PROVE SoloInv'
  <2>1. /\ Workers = {w} /\ UNCHANGED <<status, records, objects, begun>>
        /\ task' = [task EXCEPT ![w] = IdleTask] /\ batch'[w] = {}
    BY <1>0, <1>3 DEF OneWorker, TaskDies, TypeOK, rowVars
  <2>2. SucceededHasReport' /\ ReportDownloads'
    BY <2>1 DEF SoloInv, SucceededHasReport, ReportDownloads
  <2>3. \A r \in Runs : records'[r] # {} => begun'[r] > 0  BY <2>1 DEF SoloInv
  <2>4. QED  BY <2>1, <2>2, <2>3, SoloIdle
<1>4. CASE UNCHANGED <<status, records, objects, begun, task, batch>>
  BY <1>4 DEF SoloInv, SucceededHasReport, ReportDownloads
<1>5. QED
  BY <1>1, <1>2, <1>3, <1>4 DEF ScanStep, BecomesIdle, vars, rowVars

LEMMA SoloStep ==
  ASSUME OneWorker, TypeInv, OnceInv, SoloInv, [Next]_vars
  PROVE  SoloInv'
BY SoloRequest, SoloTask, SoloOther DEF Next

\* With one worker a report that the row points to can be downloaded, and the
\* status agrees with it, whatever is delivered twice, fails or dies.
THEOREM ReportKept ==
  ASSUME OneWorker PROVE Spec => [](ReportDownloads /\ SucceededHasReport)
<1>1. SoloInv => ReportDownloads /\ SucceededHasReport  BY DEF SoloInv
<1>2. QED
  BY <1>1, OneWorker, InitType, StepType, OnceInit, OnceStep, SoloInit, SoloStep, PTL DEF Spec

\* The status alone: with one worker a run that reads SUCCEEDED has its report,
\* and only a request whose publish raised moves a run that has one.
THEOREM SucceededKept == ASSUME OneWorker PROVE Spec => []SucceededHasReport
BY ReportKept, PTL

=============================================================================
