---------------------------- MODULE EvaluationBatch ----------------------------
(***************************************************************************)
(* The inside of an evaluation, which EvaluationRun takes as one step: for *)
(* each kind of scenario the runner writes a data set, its ground truth    *)
(* and its config changes, has it diagnosed and scores the report.  The    *)
(* files are named by the kind alone, and requests for simulated incidents *)
(* write the same ones; diagnosis runs, which the one worker executes      *)
(* between evaluations, read them.  Every tool call stores its result in   *)
(* the object store.                                                       *)
(*                                                                         *)
(* A data set is known by what it was generated from (seed and size), the  *)
(* bytes of a tool result by its query and the data it read.  What reports *)
(* say is the subject of ScenarioReport, which calls a harness allows that *)
(* of Investigation; here a report has a status.                           *)
(***************************************************************************)
EXTENDS Integers, FiniteSets, SequencesExt

CONSTANTS
  Kinds,        \* scenario kinds
  Data,         \* seeds and sizes
  Evaluations,  \* evaluation runs
  Runs,         \* diagnosis runs of simulated incidents
  Clients,      \* requests for a simulated incident
  Setups,       \* which requests come, which evaluations are asked for, in which modes
                \* and orders, and AGENT_MODE, which diagnosis runs follow
  Pipeline,     \* the queries of the fixed pipeline, in order
  Probes,       \* the further queries of an investigation
  Stores,       \* the jobs that are given an object store
  Worker,       \* the one Celery worker
  Absent,       \* there is no file
  Torn,         \* a file that is being written, or whose writer died
  Listed,       \* config changes: they are the same for all data of a kind
  None

Queries == ToSet(Pipeline) \cup Probes

Modes == {"B0", "B1", "B2"}

ASSUME BatchAssumption ==
  /\ Worker \notin Clients
  /\ Setups \subseteq [clients : SUBSET Clients, modes : SUBSET Modes,
                      orders : SUBSET Seq(STRING), evaluations : SUBSET Evaluations,
                      agent : {"B0", "B2"}]
  /\ Pipeline \in Seq([tool : STRING, filter : STRING]) \ {<<>>}
  /\ Probes \subseteq [tool : STRING, filter : STRING]
  /\ Data \cap {Absent, Torn, Listed} = {} /\ Cardinality({Absent, Torn, Listed}) = 3
  /\ None \notin Evaluations \cup Runs \cup Kinds
  /\ Evaluations \cap Runs = {}

VARIABLES
  setup,     \* which of the setups it is
  disk,      \* per kind the Parquet file, the ground truth and the config changes
  at,        \* per writer: the kind it is at and the file it writes
  crossed,   \* per writer: another has written its kind's files since it began
  incident,  \* the incident rows, by the request that created them
  objects,   \* the object store: bytes by key
  work,      \* the job of the worker
  fell,      \* fallback_used of the policy object of the job
  results,   \* the scenario results of each evaluation
  metrics,   \* the aggregate of a finished evaluation; "lost" when it raised
  records    \* the artifact records of each diagnosis run

fileVars  == <<disk, at, crossed>>
storeVars == <<objects, records>>
vars == <<setup, fileVars, incident, storeVars, work, fell, results, metrics>>

-----------------------------------------------------------------------------
Files == {"events", "truth", "changes"}

Writers == Clients \cup {Worker}

Away == [phase |-> "away", kind |-> None, file |-> "events", data |-> Absent]

\* What the worker knows of the scenario at hand: the queries it has asked, the
\* contents they came from, the artifacts they left, and of its model calls
\* whether one was answered, and whether one failed.
Fresh(j, mode, order, todo, pc) ==
  [job |-> j, mode |-> mode, order |-> order, todo |-> todo, pc |-> pc,
   calls |-> 0, asked |-> {}, reads |-> {}, refs |-> {}, reached |-> FALSE, failed |-> FALSE,
   completed |-> TRUE, model |-> FALSE, fallback |-> FALSE]

Idle == Fresh(None, "B0", <<>>, <<>>, "idle")

Init ==
  /\ setup \in Setups
  /\ disk = [k \in Kinds |-> [f \in Files |-> Absent]]
  /\ at = [a \in Writers |-> Away]
  /\ crossed = [a \in Writers |-> FALSE]
  /\ incident = [c \in Clients |-> None]
  /\ objects = [key \in {} |-> Absent]
  /\ work = Idle /\ fell = FALSE
  /\ results = [e \in Evaluations |-> <<>>]
  /\ metrics = [e \in Evaluations |-> None]
  /\ records = [r \in Runs |-> None]

-----------------------------------------------------------------------------
(* Files.  A write truncates the file and then fills it; two writers of    *)
(* one file may leave a mixture, which is as good as torn.                 *)

There(a) == disk[at[a].kind][at[a].file] \in Data

Overwrite(a, content) == disk' = [disk EXCEPT ![at[a].kind][at[a].file] = content]

Cross(a) ==
  crossed' = [b \in Writers |-> crossed[b] \/ (b # a /\ at[b].kind = at[a].kind)]

\* A fault: the runner keeps the files it finds.
RunnerReuses(a, content) ==
  Cross(a) /\ IF a = Worker /\ There(a) THEN UNCHANGED disk ELSE Overwrite(a, content)

Put(a, content) == Overwrite(a, content) /\ Cross(a)

\* The runner writes the config changes too, the request does not.
After(a, f) ==
  CASE f = "events" -> "truth"
    [] f = "truth" /\ a = Worker -> "changes"
    [] OTHER -> "none"

Truncate(a) ==
  /\ at[a].phase = "open"
  /\ Put(a, Torn)
  /\ at' = [at EXCEPT ![a].phase = "fill"]
  /\ UNCHANGED <<incident, storeVars, work, fell, results, metrics>>

Fill(a) ==
  LET f == at[a].file
      content == IF f = "changes" THEN Listed ELSE at[a].data
  IN
  /\ at[a].phase = "fill"
  /\ \E left \in {content} \cup (IF crossed[a] THEN {Torn} ELSE {}) : Put(a, left)
  /\ at' = [at EXCEPT ![a] = IF After(a, f) = "none" THEN [@ EXCEPT !.phase = "written"]
                             ELSE [@ EXCEPT !.phase = "open", !.file = After(a, f)]]
  /\ UNCHANGED <<incident, storeVars, work, fell, results, metrics>>

\* A writer turns to a kind: nobody has crossed it yet.
Begin(a, phase, k, d) ==
  /\ at' = [at EXCEPT ![a] = [phase |-> phase, kind |-> k, file |-> "events", data |-> d]]
  /\ crossed' = [crossed EXCEPT ![a] = FALSE]

Leave(a) ==
  /\ at' = [at EXCEPT ![a] = Away]
  /\ crossed' = [crossed EXCEPT ![a] = FALSE]

-----------------------------------------------------------------------------
(* A request for a simulated incident.                                     *)

Simulate(c, k, d) ==
  /\ at[c] = Away /\ incident[c] = None
  /\ Begin(c, "open", k, d)
  /\ UNCHANGED <<disk, incident, storeVars, work, fell, results, metrics>>

\* Its baseline and observed value come from the file as it is now.
CreateIncident(c) ==
  LET k == at[c].kind IN
  /\ at[c].phase = "written"
  /\ disk[k]["events"] \in Data
  /\ incident' = [incident EXCEPT ![c] =
       [kind |-> k, data |-> at[c].data, measured |-> disk[k]["events"], crossed |-> crossed[c]]]
  /\ Leave(c)
  /\ UNCHANGED <<disk, storeVars, work, fell, results, metrics>>

\* The process dies, or a write or the funnel query raises: no row.
RequestDies(c) ==
  /\ at[c] # Away
  /\ Leave(c)
  /\ UNCHANGED <<disk, incident, storeVars, work, fell, results, metrics>>

-----------------------------------------------------------------------------
(* The jobs of the worker.                                                 *)

\* A fault: a kind asked for twice is run twice.
AsAsked(order) == order

\* The kinds asked for, each once, in the order of their first mention.
Distinct(order) ==
  FoldLeft(LAMBDA kinds, k : IF k \in ToSet(kinds) THEN kinds ELSE Append(kinds, k), <<>>, order)

\* A fault: one policy object for all jobs.
KeptPolicy == UNCHANGED fell

NewPolicy == fell' = FALSE

\* The list is not empty, and its kinds are supported.
Valid(order) == Distinct(order) \in Seq(Kinds) \ {<<>>}

\* The scenario at hand is the first of todo.
BeginScenario(e, mode, order, todo, d) ==
  /\ work' = Fresh(e, mode, order, todo, "collect")
  /\ Begin(Worker, "open", Head(todo), d)

StartEvaluation(e, mode, order, d) ==
  /\ work = Idle /\ metrics[e] = None /\ results[e] = <<>>
  /\ Valid(order)
  /\ BeginScenario(e, mode, order, Distinct(order), d)
  /\ NewPolicy
  /\ UNCHANGED <<disk, incident, storeVars, results, metrics>>

StartRun(r, c) ==
  /\ work = Idle /\ records[r] = None /\ incident[c] # None
  /\ work' = Fresh(r, setup.agent, <<>>, <<incident[c].kind>>, "collect")
  /\ Begin(Worker, "written", incident[c].kind, incident[c].data)
  /\ NewPolicy
  /\ UNCHANGED <<disk, incident, storeVars, results, metrics>>

Working(pc) == at[Worker].phase = "written" /\ work.pc = pc

\* Each query opens the file anew. Without a file there are no config changes.
Source(q) == disk[at[Worker].kind][IF q.tool = "config_changes" THEN "changes" ELSE "events"]

Readable(q) == Source(q) # Torn /\ (Source(q) = Absent => q.tool = "config_changes")

Answer(q) == [query |-> q, kind |-> at[Worker].kind, from |-> Source(q)]

\* A fault: the key does not hold the number of the call.
KeyOfTool(n, q) == <<0, q.tool>>

Key(n, q) == <<n, q.tool>>

\* A fault: the reference is made, the bytes are not stored.
StoreNothing(q) == objects' = objects

\* A tool answers: its result is stored, and the run remembers the reference.
Asked(w, q) ==
  [w EXCEPT !.calls = @ + 1, !.asked = @ \cup {q}, !.reads = @ \cup {Source(q)},
            !.refs = @ \cup {[key |-> Key(w.calls, q), bytes |-> Answer(q)] : j \in {w.job} \cap Stores}]

Store(q) ==
  LET new == {Key(work.calls, q) : j \in {work.job} \cap Stores} IN
  objects' = [key \in DOMAIN objects \cup new |-> IF key \in new THEN Answer(q) ELSE objects[key]]

\* The fixed pipeline, or the triage that comes before an investigation.
Collect ==
  LET q == Pipeline[work.calls + 1]
      last == work.calls + 1 = Len(Pipeline)
  IN
  /\ Working("collect") /\ Readable(q)
  /\ Store(q)
  /\ work' = [Asked(work, q) EXCEPT !.pc = IF work.mode = "B2" THEN "turn"
                                           ELSE IF last THEN "report" ELSE "collect"]
  /\ UNCHANGED <<fileVars, incident, records, fell, results, metrics>>

\* The policy asks the model; when that fails, the script decides, and the object
\* says so from then on.
Decide(w, answered) ==
  [w EXCEPT !.reached = @ \/ answered, !.failed = @ \/ ~answered]

Noted(answered) == fell' = (fell \/ ~answered)

\* A turn of the investigation ends in a call, after which it may stop.
Turn(answered, q, next) ==
  /\ Working("turn") /\ q \notin work.asked /\ Readable(q)
  /\ Noted(answered)
  /\ Store(q)
  /\ work' = [Asked(Decide(work, answered), q) EXCEPT !.pc = next]
  /\ UNCHANGED <<fileVars, incident, records, results, metrics>>

\* Or the policy finishes, or the hooks refuse its call and it may try another.
Conclude(answered) ==
  /\ Working("turn")
  /\ Noted(answered)
  /\ \E next \in {"turn", "report"} : work' = [Decide(work, answered) EXCEPT !.pc = next]
  /\ UNCHANGED <<fileVars, incident, storeVars, results, metrics>>

-----------------------------------------------------------------------------
(* The report, and what becomes of it.                                     *)

\* Either the writer or the investigator had no model: the first in B1, whose
\* adapter starts afresh with every report, the second in B2.
FellBack(answered) ==
  CASE work.mode = "B1" -> ~answered
    [] work.mode = "B2" -> fell
    [] OTHER -> FALSE

\* A fault: the result does not name the policy.
NamesAdapter(answered) == work.mode = "B1" /\ answered

\* The result names the report adapter that answered, and the policy in any case.
NamesModel(answered) == work.mode = "B2" \/ (work.mode = "B1" /\ answered)

\* One answer of the report model, of which only B1 has one.
Report(answered) ==
  /\ Working("report")
  /\ work.mode # "B1" => answered
  /\ work' = [(IF work.mode = "B1" THEN Decide(work, answered) ELSE work) EXCEPT
                !.pc = "reported",
                !.model = NamesModel(answered), !.fallback = FellBack(answered)]
  /\ UNCHANGED <<fileVars, incident, storeVars, fell, results, metrics>>

\* The validator finds a fault that another attempt may correct.
Correct(answered) ==
  /\ Working("report") /\ work.mode = "B1"
  /\ work' = Decide(work, answered)
  /\ UNCHANGED <<fileVars, incident, storeVars, fell, results, metrics>>

\* A file is torn or missing, the store or a tool raises, or the report is blocked:
\* a bad scenario, or a run that ends without a result.
Raise ==
  /\ Working("collect") \/ Working("turn") \/ Working("report")
  /\ IF work.job \in Runs
     THEN work' = Idle /\ Leave(Worker)
     ELSE /\ work' = [work EXCEPT !.pc = "reported", !.completed = FALSE,
                                   !.asked = {}, !.reads = {}, !.refs = {}]
          /\ UNCHANGED <<at, crossed>>
  /\ UNCHANGED <<disk, incident, storeVars, fell, results, metrics>>

PersistRun ==
  /\ Working("reported") /\ work.job \in Runs
  /\ records' = [records EXCEPT ![work.job] = work.refs]
  /\ work' = Idle /\ Leave(Worker)
  /\ UNCHANGED <<disk, incident, objects, fell, results, metrics>>

Result ==
  [kind |-> Head(work.todo), data |-> at[Worker].data, truth |-> disk[at[Worker].kind]["truth"],
   reads |-> work.reads, completed |-> work.completed, model |-> work.model,
   fallback |-> work.fallback, reached |-> work.reached, failed |-> work.failed,
   crossed |-> crossed[Worker]]

\* The ground truth is read only now.
Score ==
  LET e == work.job IN
  /\ Working("reported") /\ e \in Evaluations
  /\ disk[at[Worker].kind]["truth"] \in Data
  /\ results' = [results EXCEPT ![e] = Append(@, Result)]
  /\ IF Len(work.todo) > 1
     THEN BeginScenario(e, work.mode, work.order, Tail(work.todo), at[Worker].data)
     ELSE work' = Fresh(e, work.mode, work.order, <<>>, "aggregate") /\ Leave(Worker)
  /\ UNCHANGED <<disk, incident, storeVars, fell, metrics>>

\* It cannot be read, and nothing catches that: the evaluation fails as a whole.
TruthUnreadable ==
  /\ Working("reported") /\ work.job \in Evaluations
  /\ disk[at[Worker].kind]["truth"] \notin Data
  /\ metrics' = [metrics EXCEPT ![work.job] = [outcome |-> "lost", crossed |-> crossed[Worker]]]
  /\ results' = [results EXCEPT ![work.job] = <<>>]
  /\ work' = Idle /\ Leave(Worker)
  /\ UNCHANGED <<disk, incident, storeVars, fell>>

HowMany(s, Test(_)) == Cardinality({i \in DOMAIN s : Test(s[i])})

Invoked(r) == r.model /\ ~r.fallback

Aggregate ==
  LET e == work.job
      s == results[e]
  IN
  /\ work.pc = "aggregate"
  /\ metrics' = [metrics EXCEPT ![e] =
       [outcome |-> "report", mode |-> work.mode, asked |-> work.order,
        succeeded |-> HowMany(s, LAMBDA r : r.completed),
        invocations |-> HowMany(s, Invoked), fallbacks |-> HowMany(s, LAMBDA r : r.fallback)]]
  /\ work' = Idle
  /\ UNCHANGED <<fileVars, incident, storeVars, fell, results>>

\* A time limit, a crash, or a write that raises: the files stay as they are, the results are gone.
WorkerDies ==
  /\ work # Idle
  /\ metrics' = [e \in Evaluations |->
                   IF e = work.job THEN [outcome |-> "died"] ELSE metrics[e]]
  /\ results' = [e \in Evaluations |-> IF e = work.job THEN <<>> ELSE results[e]]
  /\ work' = Idle /\ Leave(Worker)
  /\ UNCHANGED <<disk, incident, storeVars, fell>>

-----------------------------------------------------------------------------
ClientStep(c) ==
  \/ \E k \in Kinds, d \in Data : Simulate(c, k, d)
  \/ Truncate(c) \/ Fill(c) \/ CreateIncident(c) \/ RequestDies(c)

Diagnose ==
  \/ Collect
  \/ \E answered \in BOOLEAN :
       \/ \E q \in Probes, next \in {"turn", "report"} : Turn(answered, q, next)
       \/ Conclude(answered) \/ Correct(answered) \/ Report(answered)
  \/ Raise

WorkerStep ==
  \/ \E e \in setup.evaluations, mode \in setup.modes, order \in setup.orders, d \in Data :
       StartEvaluation(e, mode, order, d)
  \/ \E r \in Runs, c \in Clients : StartRun(r, c)
  \/ Truncate(Worker) \/ Fill(Worker)
  \/ Diagnose
  \/ PersistRun \/ Score \/ TruthUnreadable \/ Aggregate
  \/ WorkerDies

Next ==
  /\ (\E c \in setup.clients : ClientStep(c)) \/ WorkerStep
  /\ UNCHANGED setup

Spec == Init /\ [][Next]_vars

-----------------------------------------------------------------------------
(* Properties.                                                             *)

\* The variables hold values of the files, the rows, the store and the local state.
TypeOK ==
  /\ setup \in Setups
  /\ disk \in [Kinds -> [Files -> Data \cup {Absent, Torn, Listed}]]
  /\ at \in [Writers -> [phase : {"away", "open", "fill", "written"}, kind : Kinds \cup {None},
                        file : Files, data : Data \cup {Absent}]]
  /\ crossed \in [Writers -> BOOLEAN]
  /\ fell \in BOOLEAN
  /\ work.job \in Evaluations \cup Runs \cup {None} /\ work.mode \in Modes
  /\ work.todo \in Seq(Kinds) /\ work.asked \subseteq Queries
  /\ \A r \in Runs : records[r] # None => \A ref \in records[r] : ref.key \in DOMAIN objects

\* A scenario is diagnosed on the data and scored against the truth that its own
\* evaluation generated, and sees the config changes of its kind, unless a request
\* wrote the files of the kind in the meantime: what earlier evaluations, dead
\* writers and other incidents left under the same names never enters a score.
ScoredOnOwnData ==
  \A e \in Evaluations : \A i \in DOMAIN results[e] :
    LET r == results[e][i] IN
    r.crossed \/ (r.truth = r.data /\ r.reads \subseteq {r.data, Listed})

\* Unless somebody else wrote the same kind in the meantime, the baseline and the
\* observed value of a simulated incident are those of the data it describes.
MeasuredOnOwnData ==
  \A c \in Clients : incident[c] # None =>
    incident[c].crossed \/ incident[c].measured = incident[c].data

\* Both: whoever shares the files of a kind, what is stated of a data set was read
\* from it, or another writer came in between.
RestsOnOwnData == ScoredOnOwnData /\ MeasuredOnOwnData

\* However its scenarios fail, an evaluation that reports has one result for each
\* kind it was asked for; and it is lost as a whole only when a request wrote the
\* files of the kind it was scoring.
EveryKindScored ==
  \A e \in Evaluations : metrics[e] # None =>
    /\ metrics[e].outcome = "report" =>
         /\ \A i, j \in DOMAIN results[e] : results[e][i].kind = results[e][j].kind => i = j
         /\ {results[e][i].kind : i \in DOMAIN results[e]} = ToSet(metrics[e].asked)
    /\ metrics[e].outcome = "lost" => metrics[e].crossed

\* What counts as a model invocation did get an answer from the model in that
\* scenario, whatever the writer and the investigator report separately.
InvocationsReached ==
  \A e \in Evaluations : \A i \in DOMAIN results[e] :
    Invoked(results[e][i]) => results[e][i].reached

\* A scenario that is called a fallback has a failed model call behind it, in this
\* evaluation and no later than it.
FallbacksEarned ==
  \A e \in Evaluations : \A i \in DOMAIN results[e] :
    results[e][i].fallback => \E j \in 1 .. i : results[e][j].failed

\* Both: what the metrics say of the model has model calls behind it.
ModelUseEarned == InvocationsReached /\ FallbacksEarned

\* Every scenario that a model was asked for and that completed is either an
\* invocation or a fallback, and never both; without a model there is neither.
ModelUseAccounted ==
  \A e \in Evaluations : metrics[e] # None /\ metrics[e].outcome = "report" =>
    LET m == metrics[e] IN
    m.invocations + m.fallbacks = IF m.mode = "B0" THEN 0 ELSE m.succeeded

\* When a diagnosis run commits its artifact records, the objects they point to are
\* the ones it stored: no call of its own took the key of another.
ArtifactsMatchWhenRecorded ==
  [][\A r \in Runs : records'[r] # records[r] =>
       \A ref \in records'[r] : objects[ref.key] = ref.bytes]_vars

\* The artifact of a committed run can be read: the stored bytes have the checksum
\* of the record.
ArtifactsReadable ==
  \A r \in Runs : records[r] # None => \A ref \in records[r] : objects[ref.key] = ref.bytes

=============================================================================
