------------------------- MODULE EvaluationBatchProofs -------------------------
(***************************************************************************)
(* For any kinds, data, evaluations, runs and requests: scores and         *)
(* incidents rest on their own data unless another writer crossed them;    *)
(* the artifacts of a run are its own when it records them; a model call   *)
(* is behind whatever is counted as one; every kind asked for is scored    *)
(* once; and the counts of the metrics add up to what happened.            *)
(***************************************************************************)
EXTENDS SumTheorems, EvaluationBatch, TLAPS

-----------------------------------------------------------------------------
(* Types.                                                                  *)

Contents == Data \cup {Absent, Torn, Listed}

Places == {Away} \cup [phase : {"open", "fill", "written"}, kind : Kinds, file : Files, data : Data]

Incidents == [kind : Kinds, data : Data, measured : Data, crossed : BOOLEAN]

Refs == [key : Nat \X STRING, bytes : [query : Queries, kind : Kinds, from : Contents]]

Busy == {"collect", "turn", "report", "reported"}

Jobs == [job : Evaluations \cup Runs \cup {None}, mode : Modes, order : Seq(STRING),
         todo : Seq(Kinds), pc : Busy \cup {"idle", "aggregate"}, calls : Nat,
         asked : SUBSET Queries, reads : SUBSET Contents, refs : SUBSET Refs,
         reached : BOOLEAN, failed : BOOLEAN, completed : BOOLEAN, model : BOOLEAN,
         fallback : BOOLEAN]

Results == [kind : Kinds, data : Data, truth : Data, reads : SUBSET Contents,
            completed : BOOLEAN, model : BOOLEAN, fallback : BOOLEAN, reached : BOOLEAN,
            failed : BOOLEAN, crossed : BOOLEAN]

FilesOK ==
  /\ disk \in [Kinds -> [Files -> Contents]]
  /\ at \in [Writers -> Places]
  /\ crossed \in [Writers -> BOOLEAN]

RowsOK ==
  /\ setup \in Setups
  /\ incident \in [Clients -> {None} \cup Incidents]
  /\ results \in [Evaluations -> Seq(Results)]
  /\ fell \in BOOLEAN

\* A job under way has a scenario at hand, and the fixed pipeline has not ended
\* while it collects.
WorkOK ==
  /\ work \in Jobs
  /\ work.pc \in Busy => work.todo # <<>>
  /\ work.pc = "collect" => work.calls < Len(Pipeline)

TypeInv == FilesOK /\ RowsOK /\ WorkOK

\* Nothing is known of a scenario when it begins.
Blank(w) ==
  w.calls = 0 /\ w.refs = {} /\ w.reads = {} /\ ~w.reached /\ ~w.failed /\ ~w.model /\ ~w.fallback

\* The idle worker is a job with nothing known.
LEMMA IdleIsJob ==
  Idle \in Jobs /\ Idle.pc = "idle" /\ Idle.job = None /\ Blank(Idle)
BY DEF Idle, Fresh, Jobs, Modes, Busy, Blank

\* So is one that has just taken up a task.
LEMMA FreshIsJob ==
  ASSUME NEW j \in Evaluations \cup Runs, NEW mode \in Modes, NEW order \in Seq(STRING),
         NEW todo \in Seq(Kinds), NEW pc \in {"collect", "aggregate"}
  PROVE  /\ Fresh(j, mode, order, todo, pc) \in Jobs
         /\ Fresh(j, mode, order, todo, pc).job = j
         /\ Fresh(j, mode, order, todo, pc).mode = mode
         /\ Fresh(j, mode, order, todo, pc).todo = todo
         /\ Fresh(j, mode, order, todo, pc).pc = pc
         /\ Blank(Fresh(j, mode, order, todo, pc))
BY DEF Fresh, Jobs, Busy, Blank

\* An element of a sequence is one of its set.
LEMMA ElementOf ==
  ASSUME NEW S, NEW s \in Seq(S), NEW i \in 1 .. Len(s)
  PROVE  s[i] \in S
OBVIOUS

\* Head and tail keep to the set of a sequence.
LEMMA HeadAndTail ==
  ASSUME NEW S, NEW s \in Seq(S), s # <<>>
  PROVE  /\ Head(s) \in S /\ Tail(s) \in Seq(S)
         /\ Len(s) > 1 => Tail(s) # <<>> /\ Head(Tail(s)) \in S
<1>1. Head(s) \in S
  OBVIOUS
<1>2. Tail(s) \in Seq(S) /\ Len(Tail(s)) = Len(s) - 1
  OBVIOUS
<1>3. ASSUME Len(s) > 1 PROVE Tail(s) # <<>>
  <2>1. Len(<<>>) = 0
    OBVIOUS
  <2>2. Len(Tail(s)) # 0
    BY <1>2, <1>3
  <2> QED BY <2>1, <2>2, Zenon
<1>4. ASSUME NEW t \in Seq(S), t # <<>> PROVE Head(t) \in S
  BY <1>4
<1> QED BY <1>1, <1>2, <1>3, <1>4

\* The fixed pipeline and the model's probes are queries.
LEMMA QueriesTyped ==
  ASSUME BatchAssumption
  PROVE  /\ Queries \subseteq [tool : STRING, filter : STRING] /\ Probes \subseteq Queries
         /\ Pipeline \in Seq(Queries) /\ Len(Pipeline) > 0
<1>1. Pipeline \in Seq([tool : STRING, filter : STRING]) /\ Pipeline # <<>>
  BY DEF BatchAssumption
<1>2. DOMAIN Pipeline = 1 .. Len(Pipeline)
  BY <1>1
<1>3. \A i \in 1 .. Len(Pipeline) : Pipeline[i] \in ToSet(Pipeline)
  BY <1>2, Zenon DEF ToSet
<1>4. \A i \in 1 .. Len(Pipeline) : Pipeline[i] \in [tool : STRING, filter : STRING]
  BY <1>1, ElementOf, Zenon
<1>5. ToSet(Pipeline) \subseteq [tool : STRING, filter : STRING]
  BY <1>2, <1>4, Zenon DEF ToSet
<1>6. Pipeline \in Seq(Queries)
  BY <1>1, <1>3 DEF Queries
<1>7. Len(Pipeline) > 0
  BY <1>1
<1> QED BY <1>5, <1>6, <1>7 DEF Queries, BatchAssumption

\* A scenario that starts has calls left to make.
LEMMA CollectStarts ==
  ASSUME BatchAssumption, NEW j \in Evaluations \cup Runs, NEW mode \in Modes,
         NEW order \in Seq(STRING), NEW todo \in Seq(Kinds), todo # <<>>,
         work' = Fresh(j, mode, order, todo, "collect")
  PROVE  WorkOK'
<1>1. work' \in Jobs /\ work'.todo = todo /\ work'.calls = 0
  BY FreshIsJob DEF Blank
<1> QED BY <1>1, QueriesTyped DEF WorkOK

\* The worker's scenario while it diagnoses and scores.
LEMMA AtScenario ==
  ASSUME FilesOK, NEW pc, Working(pc)
  PROVE  /\ at[Worker].kind \in Kinds /\ at[Worker].data \in Data
         /\ \A f \in Files : disk[at[Worker].kind][f] \in Contents
BY DEF FilesOK, Working, Places, Away, Writers, Files

\* What a call changes in the job at hand.
LEMMA Answered ==
  ASSUME BatchAssumption, FilesOK, NEW w \in Jobs, NEW q \in Queries, NEW pc, Working(pc)
  PROVE  /\ Asked(w, q) \in Jobs
         /\ Asked(w, q).calls = w.calls + 1
         /\ Asked(w, q).reads = w.reads \cup {Source(q)}
         /\ Asked(w, q).refs \subseteq w.refs \cup {[key |-> Key(w.calls, q), bytes |-> Answer(q)]}
         /\ w.job \notin Stores => Asked(w, q).refs = w.refs
         /\ Asked(w, q).job = w.job /\ Asked(w, q).mode = w.mode /\ Asked(w, q).todo = w.todo
         /\ Asked(w, q).order = w.order /\ Asked(w, q).completed = w.completed
         /\ Asked(w, q).reached = w.reached /\ Asked(w, q).failed = w.failed
         /\ Asked(w, q).model = w.model /\ Asked(w, q).fallback = w.fallback
<1>1. Source(q) \in Contents
  BY AtScenario DEF Source, Files
<1>2. Key(w.calls, q) \in Nat \X STRING
  BY QueriesTyped DEF Key, Jobs
<1>3. Answer(q) \in [query : Queries, kind : Kinds, from : Contents]
  BY <1>1, AtScenario DEF Answer
<1> DEFINE ref == [key |-> Key(w.calls, q), bytes |-> Answer(q)]
           refs == w.refs \cup {ref : j \in {w.job} \cap Stores}
<1>4. ref \in Refs
  BY <1>2, <1>3 DEF Refs
<1> HIDE DEF ref
<1>5. refs \subseteq w.refs \cup {ref} /\ (w.job \notin Stores => refs = w.refs)
  OBVIOUS
<1> DEFINE calls == w.calls + 1
           asked == w.asked \cup {q}
           reads == w.reads \cup {Source(q)}
           v == Asked(w, q)
<1>6. /\ calls \in Nat /\ asked \in SUBSET Queries
      /\ reads \in SUBSET Contents /\ refs \in SUBSET Refs
  BY <1>1, <1>4 DEF Jobs
<1>7. v = [w EXCEPT !.calls = calls, !.asked = asked, !.reads = reads, !.refs = refs]
  BY DEF Asked, Jobs, ref
<1> HIDE DEF refs, calls, asked, reads, v
<1>8. /\ v \in Jobs
      /\ v.calls = calls /\ v.reads = reads /\ v.refs = refs
      /\ v.job = w.job /\ v.mode = w.mode /\ v.todo = w.todo
      /\ v.order = w.order /\ v.completed = w.completed
      /\ v.reached = w.reached /\ v.failed = w.failed
      /\ v.model = w.model /\ v.fallback = w.fallback
  BY <1>6, <1>7 DEF Jobs
<1> QED BY <1>5, <1>8 DEF ref, calls, reads, v

\* What one model call changes in it.
LEMMA Decided ==
  ASSUME NEW w \in Jobs, NEW answered \in BOOLEAN
  PROVE  /\ Decide(w, answered) \in Jobs
         /\ Decide(w, answered).reached <=> (w.reached \/ answered)
         /\ Decide(w, answered).failed <=> (w.failed \/ ~answered)
         /\ Decide(w, answered).job = w.job /\ Decide(w, answered).mode = w.mode
         /\ Decide(w, answered).todo = w.todo /\ Decide(w, answered).pc = w.pc
         /\ Decide(w, answered).calls = w.calls /\ Decide(w, answered).reads = w.reads
         /\ Decide(w, answered).refs = w.refs
         /\ Decide(w, answered).order = w.order /\ Decide(w, answered).completed = w.completed
         /\ Decide(w, answered).model = w.model /\ Decide(w, answered).fallback = w.fallback
<1> DEFINE reached == w.reached \/ answered
           failed == w.failed \/ ~answered
           v == Decide(w, answered)
<1>1. w.reached \in BOOLEAN /\ w.failed \in BOOLEAN
  BY DEF Jobs
<1>2. reached \in BOOLEAN /\ failed \in BOOLEAN
  BY <1>1
<1>3. v = [w EXCEPT !.reached = reached, !.failed = failed]
  BY DEF Decide, Jobs
<1> HIDE DEF reached, failed, v
<1>4. /\ v \in Jobs
      /\ v.reached = reached /\ v.failed = failed /\ v.job = w.job /\ v.mode = w.mode
      /\ v.todo = w.todo /\ v.pc = w.pc /\ v.calls = w.calls /\ v.reads = w.reads
      /\ v.refs = w.refs /\ v.model = w.model /\ v.fallback = w.fallback
      /\ v.order = w.order /\ v.completed = w.completed
  BY <1>2, <1>3 DEF Jobs
<1> QED BY <1>4 DEF reached, failed, v

\* Steps that ask no tool leave what the queries brought.
LEMMA Considered ==
  ASSUME work \in Jobs, NEW answered \in BOOLEAN,
         Conclude(answered) \/ Correct(answered) \/ Report(answered)
  PROVE  work'.job = work.job /\ work'.reads = work.reads /\ work'.refs = work.refs
         /\ work'.calls = work.calls
<1> DEFINE u == Decide(work, answered)
<1>1. u \in Jobs /\ u.job = work.job /\ u.reads = work.reads /\ u.refs = work.refs
      /\ u.calls = work.calls
  BY Decided
<1> HIDE DEF u
<1>2. CASE Conclude(answered)
  BY <1>1, <1>2 DEF Conclude, u, Jobs
<1>3. CASE Correct(answered)
  BY <1>1, <1>3 DEF Correct, u, Jobs
<1>4. CASE Report(answered)
  <2> DEFINE t == IF work.mode = "B1" THEN u ELSE work
  <2>1. t = u \/ t = work
    OBVIOUS
  <2>2. work' = [t EXCEPT !.pc = "reported", !.model = NamesModel(answered),
                          !.fallback = FellBack(answered)]
    BY <1>4 DEF Report, u
  <2> HIDE DEF t
  <2> QED BY <1>1, <2>1, <2>2 DEF Jobs
<1> QED BY <1>2, <1>3, <1>4

-----------------------------------------------------------------------------
(* Every step keeps the types.                                             *)

\* Writing a file.
LEMMA PutTyped ==
  ASSUME FilesOK, NEW a \in Writers, at[a] # Away, NEW content \in Contents, Put(a, content)
  PROVE  /\ disk' \in [Kinds -> [Files -> Contents]]
         /\ crossed' \in [Writers -> BOOLEAN]
<1>1. at[a].kind \in Kinds /\ at[a].file \in Files
  BY DEF FilesOK, Places
<1> QED BY <1>1 DEF Put, Overwrite, Cross, FilesOK

\* Setting out to write.
LEMMA BeginTyped ==
  ASSUME FilesOK, NEW a \in Writers, NEW phase \in {"open", "written"}, NEW k \in Kinds,
         NEW d \in Data, Begin(a, phase, k, d)
  PROVE  at' \in [Writers -> Places] /\ crossed' \in [Writers -> BOOLEAN]
BY DEF Begin, FilesOK, Places, Files

\* Being done with writing.
LEMMA LeaveTyped ==
  ASSUME FilesOK, NEW a \in Writers, Leave(a)
  PROVE  at' \in [Writers -> Places] /\ crossed' \in [Writers -> BOOLEAN]
BY DEF Leave, FilesOK, Places

\* Opening a file empties it.
LEMMA TruncateTyped ==
  ASSUME TypeInv, NEW a \in Writers, Truncate(a), UNCHANGED setup
  PROVE  TypeInv'
<1>1. at[a] # Away /\ [at[a] EXCEPT !.phase = "fill"] \in Places
  BY DEF TypeInv, FilesOK, Truncate, Away, Places
<1>2. FilesOK'
  BY <1>1, PutTyped DEF TypeInv, FilesOK, Truncate, Contents
<1> QED BY <1>2 DEF TypeInv, RowsOK, WorkOK, Truncate

\* Writing it out.
LEMMA FillTyped ==
  ASSUME TypeInv, NEW a \in Writers, Fill(a), UNCHANGED setup
  PROVE  TypeInv'
<1> DEFINE place == [phase : {"open", "fill", "written"}, kind : Kinds, file : Files, data : Data]
<1>0. at[a] \in place /\ at[a] # Away
  BY DEF TypeInv, FilesOK, Fill, Away, Places
<1>1. /\ at[a].data \in Data /\ at[a].file \in Files /\ at[a] # Away
      /\ [at[a] EXCEPT !.phase = "written"] \in Places
      /\ \A f \in Files : [at[a] EXCEPT !.phase = "open", !.file = f] \in Places
  <2>1. at[a].data \in Data /\ at[a].file \in Files
    BY <1>0
  <2>2. [at[a] EXCEPT !.phase = "written"] \in place
    BY <1>0
  <2>3. \A f \in Files : [at[a] EXCEPT !.phase = "open", !.file = f] \in place
    BY <1>0
  <2> QED BY <1>0, <2>1, <2>2, <2>3 DEF Places
<1>2. After(a, at[a].file) # "none" => After(a, at[a].file) \in Files
  BY DEF After, Files
<1>3. at' \in [Writers -> Places]
  BY <1>1, <1>2 DEF Fill, TypeInv, FilesOK
<1>4. PICK left \in Contents : Put(a, left)
  BY <1>1 DEF Fill, Contents
<1>5. FilesOK'
  BY <1>1, <1>3, <1>4, PutTyped DEF TypeInv, FilesOK
<1> QED BY <1>5 DEF TypeInv, RowsOK, WorkOK, Fill

\* The requests.
LEMMA ClientTyped ==
  ASSUME TypeInv, NEW c \in Clients, UNCHANGED setup,
         \/ \E k \in Kinds, d \in Data : Simulate(c, k, d)
         \/ CreateIncident(c) \/ RequestDies(c)
  PROVE  TypeInv'
<1>0. c \in Writers
  BY DEF Writers
<1>1. CASE \E k \in Kinds, d \in Data : Simulate(c, k, d)
  BY <1>0, <1>1, BeginTyped DEF Simulate, TypeInv, FilesOK, RowsOK, WorkOK
<1>2. CASE CreateIncident(c)
  <2>1. at[c].kind \in Kinds /\ at[c].data \in Data /\ crossed[c] \in BOOLEAN
    BY <1>0, <1>2 DEF CreateIncident, TypeInv, FilesOK, Places, Away
  <2>2. incident' \in [Clients -> {None} \cup Incidents]
    BY <1>2, <2>1 DEF CreateIncident, TypeInv, RowsOK, Incidents
  <2> QED BY <1>0, <1>2, <2>2, LeaveTyped DEF CreateIncident, TypeInv, FilesOK, RowsOK, WorkOK
<1>3. CASE RequestDies(c)
  BY <1>0, <1>3, LeaveTyped DEF RequestDies, TypeInv, FilesOK, RowsOK, WorkOK
<1> QED BY <1>1, <1>2, <1>3

\* Taking up a task.
LEMMA StartTyped ==
  ASSUME TypeInv, BatchAssumption, UNCHANGED setup,
         \/ \E e \in setup.evaluations, mode \in setup.modes, order \in setup.orders, d \in Data :
              StartEvaluation(e, mode, order, d)
         \/ \E r \in Runs, c \in Clients : StartRun(r, c)
  PROVE  TypeInv'
<1>0. Worker \in Writers
  BY DEF Writers
<1>1. CASE \E e \in setup.evaluations, mode \in setup.modes, order \in setup.orders, d \in Data :
             StartEvaluation(e, mode, order, d)
  <2>1. PICK e \in setup.evaluations, mode \in setup.modes, order \in setup.orders, d \in Data :
          StartEvaluation(e, mode, order, d)
    BY <1>1
  <2>2. e \in Evaluations /\ mode \in Modes /\ order \in Seq(STRING)
    BY DEF BatchAssumption, TypeInv, RowsOK
  <2>3. Distinct(order) \in Seq(Kinds) /\ Distinct(order) # <<>> /\ Head(Distinct(order)) \in Kinds
    BY <2>1 DEF StartEvaluation, Valid
  <2>4. work' = Fresh(e, mode, order, Distinct(order), "collect")
        /\ Begin(Worker, "open", Head(Distinct(order)), d)
    BY <2>1 DEF StartEvaluation, BeginScenario
  <2>5. WorkOK'
    BY <2>2, <2>3, <2>4, CollectStarts
  <2> QED BY <1>0, <2>1, <2>3, <2>4, <2>5, BeginTyped
          DEF StartEvaluation, NewPolicy, TypeInv, FilesOK, RowsOK
<1>2. CASE \E r \in Runs, c \in Clients : StartRun(r, c)
  <2>1. PICK r \in Runs, c \in Clients : StartRun(r, c)
    BY <1>2
  <2>2. setup.agent \in Modes
    BY DEF BatchAssumption, TypeInv, RowsOK, Modes
  <2>3. incident[c].kind \in Kinds /\ incident[c].data \in Data
    BY <2>1 DEF StartRun, TypeInv, RowsOK, Incidents
  <2>4. work' = Fresh(r, setup.agent, <<>>, <<incident[c].kind>>, "collect")
        /\ Begin(Worker, "written", incident[c].kind, incident[c].data)
    BY <2>1 DEF StartRun
  <2> DEFINE todo == <<incident[c].kind>>
  <2>6. <<>> \in Seq(STRING) /\ todo \in Seq(Kinds) /\ todo # <<>>
    BY <2>3
  <2> HIDE DEF todo
  <2>7. work' = Fresh(r, setup.agent, <<>>, todo, "collect")
    BY <2>4 DEF todo
  <2>5. WorkOK'
    BY <2>2, <2>6, <2>7, CollectStarts
  <2> QED BY <1>0, <2>1, <2>3, <2>4, <2>5, BeginTyped
          DEF StartRun, NewPolicy, TypeInv, FilesOK, RowsOK
<1> QED BY <1>1, <1>2

\* The calls.
LEMMA QueriedTyped ==
  ASSUME TypeInv, BatchAssumption, UNCHANGED setup,
         Collect \/ \E answered \in BOOLEAN, q \in Probes, next \in {"turn", "report"} :
                      Turn(answered, q, next)
  PROVE  TypeInv'
<1>1. CASE Collect
  <2> DEFINE q == Pipeline[work.calls + 1]
             v == Asked(work, q)
             next == IF work.mode = "B2" THEN "turn"
                     ELSE IF work.calls + 1 = Len(Pipeline) THEN "report" ELSE "collect"
  <2>1. work \in Jobs /\ work.calls \in Nat /\ work.todo # <<>> /\ work.calls < Len(Pipeline)
    BY <1>1 DEF Collect, Working, TypeInv, WorkOK, Jobs, Busy
  <2>2. q \in Queries
    BY <2>1, QueriesTyped, ElementOf
  <2>3. v \in Jobs /\ v.calls = work.calls + 1 /\ v.todo = work.todo
    BY <1>1, <2>1, <2>2, Answered DEF Collect, TypeInv
  <2>4. work' = [v EXCEPT !.pc = next]
    BY <1>1 DEF Collect
  <2>5. next \in Busy /\ (next = "collect" => work.calls + 1 # Len(Pipeline))
    BY DEF Busy
  <2> HIDE DEF v, next
  <2>6. work' \in Jobs /\ work'.calls = v.calls /\ work'.todo = v.todo /\ work'.pc = next
    BY <2>3, <2>4, <2>5 DEF Jobs
  <2>7. WorkOK'
    BY <2>1, <2>3, <2>5, <2>6, QueriesTyped DEF WorkOK
  <2> QED BY <1>1, <2>7 DEF Collect, TypeInv, FilesOK, RowsOK, fileVars
<1>2. CASE \E answered \in BOOLEAN, q \in Probes, next \in {"turn", "report"} :
             Turn(answered, q, next)
  <2>1. PICK answered \in BOOLEAN, q \in Probes, next \in {"turn", "report"} :
          Turn(answered, q, next)
    BY <1>2
  <2> DEFINE u == Decide(work, answered)
             v == Asked(u, q)
  <2>2. work \in Jobs /\ work.todo # <<>>
    BY <2>1 DEF Turn, Working, TypeInv, WorkOK, Busy
  <2>3. u \in Jobs /\ u.todo = work.todo
    BY <2>2, Decided
  <2> HIDE DEF u
  <2>4. v \in Jobs /\ v.todo = u.todo
    BY <2>1, <2>3, Answered, QueriesTyped DEF Turn, TypeInv
  <2>5. work' = [v EXCEPT !.pc = next]
    BY <2>1 DEF Turn, u
  <2> HIDE DEF v
  <2>6. work' \in Jobs /\ work'.todo = v.todo /\ work'.pc = next
    BY <2>4, <2>5 DEF Jobs, Busy
  <2>7. WorkOK'
    BY <2>2, <2>3, <2>4, <2>6 DEF WorkOK
  <2> QED BY <2>1, <2>7 DEF Turn, Noted, TypeInv, FilesOK, RowsOK, fileVars
<1> QED BY <1>1, <1>2

\* The model's answers, and an exception.
LEMMA ReportedTyped ==
  ASSUME TypeInv, UNCHANGED setup,
         \/ \E answered \in BOOLEAN : Conclude(answered) \/ Correct(answered) \/ Report(answered)
         \/ Raise
  PROVE  TypeInv'
<1>1. ASSUME NEW answered \in BOOLEAN, Conclude(answered) PROVE TypeInv'
  <2>1. work \in Jobs /\ work.todo # <<>>
    BY <1>1 DEF Conclude, Working, TypeInv, WorkOK, Busy
  <2>2. work' \in Jobs /\ work'.todo = work.todo /\ work'.pc \in {"turn", "report"}
    BY <1>1, <2>1 DEF Conclude, Decide, Jobs, Busy
  <2> QED BY <1>1, <2>1, <2>2 DEF Conclude, Noted, TypeInv, FilesOK, RowsOK, WorkOK, fileVars
<1>2. ASSUME NEW answered \in BOOLEAN, Correct(answered) PROVE TypeInv'
  <2>1. work \in Jobs /\ work.todo # <<>> /\ work.pc = "report"
    BY <1>2 DEF Correct, Working, TypeInv, WorkOK, Busy
  <2>2. work' \in Jobs /\ work'.todo = work.todo /\ work'.pc = "report"
    BY <1>2, <2>1 DEF Correct, Decide, Jobs, Busy
  <2> QED BY <1>2, <2>1, <2>2 DEF Correct, TypeInv, FilesOK, RowsOK, WorkOK, fileVars
<1>3. ASSUME NEW answered \in BOOLEAN, Report(answered) PROVE TypeInv'
  <2> DEFINE asked == Decide(work, answered)
             u == IF work.mode = "B1" THEN asked ELSE work
  <2>1. work \in Jobs /\ work.todo # <<>>
    BY <1>3 DEF Report, Working, TypeInv, WorkOK, Busy
  <2>2. u \in Jobs /\ u.todo = work.todo
    <3>1. asked \in Jobs /\ asked.todo = work.todo
      BY <2>1, Decided
    <3>2. u = asked \/ u = work
      OBVIOUS
    <3> HIDE DEF asked, u
    <3> QED BY <2>1, <3>1, <3>2
  <2>3. NamesModel(answered) \in BOOLEAN /\ FellBack(answered) \in BOOLEAN
    BY DEF NamesModel, FellBack, TypeInv, RowsOK
  <2>4. work' = [u EXCEPT !.pc = "reported", !.model = NamesModel(answered),
                          !.fallback = FellBack(answered)]
    BY <1>3 DEF Report
  <2> HIDE DEF u
  <2>5. work' \in Jobs /\ work'.todo = work.todo /\ work'.pc = "reported"
    BY <2>2, <2>3, <2>4 DEF Jobs, Busy
  <2> QED BY <1>3, <2>1, <2>5 DEF Report, TypeInv, FilesOK, RowsOK, WorkOK, fileVars
<1>4. ASSUME Raise PROVE TypeInv'
  <2>1. work \in Jobs /\ work.todo # <<>>
    BY <1>4 DEF Raise, Working, TypeInv, WorkOK, Busy
  <2>2. CASE work.job \in Runs
    BY <1>4, <2>2, LeaveTyped, IdleIsJob
       DEF Raise, Writers, TypeInv, FilesOK, RowsOK, WorkOK, Busy
  <2>3. CASE work.job \notin Runs
    <3>0. work' = [work EXCEPT !.pc = "reported", !.completed = FALSE,
                               !.asked = {}, !.reads = {}, !.refs = {}]
      BY <1>4, <2>3 DEF Raise
    <3>1. work' \in Jobs /\ work'.todo = work.todo /\ work'.pc = "reported"
      BY <2>1, <3>0 DEF Jobs, Busy
    <3> QED BY <1>4, <2>1, <2>3, <3>1 DEF Raise, TypeInv, FilesOK, RowsOK, WorkOK
  <2> QED BY <2>2, <2>3
<1> QED BY <1>1, <1>2, <1>3, <1>4

\* The end of a run, a scenario or an evaluation.
LEMMA SettledTyped ==
  ASSUME TypeInv, BatchAssumption, UNCHANGED setup,
         PersistRun \/ Score \/ TruthUnreadable \/ Aggregate \/ WorkerDies
  PROVE  TypeInv'
<1>0. Worker \in Writers
  BY DEF Writers
<1>1. CASE PersistRun
  BY <1>0, <1>1, LeaveTyped, IdleIsJob DEF PersistRun, TypeInv, FilesOK, RowsOK, WorkOK, Busy
<1>2. CASE TruthUnreadable
  <2>1. results' \in [Evaluations -> Seq(Results)]
    BY <1>2 DEF TruthUnreadable, TypeInv, RowsOK
  <2> QED BY <1>0, <1>2, <2>1, LeaveTyped, IdleIsJob
          DEF TruthUnreadable, TypeInv, FilesOK, RowsOK, WorkOK, Busy
<1>3. CASE Aggregate
  BY <1>3, IdleIsJob DEF Aggregate, TypeInv, FilesOK, RowsOK, WorkOK, Busy, fileVars
<1>4. CASE WorkerDies
  <2>1. results' \in [Evaluations -> Seq(Results)]
    BY <1>4 DEF WorkerDies, TypeInv, RowsOK
  <2> QED BY <1>0, <1>4, <2>1, LeaveTyped, IdleIsJob
          DEF WorkerDies, TypeInv, FilesOK, RowsOK, WorkOK, Busy
<1>5. CASE Score
  <2>1. work \in Jobs /\ work.todo # <<>> /\ work.job \in Evaluations
        /\ Head(work.todo) \in Kinds /\ Tail(work.todo) \in Seq(Kinds)
        /\ (Len(work.todo) > 1 => Tail(work.todo) # <<>> /\ Head(Tail(work.todo)) \in Kinds)
    <3>1. work \in Jobs /\ work.todo # <<>> /\ work.job \in Evaluations
      BY <1>5 DEF Score, Working, TypeInv, WorkOK, Busy
    <3>2. work.todo \in Seq(Kinds)
      BY <3>1 DEF Jobs
    <3> QED BY <3>1, <3>2, HeadAndTail
  <2>2. at[Worker].data \in Data /\ crossed[Worker] \in BOOLEAN
    BY <1>0, <1>5, AtScenario DEF Score, TypeInv, FilesOK
  <2>3. Result \in Results
    BY <1>5, <2>1, <2>2 DEF Score, Result, Results, Jobs
  <2>4. results' \in [Evaluations -> Seq(Results)]
    BY <1>5, <2>3 DEF Score, TypeInv, RowsOK
  <2>5. work.mode \in Modes /\ work.order \in Seq(STRING)
    BY <2>1 DEF Jobs
  <2>6. CASE Len(work.todo) > 1
    <3>1. work' = Fresh(work.job, work.mode, work.order, Tail(work.todo), "collect")
          /\ Begin(Worker, "open", Head(Tail(work.todo)), at[Worker].data)
      BY <1>5, <2>6 DEF Score, BeginScenario
    <3>2. WorkOK'
      BY <2>1, <2>5, <2>6, <3>1, CollectStarts
    <3> QED BY <1>0, <1>5, <2>1, <2>2, <2>4, <2>6, <3>1, <3>2, BeginTyped
            DEF Score, TypeInv, FilesOK, RowsOK
  <2>7. CASE ~(Len(work.todo) > 1)
    <3>1. work' = Fresh(work.job, work.mode, work.order, <<>>, "aggregate") /\ Leave(Worker)
      BY <1>5, <2>7 DEF Score
    <3>2. work' \in Jobs /\ work'.pc = "aggregate"
      <4> DEFINE todo == <<>>
      <4>1. todo \in Seq(Kinds)
        OBVIOUS
      <4> HIDE DEF todo
      <4>2. work' = Fresh(work.job, work.mode, work.order, todo, "aggregate")
        BY <3>1 DEF todo
      <4> QED BY <2>1, <2>5, <4>1, <4>2, FreshIsJob
    <3>3. WorkOK'
      BY <3>2 DEF WorkOK, Busy
    <3> QED BY <1>0, <1>5, <2>4, <3>1, <3>3, LeaveTyped DEF Score, TypeInv, FilesOK, RowsOK
  <2> QED BY <2>6, <2>7
<1> QED BY <1>1, <1>2, <1>3, <1>4, <1>5

\* The types at the start.
LEMMA InitTyped == Init /\ BatchAssumption => TypeInv
<1> SUFFICES ASSUME Init, BatchAssumption PROVE TypeInv
  OBVIOUS
<1>1. FilesOK
  BY DEF Init, FilesOK, Contents, Places
<1>2. RowsOK
  <2>1. <<>> \in Seq(Results)
    OBVIOUS
  <2>2. results \in [Evaluations -> Seq(Results)]
    BY <2>1 DEF Init
  <2>3. incident \in [Clients -> {None} \cup Incidents]
    BY DEF Init
  <2> QED BY <2>2, <2>3 DEF Init, RowsOK
<1>3. WorkOK
  BY IdleIsJob DEF Init, WorkOK, Busy
<1> QED BY <1>1, <1>2, <1>3 DEF TypeInv

\* Every step keeps them.
LEMMA TypePreserved == TypeInv /\ BatchAssumption /\ [Next]_vars => TypeInv'
<1> SUFFICES ASSUME TypeInv, BatchAssumption, [Next]_vars PROVE TypeInv'
  OBVIOUS
<1>1. CASE UNCHANGED vars
  BY <1>1 DEF vars, fileVars, storeVars, TypeInv, FilesOK, RowsOK, WorkOK
<1>2. CASE Next
  <2>1. Diagnose /\ UNCHANGED setup => TypeInv'
    BY QueriedTyped, ReportedTyped DEF Diagnose
  <2>2. CASE \E c \in setup.clients : ClientStep(c)
    BY <1>2, <2>2, TruncateTyped, FillTyped, ClientTyped
       DEF Next, ClientStep, Writers, BatchAssumption, TypeInv, RowsOK
  <2>3. CASE WorkerStep
    BY <1>2, <2>1, <2>3, TruncateTyped, FillTyped, StartTyped, SettledTyped
       DEF Next, WorkerStep, Writers
  <2> QED BY <1>2, <2>2, <2>3 DEF Next
<1> QED BY <1>1, <1>2

-----------------------------------------------------------------------------
(* Scores and incidents rest on their own data.  The files a writer has    *)
(* finished hold what it generated for as long as nobody has crossed it.   *)

Own(a) ==
  at[a] # Away /\ ~crossed[a] /\ (a \in Clients \/ work.job \in Evaluations) =>
    LET files == disk[at[a].kind]
        written == at[a].phase = "written"
    IN
    /\ at[a].file # "events" \/ written => files["events"] = at[a].data
    /\ at[a].file = "changes" \/ written => files["truth"] = at[a].data
    /\ a = Worker /\ written => files["changes"] = Listed

OwnReads ==
  ~crossed[Worker] /\ work.job \in Evaluations => work.reads \subseteq {at[Worker].data, Listed}

OwnInv ==
  /\ \A a \in Writers : Own(a)
  /\ OwnReads
  /\ ScoredOnOwnData
  /\ MeasuredOnOwnData

\* A write leaves the other kinds alone, and marks those it disturbs.
LEMMA PutEffect ==
  ASSUME FilesOK, NEW a \in Writers, at[a] # Away, NEW content, Put(a, content)
  PROVE  /\ disk'[at[a].kind][at[a].file] = content
         /\ \A f \in Files : f # at[a].file => disk'[at[a].kind][f] = disk[at[a].kind][f]
         /\ crossed'[a] = crossed[a]
         /\ \A b \in Writers : b # a /\ at[b] # Away /\ ~crossed'[b] =>
              ~crossed[b] /\ disk'[at[b].kind] = disk[at[b].kind]
<1>1. at[a].kind \in Kinds /\ at[a].file \in Files /\ crossed[a] \in BOOLEAN
  BY DEF FilesOK, Places
<1>2. \A b \in Writers : at[b] # Away => at[b].kind \in Kinds
  BY DEF FilesOK, Places
<1>3. disk' = [disk EXCEPT ![at[a].kind] = [@ EXCEPT ![at[a].file] = content]]
  BY DEF Put, Overwrite
<1>4. \A b \in Writers :
        crossed'[b] = (crossed[b] \/ (b # a /\ at[b].kind = at[a].kind))
  BY DEF Put, Cross
<1> QED BY <1>1, <1>2, <1>3, <1>4 DEF FilesOK

\* Opening a file destroys what it held, and marks whoever relied on it.
LEMMA TruncateOwn ==
  ASSUME TypeInv, OwnInv, BatchAssumption, NEW a \in Writers, Truncate(a)
  PROVE  OwnInv'
<1>1. at[a] \in [phase : {"open", "fill", "written"}, kind : Kinds, file : Files, data : Data]
      /\ at[a] # Away /\ at[a].phase = "open" /\ Put(a, Torn)
  BY DEF TypeInv, FilesOK, Truncate, Away, Places
<1>2. at' = [at EXCEPT ![a] = [at[a] EXCEPT !.phase = "fill"]]
  BY DEF Truncate
<1>3. /\ at'[a].kind = at[a].kind /\ at'[a].file = at[a].file /\ at'[a].data = at[a].data
      /\ at'[a].phase = "fill"
      /\ \A b \in Writers : b # a => at'[b] = at[b]
  BY <1>1, <1>2 DEF TypeInv, FilesOK
<1>4. Own(a)'
  <2>1. Own(a)
    BY DEF OwnInv
  <2> QED BY <1>1, <1>3, <2>1, PutEffect DEF TypeInv, Own, Files, Truncate
<1>5. ASSUME NEW b \in Writers, b # a PROVE Own(b)'
  <2>1. Own(b)
    BY DEF OwnInv
  <2> QED BY <1>1, <1>3, <1>5, <2>1, PutEffect DEF TypeInv, Own, Truncate
<1>6. OwnReads'
  <2>1. at'[Worker].data = at[Worker].data
    BY <1>3 DEF Writers
  <2>2. ~crossed'[Worker] => ~crossed[Worker]
    BY <1>1 DEF Put, Cross, Writers
  <2> QED BY <2>1, <2>2 DEF OwnInv, OwnReads, Truncate
<1> QED BY <1>4, <1>5, <1>6 DEF OwnInv, ScoredOnOwnData, MeasuredOnOwnData, Truncate

\* Writing it out does the same.
LEMMA FillOwn ==
  ASSUME TypeInv, OwnInv, BatchAssumption, NEW a \in Writers, Fill(a)
  PROVE  OwnInv'
<1> DEFINE f == at[a].file
           content == IF f = "changes" THEN Listed ELSE at[a].data
<1>1. at[a] \in [phase : {"open", "fill", "written"}, kind : Kinds, file : Files, data : Data]
      /\ at[a] # Away
  BY DEF TypeInv, FilesOK, Fill, Away, Places
<1>2. PICK left \in {content} \cup (IF crossed[a] THEN {Torn} ELSE {}) : Put(a, left)
  BY DEF Fill
<1>3. ~crossed[a] => left = content
  BY <1>2
<1>4. at' = [at EXCEPT ![a] = IF After(a, f) = "none" THEN [at[a] EXCEPT !.phase = "written"]
                              ELSE [at[a] EXCEPT !.phase = "open", !.file = After(a, f)]]
  BY DEF Fill
<1>5. /\ at'[a].kind = at[a].kind /\ at'[a].data = at[a].data
      /\ After(a, f) = "none" => at'[a].phase = "written" /\ at'[a].file = f
      /\ After(a, f) # "none" => at'[a].phase = "open" /\ at'[a].file = After(a, f)
      /\ \A b \in Writers : b # a => at'[b] = at[b]
  BY <1>1, <1>4 DEF TypeInv, FilesOK
<1>6. /\ f = "events" => After(a, f) = "truth"
      /\ f = "truth" => After(a, f) = IF a = Worker THEN "changes" ELSE "none"
      /\ f = "changes" => After(a, f) = "none"
      /\ f \in Files
  BY <1>1 DEF After
<1>7. Own(a)'
  <2>1. Own(a)
    BY DEF OwnInv
  <2>2. crossed'[a] = crossed[a] /\ disk'[at[a].kind][f] = left
        /\ \A g \in Files : g # f => disk'[at[a].kind][g] = disk[at[a].kind][g]
    BY <1>1, <1>2, PutEffect DEF TypeInv
  <2>3. work' = work
    BY DEF Fill
  <2> SUFFICES ASSUME at[a] # Away, ~crossed[a], a \in Clients \/ work.job \in Evaluations
               PROVE  Own(a)'
    BY <1>1, <2>2, <2>3 DEF Own
  <2> HIDE DEF f
  <2>4. CASE f = "events"
    BY <1>3, <1>5, <1>6, <2>1, <2>2, <2>4 DEF Own, Files, f
  <2>5. CASE f = "truth"
    BY <1>3, <1>5, <1>6, <2>1, <2>2, <2>5 DEF Own, Files, f
  <2>6. CASE f = "changes"
    BY <1>3, <1>5, <1>6, <2>1, <2>2, <2>6 DEF Own, Files, f
  <2> QED BY <1>6, <2>4, <2>5, <2>6 DEF Files
<1>8. ASSUME NEW b \in Writers, b # a PROVE Own(b)'
  <2>1. Own(b)
    BY DEF OwnInv
  <2> QED BY <1>1, <1>2, <1>5, <1>8, <2>1, PutEffect DEF TypeInv, Own, Fill
<1>9. OwnReads'
  <2>1. at'[Worker].data = at[Worker].data
    BY <1>5 DEF Writers
  <2>2. ~crossed'[Worker] => ~crossed[Worker]
    BY <1>2 DEF Put, Cross, Writers
  <2> QED BY <2>1, <2>2 DEF OwnInv, OwnReads, Fill
<1> QED BY <1>7, <1>8, <1>9 DEF OwnInv, ScoredOnOwnData, MeasuredOnOwnData, Fill

\* A writer that comes or goes has written nothing yet.
LEMMA BeginOwn ==
  ASSUME FilesOK, NEW a \in Writers, \A b \in Writers : Own(b), NEW phase, NEW k, NEW d,
         Begin(a, phase, k, d), UNCHANGED disk,
         (a = Worker /\ phase = "written" => work'.job \notin Evaluations),
         a \in Clients => work' = work /\ phase = "open",
         a = Worker \/ work' = work, Worker \notin Clients
  PROVE  \A b \in Writers : Own(b)'
<1>1. at' = [at EXCEPT ![a] = [phase |-> phase, kind |-> k, file |-> "events", data |-> d]]
      /\ crossed' = [crossed EXCEPT ![a] = FALSE]
  BY DEF Begin
<1>2. ASSUME NEW b \in Writers PROVE Own(b)'
  <2>1. CASE b = a
    <3>1. at'[a].phase = phase /\ at'[a].file = "events"
      BY <1>1 DEF FilesOK
    <3> QED BY <2>1, <3>1 DEF Own, Writers
  <2>2. CASE b # a
    <3>1. at'[b] = at[b] /\ crossed'[b] = crossed[b] /\ Own(b)
      BY <1>1, <2>2 DEF FilesOK
    <3> QED BY <2>2, <3>1 DEF Own, Writers
  <2> QED BY <2>1, <2>2
<1> QED BY <1>2

\* A writer that leaves takes nothing from the others.
LEMMA LeaveOwn ==
  ASSUME FilesOK, NEW a \in Writers, \A b \in Writers : Own(b), Leave(a), UNCHANGED disk,
         a = Worker \/ work' = work, Worker \notin Clients
  PROVE  \A b \in Writers : Own(b)'
<1>1. at' = [at EXCEPT ![a] = Away] /\ crossed' = [crossed EXCEPT ![a] = FALSE]
  BY DEF Leave
<1>2. ASSUME NEW b \in Writers PROVE Own(b)'
  <2>1. CASE b = a
    BY <1>1, <2>1 DEF FilesOK, Own
  <2>2. CASE b # a
    <3>1. at'[b] = at[b] /\ crossed'[b] = crossed[b] /\ Own(b)
      BY <1>1, <2>2 DEF FilesOK
    <3> QED BY <2>2, <3>1 DEF Own, Writers
  <2> QED BY <2>1, <2>2
<1> QED BY <1>2

\* The requests.
LEMMA ClientOwn ==
  ASSUME TypeInv, OwnInv, BatchAssumption, NEW c \in Clients,
         \/ \E k \in Kinds, d \in Data : Simulate(c, k, d)
         \/ CreateIncident(c) \/ RequestDies(c)
  PROVE  OwnInv'
<1>0. c \in Writers /\ c # Worker /\ Worker \in Writers
  BY DEF Writers, BatchAssumption
<1>1. UNCHANGED <<disk, work, results>>
  BY DEF Simulate, CreateIncident, RequestDies
<1>2. (\A b \in Writers : Own(b)') /\ at'[Worker] = at[Worker] /\ crossed'[Worker] = crossed[Worker]
  <2>1. ASSUME NEW k \in Kinds, NEW d \in Data, Begin(c, "open", k, d)
        PROVE  /\ \A b \in Writers : Own(b)'
               /\ at'[Worker] = at[Worker] /\ crossed'[Worker] = crossed[Worker]
    BY <1>0, <1>1, <2>1, BeginOwn DEF OwnInv, Begin, TypeInv, FilesOK, BatchAssumption
  <2>2. ASSUME Leave(c)
        PROVE  /\ \A b \in Writers : Own(b)'
               /\ at'[Worker] = at[Worker] /\ crossed'[Worker] = crossed[Worker]
    BY <1>0, <1>1, <2>2, LeaveOwn DEF OwnInv, Leave, TypeInv, FilesOK, BatchAssumption
  <2> QED BY <2>1, <2>2 DEF Simulate, CreateIncident, RequestDies
<1>3. MeasuredOnOwnData'
  <2>1. CASE UNCHANGED incident
    BY <2>1 DEF OwnInv, MeasuredOnOwnData
  <2>2. CASE CreateIncident(c)
    <3>1. Own(c) /\ at[c] # Away /\ at[c].phase = "written" /\ crossed[c] \in BOOLEAN
      BY <1>0, <2>2 DEF OwnInv, CreateIncident, Away, TypeInv, FilesOK
    <3>2. ~crossed[c] => disk[at[c].kind]["events"] = at[c].data
      BY <3>1 DEF Own
    <3> DEFINE row == [kind |-> at[c].kind, data |-> at[c].data,
                       measured |-> disk[at[c].kind]["events"], crossed |-> crossed[c]]
    <3>3. incident' = [incident EXCEPT ![c] = row]
      BY <2>2 DEF CreateIncident
    <3>4. row.crossed \/ row.measured = row.data
      BY <3>1, <3>2
    <3> HIDE DEF row
    <3> QED BY <3>3, <3>4 DEF OwnInv, MeasuredOnOwnData, TypeInv, RowsOK
  <2> QED BY <2>1, <2>2 DEF Simulate, RequestDies
<1> QED BY <1>1, <1>2, <1>3 DEF OwnInv, OwnReads, ScoredOnOwnData

\* Taking up a task.
LEMMA StartOwn ==
  ASSUME TypeInv, OwnInv, BatchAssumption,
         \/ \E e \in setup.evaluations, mode \in setup.modes, order \in setup.orders, d \in Data :
              StartEvaluation(e, mode, order, d)
         \/ \E r \in Runs, c \in Clients : StartRun(r, c)
  PROVE  OwnInv'
<1>0. Worker \in Writers /\ Worker \notin Clients
  BY DEF Writers, BatchAssumption
<1>1. CASE \E e \in setup.evaluations, mode \in setup.modes, order \in setup.orders, d \in Data :
             StartEvaluation(e, mode, order, d)
  <2>1. PICK e, mode, order, d : StartEvaluation(e, mode, order, d)
    BY <1>1
  <2>2. \A b \in Writers : Own(b)'
    BY <1>0, <2>1, BeginOwn DEF StartEvaluation, BeginScenario, OwnInv, TypeInv
  <2>3. work'.reads = {}
    BY <2>1 DEF StartEvaluation, BeginScenario, Fresh
  <2> QED BY <2>1, <2>2, <2>3
          DEF StartEvaluation, OwnInv, OwnReads, ScoredOnOwnData, MeasuredOnOwnData
<1>2. CASE \E r \in Runs, c \in Clients : StartRun(r, c)
  <2>1. PICK r \in Runs, c \in Clients : StartRun(r, c)
    BY <1>2
  <2>2. work'.job = r /\ work'.job \notin Evaluations /\ work'.reads = {}
    BY <2>1 DEF StartRun, Fresh, BatchAssumption
  <2>3. \A b \in Writers : Own(b)'
    BY <1>0, <2>1, <2>2, BeginOwn DEF StartRun, OwnInv, TypeInv
  <2> QED BY <2>1, <2>2, <2>3
          DEF StartRun, OwnInv, OwnReads, ScoredOnOwnData, MeasuredOnOwnData
<1> QED BY <1>1, <1>2

\* What a query of an evaluation reads is its own, or the list of its kind.
LEMMA ReadsOwn ==
  ASSUME TypeInv, OwnInv, NEW q, NEW pc, Working(pc), ~crossed[Worker],
         work.job \in Evaluations
  PROVE  Source(q) \in {at[Worker].data, Listed}
<1>1. Own(Worker) /\ at[Worker] # Away /\ at[Worker].phase = "written"
  BY DEF OwnInv, Writers, Working, Away
<1> QED BY <1>1 DEF Own, Source

\* A diagnosis reads, and what it reads is on its account.
LEMMA DiagnoseOwn ==
  ASSUME TypeInv, OwnInv, BatchAssumption, Diagnose
  PROVE  OwnInv'
<1>0. Worker \in Writers /\ Worker \notin Clients /\ work \in Jobs
  BY DEF Writers, BatchAssumption, TypeInv, WorkOK
<1>1. ASSUME UNCHANGED <<disk, at, crossed, results, incident>>, work'.job = work.job,
             ~crossed[Worker] /\ work.job \in Evaluations =>
               work'.reads \subseteq work.reads \cup {at[Worker].data, Listed}
      PROVE  OwnInv'
  <2>1. \A b \in Writers : Own(b)'
    BY <1>1 DEF OwnInv, Own
  <2>2. OwnReads'
    BY <1>1 DEF OwnInv, OwnReads
  <2> QED BY <1>1, <2>1, <2>2 DEF OwnInv, ScoredOnOwnData, MeasuredOnOwnData
<1>2. CASE Collect
  <2> DEFINE q == Pipeline[work.calls + 1]
             v == Asked(work, q)
             next == IF work.mode = "B2" THEN "turn"
                     ELSE IF work.calls + 1 = Len(Pipeline) THEN "report" ELSE "collect"
  <2>1. work.calls + 1 \in 1 .. Len(Pipeline)
    BY <1>2 DEF Collect, Working, TypeInv, WorkOK, Jobs
  <2>2. q \in Queries
    BY <2>1, QueriesTyped, ElementOf
  <2>3. v \in Jobs /\ v.job = work.job /\ v.reads = work.reads \cup {Source(q)}
    BY <1>0, <1>2, <2>2, Answered DEF Collect, TypeInv
  <2>4. work' = [v EXCEPT !.pc = next]
    BY <1>2 DEF Collect
  <2>5. ~crossed[Worker] /\ work.job \in Evaluations => Source(q) \in {at[Worker].data, Listed}
    BY <1>2, ReadsOwn DEF Collect
  <2> HIDE DEF v, next, q
  <2>6. work'.job = v.job /\ work'.reads = v.reads
    BY <2>3, <2>4 DEF Jobs
  <2> QED BY <1>1, <1>2, <2>3, <2>5, <2>6 DEF Collect, fileVars
<1>3. ASSUME NEW answered \in BOOLEAN, NEW q \in Probes, NEW next \in {"turn", "report"},
             Turn(answered, q, next)
      PROVE  OwnInv'
  <2> DEFINE u == Decide(work, answered)
             v == Asked(u, q)
  <2>1. u \in Jobs /\ u.job = work.job /\ u.reads = work.reads
    BY <1>0, Decided
  <2> HIDE DEF u
  <2>2. v \in Jobs /\ v.job = u.job /\ v.reads = u.reads \cup {Source(q)}
    BY <1>3, <2>1, Answered, QueriesTyped DEF Turn, TypeInv
  <2>3. work' = [v EXCEPT !.pc = next]
    BY <1>3 DEF Turn, u
  <2>4. ~crossed[Worker] /\ work.job \in Evaluations => Source(q) \in {at[Worker].data, Listed}
    BY <1>3, ReadsOwn DEF Turn
  <2> HIDE DEF v
  <2>5. work'.job = v.job /\ work'.reads = v.reads
    BY <2>2, <2>3 DEF Jobs
  <2> QED BY <1>1, <1>3, <2>1, <2>2, <2>4, <2>5 DEF Turn, fileVars
<1>4. ASSUME NEW answered \in BOOLEAN, Conclude(answered) \/ Correct(answered) \/ Report(answered)
      PROVE  OwnInv'
  BY <1>0, <1>1, <1>4, Considered DEF Conclude, Correct, Report, fileVars
<1>5. CASE Raise
  <2>1. CASE work.job \in Runs
    <3>1. \A b \in Writers : Own(b)'
      BY <1>0, <1>5, <2>1, LeaveOwn DEF Raise, OwnInv, TypeInv
    <3>2. work'.job \notin Evaluations
      BY <1>5, <2>1, IdleIsJob DEF Raise, BatchAssumption
    <3> QED BY <1>5, <3>1, <3>2 DEF Raise, OwnInv, OwnReads, ScoredOnOwnData, MeasuredOnOwnData
  <2>2. CASE work.job \notin Runs
    <3>1. work' = [work EXCEPT !.pc = "reported", !.completed = FALSE,
                               !.asked = {}, !.reads = {}, !.refs = {}]
      BY <1>5, <2>2 DEF Raise
    <3>2. work'.job = work.job /\ work'.reads = {}
      BY <1>0, <3>1 DEF Jobs
    <3> QED BY <1>1, <1>5, <2>2, <3>2 DEF Raise
  <2> QED BY <2>1, <2>2
<1> QED BY <1>2, <1>3, <1>4, <1>5 DEF Diagnose

\* The end of a run, a scenario or an evaluation.
LEMMA SettledOwn ==
  ASSUME TypeInv, OwnInv, BatchAssumption,
         PersistRun \/ Score \/ TruthUnreadable \/ Aggregate \/ WorkerDies
  PROVE  OwnInv'
<1>0. Worker \in Writers /\ Worker \notin Clients
  BY DEF Writers, BatchAssumption
<1>1. ASSUME work' = Idle, Leave(Worker), UNCHANGED <<disk, incident>>,
             \A e \in Evaluations : results'[e] = results[e] \/ results'[e] = <<>>
      PROVE  OwnInv'
  <2>1. \A b \in Writers : Own(b)'
    BY <1>0, <1>1, LeaveOwn DEF OwnInv, TypeInv
  <2>2. OwnReads'
    BY <1>1, IdleIsJob DEF OwnReads, Blank
  <2>3. ScoredOnOwnData'
    BY <1>1 DEF OwnInv, ScoredOnOwnData
  <2> QED BY <1>1, <2>1, <2>2, <2>3 DEF OwnInv, MeasuredOnOwnData
<1>2. CASE PersistRun
  BY <1>1, <1>2 DEF PersistRun
<1>3. CASE TruthUnreadable
  BY <1>1, <1>3 DEF TruthUnreadable, TypeInv, RowsOK
<1>4. CASE WorkerDies
  BY <1>1, <1>4 DEF WorkerDies, TypeInv, RowsOK
<1>5. CASE Aggregate
  <2>1. work'.job \notin Evaluations
    BY <1>5, IdleIsJob DEF Aggregate, BatchAssumption
  <2>2. \A b \in Writers : Own(b)'
    BY <1>5, <2>1, <1>0 DEF Aggregate, fileVars, OwnInv, Own
  <2> QED BY <1>5, <2>1, <2>2
          DEF Aggregate, OwnInv, OwnReads, ScoredOnOwnData, MeasuredOnOwnData
<1>6. CASE Score
  <2>1. \A b \in Writers : Own(b)'
    <3>1. CASE Len(work.todo) > 1
      BY <1>0, <1>6, <3>1, BeginOwn DEF Score, BeginScenario, OwnInv, TypeInv
    <3>2. CASE ~(Len(work.todo) > 1)
      BY <1>0, <1>6, <3>2, LeaveOwn DEF Score, OwnInv, TypeInv
    <3> QED BY <3>1, <3>2
  <2>2. work'.reads = {}
    BY <1>6 DEF Score, BeginScenario, Fresh
  <2>3. Own(Worker) /\ at[Worker] # Away /\ at[Worker].phase = "written" /\ OwnReads
    BY <1>0, <1>6 DEF Score, Working, OwnInv, Away
  <2> DEFINE r == Result
             e == work.job
  <2>4. r.crossed \/ (r.truth = r.data /\ r.reads \subseteq {r.data, Listed})
    <3>1. ~crossed[Worker] => /\ disk[at[Worker].kind]["truth"] = at[Worker].data
                              /\ work.reads \subseteq {at[Worker].data, Listed}
      BY <1>6, <2>3 DEF Own, OwnReads, Score
    <3> QED BY <3>1 DEF Result
  <2>5. results' = [results EXCEPT ![e] = Append(results[e], r)] /\ e \in Evaluations
        /\ results[e] \in Seq(Results)
    BY <1>6 DEF Score, TypeInv, RowsOK
  <2> HIDE DEF r, e
  <2>6. ScoredOnOwnData'
    <3> SUFFICES ASSUME NEW x \in Evaluations, NEW i \in DOMAIN results'[x]
                 PROVE  LET t == results'[x][i] IN
                        t.crossed \/ (t.truth = t.data /\ t.reads \subseteq {t.data, Listed})
      BY DEF ScoredOnOwnData
    <3>1. CASE x = e
      <4>1. DOMAIN results[e] = 1 .. Len(results[e])
        BY <2>5
      <4>2. i \in 1 .. Len(results[e]) + 1 /\ results'[x] = Append(results[e], r)
        BY <2>5, <3>1 DEF TypeInv, RowsOK
      <4>3. CASE i = Len(results[e]) + 1
        <5>1. results'[x][i] = r
          BY <2>5, <4>2, <4>3
        <5> QED BY <2>4, <5>1
      <4>4. CASE i # Len(results[e]) + 1
        <5>1. i \in DOMAIN results[e] /\ results'[x][i] = results[e][i]
          BY <2>5, <4>1, <4>2, <4>4
        <5> QED BY <2>5, <5>1 DEF OwnInv, ScoredOnOwnData
      <4> QED BY <4>3, <4>4
    <3>2. CASE x # e
      <4>1. results'[x] = results[x]
        BY <2>5, <3>2 DEF TypeInv, RowsOK
      <4> QED BY <4>1 DEF OwnInv, ScoredOnOwnData
    <3> QED BY <3>1, <3>2
  <2> QED BY <1>6, <2>1, <2>2, <2>6 DEF Score, OwnInv, OwnReads, MeasuredOnOwnData
<1> QED BY <1>2, <1>3, <1>4, <1>5, <1>6

\* Every step keeps it.
LEMMA OwnPreserved ==
  ASSUME TypeInv, BatchAssumption, OwnInv, [Next]_vars PROVE OwnInv'
<1>1. CASE UNCHANGED vars
  BY <1>1 DEF vars, fileVars, storeVars, OwnInv, Own, OwnReads, ScoredOnOwnData, MeasuredOnOwnData
<1>2. CASE \E c \in setup.clients : ClientStep(c)
  BY <1>2, TruncateOwn, FillOwn, ClientOwn DEF ClientStep, Writers, BatchAssumption, TypeInv, RowsOK
<1>3. CASE WorkerStep
  BY <1>3, TruncateOwn, FillOwn, StartOwn, DiagnoseOwn, SettledOwn DEF WorkerStep, Writers
<1> QED BY <1>1, <1>2, <1>3 DEF Next

\* It holds at the start.
LEMMA InitOwn == Init => OwnInv
<1> SUFFICES ASSUME Init PROVE OwnInv
  OBVIOUS
<1>1. \A a \in Writers : Own(a)
  BY DEF Init, Own
<1>2. OwnReads
  BY IdleIsJob DEF Init, OwnReads, Blank
<1> QED BY <1>1, <1>2 DEF Init, OwnInv, ScoredOnOwnData, MeasuredOnOwnData

\* Whatever the interleaving of an evaluation, diagnosis runs and requests that
\* write the same files, and wherever any of them dies: an incident is measured,
\* and a scenario diagnosed and scored, on the data generated for it, unless a
\* writer of the same kind came in between.
THEOREM OwnData == Spec => []RestsOnOwnData
<1>1. Init => TypeInv /\ OwnInv
  BY InitTyped, InitOwn, BatchAssumption
<1>2. TypeInv /\ OwnInv /\ [Next]_vars => TypeInv' /\ OwnInv'
  BY TypePreserved, OwnPreserved, BatchAssumption
<1>3. OwnInv => RestsOnOwnData
  BY DEF OwnInv, RestsOnOwnData
<1> QED BY <1>1, <1>2, <1>3, PTL DEF Spec

-----------------------------------------------------------------------------
(* The artifacts of a run.  The keys count its calls, so no call replaces  *)
(* the object of an earlier one, and nobody but the worker stores.         *)

RefsInv ==
  \A ref \in work.refs :
    ref.key \in DOMAIN objects /\ objects[ref.key] = ref.bytes /\ ref.key[1] < work.calls

\* A call stores under a key no earlier call of its run has.
LEMMA AskedKeepsRefs ==
  ASSUME TypeInv, BatchAssumption, RefsInv, NEW w \in Jobs, NEW q \in Queries, NEW pc, Working(pc),
         w.refs = work.refs, w.calls = work.calls, w.job = work.job, Store(q),
         NEW v \in Jobs, v.calls = Asked(w, q).calls, v.refs = Asked(w, q).refs
  PROVE  \A ref \in v.refs :
           ref.key \in DOMAIN objects' /\ objects'[ref.key] = ref.bytes /\ ref.key[1] < v.calls
<1> DEFINE key == Key(work.calls, q)
           new == {key : j \in {work.job} \cap Stores}
           ref0 == [key |-> key, bytes |-> Answer(q)]
<1>1. /\ v.calls = work.calls + 1 /\ work.calls \in Nat
      /\ v.refs \subseteq work.refs \cup {ref0}
      /\ work.job \notin Stores => v.refs = work.refs
  <2>1. work.calls \in Nat
    BY DEF TypeInv, WorkOK, Jobs
  <2>2. /\ Asked(w, q).calls = w.calls + 1
        /\ Asked(w, q).refs \subseteq w.refs \cup {[key |-> Key(w.calls, q), bytes |-> Answer(q)]}
        /\ w.job \notin Stores => Asked(w, q).refs = w.refs
    BY Answered DEF TypeInv
  <2> QED BY <2>1, <2>2
<1>2. objects' = [k \in DOMAIN objects \cup new |-> IF k \in new THEN Answer(q) ELSE objects[k]]
  BY DEF Store
<1>3. key[1] = work.calls
  BY DEF Key
<1>4. new \subseteq {key} /\ (work.job \in Stores => new = {key})
  OBVIOUS
<1>5. ref0.key = key /\ ref0.bytes = Answer(q)
  OBVIOUS
<1> HIDE DEF key, new, ref0
<1>6. ASSUME NEW ref \in work.refs
      PROVE  ref.key \in DOMAIN objects' /\ objects'[ref.key] = ref.bytes /\ ref.key[1] < v.calls
  <2>1. ref.key \in DOMAIN objects /\ objects[ref.key] = ref.bytes /\ ref.key[1] < work.calls
    BY <1>6 DEF RefsInv
  <2>2. ref \in Refs
    BY <1>6 DEF TypeInv, WorkOK, Jobs
  <2>3. ref.key[1] \in Nat
    BY <2>2 DEF Refs
  <2>4. ref.key # key
    BY <1>1, <1>3, <2>1, <2>3
  <2> QED BY <1>1, <1>2, <1>4, <2>1, <2>3, <2>4
<1>7. work.job \in Stores =>
        ref0.key \in DOMAIN objects' /\ objects'[ref0.key] = ref0.bytes /\ ref0.key[1] < v.calls
  BY <1>1, <1>2, <1>3, <1>4, <1>5
<1> QED BY <1>1, <1>6, <1>7

\* Every step keeps the references of the run under way.
LEMMA RefsPreserved ==
  ASSUME TypeInv, BatchAssumption, RefsInv, [Next]_vars PROVE RefsInv'
<1>0. work \in Jobs
  BY DEF TypeInv, WorkOK
<1>1. ASSUME objects' = objects, work'.refs = work.refs, work'.calls = work.calls PROVE RefsInv'
  BY <1>1 DEF RefsInv
<1>2. ASSUME work'.refs = {} PROVE RefsInv'
  BY <1>2 DEF RefsInv
<1>3. CASE UNCHANGED vars
  BY <1>1, <1>3 DEF vars, storeVars
<1>4. CASE \E c \in setup.clients : ClientStep(c)
  <2>1. UNCHANGED <<objects, work>>
    BY <1>4 DEF ClientStep, Simulate, Truncate, Fill, CreateIncident, RequestDies, storeVars
  <2> QED BY <1>1, <2>1
<1>5. CASE \/ \E e \in setup.evaluations, mode \in setup.modes, order \in setup.orders, d \in Data :
                StartEvaluation(e, mode, order, d)
           \/ \E r \in Runs, c \in Clients : StartRun(r, c)
  <2>1. work'.refs = {}
    BY <1>5 DEF StartEvaluation, BeginScenario, StartRun, Fresh
  <2> QED BY <1>2, <2>1
<1>6. CASE Truncate(Worker) \/ Fill(Worker)
  BY <1>1, <1>6 DEF Truncate, Fill, storeVars
<1>7. CASE PersistRun \/ Score \/ TruthUnreadable \/ Aggregate \/ WorkerDies
  <2>1. work'.refs = {}
    BY <1>7, IdleIsJob
       DEF PersistRun, Score, BeginScenario, TruthUnreadable, Aggregate, WorkerDies, Fresh, Blank
  <2> QED BY <1>2, <2>1
<1>8. CASE Diagnose
  <2>1. CASE Collect
    <3> DEFINE q == Pipeline[work.calls + 1]
               v == Asked(work, q)
               next == IF work.mode = "B2" THEN "turn"
                       ELSE IF work.calls + 1 = Len(Pipeline) THEN "report" ELSE "collect"
    <3>1. work.calls + 1 \in 1 .. Len(Pipeline)
      BY <2>1 DEF Collect, Working, TypeInv, WorkOK, Jobs
    <3>2. q \in Queries
      BY <3>1, QueriesTyped, ElementOf
    <3>3. v \in Jobs
      BY <1>0, <2>1, <3>2, Answered DEF Collect, TypeInv
    <3>4. work' = [v EXCEPT !.pc = next] /\ Store(q) /\ Working("collect") /\ next \in Busy
      BY <2>1 DEF Collect, Busy
    <3> HIDE DEF v, next, q
    <3>5. work' \in Jobs /\ work'.calls = v.calls /\ work'.refs = v.refs
      BY <3>3, <3>4 DEF Jobs
    <3>6. \A ref \in work'.refs :
            ref.key \in DOMAIN objects' /\ objects'[ref.key] = ref.bytes /\ ref.key[1] < work'.calls
      BY <1>0, <3>2, <3>4, <3>5, AskedKeepsRefs DEF v
    <3> QED BY <3>6 DEF RefsInv
  <2>2. ASSUME NEW answered \in BOOLEAN, NEW q \in Probes, NEW next \in {"turn", "report"},
               Turn(answered, q, next)
        PROVE  RefsInv'
    <3> DEFINE u == Decide(work, answered)
               v == Asked(u, q)
    <3>1. u \in Jobs /\ u.job = work.job /\ u.refs = work.refs /\ u.calls = work.calls
      BY <1>0, Decided
    <3>2. work' = [v EXCEPT !.pc = next] /\ Store(q) /\ Working("turn") /\ q \in Queries
      BY <2>2, QueriesTyped DEF Turn
    <3> HIDE DEF u
    <3>3. v \in Jobs
      BY <3>1, <3>2, Answered DEF TypeInv
    <3> HIDE DEF v
    <3>4. work' \in Jobs /\ work'.calls = v.calls /\ work'.refs = v.refs
      BY <3>2, <3>3 DEF Jobs, Busy
    <3>5. \A ref \in work'.refs :
            ref.key \in DOMAIN objects' /\ objects'[ref.key] = ref.bytes /\ ref.key[1] < work'.calls
      BY <3>1, <3>2, <3>4, AskedKeepsRefs DEF v
    <3> QED BY <3>5 DEF RefsInv
  <2>3. ASSUME NEW answered \in BOOLEAN, Conclude(answered) \/ Correct(answered) \/ Report(answered)
        PROVE  RefsInv'
    BY <1>0, <1>1, <2>3, Considered DEF Conclude, Correct, Report, storeVars
  <2>4. CASE Raise
    <3>1. work'.refs = {}
      BY <1>0, <2>4, IdleIsJob DEF Raise, Blank, Jobs
    <3> QED BY <1>2, <3>1
  <2> QED BY <1>8, <2>1, <2>2, <2>3, <2>4 DEF Diagnose
<1> QED BY <1>3, <1>4, <1>5, <1>6, <1>7, <1>8 DEF Next, WorkerStep

\* When a diagnosis run records its artifacts, the object behind each reference is
\* the result the call stored, for any number of calls: only what happens after
\* the run can change what its references lead to.
THEOREM ArtifactsMatch == Spec => ArtifactsMatchWhenRecorded
<1>1. Init => TypeInv /\ RefsInv
  BY InitTyped, BatchAssumption, IdleIsJob DEF Init, RefsInv, Blank
<1>2. TypeInv /\ RefsInv /\ [Next]_vars => TypeInv' /\ RefsInv'
  BY TypePreserved, RefsPreserved, BatchAssumption
<1>3. TypeInv /\ RefsInv /\ [Next]_vars =>
        [\A r \in Runs : records'[r] # records[r] =>
           \A ref \in records'[r] : objects[ref.key] = ref.bytes]_vars
  <2> SUFFICES ASSUME RefsInv, Next, NEW r \in Runs, records'[r] # records[r], NEW ref \in records'[r]
               PROVE  objects[ref.key] = ref.bytes
    OBVIOUS
  <2>1. PersistRun
    BY DEF Next, ClientStep, WorkerStep, Diagnose, Simulate, Truncate, Fill, CreateIncident,
           RequestDies, StartEvaluation, StartRun, Collect, Turn, Conclude, Correct, Report, Raise,
           Score, TruthUnreadable, Aggregate, WorkerDies, storeVars
  <2>2. records' = [records EXCEPT ![work.job] = work.refs]
    BY <2>1 DEF PersistRun
  <2>3. records'[r] = work.refs
    BY <2>2
  <2> QED BY <2>3 DEF RefsInv
<1> QED BY <1>1, <1>2, <1>3, PTL DEF Spec, ArtifactsMatchWhenRecorded

\* The keys of recorded artifacts: nothing is ever deleted from the store.
KeysKept ==
  /\ records = [r \in Runs |-> records[r]]
  /\ \A r \in Runs : records[r] # None => \A ref \in records[r] : ref.key \in DOMAIN objects

\* A recorded key names an object for good.
LEMMA KeysPreserved ==
  ASSUME TypeInv, BatchAssumption, RefsInv, KeysKept, [Next]_vars PROVE KeysKept'
<1>1. \/ UNCHANGED records
      \/ records' = [records EXCEPT ![work.job] = work.refs] /\ objects' = objects
  BY DEF Next, ClientStep, WorkerStep, Diagnose, Simulate, Truncate, Fill, CreateIncident,
         RequestDies, StartEvaluation, StartRun, Collect, Turn, Conclude, Correct, Report, Raise,
         PersistRun, Score, TruthUnreadable, Aggregate, WorkerDies, storeVars, vars
<1>2. DOMAIN objects \subseteq DOMAIN objects'
  <2>1. \/ objects' = objects
        \/ \E q : Store(q)
    BY DEF Next, ClientStep, WorkerStep, Diagnose, Simulate, Truncate, Fill, CreateIncident,
           RequestDies, StartEvaluation, StartRun, Collect, Turn, Conclude, Correct, Report, Raise,
           PersistRun, Score, TruthUnreadable, Aggregate, WorkerDies, storeVars, vars
  <2> QED BY <2>1 DEF Store
<1>3. ASSUME NEW r \in Runs, records'[r] # None, NEW ref \in records'[r]
      PROVE  ref.key \in DOMAIN objects'
  <2>1. CASE records'[r] = records[r]
    BY <1>2, <1>3, <2>1 DEF KeysKept
  <2>2. CASE records'[r] = work.refs /\ objects' = objects
    BY <1>3, <2>2 DEF RefsInv
  <2>3. records'[r] = records[r] \/ (records'[r] = work.refs /\ objects' = objects)
    BY <1>1 DEF KeysKept
  <2> QED BY <2>1, <2>2, <2>3
<1>4. records' = [r \in Runs |-> records'[r]]
  BY <1>1 DEF KeysKept
<1> QED BY <1>3, <1>4 DEF KeysKept

\* The variables keep their types, and the references of committed runs name
\* objects that exist.
THEOREM TypesCorrect == Spec => []TypeOK
<1>1. Init => TypeInv /\ RefsInv /\ KeysKept
  BY InitTyped, BatchAssumption, IdleIsJob DEF Init, RefsInv, Blank, KeysKept
<1>2. TypeInv /\ RefsInv /\ KeysKept /\ [Next]_vars => TypeInv' /\ RefsInv' /\ KeysKept'
  BY TypePreserved, RefsPreserved, KeysPreserved, BatchAssumption
<1>3. TypeInv /\ KeysKept => TypeOK
  <2> SUFFICES ASSUME TypeInv, KeysKept PROVE TypeOK
    OBVIOUS
  <2>1. at \in [Writers -> [phase : {"away", "open", "fill", "written"}, kind : Kinds \cup {None},
                            file : Files, data : Data \cup {Absent}]]
    BY DEF TypeInv, FilesOK, Places, Away, Files
  <2>2. /\ work.job \in Evaluations \cup Runs \cup {None} /\ work.mode \in Modes
        /\ work.todo \in Seq(Kinds) /\ work.asked \subseteq Queries
    BY DEF TypeInv, WorkOK, Jobs
  <2> QED BY <2>1, <2>2 DEF TypeOK, KeysKept, TypeInv, FilesOK, RowsOK, Contents
<1> QED BY <1>1, <1>2, <1>3, PTL DEF Spec

-----------------------------------------------------------------------------
(* Model use.  In an investigation a failed call marks the policy, and one *)
(* was made before the report; the mark outlives the scenario, so its      *)
(* cause is looked for in the earlier ones too.                            *)

Behind ==
  work.failed \/ \E i \in DOMAIN results[work.job] : results[work.job][i].failed

ModelInv ==
  /\ work.model /\ ~work.fallback => work.reached
  /\ work.mode = "B2" /\ work.pc = "report" => work.reached \/ work.failed
  /\ work.mode = "B2" /\ work.failed => fell
  /\ work.job \in Evaluations /\ fell => Behind
  /\ work.job \in Evaluations /\ work.fallback => Behind

ScoresInv == InvocationsReached /\ FallbacksEarned

\* A job begins with nothing decided, and a policy that has not fallen.
LEMMA BlankModel ==
  ASSUME Blank(work)', ~fell' \/ work'.job \notin Evaluations, work'.pc # "report"
  PROVE  ModelInv'
BY DEF Blank, ModelInv

\* The steps that ask the model.
LEMMA DecidesModel ==
  ASSUME TypeInv, BatchAssumption, ModelInv, UNCHANGED results,
         \/ Collect
         \/ \E answered \in BOOLEAN :
              \/ \E q \in Probes, next \in {"turn", "report"} : Turn(answered, q, next)
              \/ Conclude(answered) \/ Correct(answered) \/ Report(answered)
  PROVE  ModelInv'
<1>0. work \in Jobs /\ fell \in BOOLEAN
      /\ work.reached \in BOOLEAN /\ work.failed \in BOOLEAN /\ work.model \in BOOLEAN
      /\ work.fallback \in BOOLEAN
  BY DEF TypeInv, WorkOK, RowsOK, Jobs
<1>1. CASE Collect
  <2> DEFINE q == Pipeline[work.calls + 1]
             v == Asked(work, q)
             next == IF work.mode = "B2" THEN "turn"
                     ELSE IF work.calls + 1 = Len(Pipeline) THEN "report" ELSE "collect"
  <2>1. work.calls + 1 \in 1 .. Len(Pipeline)
    BY <1>1 DEF Collect, Working, TypeInv, WorkOK, Jobs
  <2>2. q \in Queries
    BY <2>1, QueriesTyped, ElementOf
  <2>3. v \in Jobs /\ v.job = work.job /\ v.mode = work.mode /\ v.reached = work.reached
        /\ v.failed = work.failed /\ v.model = work.model /\ v.fallback = work.fallback
    BY <1>0, <1>1, <2>2, Answered DEF Collect, TypeInv
  <2>4. work' = [v EXCEPT !.pc = next] /\ fell' = fell
    BY <1>1 DEF Collect
  <2>5. work.mode = "B2" => next # "report"
    OBVIOUS
  <2> HIDE DEF v, next, q
  <2>6. work'.job = v.job /\ work'.mode = v.mode /\ work'.reached = v.reached /\ work'.pc = next
        /\ work'.failed = v.failed /\ work'.model = v.model /\ work'.fallback = v.fallback
    BY <2>3, <2>4 DEF Jobs
  <2> QED BY <2>3, <2>4, <2>5, <2>6 DEF ModelInv, Behind
<1>2. ASSUME NEW answered \in BOOLEAN, NEW q \in Probes, NEW next \in {"turn", "report"},
             Turn(answered, q, next)
      PROVE  ModelInv'
  <2> DEFINE u == Decide(work, answered)
             v == Asked(u, q)
  <2>1. u \in Jobs /\ u.job = work.job /\ u.mode = work.mode
        /\ (u.reached <=> work.reached \/ answered) /\ (u.failed <=> work.failed \/ ~answered)
        /\ u.model = work.model /\ u.fallback = work.fallback
    <3>1. work \in Jobs
      BY <1>0
    <3>2. u \in Jobs /\ u.job = work.job /\ u.mode = work.mode
          /\ u.model = work.model /\ u.fallback = work.fallback
      BY <3>1, Decided
    <3>3. u.reached <=> work.reached \/ answered
      BY <3>1, Decided
    <3>4. u.failed <=> work.failed \/ ~answered
      BY <3>1, Decided
    <3> HIDE DEF u
    <3> QED BY <3>2, <3>3, <3>4
  <2>2. work' = [v EXCEPT !.pc = next] /\ fell' = (fell \/ ~answered)
    BY <1>2 DEF Turn, Noted
  <2> HIDE DEF u
  <2>3. v \in Jobs /\ v.job = u.job /\ v.mode = u.mode /\ v.reached = u.reached
        /\ v.failed = u.failed /\ v.model = u.model /\ v.fallback = u.fallback
    BY <1>2, <2>1, Answered, QueriesTyped DEF Turn, TypeInv
  <2> HIDE DEF v
  <2>4. work'.job = v.job /\ work'.mode = v.mode /\ work'.reached = v.reached /\ work'.pc = next
        /\ work'.failed = v.failed /\ work'.model = v.model /\ work'.fallback = v.fallback
    BY <2>2, <2>3 DEF Jobs
  <2> QED BY <1>0, <2>1, <2>2, <2>3, <2>4 DEF ModelInv, Behind
<1>3. ASSUME NEW answered \in BOOLEAN, Conclude(answered) \/ Correct(answered)
      PROVE  ModelInv'
  <2> DEFINE u == Decide(work, answered)
  <2>1. u \in Jobs /\ u.job = work.job /\ u.mode = work.mode /\ u.pc = work.pc
        /\ (u.reached <=> work.reached \/ answered) /\ (u.failed <=> work.failed \/ ~answered)
        /\ u.model = work.model /\ u.fallback = work.fallback
    <3>1. work \in Jobs
      BY <1>0
    <3>2. u \in Jobs /\ u.job = work.job /\ u.mode = work.mode /\ u.pc = work.pc
          /\ u.model = work.model /\ u.fallback = work.fallback
      BY <3>1, Decided
    <3>3. u.reached <=> work.reached \/ answered
      BY <3>1, Decided
    <3>4. u.failed <=> work.failed \/ ~answered
      BY <3>1, Decided
    <3> HIDE DEF u
    <3> QED BY <3>2, <3>3, <3>4
  <2> HIDE DEF u
  <2>2. CASE Conclude(answered)
    <3>1. PICK next \in {"turn", "report"} :
            work' = [u EXCEPT !.pc = next] /\ fell' = (fell \/ ~answered)
      BY <2>2 DEF Conclude, Noted, u
    <3>2. work'.job = u.job /\ work'.mode = u.mode /\ work'.reached = u.reached
          /\ work'.failed = u.failed /\ work'.model = u.model /\ work'.fallback = u.fallback
      BY <2>1, <3>1 DEF Jobs
    <3> QED BY <1>0, <2>1, <3>1, <3>2 DEF ModelInv, Behind
  <2>3. CASE Correct(answered)
    <3>1. work' = u /\ fell' = fell /\ work.mode = "B1"
      BY <2>3 DEF Correct, u
    <3> QED BY <1>0, <2>1, <3>1 DEF ModelInv, Behind
  <2> QED BY <1>3, <2>2, <2>3
<1>4. ASSUME NEW answered \in BOOLEAN, Report(answered) PROVE ModelInv'
  <2> DEFINE u == IF work.mode = "B1" THEN Decide(work, answered) ELSE work
  <2>1. /\ u \in Jobs /\ u.job = work.job /\ u.mode = work.mode
        /\ work.mode = "B1" => /\ u.reached <=> work.reached \/ answered
                               /\ u.failed <=> work.failed \/ ~answered
        /\ work.mode # "B1" => u = work
    <3>1. CASE work.mode = "B1"
      <4> DEFINE v == Decide(work, answered)
      <4>1. work \in Jobs
        BY <1>0
      <4>2. v \in Jobs /\ v.job = work.job /\ v.mode = work.mode
        BY <4>1, Decided
      <4>3. v.reached <=> work.reached \/ answered
        BY <4>1, Decided
      <4>4. v.failed <=> work.failed \/ ~answered
        BY <4>1, Decided
      <4>5. u = v
        BY <3>1
      <4> HIDE DEF u, v
      <4> QED BY <3>1, <4>2, <4>3, <4>4, <4>5
    <3>2. CASE work.mode # "B1"
      <4>1. u = work
        BY <3>2
      <4> HIDE DEF u
      <4> QED BY <1>0, <3>2, <4>1
    <3> QED BY <3>1, <3>2
  <2>2. /\ work' = [u EXCEPT !.pc = "reported", !.model = NamesModel(answered),
                             !.fallback = FellBack(answered)]
        /\ fell' = fell /\ work.pc = "report"
    BY <1>4 DEF Report, Working
  <2> HIDE DEF u
  <2>3. work'.job = u.job /\ work'.mode = u.mode /\ work'.reached = u.reached
        /\ work'.failed = u.failed /\ work'.pc = "reported"
        /\ work'.model = NamesModel(answered) /\ work'.fallback = FellBack(answered)
    BY <2>1, <2>2 DEF Jobs
  <2>4. CASE work.mode = "B1"
    BY <1>0, <2>1, <2>2, <2>3, <2>4 DEF ModelInv, Behind, NamesModel, FellBack
  <2>5. CASE work.mode = "B2"
    BY <1>0, <2>1, <2>2, <2>3, <2>5 DEF ModelInv, Behind, NamesModel, FellBack
  <2>6. CASE work.mode = "B0"
    BY <1>0, <2>1, <2>2, <2>3, <2>6 DEF ModelInv, Behind, NamesModel, FellBack
  <2>7. work.mode \in Modes
    BY <1>0 DEF Jobs
  <2> QED BY <2>4, <2>5, <2>6, <2>7 DEF Modes
<1> QED BY <1>1, <1>2, <1>3, <1>4

\* The steps that end something.
LEMMA SettlesModel ==
  ASSUME TypeInv, BatchAssumption, ModelInv,
         Raise \/ PersistRun \/ Score \/ TruthUnreadable \/ Aggregate \/ WorkerDies
  PROVE  ModelInv'
<1>0. work \in Jobs
  BY DEF TypeInv, WorkOK
<1>1. ASSUME work' = Idle PROVE ModelInv'
  BY <1>1, IdleIsJob, BlankModel DEF BatchAssumption
<1>2. CASE Raise /\ work.job \notin Runs
  <2>1. work' = [work EXCEPT !.pc = "reported", !.completed = FALSE,
                             !.asked = {}, !.reads = {}, !.refs = {}]
        /\ fell' = fell /\ results' = results
    BY <1>2 DEF Raise
  <2>2. /\ work'.job = work.job /\ work'.mode = work.mode /\ work'.pc = "reported"
        /\ work'.reached = work.reached /\ work'.failed = work.failed
        /\ work'.model = work.model /\ work'.fallback = work.fallback
    BY <1>0, <2>1 DEF Jobs
  <2> QED BY <2>1, <2>2 DEF ModelInv, Behind
<1>3. CASE Score
  <2> DEFINE e == work.job
             r == Result
  <2>1. results' = [results EXCEPT ![e] = Append(results[e], r)] /\ fell' = fell
        /\ e \in Evaluations /\ results[e] \in Seq(Results)
    BY <1>3 DEF Score, TypeInv, RowsOK
  <2>2. r.failed = work.failed
    BY DEF Result
  <2>3. work'.job = e /\ Blank(work)' /\ work'.pc # "report"
    BY <1>3 DEF Score, BeginScenario, Fresh, Blank
  <2>4. ASSUME fell PROVE Behind'
    <3> HIDE DEF e, r
    <3>1. results'[e] = Append(results[e], r)
      BY <2>1 DEF TypeInv, RowsOK
    <3>2. DOMAIN results'[e] = 1 .. Len(results[e]) + 1 /\ results'[e][Len(results[e]) + 1] = r
          /\ \A i \in DOMAIN results[e] : i \in DOMAIN results'[e] /\ results'[e][i] = results[e][i]
      BY <2>1, <3>1
    <3>3. Len(results[e]) + 1 \in DOMAIN results'[e]
      BY <2>1, <3>2
    <3>4. Behind
      BY <2>1, <2>4 DEF ModelInv, e
    <3>5. CASE work.failed
      BY <2>2, <2>3, <3>2, <3>3, <3>5 DEF Behind
    <3>6. CASE \E i \in DOMAIN results[e] : results[e][i].failed
      BY <2>3, <3>2, <3>6 DEF Behind
    <3> QED BY <3>4, <3>5, <3>6 DEF Behind, e
  <2> QED BY <2>1, <2>3, <2>4 DEF ModelInv, Blank
<1> QED BY <1>1, <1>2, <1>3 DEF Raise, PersistRun, TruthUnreadable, Aggregate, WorkerDies

\* Every step keeps what is behind a mark.
LEMMA ModelPreserved ==
  ASSUME TypeInv, BatchAssumption, ModelInv, [Next]_vars PROVE ModelInv'
<1>1. CASE UNCHANGED <<work, fell, results>>
  BY <1>1 DEF ModelInv, Behind
<1>2. CASE UNCHANGED vars
  BY <1>1, <1>2 DEF vars
<1>3. CASE \E c \in setup.clients : ClientStep(c)
  BY <1>1, <1>3 DEF ClientStep, Simulate, Truncate, Fill, CreateIncident, RequestDies
<1>4. CASE Truncate(Worker) \/ Fill(Worker)
  BY <1>1, <1>4 DEF Truncate, Fill
<1>5. CASE \/ \E e \in setup.evaluations, mode \in setup.modes, order \in setup.orders, d \in Data :
                StartEvaluation(e, mode, order, d)
           \/ \E r \in Runs, c \in Clients : StartRun(r, c)
  <2>1. Blank(work)' /\ ~fell' /\ work'.pc # "report"
    BY <1>5 DEF StartEvaluation, BeginScenario, StartRun, NewPolicy, Fresh, Blank
  <2> QED BY <2>1, BlankModel
<1>6. CASE Diagnose
  <2>1. UNCHANGED results
    BY <1>6 DEF Diagnose, Collect, Turn, Conclude, Correct, Report, Raise
  <2> QED BY <1>6, <2>1, DecidesModel, SettlesModel DEF Diagnose
<1>7. CASE PersistRun \/ Score \/ TruthUnreadable \/ Aggregate \/ WorkerDies
  BY <1>7, SettlesModel
<1> QED BY <1>2, <1>3, <1>4, <1>5, <1>6, <1>7 DEF Next, WorkerStep

\* And what is behind a score.
LEMMA ScoresPreserved ==
  ASSUME TypeInv, BatchAssumption, ModelInv, ScoresInv, [Next]_vars PROVE ScoresInv'
<1>1. ASSUME \A e \in Evaluations : results'[e] = results[e] \/ results'[e] = <<>>
      PROVE  ScoresInv'
  BY <1>1 DEF ScoresInv, InvocationsReached, FallbacksEarned
<1>2. CASE Score
  <2> DEFINE e == work.job
             r == Result
             n == Len(results[e]) + 1
  <2>1. results' = [results EXCEPT ![e] = Append(results[e], r)] /\ e \in Evaluations
        /\ results[e] \in Seq(Results)
    BY <1>2 DEF Score, TypeInv, RowsOK
  <2>2. (Invoked(r) => r.reached) /\ r.failed = work.failed /\ r.fallback = work.fallback
    BY DEF ModelInv, Result, Invoked
  <2>3. work.fallback => work.failed \/ \E i \in DOMAIN results[e] : results[e][i].failed
    BY <2>1 DEF ModelInv, Behind
  <2> HIDE DEF e, r
  <2>4. results'[e] = Append(results[e], r)
    BY <2>1 DEF TypeInv, RowsOK
  <2>5. DOMAIN results[e] = 1 .. Len(results[e]) /\ Len(results[e]) \in Nat
        /\ DOMAIN results'[e] = 1 .. n /\ n \in Nat /\ results'[e][n] = r
        /\ \A i \in DOMAIN results[e] : results'[e][i] = results[e][i]
    BY <2>1, <2>4
  <2>6. \A i \in DOMAIN results'[e] : i = n \/ i \in DOMAIN results[e]
    BY <2>5
  <2>7. \A x \in Evaluations : x # e => results'[x] = results[x]
    BY <2>1 DEF TypeInv, RowsOK
  <2>8. InvocationsReached'
    BY <2>1, <2>2, <2>5, <2>6, <2>7 DEF InvocationsReached, ScoresInv
  <2>9. FallbacksEarned'
    <3>1. ASSUME NEW i \in DOMAIN results'[e], results'[e][i].fallback
          PROVE  \E j \in 1 .. i : results'[e][j].failed
      <4>1. CASE i = n
        <5>1. n \in 1 .. n /\ \A j \in DOMAIN results[e] : j \in 1 .. n
          BY <2>5
        <5>2. work.fallback
          BY <2>2, <2>5, <3>1, <4>1
        <5>3. CASE work.failed
          BY <2>2, <2>5, <4>1, <5>1, <5>3
        <5>4. CASE \E j \in DOMAIN results[e] : results[e][j].failed
          BY <2>5, <4>1, <5>1, <5>4
        <5> QED BY <2>3, <5>2, <5>3, <5>4
      <4>2. CASE i \in DOMAIN results[e]
        <5>1. results[e][i].fallback
          BY <2>5, <3>1, <4>2
        <5>2. PICK j \in 1 .. i : results[e][j].failed
          BY <2>1, <4>2, <5>1 DEF ScoresInv, FallbacksEarned
        <5>3. j \in DOMAIN results[e]
          BY <2>5, <4>2
        <5> QED BY <2>5, <5>2, <5>3
      <4> QED BY <2>6, <4>1, <4>2
    <3>2. ASSUME NEW x \in Evaluations, x # e, NEW i \in DOMAIN results'[x], results'[x][i].fallback
          PROVE  \E j \in 1 .. i : results'[x][j].failed
      BY <2>7, <3>2 DEF ScoresInv, FallbacksEarned
    <3> QED BY <3>1, <3>2 DEF FallbacksEarned
  <2> QED BY <2>8, <2>9 DEF ScoresInv
<1>3. CASE UNCHANGED vars
  BY <1>1, <1>3 DEF vars
<1>4. CASE \E c \in setup.clients : ClientStep(c)
  BY <1>1, <1>4 DEF ClientStep, Simulate, Truncate, Fill, CreateIncident, RequestDies
<1>5. CASE WorkerStep /\ ~Score
  <2>1. \A e \in Evaluations : results'[e] = results[e] \/ results'[e] = <<>>
    BY <1>5 DEF WorkerStep, Diagnose, Truncate, Fill, StartEvaluation, StartRun, Collect, Turn,
                Conclude, Correct, Report, Raise, PersistRun, TruthUnreadable, Aggregate,
                WorkerDies, TypeInv, RowsOK
  <2> QED BY <1>1, <2>1
<1> QED BY <1>2, <1>3, <1>4, <1>5 DEF Next

\* However many turns, corrections and scenarios an evaluation has: what its
\* metrics call an invocation was answered by the model in that scenario, and what
\* they call a fallback has a failed call behind it.
THEOREM ModelUse == Spec => []ModelUseEarned
<1>1. Init => TypeInv /\ ModelInv /\ ScoresInv
  <2> SUFFICES ASSUME Init PROVE ModelInv /\ ScoresInv
    BY InitTyped, BatchAssumption
  <2>1. ModelInv
    BY IdleIsJob, BatchAssumption DEF Init, ModelInv, Blank, BatchAssumption
  <2> QED BY <2>1 DEF Init, ScoresInv, InvocationsReached, FallbacksEarned
<1>2. TypeInv /\ ModelInv /\ ScoresInv /\ [Next]_vars => TypeInv' /\ ModelInv' /\ ScoresInv'
  BY TypePreserved, ModelPreserved, ScoresPreserved, BatchAssumption
<1>3. ScoresInv => ModelUseEarned
  BY DEF ScoresInv, ModelUseEarned
<1> QED BY <1>1, <1>2, <1>3, PTL DEF Spec

-----------------------------------------------------------------------------
(* The kinds asked for, each once.  Distinct folds the order of a request, *)
(* its last mention last; what it computes is found by induction over the  *)
(* set of places that were folded.                                         *)

AddNew(kinds, k) == IF k \in ToSet(kinds) THEN kinds ELSE Append(kinds, k)

\* g gives the distinct kinds at every subset of the places S.
Gathers(g, order, S) ==
  g = [s \in SUBSET S |-> IF s = {} THEN <<>> ELSE AddNew(g[s \ {Max(s)}], order[Max(s)])]

\* The kinds at the places S.
Gathered(order, S) == (CHOOSE g : Gathers(g, order, S))[S]

\* The definition, with its recursive function named.
LEMMA DistinctDef ==
  ASSUME NEW order
  PROVE  Distinct(order) = Gathered(order, DOMAIN order)
BY Zenon DEF Distinct, FoldLeft, MapThenFoldSet, Gathered, Gathers, AddNew

\* Every set of places that is not empty has a last one.
LEMMA MaxIn ==
  ASSUME NEW n \in Nat, NEW s \in SUBSET (1 .. n), s # {}
  PROVE  Max(s) \in s
<1> DEFINE Left == {n - i : i \in s}
<1>1. Left \subseteq Nat /\ Left # {}
  <2>1. \A i \in s : i \in 1 .. n
    OBVIOUS
  <2>2. \A i \in s : n - i \in Nat
    BY <2>1
  <2> QED BY <2>2
<1>2. PICK m \in Left : \A k \in Left : m <= k
  BY <1>1, LeastNatural
<1>3. PICK i \in s : m = n - i
  BY <1>2
<1>4. ASSUME NEW j \in s PROVE i >= j
  <2>1. i \in 1 .. n /\ j \in 1 .. n
    OBVIOUS
  <2>2. m <= n - j
    BY <1>2
  <2> QED BY <1>3, <2>1, <2>2
<1> QED BY <1>4 DEF Max

\* Sets of places are finite.
LEMMA PlacesFinite ==
  ASSUME NEW n \in Nat
  PROVE  \A s \in SUBSET (1 .. n) : IsFiniteSet(s)
<1>1. IsFiniteSet(1 .. n)
  BY FS_Interval
<1> QED BY <1>1, FS_Subset

\* The recursions over a set of places and over a part of it agree on the part.
LEMMA GatherUnique ==
  ASSUME NEW order, NEW n \in Nat, NEW S \in SUBSET (1 .. n), NEW T \in SUBSET S,
         NEW g, Gathers(g, order, S), NEW h, Gathers(h, order, T)
  PROVE  g[T] = h[T]
<1> DEFINE Same == {U \in SUBSET T : g[U] = h[U]}
<1>0. T \in SUBSET (1 .. n)
  OBVIOUS
<1>1. IsFiniteSet(T)
  BY <1>0, PlacesFinite
<1>2. \A U \in SUBSET S :
        g[U] = IF U = {} THEN <<>> ELSE AddNew(g[U \ {Max(U)}], order[Max(U)])
  BY Zenon DEF Gathers
<1>3. \A U \in SUBSET T :
        h[U] = IF U = {} THEN <<>> ELSE AddNew(h[U \ {Max(U)}], order[Max(U)])
  BY Zenon DEF Gathers
<1>4. ASSUME NEW U \in SUBSET T, \A V \in SUBSET U : V # U => V \in Same
      PROVE  U \in Same
  <2>0. U \in SUBSET S /\ U \in SUBSET (1 .. n)
    OBVIOUS
  <2>1. /\ g[U] = IF U = {} THEN <<>> ELSE AddNew(g[U \ {Max(U)}], order[Max(U)])
        /\ h[U] = IF U = {} THEN <<>> ELSE AddNew(h[U \ {Max(U)}], order[Max(U)])
    BY <1>2, <1>3, <2>0
  <2>2. U # {} => g[U \ {Max(U)}] = h[U \ {Max(U)}]
    <3>1. U # {} => Max(U) \in U
      BY <2>0, MaxIn
    <3> QED BY <1>4, <3>1
  <2> QED BY <2>1, <2>2
<1>5. T \in Same
  <2> HIDE DEF Same
  <2> QED BY <1>1, <1>4, SubsetInduction
<1> QED BY <1>5

\* There is such a function.
LEMMA GatherExists ==
  ASSUME NEW order, NEW n \in Nat, NEW S \in SUBSET (1 .. n)
  PROVE  \E g : Gathers(g, order, S)
<1> DEFINE Good == {T \in SUBSET S : \E g : Gathers(g, order, T)}
           Kept(s) == Gathered(order, s)
<1>0. IsFiniteSet(S)
  BY PlacesFinite
<1>1. ASSUME NEW T \in SUBSET S, \A U \in SUBSET T : U # T => U \in Good
      PROVE  T \in Good
  <2> DEFINE g == [s \in SUBSET T |->
                     IF s = {} THEN <<>> ELSE AddNew(Kept(s \ {Max(s)}), order[Max(s)])]
  <2>1. ASSUME NEW U \in SUBSET T, U # T
        PROVE  Kept(U) = g[U]
    <3>1. PICK h : h = (CHOOSE i : Gathers(i, order, U)) /\ Gathers(h, order, U)
      BY <1>1, <2>1
    <3>2. Kept(U) = h[U]
      BY <3>1 DEF Gathered
    <3>3. h[U] = IF U = {} THEN <<>> ELSE AddNew(h[U \ {Max(U)}], order[Max(U)])
      BY <3>1, Zenon DEF Gathers
    <3>4. CASE U # {}
      <4> DEFINE V == U \ {Max(U)}
      <4>0. U \in SUBSET (1 .. n)
        OBVIOUS
      <4>1. V \in SUBSET U /\ V \in SUBSET T /\ V # T
        BY <2>1, <3>4, <4>0, MaxIn
      <4>2. PICK i : i = (CHOOSE j : Gathers(j, order, V)) /\ Gathers(i, order, V)
        BY <1>1, <4>1
      <4>3. Kept(V) = i[V]
        BY <4>2 DEF Gathered
      <4>4. h[V] = i[V]
        <5> HIDE DEF V
        <5> QED BY <3>1, <4>0, <4>1, <4>2, GatherUnique
      <4> QED BY <3>2, <3>3, <3>4, <4>3, <4>4
    <3> QED BY <3>2, <3>3, <3>4
  <2>2. ASSUME NEW s \in SUBSET T, s # {}
        PROVE  g[s \ {Max(s)}] = Kept(s \ {Max(s)})
    <3>1. s \in SUBSET (1 .. n)
      OBVIOUS
    <3>2. s \ {Max(s)} \in SUBSET T /\ s \ {Max(s)} # T
      BY <2>2, <3>1, MaxIn
    <3> HIDE DEF Kept, g
    <3> QED BY <2>1, <3>2
  <2>3. Gathers(g, order, T)
    <3>1. g = [s \in SUBSET T |->
                 IF s = {} THEN <<>> ELSE AddNew(g[s \ {Max(s)}], order[Max(s)])]
      <4>1. \A s \in SUBSET T :
              (IF s = {} THEN <<>> ELSE AddNew(Kept(s \ {Max(s)}), order[Max(s)]))
                = (IF s = {} THEN <<>> ELSE AddNew(g[s \ {Max(s)}], order[Max(s)]))
        BY <2>2
      <4> HIDE DEF Kept
      <4> QED BY <4>1
    <3> QED BY <3>1 DEF Gathers
  <2> HIDE DEF g
  <2> QED BY <2>3
<1>2. S \in Good
  <2> HIDE DEF Good
  <2> QED BY <1>0, <1>1, SubsetInduction
<1> QED BY <1>2

\* A kind is added unless it is there.
LEMMA AddNewMeans ==
  ASSUME NEW K, NEW kinds \in Seq(K), NEW k \in K,
         \A i, j \in DOMAIN kinds : kinds[i] = kinds[j] => i = j
  PROVE  /\ AddNew(kinds, k) \in Seq(K)
         /\ \A i, j \in DOMAIN AddNew(kinds, k) :
              AddNew(kinds, k)[i] = AddNew(kinds, k)[j] => i = j
         /\ ToSet(AddNew(kinds, k)) = ToSet(kinds) \cup {k}
<1>1. CASE k \in ToSet(kinds)
  BY <1>1 DEF AddNew
<1>2. CASE k \notin ToSet(kinds)
  <2> DEFINE longer == Append(kinds, k)
             n == Len(kinds)
  <2>1. AddNew(kinds, k) = longer
    BY <1>2 DEF AddNew
  <2>2. /\ longer \in Seq(K) /\ n \in Nat /\ DOMAIN kinds = 1 .. n /\ DOMAIN longer = 1 .. n + 1
        /\ \A i \in 1 .. n : longer[i] = kinds[i]
        /\ longer[n + 1] = k
    OBVIOUS
  <2> HIDE DEF longer, n
  <2>3. \A i \in 1 .. n : kinds[i] # k
    BY <1>2, <2>2 DEF ToSet
  <2>4. \A i, j \in DOMAIN longer : longer[i] = longer[j] => i = j
    BY <2>2, <2>3
  <2>5. ToSet(longer) = ToSet(kinds) \cup {k}
    <3>1. \A i \in 1 .. n : i \in 1 .. n + 1
      BY <2>2
    <3>2. n + 1 \in 1 .. n + 1
      BY <2>2
    <3>3. \A i \in 1 .. n + 1 : i \in 1 .. n \/ i = n + 1
      BY <2>2
    <3> QED BY <2>2, <3>1, <3>2, <3>3 DEF ToSet
  <2> QED BY <2>1, <2>2, <2>4, <2>5
<1> QED BY <1>1, <1>2

\* Distinct names each kind of the order once, and no other.
LEMMA DistinctMeans ==
  ASSUME NEW K, NEW order \in Seq(K)
  PROVE  /\ Distinct(order) \in Seq(K)
         /\ \A i, j \in DOMAIN Distinct(order) : Distinct(order)[i] = Distinct(order)[j] => i = j
         /\ ToSet(Distinct(order)) = ToSet(order)
<1> DEFINE S == DOMAIN order
<1>0. S = 1 .. Len(order) /\ Len(order) \in Nat /\ \A i \in S : order[i] \in K
  OBVIOUS
<1>1. IsFiniteSet(S)
  BY <1>0, FS_Interval
<1>2. PICK g : Gathers(g, order, S) /\ Distinct(order) = g[S]
  BY <1>0, DistinctDef, GatherExists DEF Gathered
<1> DEFINE Each(T) == /\ g[T] \in Seq(K)
                      /\ \A i, j \in DOMAIN g[T] : g[T][i] = g[T][j] => i = j
                      /\ ToSet(g[T]) = {order[i] : i \in T}
           Good == {T \in SUBSET S : Each(T)}
<1>3. ASSUME NEW T \in SUBSET S, \A U \in SUBSET T : U # T => U \in Good
      PROVE  T \in Good
  <2>1. g[T] = IF T = {} THEN <<>> ELSE AddNew(g[T \ {Max(T)}], order[Max(T)])
    BY <1>2, Zenon DEF Gathers
  <2>2. CASE T = {}
    <3>1. g[T] = <<>>
      BY <2>1, <2>2
    <3>2. DOMAIN g[T] = {} /\ g[T] \in Seq(K)
      BY <3>1
    <3> QED BY <2>2, <3>2 DEF ToSet
  <2>3. CASE T # {}
    <3> DEFINE U == T \ {Max(T)}
               k == order[Max(T)]
               s == g[U]
    <3>1. T \in SUBSET (1 .. Len(order))
      BY <1>0
    <3>2. Max(T) \in T
      BY <1>0, <2>3, <3>1, MaxIn
    <3>3. Each(U)
      BY <1>3, <3>2
    <3>4. k \in K /\ {order[i] : i \in T} = {order[i] : i \in U} \cup {k}
      BY <1>0, <3>2
    <3>5. g[T] = AddNew(s, k) /\ s \in Seq(K) /\ (\A i, j \in DOMAIN s : s[i] = s[j] => i = j)
          /\ ToSet(s) = {order[i] : i \in U}
      BY <2>1, <2>3, <3>3
    <3> HIDE DEF U, k, s
    <3>6. /\ AddNew(s, k) \in Seq(K)
          /\ \A i, j \in DOMAIN AddNew(s, k) : AddNew(s, k)[i] = AddNew(s, k)[j] => i = j
          /\ ToSet(AddNew(s, k)) = ToSet(s) \cup {k}
      BY <3>4, <3>5, AddNewMeans
    <3> QED BY <3>4, <3>5, <3>6, Zenon
  <2> QED BY <2>2, <2>3
<1>4. S \in Good
  <2> HIDE DEF Good, S
  <2> QED BY <1>1, <1>3, SubsetInduction
<1>5. ToSet(order) = {order[i] : i \in S}
  BY DEF ToSet
<1> QED BY <1>2, <1>4, <1>5

-----------------------------------------------------------------------------
(* The tally of an evaluation.  The results it has and the kinds it has    *)
(* still to do are, together and in order, the distinct kinds it was asked *)
(* for; and each result is counted on one side of the metrics.             *)

\* What a report says of the model, by the mode.
Reported(w) ==
  /\ w.pc # "reported" => w.completed /\ ~w.model /\ ~w.fallback
  /\ ~w.completed \/ w.mode = "B0" => ~w.model /\ ~w.fallback
  /\ w.pc = "reported" /\ w.completed /\ w.mode # "B0" => w.model \/ w.fallback

\* The same of a result.
Counted(mode, r) ==
  Invoked(r) \/ r.fallback <=> mode # "B0" /\ r.completed

Progress(w, s) ==
  LET kinds == Distinct(w.order) IN
  /\ Len(kinds) = Len(s) + Len(w.todo)
  /\ \A i \in 1 .. Len(s) : s[i].kind = kinds[i]
  /\ \A i \in 1 .. Len(w.todo) : w.todo[i] = kinds[Len(s) + i]

TallyInv ==
  /\ metrics = [e \in Evaluations |-> metrics[e]]
  /\ Reported(work)
  /\ work.job \in Evaluations =>
       /\ metrics[work.job] = None
       /\ Progress(work, results[work.job])
       /\ \A i \in 1 .. Len(results[work.job]) : Counted(work.mode, results[work.job][i])
  /\ work.pc = "aggregate" => work.job \in Evaluations /\ work.todo = <<>>

\* Diagnosing a scenario keeps what the job is, and says of the model what the
\* mode allows.
LEMMA DiagnoseReports ==
  ASSUME TypeInv, BatchAssumption, Reported(work),
         \/ Collect
         \/ \E answered \in BOOLEAN :
              \/ \E q \in Probes, next \in {"turn", "report"} : Turn(answered, q, next)
              \/ Conclude(answered) \/ Correct(answered) \/ Report(answered)
         \/ Raise /\ work.job \notin Runs
  PROVE  /\ Reported(work)'
         /\ work'.job = work.job /\ work'.mode = work.mode /\ work'.order = work.order
         /\ work'.todo = work.todo /\ work'.pc # "aggregate"
<1>0. work \in Jobs /\ work.completed \in BOOLEAN /\ work.model \in BOOLEAN
      /\ work.fallback \in BOOLEAN
  BY DEF TypeInv, WorkOK, Jobs
<1>1. CASE Collect
  <2> DEFINE q == Pipeline[work.calls + 1]
             v == Asked(work, q)
             next == IF work.mode = "B2" THEN "turn"
                     ELSE IF work.calls + 1 = Len(Pipeline) THEN "report" ELSE "collect"
  <2>1. work.calls + 1 \in 1 .. Len(Pipeline) /\ work.pc = "collect"
    BY <1>1 DEF Collect, Working, TypeInv, WorkOK, Jobs
  <2>2. q \in Queries
    BY <2>1, QueriesTyped, ElementOf
  <2>3. v \in Jobs /\ v.job = work.job /\ v.mode = work.mode /\ v.order = work.order
        /\ v.todo = work.todo /\ v.completed = work.completed /\ v.model = work.model
        /\ v.fallback = work.fallback
    BY <1>0, <1>1, <2>2, Answered DEF Collect, TypeInv
  <2>4. work' = [v EXCEPT !.pc = next] /\ next \notin {"reported", "aggregate"}
    BY <1>1 DEF Collect
  <2> HIDE DEF v, next, q
  <2>5. /\ work'.job = v.job /\ work'.mode = v.mode /\ work'.order = v.order
        /\ work'.todo = v.todo /\ work'.completed = v.completed /\ work'.pc = next
        /\ work'.model = v.model /\ work'.fallback = v.fallback
    BY <2>3, <2>4 DEF Jobs
  <2> QED BY <2>1, <2>3, <2>4, <2>5 DEF Reported
<1>2. ASSUME NEW answered \in BOOLEAN, NEW q \in Probes, NEW next \in {"turn", "report"},
             Turn(answered, q, next)
      PROVE  /\ Reported(work)'
             /\ work'.job = work.job /\ work'.mode = work.mode /\ work'.order = work.order
             /\ work'.todo = work.todo /\ work'.pc # "aggregate"
  <2> DEFINE u == Decide(work, answered)
             v == Asked(u, q)
  <2>1. u \in Jobs /\ u.job = work.job /\ u.mode = work.mode /\ u.order = work.order
        /\ u.todo = work.todo /\ u.completed = work.completed /\ u.model = work.model
        /\ u.fallback = work.fallback
    BY <1>0, Decided
  <2>2. work' = [v EXCEPT !.pc = next] /\ work.pc = "turn"
    BY <1>2 DEF Turn, Working
  <2> HIDE DEF u
  <2>3. v \in Jobs /\ v.job = u.job /\ v.mode = u.mode /\ v.order = u.order
        /\ v.todo = u.todo /\ v.completed = u.completed /\ v.model = u.model
        /\ v.fallback = u.fallback
    BY <1>2, <2>1, Answered, QueriesTyped DEF Turn, TypeInv
  <2> HIDE DEF v
  <2>4. /\ work'.job = v.job /\ work'.mode = v.mode /\ work'.order = v.order
        /\ work'.todo = v.todo /\ work'.completed = v.completed /\ work'.pc = next
        /\ work'.model = v.model /\ work'.fallback = v.fallback
    BY <2>2, <2>3 DEF Jobs
  <2> QED BY <2>1, <2>2, <2>3, <2>4 DEF Reported
<1>3. ASSUME NEW answered \in BOOLEAN, Conclude(answered) \/ Correct(answered)
      PROVE  /\ Reported(work)'
             /\ work'.job = work.job /\ work'.mode = work.mode /\ work'.order = work.order
             /\ work'.todo = work.todo /\ work'.pc # "aggregate"
  <2> DEFINE u == Decide(work, answered)
  <2>1. u \in Jobs /\ u.job = work.job /\ u.mode = work.mode /\ u.order = work.order
        /\ u.todo = work.todo /\ u.completed = work.completed /\ u.model = work.model
        /\ u.fallback = work.fallback /\ u.pc = work.pc
    BY <1>0, Decided
  <2> HIDE DEF u
  <2>2. work.pc \in {"turn", "report"}
    BY <1>3 DEF Conclude, Correct, Working
  <2>3. PICK next \in {"turn", "report"} : work' = [u EXCEPT !.pc = next]
    <3>1. CASE Conclude(answered)
      BY <3>1 DEF Conclude, u
    <3>2. CASE Correct(answered)
      <4>1. work' = u /\ u.pc = "report"
        BY <2>1, <3>2 DEF Correct, Working, u
      <4>2. u = [u EXCEPT !.pc = "report"]
        BY <2>1, <4>1 DEF Jobs
      <4> QED BY <4>1, <4>2
    <3> QED BY <1>3, <3>1, <3>2
  <2>4. /\ work'.job = u.job /\ work'.mode = u.mode /\ work'.order = u.order
        /\ work'.todo = u.todo /\ work'.completed = u.completed /\ work'.pc = next
        /\ work'.model = u.model /\ work'.fallback = u.fallback
    BY <2>1, <2>3 DEF Jobs
  <2> QED BY <2>1, <2>2, <2>4 DEF Reported
<1>4. ASSUME NEW answered \in BOOLEAN, Report(answered)
      PROVE  /\ Reported(work)'
             /\ work'.job = work.job /\ work'.mode = work.mode /\ work'.order = work.order
             /\ work'.todo = work.todo /\ work'.pc # "aggregate"
  <2> DEFINE u == IF work.mode = "B1" THEN Decide(work, answered) ELSE work
  <2>1. u \in Jobs /\ u.job = work.job /\ u.mode = work.mode /\ u.order = work.order
        /\ u.todo = work.todo /\ u.completed = work.completed
    BY <1>0, Decided
  <2>2. /\ work' = [u EXCEPT !.pc = "reported", !.model = NamesModel(answered),
                             !.fallback = FellBack(answered)]
        /\ work.pc = "report"
    BY <1>4 DEF Report, Working
  <2> HIDE DEF u
  <2>3. /\ work'.job = u.job /\ work'.mode = u.mode /\ work'.order = u.order
        /\ work'.todo = u.todo /\ work'.completed = u.completed /\ work'.pc = "reported"
        /\ work'.model = NamesModel(answered) /\ work'.fallback = FellBack(answered)
    BY <2>1, <2>2 DEF Jobs
  <2>4. work.mode \in Modes /\ work.completed
    BY <1>0, <2>2 DEF Jobs, Reported
  <2> QED BY <2>1, <2>3, <2>4 DEF Reported, NamesModel, FellBack, Modes
<1>5. CASE Raise /\ work.job \notin Runs
  <2>1. work' = [work EXCEPT !.pc = "reported", !.completed = FALSE,
                             !.asked = {}, !.reads = {}, !.refs = {}]
        /\ work.pc # "reported"
    BY <1>5 DEF Raise, Working
  <2>2. /\ work'.job = work.job /\ work'.mode = work.mode /\ work'.order = work.order
        /\ work'.todo = work.todo /\ ~work'.completed /\ work'.pc = "reported"
        /\ work'.model = work.model /\ work'.fallback = work.fallback
    BY <1>0, <2>1 DEF Jobs
  <2> QED BY <2>1, <2>2 DEF Reported
<1> QED BY <1>1, <1>2, <1>3, <1>4, <1>5

\* A scenario that is scored takes its kind from the list to the results.
LEMMA ScoredProgress ==
  ASSUME NEW K, NEW w, NEW v, NEW s \in Seq(Results), NEW r \in Results, w.todo \in Seq(K),
         w.todo # <<>>, Progress(w, s), r.kind = Head(w.todo), v.order = w.order,
         v.todo = Tail(w.todo)
  PROVE  Progress(v, Append(s, r))
<1> DEFINE kinds == Distinct(w.order)
           todo == w.todo
           t == Append(s, r)
           rest == Tail(todo)
           n == Len(s)
           m == Len(todo)
<1>1. /\ n \in Nat /\ m \in Nat /\ m > 0 /\ Len(t) = n + 1 /\ Len(rest) = m - 1
      /\ \A i \in 1 .. n : t[i] = s[i]
      /\ t[n + 1] = r
      /\ \A i \in 1 .. m - 1 : rest[i] = todo[i + 1]
      /\ Head(todo) = todo[1]
  OBVIOUS
<1>2. /\ Len(kinds) = n + m
      /\ \A i \in 1 .. n : s[i].kind = kinds[i]
      /\ \A i \in 1 .. m : todo[i] = kinds[n + i]
  BY DEF Progress
<1>3. v.todo = rest /\ Distinct(v.order) = kinds /\ r.kind = Head(todo)
  OBVIOUS
<1> HIDE DEF kinds, todo, t, rest, n, m
<1>4. Len(kinds) = Len(t) + Len(rest)
  BY <1>1, <1>2
<1>5. ASSUME NEW i \in 1 .. Len(t) PROVE t[i].kind = kinds[i]
  <2>1. CASE i = n + 1
    <3>1. todo[1] = kinds[n + 1]
      BY <1>1, <1>2
    <3> QED BY <1>1, <1>3, <2>1, <3>1
  <2>2. CASE i # n + 1
    <3>1. i \in 1 .. n
      BY <1>1, <2>2
    <3> QED BY <1>1, <1>2, <3>1
  <2> QED BY <2>1, <2>2
<1>6. ASSUME NEW i \in 1 .. Len(rest) PROVE rest[i] = kinds[Len(t) + i]
  <2>1. i \in 1 .. m - 1 /\ i + 1 \in 1 .. m /\ n + (i + 1) = Len(t) + i
    BY <1>1
  <2>2. todo[i + 1] = kinds[n + (i + 1)]
    BY <1>2, <2>1
  <2> QED BY <1>1, <2>1, <2>2
<1>7. Progress(v, t)
  BY <1>3, <1>4, <1>5, <1>6 DEF Progress
<1> QED BY <1>7 DEF t

\* A worker with nothing at hand owes no result.
LEMMA IdleTally ==
  ASSUME BatchAssumption, work' = Idle, metrics' = [e \in Evaluations |-> metrics'[e]]
  PROVE  TallyInv'
<1>1. Reported(Idle)
  BY DEF Reported, Idle, Fresh
<1> QED BY <1>1, IdleIsJob DEF TallyInv, BatchAssumption

\* After the last kind none is left.
LEMMA LastOf ==
  ASSUME NEW S, NEW s \in Seq(S), s # <<>>, ~(Len(s) > 1)
  PROVE  Tail(s) = <<>>
<1>1. Len(s) \in Nat /\ Len(s) > 0
  OBVIOUS
<1>2. Len(s) = 1
  BY <1>1
<1>3. Tail(s) \in Seq(S) /\ Len(Tail(s)) = 0
  BY <1>2
<1> QED BY <1>3

\* A score moves one kind from those to do to those done.
LEMMA ScoreTally ==
  ASSUME TypeInv, BatchAssumption, TallyInv, Score PROVE TallyInv'
<1> DEFINE e == work.job
           r == Result
           s == results[e]
           w == work'
<1>1. /\ work \in Jobs /\ work.todo # <<>> /\ e \in Evaluations /\ work.pc = "reported"
      /\ results' = [results EXCEPT ![e] = Append(s, r)] /\ s \in Seq(Results) /\ metrics' = metrics
  BY DEF Score, Working, TypeInv, WorkOK, RowsOK, Busy
<1>2. work.todo \in Seq(Kinds) /\ Tail(work.todo) \in Seq(Kinds) /\ Len(work.todo) > 0
      /\ Head(work.todo) \in Kinds
  <2>1. work.todo \in Seq(Kinds)
    BY <1>1 DEF Jobs
  <2> QED BY <1>1, <2>1
<1>3. r \in Results /\ r.kind = Head(work.todo)
      /\ r.completed = work.completed /\ r.model = work.model /\ r.fallback = work.fallback
  <2>1. at[Worker].data \in Data /\ crossed[Worker] \in BOOLEAN /\ Worker \in Writers
    BY AtScenario DEF Score, TypeInv, FilesOK, Writers
  <2> QED BY <1>1, <1>2, <2>1 DEF Score, Result, Results, Jobs
<1>4. /\ w.job = e /\ w.mode = work.mode /\ w.order = work.order /\ w.todo = Tail(work.todo)
      /\ w.pc \in {"collect", "aggregate"} /\ (w.pc = "aggregate" => w.todo = <<>>)
      /\ Reported(w)
  <2>1. CASE Len(work.todo) > 1
    <3>1. w = Fresh(e, work.mode, work.order, Tail(work.todo), "collect")
      BY <2>1 DEF Score, BeginScenario
    <3> QED BY <3>1 DEF Fresh, Reported
  <2>2. CASE ~(Len(work.todo) > 1)
    <3>1. w = Fresh(e, work.mode, work.order, <<>>, "aggregate")
      BY <2>2 DEF Score
    <3>2. Tail(work.todo) = <<>>
      BY <1>1, <1>2, <2>2, LastOf
    <3> QED BY <3>1, <3>2 DEF Fresh, Reported
  <2> QED BY <2>1, <2>2
<1>5. Progress(work, s) /\ metrics[e] = None /\ Reported(work)
      /\ \A i \in 1 .. Len(s) : Counted(work.mode, s[i])
  BY <1>1 DEF TallyInv
<1>6. Counted(work.mode, r)
  BY <1>1, <1>3, <1>5 DEF Counted, Invoked, Reported, Jobs
<1> DEFINE t == results'[e]
<1>7. t = Append(s, r)
  BY <1>1 DEF TypeInv, RowsOK
<1>8. s \in Seq(Results) /\ r \in Results /\ work.todo \in Seq(Kinds) /\ work.todo # <<>>
       /\ r.kind = Head(work.todo) /\ w.order = work.order /\ w.todo = Tail(work.todo)
  BY <1>1, <1>2, <1>3, <1>4
<1> HIDE DEF e, r, s, w, t
<1>9. Progress(w, Append(s, r))
  BY <1>5, <1>8, ScoredProgress
<1>10. ASSUME NEW i \in 1 .. Len(t) PROVE Counted(work.mode, t[i])
  <2>1. Len(t) = Len(s) + 1 /\ Len(s) \in Nat /\ t[Len(s) + 1] = r
        /\ \A j \in 1 .. Len(s) : t[j] = s[j]
    BY <1>7, <1>8
  <2>2. i \in 1 .. Len(s) \/ i = Len(s) + 1
    BY <2>1
  <2> QED BY <1>5, <1>6, <2>1, <2>2
<1>11. metrics' = [x \in Evaluations |-> metrics'[x]]
  BY <1>1 DEF TallyInv
<1> QED BY <1>1, <1>4, <1>5, <1>7, <1>9, <1>10, <1>11 DEF TallyInv, w, t

\* Every step keeps the tally.
LEMMA TallyPreserved ==
  ASSUME TypeInv, BatchAssumption, TallyInv, [Next]_vars PROVE TallyInv'
<1>1. CASE UNCHANGED <<work, results, metrics>>
  BY <1>1 DEF TallyInv
<1>2. CASE UNCHANGED vars
  BY <1>1, <1>2 DEF vars
<1>3. CASE \E c \in setup.clients : ClientStep(c)
  BY <1>1, <1>3 DEF ClientStep, Simulate, Truncate, Fill, CreateIncident, RequestDies
<1>4. CASE Truncate(Worker) \/ Fill(Worker)
  BY <1>1, <1>4 DEF Truncate, Fill
<1>5. CASE \E e \in setup.evaluations, mode \in setup.modes, order \in setup.orders, d \in Data :
             StartEvaluation(e, mode, order, d)
  <2>1. PICK e \in setup.evaluations, mode \in setup.modes, order \in setup.orders, d \in Data :
          StartEvaluation(e, mode, order, d)
    BY <1>5
  <2> DEFINE w == Fresh(e, mode, order, Distinct(order), "collect")
  <2>2. /\ work' = w /\ metrics' = metrics /\ results' = results /\ metrics[e] = None
        /\ results[e] = <<>>
    BY <2>1 DEF StartEvaluation, BeginScenario
  <2>3. /\ w.job = e /\ w.order = order /\ w.todo = Distinct(order) /\ w.pc = "collect"
        /\ Reported(w)
    BY DEF Fresh, Reported
  <2>4. Distinct(order) \in Seq(Kinds)
    BY <2>1 DEF StartEvaluation, Valid
  <2> HIDE DEF w
  <2>5. Progress(w, <<>>)
    <3>1. Len(<<>>) = 0 /\ Len(Distinct(order)) \in Nat
      BY <2>4
    <3>2. \A i \in 1 .. Len(Distinct(order)) : 0 + i = i
      OBVIOUS
    <3> QED BY <2>3, <3>1, <3>2 DEF Progress
  <2>6. \A i \in 1 .. Len(<<>>) : FALSE
    OBVIOUS
  <2> QED BY <2>2, <2>3, <2>5, <2>6 DEF TallyInv
<1>6. CASE \E x \in Runs, c \in Clients : StartRun(x, c)
  <2>1. work'.job \notin Evaluations /\ Reported(work)' /\ work'.pc = "collect" /\ metrics' = metrics
    BY <1>6 DEF StartRun, Fresh, Reported, BatchAssumption
  <2> QED BY <2>1 DEF TallyInv
<1>7. CASE Diagnose
  <2>1. results' = results /\ metrics' = metrics
    BY <1>7 DEF Diagnose, Collect, Turn, Conclude, Correct, Report, Raise
  <2>2. CASE Raise /\ work.job \in Runs
    BY <2>1, <2>2, IdleTally DEF Raise, TallyInv
  <2>3. CASE ~(Raise /\ work.job \in Runs)
    <3>1. /\ Reported(work)' /\ work'.job = work.job /\ work'.mode = work.mode
          /\ work'.order = work.order /\ work'.todo = work.todo /\ work'.pc # "aggregate"
      BY <1>7, <2>3, DiagnoseReports DEF Diagnose, TallyInv
    <3> QED BY <2>1, <3>1 DEF TallyInv, Progress
  <2> QED BY <2>2, <2>3
<1>8. CASE PersistRun \/ TruthUnreadable \/ Aggregate \/ WorkerDies
  <2>1. work' = Idle /\ metrics' = [e \in Evaluations |-> metrics'[e]]
    BY <1>8 DEF PersistRun, TruthUnreadable, Aggregate, WorkerDies, TallyInv
  <2> QED BY <2>1, IdleTally
<1>9. CASE Score
  BY <1>9, ScoreTally
<1> QED BY <1>2, <1>3, <1>4, <1>5, <1>6, <1>7, <1>8, <1>9 DEF Next, WorkerStep

\* It holds at the start.
LEMMA InitTally == Init /\ BatchAssumption => TallyInv
<1> SUFFICES ASSUME Init, BatchAssumption PROVE TallyInv
  OBVIOUS
<1>1. Reported(Idle)
  BY DEF Reported, Idle, Fresh
<1> QED BY <1>1, IdleIsJob DEF Init, TallyInv, BatchAssumption

\* What an evaluation without a scenario left reports of its kinds and models.
LEMMA AggregatedKinds ==
  ASSUME NEW s \in Seq(Results), NEW order \in Seq(STRING), NEW w, Progress(w, s),
         w.order = order, w.todo = <<>>
  PROVE  /\ \A i, j \in DOMAIN s : s[i].kind = s[j].kind => i = j
         /\ {s[i].kind : i \in DOMAIN s} = ToSet(order)
<1> DEFINE kinds == Distinct(order)
<1>1. /\ kinds \in Seq(STRING) /\ ToSet(kinds) = ToSet(order)
      /\ \A i, j \in DOMAIN kinds : kinds[i] = kinds[j] => i = j
  BY DistinctMeans
<1> HIDE DEF kinds
<1>2. Len(kinds) = Len(s) /\ \A i \in 1 .. Len(s) : s[i].kind = kinds[i]
  <2>1. Len(<<>>) = 0 /\ Len(s) \in Nat
    OBVIOUS
  <2> QED BY <2>1 DEF Progress, kinds
<1>3. DOMAIN s = 1 .. Len(s) /\ DOMAIN kinds = 1 .. Len(s)
  BY <1>1, <1>2
<1>4. {s[i].kind : i \in DOMAIN s} = ToSet(kinds)
  BY <1>2, <1>3 DEF ToSet
<1> QED BY <1>1, <1>2, <1>3, <1>4

\* Results that are each counted on one side add up to the completed ones.
LEMMA AggregatedModels ==
  ASSUME NEW s \in Seq(Results), NEW mode, \A i \in 1 .. Len(s) : Counted(mode, s[i])
  PROVE  Cardinality({i \in DOMAIN s : Invoked(s[i])})
           + Cardinality({i \in DOMAIN s : s[i].fallback})
         = IF mode = "B0" THEN 0 ELSE Cardinality({i \in DOMAIN s : s[i].completed})
<1> DEFINE invoked == {i \in DOMAIN s : Invoked(s[i])}
           fallen == {i \in DOMAIN s : s[i].fallback}
           completed == {i \in DOMAIN s : s[i].completed}
<1>1. DOMAIN s = 1 .. Len(s) /\ IsFiniteSet(DOMAIN s)
  BY FS_Interval
<1>2. IsFiniteSet(invoked) /\ IsFiniteSet(fallen) /\ invoked \cap fallen = {}
  BY <1>1, FS_Subset DEF Invoked
<1>3. invoked \cup fallen = IF mode = "B0" THEN {} ELSE completed
  BY <1>1 DEF Counted
<1> HIDE DEF invoked, fallen, completed
<1>4. Cardinality(invoked \cup fallen) = Cardinality(invoked) + Cardinality(fallen)
  <2>1. /\ Cardinality(invoked \cup fallen)
             = Cardinality(invoked) + Cardinality(fallen) - Cardinality(invoked \cap fallen)
        /\ Cardinality(invoked) \in Nat /\ Cardinality(fallen) \in Nat
    BY <1>2, FS_Union, FS_CardinalityType
  <2>2. Cardinality(invoked \cap fallen) = 0
    BY <1>2, FS_EmptySet
  <2> QED BY <2>1, <2>2
<1>5. Cardinality({}) = 0
  BY FS_EmptySet
<1>6. Cardinality(invoked) + Cardinality(fallen)
        = IF mode = "B0" THEN 0 ELSE Cardinality(completed)
  BY <1>3, <1>4, <1>5
<1> QED BY <1>6 DEF invoked, fallen, completed

Complete == EveryKindScored /\ ModelUseAccounted

\* What was reported stays: results and metrics change only for the job at hand.
LEMMA CompletePreserved ==
  ASSUME TypeInv, BatchAssumption, OwnInv, TallyInv, Complete, [Next]_vars
  PROVE  Complete'
<1>1. ASSUME NEW e \in Evaluations,
             \A x \in Evaluations : x # e => results'[x] = results[x] /\ metrics'[x] = metrics[x],
             metrics'[e] # None =>
               /\ metrics'[e].outcome = "report" =>
                    /\ \A i, j \in DOMAIN results'[e] :
                         results'[e][i].kind = results'[e][j].kind => i = j
                    /\ {results'[e][i].kind : i \in DOMAIN results'[e]} = ToSet(metrics'[e].asked)
                    /\ metrics'[e].invocations + metrics'[e].fallbacks =
                         IF metrics'[e].mode = "B0" THEN 0 ELSE metrics'[e].succeeded
               /\ metrics'[e].outcome = "lost" => metrics'[e].crossed
      PROVE  Complete'
  <2>1. EveryKindScored'
    <3> SUFFICES ASSUME NEW x \in Evaluations, metrics'[x] # None
                 PROVE  /\ metrics'[x].outcome = "report" =>
                             /\ \A i, j \in DOMAIN results'[x] :
                                  results'[x][i].kind = results'[x][j].kind => i = j
                             /\ {results'[x][i].kind : i \in DOMAIN results'[x]}
                                  = ToSet(metrics'[x].asked)
                        /\ metrics'[x].outcome = "lost" => metrics'[x].crossed
      BY Zenon DEF EveryKindScored
    <3>1. CASE x = e
      BY <1>1, <3>1
    <3>2. CASE x # e
      <4>1. results'[x] = results[x] /\ metrics'[x] = metrics[x]
        BY <1>1, <3>2
      <4>2. /\ metrics[x].outcome = "report" =>
                 /\ \A i, j \in DOMAIN results[x] :
                      results[x][i].kind = results[x][j].kind => i = j
                 /\ {results[x][i].kind : i \in DOMAIN results[x]} = ToSet(metrics[x].asked)
            /\ metrics[x].outcome = "lost" => metrics[x].crossed
        BY <4>1, Zenon DEF Complete, EveryKindScored
      <4> QED BY <4>1, <4>2
    <3> QED BY <3>1, <3>2
  <2>2. ModelUseAccounted'
    BY <1>1 DEF Complete, ModelUseAccounted
  <2> QED BY <2>1, <2>2 DEF Complete
<1>2. CASE UNCHANGED <<results, metrics>>
  BY <1>2 DEF Complete, EveryKindScored, ModelUseAccounted
<1>3. CASE Score
  <2>1. work.job \in Evaluations /\ metrics' = metrics /\ metrics[work.job] = None
        /\ \A x \in Evaluations : x # work.job => results'[x] = results[x]
    BY <1>3 DEF Score, TallyInv, TypeInv, RowsOK
  <2> QED BY <1>1, <2>1
<1>4. CASE TruthUnreadable
  <2>1. crossed[Worker]
    <3>1. Own(Worker) /\ crossed[Worker] \in BOOLEAN
      BY DEF OwnInv, Writers, TypeInv, FilesOK
    <3>2. at[Worker] # Away /\ at[Worker].phase = "written" /\ work.job \in Evaluations
          /\ disk[at[Worker].kind]["truth"] \notin Data
      BY <1>4 DEF TruthUnreadable, Working, Away
    <3>3. at[Worker].data \in Data
      BY <1>4, AtScenario DEF TruthUnreadable, TypeInv
    <3> QED BY <3>1, <3>2, <3>3 DEF Own
  <2> DEFINE m == [outcome |-> "lost", crossed |-> crossed[Worker]]
  <2>2. m.outcome = "lost" /\ m.crossed
    BY <2>1
  <2> HIDE DEF m
  <2>3. work.job \in Evaluations /\ metrics' = [metrics EXCEPT ![work.job] = m]
        /\ results' = [results EXCEPT ![work.job] = <<>>]
    BY <1>4 DEF TruthUnreadable, m
  <2>4. metrics'[work.job] = m
        /\ \A x \in Evaluations : x # work.job => results'[x] = results[x] /\ metrics'[x] = metrics[x]
    BY <2>3 DEF TallyInv, TypeInv, RowsOK
  <2> QED BY <1>1, <2>2, <2>3, <2>4
<1>5. CASE WorkerDies
  <2>1. \A x \in Evaluations :
          \/ results'[x] = results[x] /\ metrics'[x] = metrics[x]
          \/ metrics'[x].outcome = "died"
    BY <1>5 DEF WorkerDies
  <2>2. EveryKindScored'
    <3> SUFFICES ASSUME NEW x \in Evaluations, metrics'[x] # None, metrics'[x].outcome # "died"
                 PROVE  /\ metrics'[x].outcome = "report" =>
                             /\ \A i, j \in DOMAIN results'[x] :
                                  results'[x][i].kind = results'[x][j].kind => i = j
                             /\ {results'[x][i].kind : i \in DOMAIN results'[x]}
                                  = ToSet(metrics'[x].asked)
                        /\ metrics'[x].outcome = "lost" => metrics'[x].crossed
      BY DEF EveryKindScored
    <3>1. results'[x] = results[x] /\ metrics'[x] = metrics[x]
      BY <2>1
    <3>2. /\ metrics[x].outcome = "report" =>
               /\ \A i, j \in DOMAIN results[x] :
                    results[x][i].kind = results[x][j].kind => i = j
               /\ {results[x][i].kind : i \in DOMAIN results[x]} = ToSet(metrics[x].asked)
          /\ metrics[x].outcome = "lost" => metrics[x].crossed
      BY <3>1, Zenon DEF Complete, EveryKindScored
    <3> QED BY <3>1, <3>2
  <2>3. ModelUseAccounted'
    BY <2>1 DEF Complete, ModelUseAccounted
  <2> QED BY <2>2, <2>3 DEF Complete
<1>6. CASE Aggregate
  <2> DEFINE e == work.job
             s == results[e]
             mode == work.mode
             order == work.order
             m == metrics'[e]
  <2>1. /\ e \in Evaluations /\ work.todo = <<>> /\ Progress(work, s)
        /\ \A i \in 1 .. Len(s) : Counted(mode, s[i])
        /\ s \in Seq(Results) /\ order \in Seq(STRING)
    BY <1>6 DEF Aggregate, TallyInv, TypeInv, RowsOK, WorkOK, Jobs
  <2>2. /\ results' = results
        /\ metrics' = [metrics EXCEPT ![e] =
             [outcome |-> "report", mode |-> mode, asked |-> order,
              succeeded |-> Cardinality({i \in DOMAIN s : s[i].completed}),
              invocations |-> Cardinality({i \in DOMAIN s : Invoked(s[i])}),
              fallbacks |-> Cardinality({i \in DOMAIN s : s[i].fallback})]]
    BY <1>6 DEF Aggregate, HowMany
  <2>3. /\ m.mode = mode /\ m.asked = order /\ m.outcome = "report"
        /\ m.succeeded = Cardinality({i \in DOMAIN s : s[i].completed})
        /\ m.invocations = Cardinality({i \in DOMAIN s : Invoked(s[i])})
        /\ m.fallbacks = Cardinality({i \in DOMAIN s : s[i].fallback})
        /\ \A x \in Evaluations : x # e => metrics'[x] = metrics[x]
    BY <2>1, <2>2 DEF TallyInv
  <2>4. results'[e] = s
    BY <2>2
  <2>5. work.order = order
    OBVIOUS
  <2> HIDE DEF e, s, mode, order, m
  <2>6. /\ \A i, j \in DOMAIN s : s[i].kind = s[j].kind => i = j
        /\ {s[i].kind : i \in DOMAIN s} = ToSet(order)
    BY <2>1, <2>5, AggregatedKinds
  <2>7. m.invocations + m.fallbacks = IF m.mode = "B0" THEN 0 ELSE m.succeeded
    BY <2>1, <2>3, AggregatedModels
  <2>8. metrics'[e] = m
    BY DEF m
  <2>9. metrics'[e].asked = order
    BY <2>3, <2>8
  <2>10. /\ \A i, j \in DOMAIN results'[e] : results'[e][i].kind = results'[e][j].kind => i = j
        /\ {results'[e][i].kind : i \in DOMAIN results'[e]} = ToSet(metrics'[e].asked)
    BY <2>4, <2>6, <2>9
  <2>11. metrics'[e].invocations + metrics'[e].fallbacks =
           IF metrics'[e].mode = "B0" THEN 0 ELSE metrics'[e].succeeded
    BY <2>7, <2>8
  <2>12. metrics'[e].outcome # "lost"
    BY <2>3, <2>8
  <2>13. \A x \in Evaluations : x # e => results'[x] = results[x] /\ metrics'[x] = metrics[x]
    BY <2>2, <2>3
  <2> QED BY <1>1, <2>1, <2>10, <2>11, <2>12, <2>13
<1>7. CASE UNCHANGED vars
  BY <1>2, <1>7 DEF vars
<1>8. CASE \E c \in setup.clients : ClientStep(c)
  BY <1>2, <1>8 DEF ClientStep, Simulate, Truncate, Fill, CreateIncident, RequestDies
<1>9. CASE WorkerStep /\ ~Score /\ ~TruthUnreadable /\ ~Aggregate /\ ~WorkerDies
  BY <1>2, <1>9 DEF WorkerStep, Diagnose, Truncate, Fill, StartEvaluation, StartRun, Collect, Turn,
                    Conclude, Correct, Report, Raise, PersistRun
<1> QED BY <1>3, <1>4, <1>5, <1>6, <1>7, <1>8, <1>9 DEF Next

\* However many kinds an evaluation is asked for, in whatever order and how often,
\* and however its scenarios fail: if it reports, each kind has exactly one result,
\* and it is lost as a whole only when somebody else wrote its files.
THEOREM KindsScored == Spec => []EveryKindScored
<1>1. Init => TypeInv /\ OwnInv /\ TallyInv /\ Complete
  <2> SUFFICES ASSUME Init PROVE OwnInv /\ Complete
    BY InitTyped, InitTally, BatchAssumption
  <2>1. Complete
    BY DEF Init, Complete, EveryKindScored, ModelUseAccounted
  <2> QED BY <2>1, InitOwn
<1>2. TypeInv /\ OwnInv /\ TallyInv /\ Complete /\ [Next]_vars
        => TypeInv' /\ OwnInv' /\ TallyInv' /\ Complete'
  BY TypePreserved, OwnPreserved, TallyPreserved, CompletePreserved, BatchAssumption
<1>3. Complete => EveryKindScored
  BY DEF Complete
<1> QED BY <1>1, <1>2, <1>3, PTL DEF Spec

\* And its metrics count every completed scenario of a mode with a model once, as
\* an invocation or as a fallback, for any number of scenarios.
THEOREM ModelUseCounted == Spec => []ModelUseAccounted
<1>1. Init => TypeInv /\ OwnInv /\ TallyInv /\ Complete
  <2> SUFFICES ASSUME Init PROVE Complete
    BY InitTyped, InitOwn, InitTally, BatchAssumption
  <2> QED BY DEF Init, Complete, EveryKindScored, ModelUseAccounted
<1>2. TypeInv /\ OwnInv /\ TallyInv /\ Complete /\ [Next]_vars
        => TypeInv' /\ OwnInv' /\ TallyInv' /\ Complete'
  BY TypePreserved, OwnPreserved, TallyPreserved, CompletePreserved, BatchAssumption
<1>3. Complete => ModelUseAccounted
  BY DEF Complete
<1> QED BY <1>1, <1>2, <1>3, PTL DEF Spec

=============================================================================
