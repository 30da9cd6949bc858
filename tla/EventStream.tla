----------------------------- MODULE EventStream -----------------------------
(***************************************************************************)
(* The events of one diagnosis run, from the transactions that write them  *)
(* to the page that shows them.  The SSE handler polls the log and then    *)
(* the status, in two statements of one ORM session; the browser reconnects *)
(* with the last id it got; the page rebuilds its list.                    *)
(*                                                                         *)
(* A stream whose client is gone writes to nobody, so a broken connection  *)
(* and its stream end together.                                            *)
(***************************************************************************)
EXTENDS Naturals, Sequences

CONSTANTS
  Writers,    \* concurrent transactions: request, worker, retry log
  MaxEvents,  \* bound on the length of the log
  MaxBreaks   \* bound on lost connections

ASSUME StreamAssumption == MaxEvents \in Nat /\ MaxBreaks \in Nat

VARIABLES
  events,   \* the committed rows: sequence -> kind of event
  tx,       \* per writer, the rows of its open transaction
  status,   \* "active" or "terminal"
  conn,     \* the stream behind the current connection
  wire,     \* events sent and not yet received
  lastId,   \* the browser's last event id
  got,      \* every id received, in order of arrival
  shown,    \* what the page's list holds
  watching, \* the page has its event source open
  breaks    \* connections lost so far

logVars  == <<events, tx, status>>
pageVars == <<lastId, got, shown, watching>>
vars == <<events, tx, status, conn, wire, lastId, got, shown, watching, breaks>>

\* The page listens to its own list of types, which has neither
\* harness_routed nor run_retrying: "quiet" events.
Kinds == {"progress", "quiet", "final"}

NoStream == [pc |-> "none", cursor |-> 0, batch |-> {}, seen |-> "unread"]

Merge(f, g) == [n \in DOMAIN f \cup DOMAIN g |-> IF n \in DOMAIN g THEN g[n] ELSE f[n]]

Init ==
  /\ events = <<>> /\ tx = [w \in Writers |-> <<>>] /\ status = "active"
  /\ conn = NoStream /\ wire = <<>>
  /\ lastId = 0 /\ got = <<>> /\ shown = {} /\ watching = TRUE /\ breaks = 0

-----------------------------------------------------------------------------
(* The log.  write_event locks the run's row until the transaction ends,   *)
(* and only then reads the highest sequence number.  Which transactions    *)
(* there are is the subject of DiagnosisRun; here they may write anything. *)

Numbers == 1 .. MaxEvents

\* MAX(sequence) + 1, or 1 in an empty log.
Follows(n, numbers) == /\ \A m \in numbers : m < n
                       /\ n = 1 \/ n - 1 \in numbers

Visible(w) == DOMAIN events \cup DOMAIN tx[w]

InsertEvent(w, n) ==
  /\ \E kind \in Kinds : tx' = [tx EXCEPT ![w] = Merge(@, [m \in {n} |-> kind])]
  /\ UNCHANGED <<events, status, conn, wire, pageVars, breaks>>

\* A fault: numbers from a generator of the database, taken without a lock.
WriteEventUnlocked(w) ==
  \E n \in Numbers : /\ Follows(n, UNION {Visible(v) : v \in Writers})
                     /\ InsertEvent(w, n)

WriteEvent(w) ==
  /\ \A v \in Writers \ {w} : DOMAIN tx[v] = {}
  /\ \E n \in Numbers : Follows(n, Visible(w)) /\ InsertEvent(w, n)

\* The transaction with the final event is the one that ends the run.
Commit(w) ==
  /\ DOMAIN tx[w] # {}
  /\ events' = Merge(events, tx[w])
  /\ status' = IF \E n \in DOMAIN tx[w] : tx[w][n] = "final" THEN "terminal" ELSE status
  /\ tx' = [tx EXCEPT ![w] = <<>>]
  /\ UNCHANGED <<conn, wire, pageVars, breaks>>

Rollback(w) ==
  /\ DOMAIN tx[w] # {}
  /\ tx' = [tx EXCEPT ![w] = <<>>]
  /\ UNCHANGED <<events, status, conn, wire, pageVars, breaks>>

\* The stale scan ends a run without an event.
ScanFails ==
  /\ status' = "terminal"
  /\ UNCHANGED <<events, tx, conn, wire, pageVars, breaks>>

-----------------------------------------------------------------------------
(* The stream.                                                             *)

\* A fault: the cursor is taken for the next number.
UnsentAfterNext == {n \in DOMAIN events : n > conn.cursor + 1}

Unsent == {n \in DOMAIN events : n > conn.cursor}

Poll ==
  /\ conn.pc = "top"
  /\ conn' = [conn EXCEPT !.pc = "send", !.batch = Unsent]
  /\ UNCHANGED <<logVars, wire, pageVars, breaks>>

\* The rows come in the order of their numbers.
First(n) == n \in conn.batch /\ \A m \in conn.batch : n <= m

\* A fault: the row is sent and stays in the batch.
SendAgain ==
  /\ conn.pc = "send"
  /\ \E n \in conn.batch :
       /\ First(n)
       /\ wire' = Append(wire, n)
       /\ conn' = [conn EXCEPT !.cursor = n]
  /\ UNCHANGED <<logVars, pageVars, breaks>>

Send ==
  /\ conn.pc = "send"
  /\ \E n \in conn.batch :
       /\ First(n)
       /\ wire' = Append(wire, n)
       /\ conn' = [conn EXCEPT !.cursor = n, !.batch = @ \ {n}]
  /\ UNCHANGED <<logVars, pageVars, breaks>>

\* The session keeps the run it loaded while the loop's variable refers to it,
\* and a query does not refresh a loaded object: the first status read stays.
ReadStatus ==
  /\ conn.pc = "send" /\ conn.batch = {}
  /\ LET seen == IF conn.seen = "unread" THEN status ELSE conn.seen IN
       conn' = [conn EXCEPT !.seen = seen,
                            !.pc = IF seen = "terminal" THEN "ended" ELSE "top"]
  /\ UNCHANGED <<logVars, wire, pageVars, breaks>>

\* Sixty seconds have passed, which the first round never takes.
Expire ==
  /\ conn.pc = "top" /\ conn.seen # "unread"
  /\ conn' = [conn EXCEPT !.pc = "ended"]
  /\ UNCHANGED <<logVars, wire, pageVars, breaks>>

-----------------------------------------------------------------------------
(* The browser and the page.                                               *)

\* onOpen empties the list.
Connect ==
  /\ watching /\ conn.pc = "none"
  /\ conn' = [NoStream EXCEPT !.pc = "top", !.cursor = lastId]
  /\ shown' = {}
  /\ UNCHANGED <<logVars, wire, lastId, got, watching, breaks>>

Receive ==
  LET n == Head(wire) IN
  /\ wire # <<>>
  /\ wire' = Tail(wire)
  /\ lastId' = n
  /\ got' = Append(got, n)
  /\ shown' = IF events[n] = "quiet" THEN shown ELSE shown \cup {n}
  /\ UNCHANGED <<logVars, conn, watching, breaks>>

\* The end of the stream reaches the browser behind the last event.
StreamEnds ==
  /\ conn.pc = "ended" /\ wire = <<>>
  /\ conn' = NoStream
  /\ UNCHANGED <<logVars, wire, pageVars, breaks>>

\* The network or the API process fails; what is on the wire is lost.
Break ==
  /\ conn.pc # "none" /\ breaks < MaxBreaks
  /\ breaks' = breaks + 1
  /\ conn' = NoStream /\ wire' = <<>>
  /\ UNCHANGED <<logVars, pageVars>>

\* The page polls the run and closes the source when the run has ended.
StopWatching ==
  /\ watching /\ status = "terminal"
  /\ watching' = FALSE
  /\ conn' = NoStream /\ wire' = <<>>
  /\ UNCHANGED <<logVars, lastId, got, shown, breaks>>

-----------------------------------------------------------------------------
Stream == Poll \/ Send \/ ReadStatus \/ Expire
Page   == Connect \/ Receive \/ StreamEnds

Next ==
  \/ \E w \in Writers : WriteEvent(w) \/ Commit(w) \/ Rollback(w)
  \/ ScanFails
  \/ Stream \/ Page
  \/ Break \/ StopWatching

Spec == Init /\ [][Next]_vars

\* The server's loop runs, and the browser reads and reconnects by itself.
Fairness == WF_vars(Poll \/ Send \/ ReadStatus) /\ WF_vars(Page)

FairSpec == Spec /\ Fairness

-----------------------------------------------------------------------------
(* Properties.                                                             *)

\* Everything has its type; the wire holds at most the whole log.
TypeOK ==
  /\ DOMAIN events \subseteq Numbers /\ \A n \in DOMAIN events : events[n] \in Kinds
  /\ \A w \in Writers : DOMAIN tx[w] \subseteq Numbers
  /\ status \in {"active", "terminal"}
  /\ conn \in [pc : {"none", "top", "send", "ended"}, cursor : 0 .. MaxEvents,
               batch : SUBSET Numbers, seen : {"unread", "active", "terminal"}]
  /\ wire \in Seq(Numbers) /\ Len(wire) <= MaxEvents
  /\ got \in Seq(Numbers) /\ Len(got) <= MaxEvents
  /\ lastId \in 0 .. MaxEvents /\ shown \subseteq Numbers
  /\ watching \in BOOLEAN /\ breaks \in 0 .. MaxBreaks

Log == INSTANCE LogDelivery WITH published <- DOMAIN events, delivered <- got

\* Concurrent writers, polls, lost connections and reconnects together give the
\* browser each event once and in order: none is skipped, none comes twice.
DeliversLog == Log!Spec

\* An event that is committed reaches a page that keeps watching, however often
\* the stream expires.
AllDelivered ==
  \A n \in Numbers : n \in DOMAIN events ~> n \in Log!Arrived \/ ~watching

\* What the page has shown it still shows after a reconnect.
ShownSurvives ==
  watching => \A i \in DOMAIN got : events[got[i]] # "quiet" => got[i] \in shown

=============================================================================
