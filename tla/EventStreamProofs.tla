-------------------------- MODULE EventStreamProofs --------------------------
(***************************************************************************)
(* The stream delivers the log: EventStream implements LogDelivery for     *)
(* every number of writers, events and lost connections.                   *)
(*                                                                         *)
(* What carries the proof is the row lock of write_event.  Because of it   *)
(* at most one transaction has rows the log lacks, and they come after     *)
(* every committed one (LogInv); so a cursor that has passed a number has  *)
(* passed everything that will ever be below it (SentInv, GotInv).         *)
(***************************************************************************)
EXTENDS EventStream, SequenceTheorems, TLAPS

Types ==
  /\ DOMAIN events \subseteq Numbers
  /\ tx = [w \in Writers |-> tx[w]]
  /\ \A w \in Writers : DOMAIN tx[w] \subseteq Numbers
  /\ conn = [pc |-> conn.pc, cursor |-> conn.cursor, batch |-> conn.batch, seen |-> conn.seen]
  /\ conn.cursor \in Nat /\ conn.batch \subseteq Numbers
  /\ wire \in Seq(Numbers) /\ got \in Seq(Numbers)
  /\ lastId \in Nat

\* Rows that are not committed belong to one transaction and come last.
LogInv ==
  /\ \A v, w \in Writers : v # w => DOMAIN tx[v] = {} \/ DOMAIN tx[w] = {}
  /\ \A w \in Writers : \A n \in DOMAIN tx[w] : \A m \in DOMAIN events : m < n

\* The browser has everything up to its last id.
GotInv ==
  /\ lastId \in {0} \cup DOMAIN events
  /\ \A i \in DOMAIN got : got[i] <= lastId
  /\ \A n \in DOMAIN events : n <= lastId => \E i \in DOMAIN got : got[i] = n

\* The wire holds, in order, what lies between the last id and the cursor; the
\* batch what follows the cursor.
SentInv ==
  /\ conn.pc = "none" => wire = <<>>
  /\ conn.pc # "none" =>
       /\ conn.cursor \in {0} \cup DOMAIN events
       /\ lastId <= conn.cursor
       /\ \A i \in DOMAIN wire : lastId < wire[i] /\ wire[i] <= conn.cursor
       /\ \A i \in DOMAIN wire : wire[i] \in DOMAIN events
       /\ \A i, j \in DOMAIN wire : i < j => wire[i] < wire[j]
       /\ \A n \in DOMAIN events : lastId < n /\ n <= conn.cursor =>
            \E i \in DOMAIN wire : wire[i] = n
  /\ conn.pc = "send" =>
       /\ conn.batch \subseteq DOMAIN events
       /\ \A b \in conn.batch : conn.cursor < b
       /\ \A b \in conn.batch : \A n \in DOMAIN events :
            conn.cursor < n /\ n < b => n \in conn.batch

Inv == Types /\ LogInv /\ GotInv /\ SentInv

LEMMA EmptyDomain == DOMAIN <<>> = {}
OBVIOUS

LEMMA StreamInit == Init => Inv
<1> SUFFICES ASSUME Init PROVE Inv  OBVIOUS
<1>1. DOMAIN events = {} /\ DOMAIN wire = {} /\ DOMAIN got = {}
  BY DEF Init
<1>2. \A w \in Writers : DOMAIN tx[w] = {}
  <2>1. \A w \in Writers : tx[w] = <<>>  BY DEF Init
  <2>2. QED  BY <2>1, EmptyDomain, Zenon
<1>3. Types  BY <1>1, <1>2 DEF Init, Types, NoStream
<1>4. LogInv  BY <1>1, <1>2 DEF LogInv
<1>5. GotInv  BY <1>1 DEF Init, GotInv
<1>6. SentInv  BY DEF Init, SentInv, NoStream
<1>7. QED  BY <1>3, <1>4, <1>5, <1>6 DEF Inv

LEMMA MergeDomain ==
  ASSUME NEW f, NEW g PROVE DOMAIN Merge(f, g) = DOMAIN f \cup DOMAIN g
BY DEF Merge

\* Only the transaction of w changes.
LEMMA TxExcept ==
  ASSUME NEW w \in Writers, NEW t, tx = [v \in Writers |-> tx[v]],
         tx' = [tx EXCEPT ![w] = t]
  PROVE  /\ tx' = [v \in Writers |-> tx'[v]]
         /\ tx'[w] = t
         /\ \A v \in Writers \ {w} : tx'[v] = tx[v]
OBVIOUS

LEMMA NumberSeq ==
  ASSUME NEW s \in Seq(Numbers)
  PROVE  \A i \in DOMAIN s : s[i] \in Numbers /\ s[i] \in Nat
<1>1. DOMAIN s = 1 .. Len(s)  OBVIOUS
<1>2. \A i \in DOMAIN s : s[i] \in Numbers  BY <1>1, ElementOfSeq
<1>3. Numbers \subseteq Nat  BY DEF Numbers
<1>4. QED  BY <1>2, <1>3

LEMMA AppendNumber ==
  ASSUME NEW s \in Seq(Numbers), NEW n \in Numbers
  PROVE  /\ DOMAIN s = 1 .. Len(s) /\ Len(s) \in Nat
         /\ Append(s, n) \in Seq(Numbers)
         /\ DOMAIN Append(s, n) = 1 .. (Len(s) + 1)
         /\ Append(s, n)[Len(s) + 1] = n
         /\ \A i \in 1 .. Len(s) : Append(s, n)[i] = s[i]
OBVIOUS

-----------------------------------------------------------------------------
(* The writers.  They leave the connection and the page alone.             *)

LEMMA WriteStep ==
  ASSUME Inv, NEW w \in Writers, WriteEvent(w) PROVE Inv'
<1>1. PICK n \in Numbers : Follows(n, Visible(w)) /\ InsertEvent(w, n)
  BY DEF WriteEvent
<1>2. PICK kind \in Kinds : tx' = [tx EXCEPT ![w] = Merge(@, [m \in {n} |-> kind])]
  BY <1>1 DEF InsertEvent
<1>3. UNCHANGED <<events, status, conn, wire, lastId, got>>
  BY <1>1 DEF InsertEvent, pageVars
<1>4. /\ tx' = [v \in Writers |-> tx'[v]]
      /\ DOMAIN tx'[w] = DOMAIN tx[w] \cup {n}
      /\ \A v \in Writers \ {w} : tx'[v] = tx[v]
  <2>1. tx = [v \in Writers |-> tx[v]]  BY DEF Inv, Types
  <2>2. tx' = [tx EXCEPT ![w] = Merge(tx[w], [m \in {n} |-> kind])]  BY <1>2
  <2>3. DOMAIN Merge(tx[w], [m \in {n} |-> kind]) = DOMAIN tx[w] \cup {n}
    BY MergeDomain
  <2>4. /\ tx' = [v \in Writers |-> tx'[v]]
        /\ tx'[w] = Merge(tx[w], [m \in {n} |-> kind])
        /\ \A v \in Writers \ {w} : tx'[v] = tx[v]
    BY <2>1, <2>2, TxExcept, Zenon
  <2>5. QED  BY <2>3, <2>4, Zenon
<1>5. \A m \in DOMAIN events \cup DOMAIN tx[w] : m < n
  BY <1>1 DEF Follows, Visible
<1>6. Types'  BY <1>3, <1>4 DEF Inv, Types
<1>7. LogInv'
  <2>1. \A v \in Writers \ {w} : DOMAIN tx'[v] = {}
    BY <1>4 DEF WriteEvent
  <2>2. \A m \in DOMAIN tx'[w] : \A e \in DOMAIN events : e < m
    BY <1>4, <1>5 DEF Inv, LogInv
  <2>3. QED  BY <1>3, <2>1, <2>2 DEF LogInv
<1>8. GotInv'  BY <1>3 DEF Inv, GotInv
<1>9. SentInv'  BY <1>3 DEF Inv, SentInv
<1>10. QED  BY <1>6, <1>7, <1>8, <1>9 DEF Inv

LEMMA CommitStep ==
  ASSUME Inv, NEW w \in Writers, Commit(w) PROVE Inv'
<1>1. UNCHANGED <<conn, wire, lastId, got>>  BY DEF Commit, pageVars
<1>2. DOMAIN events' = DOMAIN events \cup DOMAIN tx[w]
  BY MergeDomain DEF Commit
<1>3. /\ tx' = [v \in Writers |-> tx'[v]]
      /\ DOMAIN tx'[w] = {}
      /\ \A v \in Writers \ {w} : tx'[v] = tx[v]
  <2>1. tx = [v \in Writers |-> tx[v]]  BY DEF Inv, Types
  <2>2. tx' = [tx EXCEPT ![w] = <<>>]  BY DEF Commit
  <2>3. QED  BY <2>1, <2>2, TxExcept, EmptyDomain, Zenon
<1>4. \A n \in DOMAIN tx[w] : \A m \in DOMAIN events : m < n
  BY DEF Inv, LogInv
<1>5. \A n \in DOMAIN tx[w] : n \in Nat /\ 0 < n
  BY DEF Inv, Types, Numbers
<1>6. Types'  BY <1>1, <1>2, <1>3 DEF Inv, Types
<1>7. LogInv'
  <2>1. \A v \in Writers : DOMAIN tx'[v] = {}
    BY <1>3 DEF Commit, Inv, LogInv
  <2>2. QED  BY <2>1 DEF LogInv
<1>8. \A n \in DOMAIN tx[w] : lastId < n
  BY <1>4, <1>5 DEF Inv, GotInv, Types
<1>9. GotInv'
  <2>1. lastId \in {0} \cup DOMAIN events'  BY <1>2 DEF Inv, GotInv
  <2>2. \A n \in DOMAIN events' : n <= lastId => n \in DOMAIN events
    BY <1>2, <1>5, <1>8 DEF Inv, Types
  <2>3. QED  BY <1>1, <2>1, <2>2 DEF Inv, GotInv
<1>10. SentInv'
  <2>1. CASE conn.pc = "none"  BY <1>1, <2>1 DEF Inv, SentInv
  <2>2. CASE conn.pc # "none"
    <3>1. \A n \in DOMAIN tx[w] : conn.cursor < n
      BY <1>4, <1>5, <2>2 DEF Inv, SentInv, Types
    <3>2. \A n \in DOMAIN events' : n <= conn.cursor => n \in DOMAIN events
      BY <1>2, <1>5, <3>1 DEF Inv, Types
    <3>3. ASSUME conn.pc = "send", NEW b \in conn.batch, NEW n \in DOMAIN events',
                 conn.cursor < n, n < b
          PROVE  n \in conn.batch
      <4>1. b \in DOMAIN events  BY <3>3 DEF Inv, SentInv
      <4>2. n \in DOMAIN events
        BY <1>2, <1>4, <1>5, <3>3, <4>1 DEF Inv, Types, Numbers
      <4>3. QED  BY <3>3, <4>2 DEF Inv, SentInv
    <3>4. QED  BY <1>1, <1>2, <2>2, <3>2, <3>3 DEF Inv, SentInv
  <2>3. QED  BY <2>1, <2>2
<1>11. QED  BY <1>6, <1>7, <1>9, <1>10 DEF Inv

LEMMA RollbackStep ==
  ASSUME Inv, NEW w \in Writers, Rollback(w) PROVE Inv'
<1>1. UNCHANGED <<events, conn, wire, lastId, got>>  BY DEF Rollback, pageVars
<1>2. /\ tx' = [v \in Writers |-> tx'[v]]
      /\ DOMAIN tx'[w] = {}
      /\ \A v \in Writers \ {w} : tx'[v] = tx[v]
  <2>1. tx = [v \in Writers |-> tx[v]]  BY DEF Inv, Types
  <2>2. tx' = [tx EXCEPT ![w] = <<>>]  BY DEF Rollback
  <2>3. QED  BY <2>1, <2>2, TxExcept, EmptyDomain, Zenon
<1>3. Types'  BY <1>1, <1>2 DEF Inv, Types
<1>4. LogInv'  BY <1>1, <1>2 DEF Inv, LogInv
<1>5. GotInv' /\ SentInv'  BY <1>1 DEF Inv, GotInv, SentInv
<1>6. QED  BY <1>3, <1>4, <1>5 DEF Inv

-----------------------------------------------------------------------------
(* The stream and the browser.                                             *)

LEMMA PollStep == Inv /\ Poll => Inv'
<1> SUFFICES ASSUME Inv, Poll PROVE Inv'  OBVIOUS
<1>1. /\ conn' = [conn EXCEPT !.pc = "send", !.batch = Unsent]
      /\ UNCHANGED <<events, tx, wire, lastId, got>>
  BY DEF Poll, logVars, pageVars
<1>2. /\ conn'.pc = "send" /\ conn'.cursor = conn.cursor /\ conn'.batch = Unsent
      /\ conn.pc = "top"
  BY <1>1 DEF Poll, Inv, Types
<1>3. Types'  BY <1>1, <1>2 DEF Inv, Types, Unsent
<1>4. LogInv' /\ GotInv'  BY <1>1 DEF Inv, LogInv, GotInv
<1>5. SentInv'  BY <1>1, <1>2 DEF Inv, SentInv, Unsent
<1>6. QED  BY <1>3, <1>4, <1>5 DEF Inv

LEMMA SendStep == Inv /\ Send => Inv'
<1> SUFFICES ASSUME Inv, Send PROVE Inv'  OBVIOUS
<1>1. PICK n \in conn.batch :
        /\ First(n)
        /\ wire' = Append(wire, n)
        /\ conn' = [conn EXCEPT !.cursor = n, !.batch = @ \ {n}]
  BY DEF Send
<1>2. conn.pc = "send" /\ UNCHANGED <<events, tx, lastId, got>>
  BY DEF Send, logVars, pageVars
<1>3. /\ conn'.pc = "send" /\ conn'.cursor = n /\ conn'.batch = conn.batch \ {n}
      /\ conn' = [pc |-> "send", cursor |-> n, batch |-> conn.batch \ {n}, seen |-> conn.seen]
  BY <1>1, <1>2 DEF Inv, Types
<1>4. n \in Numbers /\ n \in Nat /\ n \in DOMAIN events /\ conn.cursor < n
  BY <1>1, <1>2 DEF Inv, Types, SentInv, Numbers
<1>5. /\ DOMAIN wire = 1 .. Len(wire) /\ Len(wire) \in Nat
      /\ wire' \in Seq(Numbers) /\ DOMAIN wire' = 1 .. (Len(wire) + 1)
      /\ wire'[Len(wire) + 1] = n
      /\ \A i \in 1 .. Len(wire) : wire'[i] = wire[i]
  <2>1. wire \in Seq(Numbers)  BY DEF Inv, Types
  <2>2. QED  BY <1>1, <1>4, <2>1, AppendNumber, Zenon
<1>6. Types'  BY <1>2, <1>3, <1>4, <1>5 DEF Inv, Types
<1>7. LogInv' /\ GotInv'  BY <1>2 DEF Inv, LogInv, GotInv
<1>8. \A i \in DOMAIN wire : wire[i] \in Nat
  BY NumberSeq DEF Inv, Types
<1>9. SentInv'
  <2>1. lastId <= n  BY <1>2, <1>4 DEF Inv, SentInv, Types
  <2>2. \A i \in DOMAIN wire' : lastId < wire'[i] /\ wire'[i] <= n /\ wire'[i] \in DOMAIN events
    BY <1>2, <1>4, <1>5, <1>8 DEF Inv, SentInv, Types
  <2>3. \A i, j \in DOMAIN wire' : i < j => wire'[i] < wire'[j]
    BY <1>2, <1>4, <1>5, <1>8 DEF Inv, SentInv, Types
  <2>4. ASSUME NEW m \in DOMAIN events, lastId < m, m <= n
        PROVE  \E i \in DOMAIN wire' : wire'[i] = m
    <3>1. m \in Nat  BY DEF Inv, Types, Numbers
    <3>2. CASE m <= conn.cursor
      <4>1. PICK i \in DOMAIN wire : wire[i] = m
        BY <1>2, <2>4, <3>2 DEF Inv, SentInv
      <4>2. QED  BY <1>5, <4>1
    <3>3. CASE conn.cursor < m /\ m < n
      <4>1. m \in conn.batch  BY <1>1, <1>2, <3>3 DEF Inv, SentInv
      <4>2. n <= m  BY <1>1, <4>1 DEF First
      <4>3. QED  BY <1>4, <3>1, <3>3, <4>2
    <3>4. CASE m = n  BY <1>5, <3>4
    <3>5. QED  BY <1>4, <2>4, <3>1, <3>2, <3>3, <3>4 DEF Inv, Types
  <2>5. \A b \in conn'.batch : n < b /\ b \in DOMAIN events
    BY <1>1, <1>2, <1>3, <1>4 DEF Inv, SentInv, First, Types, Numbers
  <2>6. \A b \in conn'.batch : \A m \in DOMAIN events : n < m /\ m < b => m \in conn'.batch
    BY <1>2, <1>3, <1>4 DEF Inv, SentInv, Types, Numbers
  <2>7. QED  BY <1>2, <1>3, <1>4, <2>1, <2>2, <2>3, <2>4, <2>5, <2>6 DEF SentInv
<1>10. QED  BY <1>6, <1>7, <1>9 DEF Inv

LEMMA StatusStep == Inv /\ (ReadStatus \/ Expire) => Inv'
<1> SUFFICES ASSUME Inv, ReadStatus \/ Expire PROVE Inv'  OBVIOUS
<1>1. UNCHANGED <<events, tx, wire, lastId, got>>
  BY DEF ReadStatus, Expire, logVars, pageVars
<1>2. /\ conn'.cursor = conn.cursor /\ conn'.batch = conn.batch
      /\ conn'.pc \in {"top", "ended"} /\ conn.pc # "none"
      /\ conn' = [pc |-> conn'.pc, cursor |-> conn'.cursor, batch |-> conn'.batch,
                  seen |-> conn'.seen]
  BY DEF ReadStatus, Expire, Inv, Types
<1>3. Types'  BY <1>1, <1>2 DEF Inv, Types
<1>4. LogInv' /\ GotInv'  BY <1>1 DEF Inv, LogInv, GotInv
<1>5. SentInv'  BY <1>1, <1>2 DEF Inv, SentInv
<1>6. QED  BY <1>3, <1>4, <1>5 DEF Inv

LEMMA ConnectStep == Inv /\ Connect => Inv'
<1> SUFFICES ASSUME Inv, Connect PROVE Inv'  OBVIOUS
<1>1. UNCHANGED <<events, tx, wire, lastId, got>>
  BY DEF Connect, logVars
<1>2. /\ conn'.pc = "top" /\ conn'.cursor = lastId /\ conn'.batch = {} /\ wire = <<>>
      /\ conn' = [pc |-> "top", cursor |-> lastId, batch |-> {}, seen |-> "unread"]
  BY DEF Connect, NoStream, Inv, SentInv
<1>3. Types'  BY <1>1, <1>2 DEF Inv, Types
<1>4. LogInv' /\ GotInv'  BY <1>1 DEF Inv, LogInv, GotInv
<1>5. DOMAIN wire = {}  BY <1>2
<1>6. \A n \in DOMAIN events : ~(lastId < n /\ n <= lastId)
  BY DEF Inv, Types, Numbers
<1>7. SentInv'  BY <1>1, <1>2, <1>5, <1>6 DEF Inv, SentInv, GotInv, Types
<1>8. QED  BY <1>3, <1>4, <1>7 DEF Inv

\* A connection that ends takes its wire with it.
LEMMA ClosedStep ==
  ASSUME Inv, conn' = NoStream, wire' = <<>>, UNCHANGED <<events, tx, lastId, got>>
  PROVE  Inv'
<1>1. Types'  BY DEF Inv, Types, NoStream
<1>2. LogInv' /\ GotInv'  BY DEF Inv, LogInv, GotInv
<1>3. SentInv'  BY DEF SentInv, NoStream
<1>4. QED  BY <1>1, <1>2, <1>3 DEF Inv

\* What the browser receives is the next event of the log.
LEMMA ReceiveNext ==
  ASSUME Inv, Receive
  PROVE  /\ Head(wire) \in DOMAIN events /\ lastId < Head(wire) /\ Head(wire) = wire[1]
         /\ conn.pc # "none" /\ 1 \in DOMAIN wire
         /\ \A n \in DOMAIN events : lastId < n => Head(wire) <= n
<1>1. wire # <<>> /\ wire \in Seq(Numbers)  BY DEF Receive, Inv, Types
<1>2. 1 \in DOMAIN wire /\ Head(wire) = wire[1]  BY <1>1
<1>3. conn.pc # "none"  BY <1>1 DEF Inv, SentInv
<1>4. Head(wire) \in DOMAIN events /\ lastId < Head(wire) /\ Head(wire) <= conn.cursor
  BY <1>2, <1>3 DEF Inv, SentInv
<1>5. ASSUME NEW n \in DOMAIN events, lastId < n PROVE Head(wire) <= n
  <2>1. n \in Nat /\ Head(wire) \in Nat  BY <1>4 DEF Inv, Types, Numbers
  <2>2. CASE n <= conn.cursor
    <3>1. PICK i \in DOMAIN wire : wire[i] = n
      BY <1>3, <1>5, <2>2 DEF Inv, SentInv
    <3>2. i \in Nat /\ 1 <= i  BY <1>1
    <3>3. CASE i = 1  BY <1>2, <2>1, <3>1, <3>3
    <3>4. CASE 1 < i  BY <1>2, <1>3, <2>1, <3>1, <3>4 DEF Inv, SentInv
    <3>5. QED  BY <3>2, <3>3, <3>4
  <2>3. QED  BY <1>4, <2>1, <2>2 DEF Inv, Types
<1>6. QED  BY <1>2, <1>3, <1>4, <1>5

LEMMA ReceiveStep == Inv /\ Receive => Inv'
<1> SUFFICES ASSUME Inv, Receive PROVE Inv'  OBVIOUS
<1> DEFINE n == Head(wire)
<1>1. /\ UNCHANGED <<events, tx, conn>> /\ wire' = Tail(wire) /\ lastId' = n
      /\ got' = Append(got, n)
  BY DEF Receive, logVars
<1>2. /\ n \in DOMAIN events /\ lastId < n /\ n = wire[1]
      /\ conn.pc # "none" /\ 1 \in DOMAIN wire
      /\ \A m \in DOMAIN events : lastId < m => n <= m
  BY ReceiveNext
<1> HIDE DEF n
<1>3. n \in Numbers /\ n \in Nat /\ lastId \in Nat
  BY <1>2 DEF Inv, Types, Numbers
<1>4. /\ got' \in Seq(Numbers) /\ DOMAIN got = 1 .. Len(got) /\ Len(got) \in Nat
      /\ DOMAIN got' = 1 .. (Len(got) + 1)
      /\ got'[Len(got) + 1] = n /\ \A i \in 1 .. Len(got) : got'[i] = got[i]
  BY <1>1, <1>3 DEF Inv, Types
<1>5. /\ wire \in Seq(Numbers) /\ wire # <<>>
      /\ DOMAIN wire = 1 .. Len(wire) /\ Len(wire) \in Nat
  BY DEF Receive, Inv, Types
<1>6. /\ wire' \in Seq(Numbers) /\ DOMAIN wire' = 1 .. (Len(wire) - 1)
      /\ \A i \in DOMAIN wire' : wire'[i] = wire[i + 1] /\ i + 1 \in DOMAIN wire
  BY <1>1, <1>5
<1>7. Types'  BY <1>1, <1>3, <1>4, <1>6 DEF Inv, Types
<1>8. LogInv'  BY <1>1 DEF Inv, LogInv
<1>9. GotInv'
  <2>1. \A i \in DOMAIN got : got[i] <= n
    <3>1. \A i \in DOMAIN got : got[i] \in Nat  BY NumberSeq DEF Inv, Types
    <3>2. QED  BY <1>2, <1>3, <3>1 DEF Inv, GotInv
  <2>2. ASSUME NEW m \in DOMAIN events, m <= n PROVE \E i \in DOMAIN got' : got'[i] = m
    <3>1. m \in Nat  BY DEF Inv, Types, Numbers
    <3>2. CASE m <= lastId
      <4>1. PICK i \in DOMAIN got : got[i] = m  BY <3>2 DEF Inv, GotInv
      <4>2. QED  BY <1>4, <4>1
    <3>3. CASE lastId < m
      <4>1. m = n  BY <1>2, <1>3, <2>2, <3>1, <3>3
      <4>2. QED  BY <1>4, <4>1
    <3>4. QED  BY <1>3, <3>1, <3>2, <3>3
  <2>3. \A i \in DOMAIN got' : got'[i] <= n  BY <1>3, <1>4, <2>1
  <2>4. QED  BY <1>1, <1>2, <2>2, <2>3 DEF GotInv
<1>10. SentInv'
  <2>1. n <= conn.cursor  BY <1>2 DEF Inv, SentInv
  <2>2. \A i \in DOMAIN wire' : /\ n < wire'[i] /\ wire'[i] <= conn.cursor
                                /\ wire'[i] \in DOMAIN events
    <3>1. ASSUME NEW i \in DOMAIN wire' PROVE n < wire[i + 1]
      <4>1. i + 1 \in DOMAIN wire /\ 1 < i + 1  BY <1>6, <1>5
      <4>2. QED  BY <1>2, <4>1 DEF Inv, SentInv
    <3>2. QED  BY <1>2, <1>6, <3>1 DEF Inv, SentInv
  <2>3. ASSUME NEW i \in DOMAIN wire', NEW j \in DOMAIN wire', i < j
        PROVE  wire'[i] < wire'[j]
    <3>1. i + 1 \in DOMAIN wire /\ j + 1 \in DOMAIN wire /\ i + 1 < j + 1
      BY <1>5, <1>6, <2>3
    <3>2. QED  BY <1>2, <1>6, <3>1 DEF Inv, SentInv
  <2>4. ASSUME NEW m \in DOMAIN events, n < m, m <= conn.cursor
        PROVE  \E i \in DOMAIN wire' : wire'[i] = m
    <3>1. m \in Nat /\ lastId < m  BY <1>2, <1>3, <2>4 DEF Inv, Types, Numbers
    <3>2. PICK i \in DOMAIN wire : wire[i] = m
      BY <1>2, <2>4, <3>1 DEF Inv, SentInv
    <3>3. i # 1  BY <1>2, <1>3, <2>4, <3>1, <3>2
    <3>4. i - 1 \in DOMAIN wire' /\ (i - 1) + 1 = i  BY <1>5, <1>6, <3>3
    <3>5. wire'[i - 1] = m  BY <1>6, <3>2, <3>4
    <3>6. QED  BY <3>4, <3>5
  <2>5. QED  BY <1>1, <1>2, <2>1, <2>2, <2>3, <2>4 DEF Inv, SentInv
<1>11. QED  BY <1>7, <1>8, <1>9, <1>10 DEF Inv

-----------------------------------------------------------------------------
LEMMA StreamStep == Inv /\ [Next]_vars => Inv'
<1> SUFFICES ASSUME Inv, [Next]_vars PROVE Inv'  OBVIOUS
<1>1. CASE UNCHANGED vars
  BY <1>1 DEF vars, Inv, Types, LogInv, GotInv, SentInv
<1>2. CASE \E w \in Writers : WriteEvent(w) \/ Commit(w) \/ Rollback(w)
  BY <1>2, WriteStep, CommitStep, RollbackStep
<1>3. CASE ScanFails
  BY <1>3 DEF ScanFails, pageVars, Inv, Types, LogInv, GotInv, SentInv
<1>4. CASE Stream
  BY <1>4, PollStep, SendStep, StatusStep DEF Stream
<1>5. CASE Connect \/ Receive
  BY <1>5, ConnectStep, ReceiveStep
<1>6. CASE StreamEnds \/ Break \/ StopWatching
  BY <1>6, ClosedStep DEF StreamEnds, Break, StopWatching, logVars, pageVars
<1>7. QED  BY <1>1, <1>2, <1>3, <1>4, <1>5, <1>6 DEF Next, Page

-----------------------------------------------------------------------------
(* The refinement.                                                         *)

LEMMA LogInit == Init => Log!Init
BY DEF Init, Log!Init

LEMMA LogStep == Inv /\ [Next]_vars => [Log!Next]_(Log!vars)
<1> SUFFICES ASSUME Inv, [Next]_vars PROVE [Log!Next]_(Log!vars)  OBVIOUS
<1>1. CASE \E w \in Writers : Commit(w)
  <2>1. PICK w \in Writers : Commit(w)  BY <1>1
  <2>2. DOMAIN events' = DOMAIN events \cup DOMAIN tx[w] /\ got' = got
    BY <2>1, MergeDomain DEF Commit, pageVars
  <2>3. /\ DOMAIN tx[w] \in SUBSET (1 .. MaxEvents)
        /\ \A n \in DOMAIN tx[w], p \in DOMAIN events : p < n
    BY DEF Inv, Types, LogInv, Numbers
  <2>4. QED  BY <2>2, <2>3 DEF Log!Next, Log!Publish
<1>2. CASE Receive
  <2>1. /\ Head(wire) \in DOMAIN events /\ lastId < Head(wire)
        /\ \A n \in DOMAIN events : lastId < n => Head(wire) <= n
    BY <1>2, ReceiveNext
  <2>2. got' = Append(got, Head(wire)) /\ DOMAIN events' = DOMAIN events
    BY <1>2 DEF Receive, logVars
  <2>3. \A a \in Log!Arrived : a < Head(wire)
    <3>1. ASSUME NEW i \in DOMAIN got PROVE got[i] < Head(wire)
      <4>1. got[i] \in Nat /\ Head(wire) \in Nat /\ lastId \in Nat
        BY <2>1, NumberSeq DEF Inv, Types, Numbers
      <4>2. QED  BY <2>1, <4>1 DEF Inv, GotInv
    <3>2. QED  BY <3>1 DEF Log!Arrived
  <2>4. ASSUME NEW p \in DOMAIN events, p < Head(wire) PROVE p \in Log!Arrived
    <3>1. p \in Nat /\ Head(wire) \in Nat /\ lastId \in Nat
      BY <2>1 DEF Inv, Types, Numbers
    <3>2. p <= lastId  BY <2>1, <2>4, <3>1
    <3>3. QED  BY <3>2 DEF Inv, GotInv, Log!Arrived
  <2>5. QED  BY <2>1, <2>2, <2>3, <2>4 DEF Log!Next, Log!Deliver
<1>3. CASE UNCHANGED <<events, got>>
  BY <1>3 DEF Log!vars
<1>4. CASE UNCHANGED vars  BY <1>3, <1>4 DEF vars
<1>5. CASE \E w \in Writers : WriteEvent(w) \/ Rollback(w)
  BY <1>3, <1>5 DEF WriteEvent, InsertEvent, Rollback, pageVars
<1>6. CASE ScanFails \/ Stream \/ Connect \/ StreamEnds \/ Break \/ StopWatching
  BY <1>3, <1>6 DEF ScanFails, Stream, Poll, Send, ReadStatus, Expire, Connect, StreamEnds,
                    Break, StopWatching, logVars, pageVars
<1>7. QED  BY <1>1, <1>2, <1>4, <1>5, <1>6 DEF Next, Page

\* The browser gets each event of the log once and in order, whatever the
\* writers, the stream, the scan and the network do.
THEOREM DeliveryImplemented == Spec => DeliversLog
<1>1. Spec => []Inv  BY StreamInit, StreamStep, PTL DEF Spec
<1>2. QED  BY <1>1, LogInit, LogStep, PTL DEF Spec, DeliversLog, Log!Spec

-----------------------------------------------------------------------------
(* Types.  That neither the wire nor what arrived outgrows the log follows *)
(* from their order: the i-th number of either is at least i.              *)

Conns == [pc : {"none", "top", "send", "ended"}, cursor : 0 .. MaxEvents,
          batch : SUBSET Numbers, seen : {"unread", "active", "terminal"}]

Fields ==
  /\ \A n \in DOMAIN events : events[n] \in Kinds
  /\ \A w \in Writers : \A n \in DOMAIN tx[w] : tx[w][n] \in Kinds
  /\ status \in {"active", "terminal"}
  /\ conn \in Conns
  /\ shown \subseteq Numbers /\ watching \in BOOLEAN /\ breaks \in 0 .. MaxBreaks

Ranked == /\ \A i \in DOMAIN wire : i <= wire[i]
          /\ \A i \in DOMAIN got : i <= got[i]

LEMMA FieldsInit == Init => Fields /\ Ranked
<1> SUFFICES ASSUME Init PROVE Fields /\ Ranked  OBVIOUS
<1>1. NoStream \in Conns  BY StreamAssumption DEF NoStream, Conns
<1>2. \A w \in Writers : tx[w] = <<>>  BY DEF Init
<1>3. QED  BY <1>1, <1>2, EmptyDomain, StreamAssumption DEF Init, Fields, Ranked

LEMMA SeqValues ==
  ASSUME NEW s \in Seq(Numbers), NEW i \in DOMAIN s
  PROVE  i \in Nat /\ s[i] \in Numbers /\ s[i] \in Nat
<1>1. i \in Nat /\ s[i] \in Numbers  OBVIOUS
<1>2. QED  BY <1>1, StreamAssumption DEF Numbers

\* What is added to the wire, or arrives, is larger than all before it.
LEMMA RankedAppend ==
  ASSUME NEW s \in Seq(Numbers), NEW n \in Numbers,
         \A i \in DOMAIN s : i <= s[i] /\ s[i] < n
  PROVE  \A i \in DOMAIN Append(s, n) : i <= Append(s, n)[i]
<1>1. Len(s) \in Nat /\ DOMAIN s = 1 .. Len(s)  OBVIOUS
<1>2. n \in Nat /\ \A i \in DOMAIN s : s[i] \in Nat
  BY SeqValues, StreamAssumption DEF Numbers
<1>3. n >= Len(s) + 1
  <2>1. CASE Len(s) = 0  BY <2>1 DEF Numbers
  <2>2. CASE Len(s) > 0
    <3>1. Len(s) \in DOMAIN s  BY <1>1, <2>2
    <3>2. Len(s) <= s[Len(s)] /\ s[Len(s)] < n  BY <3>1
    <3>3. QED  BY <1>1, <1>2, <3>1, <3>2
  <2>3. QED  BY <1>1, <2>1, <2>2
<1>4. QED  BY <1>1, <1>2, <1>3

LEMMA RankedStep ==
  ASSUME Inv, Ranked, [Next]_vars
  PROVE  Ranked'
<1>0. wire \in Seq(Numbers) /\ got \in Seq(Numbers)  BY DEF Inv, Types
<1>1. CASE Send
  <2> PICK n \in conn.batch : wire' = Append(wire, n)  BY <1>1 DEF Send
  <2>1. n \in Numbers /\ got' = got  BY <1>1 DEF Send, pageVars, Inv, Types
  <2>2. \A i \in DOMAIN wire : wire[i] <= conn.cursor /\ conn.cursor < n
    BY <1>1 DEF Send, Inv, SentInv
  <2>3. \A i \in DOMAIN wire : i <= wire[i] /\ wire[i] < n
    <3> SUFFICES ASSUME NEW i \in DOMAIN wire PROVE i <= wire[i] /\ wire[i] < n  OBVIOUS
    <3>1. wire[i] \in Nat /\ n \in Nat /\ conn.cursor \in Nat
      BY <1>0, <2>1, SeqValues, StreamAssumption DEF Numbers, Inv, Types
    <3>2. QED  BY <2>2, <3>1 DEF Ranked
  <2>4. QED  BY <1>0, <2>1, <2>3, RankedAppend DEF Ranked
<1>2. CASE Receive
  <2>1. wire # <<>> /\ wire' = Tail(wire) /\ got' = Append(got, Head(wire))
    BY <1>2 DEF Receive
  <2>2. Head(wire) = wire[1] /\ 1 \in DOMAIN wire /\ Head(wire) \in Numbers
    BY <1>0, <2>1
  <2>3. lastId < wire[1] /\ \A i \in DOMAIN got : got[i] <= lastId
    BY <2>1, <2>2 DEF Inv, SentInv, GotInv
  <2>4. \A i \in DOMAIN got : i <= got[i] /\ got[i] < Head(wire)
    <3> SUFFICES ASSUME NEW i \in DOMAIN got PROVE i <= got[i] /\ got[i] < Head(wire)
      OBVIOUS
    <3>1. got[i] \in Nat /\ wire[1] \in Nat /\ lastId \in Nat
      BY <1>0, <2>2, SeqValues DEF Inv, Types
    <3>2. QED  BY <2>2, <2>3, <3>1 DEF Ranked
  <2>5. \A i \in DOMAIN Tail(wire) : i + 1 \in DOMAIN wire /\ Tail(wire)[i] = wire[i + 1]
    BY <1>0, <2>1
  <2>6. \A i \in DOMAIN Tail(wire) : i <= Tail(wire)[i]
    <3> SUFFICES ASSUME NEW i \in DOMAIN Tail(wire) PROVE i <= Tail(wire)[i]  OBVIOUS
    <3>1. i + 1 <= wire[i + 1] /\ i \in Nat /\ wire[i + 1] \in Nat
      <4>1. i \in Nat /\ i + 1 \in DOMAIN wire  BY <1>0, <2>1, <2>5
      <4>2. QED  BY <1>0, <4>1, SeqValues DEF Ranked
    <3>2. QED  BY <2>5, <3>1
  <2>7. QED  BY <1>0, <2>1, <2>2, <2>4, <2>6, RankedAppend DEF Ranked
<1>3. CASE (wire' = wire \/ wire' = <<>>) /\ got' = got
  BY <1>3, EmptyDomain DEF Ranked
<1>4. QED
  BY <1>1, <1>2, <1>3
     DEF Next, WriteEvent, InsertEvent, Commit, Rollback, ScanFails, Stream, Poll, ReadStatus,
         Expire, Page, Connect, StreamEnds, Break, StopWatching, logVars, pageVars, vars

LEMMA FieldsStep ==
  ASSUME Inv, Inv', Fields, [Next]_vars
  PROVE  Fields'
<1>0. /\ Types /\ conn \in Conns /\ NoStream \in Conns /\ lastId \in 0 .. MaxEvents
      /\ MaxBreaks \in Nat
  BY StreamAssumption DEF Fields, Inv, Types, GotInv, Numbers, NoStream, Conns
<1>1. ASSUME NEW w \in Writers, WriteEvent(w) PROVE Fields'
  <2>1. PICK n \in Numbers, kind \in Kinds :
           tx' = [tx EXCEPT ![w] = Merge(@, [m \in {n} |-> kind])]
    BY <1>1 DEF WriteEvent, InsertEvent
  <2>2. \A num \in DOMAIN Merge(tx[w], [m \in {n} |-> kind]) :
           Merge(tx[w], [m \in {n} |-> kind])[num] \in Kinds
    BY DEF Fields, Merge
  <2>3. \A v \in Writers : \A m \in DOMAIN tx'[v] : tx'[v][m] \in Kinds
    BY <1>0, <2>1, <2>2 DEF Fields, Types
  <2>4. QED
    BY <1>1, <2>3 DEF Fields, WriteEvent, InsertEvent, pageVars
<1>2. ASSUME NEW w \in Writers, Commit(w) \/ Rollback(w) PROVE Fields'
  <2>1. tx' = [tx EXCEPT ![w] = <<>>]  BY <1>2 DEF Commit, Rollback
  <2>2. \A v \in Writers : \A m \in DOMAIN tx'[v] : tx'[v][m] \in Kinds
    BY <1>0, <2>1, EmptyDomain DEF Fields, Types
  <2>3. \A m \in DOMAIN Merge(events, tx[w]) : Merge(events, tx[w])[m] \in Kinds
    BY DEF Fields, Merge
  <2>4. QED
    BY <1>2, <2>2, <2>3 DEF Fields, Commit, Rollback, pageVars
<1>3. CASE Poll
  <2>1. Unsent \in SUBSET Numbers  BY <1>0 DEF Unsent, Types
  <2>2. conn' \in Conns  BY <1>0, <1>3, <2>1 DEF Poll, Conns
  <2>3. QED  BY <1>3, <2>2 DEF Poll, Fields, logVars, pageVars
<1>4. CASE Send
  <2> PICK n \in conn.batch : conn' = [conn EXCEPT !.cursor = n, !.batch = @ \ {n}]
    BY <1>4 DEF Send
  <2>1. n \in Numbers /\ n \in 0 .. MaxEvents
    BY <1>0, StreamAssumption DEF Types, Numbers
  <2>2. conn.batch \ {n} \in SUBSET Numbers  BY <1>0 DEF Types
  <2>3. conn' \in Conns  BY <1>0, <2>1, <2>2 DEF Conns
  <2>4. QED  BY <1>4, <2>3 DEF Send, Fields, logVars, pageVars
<1>5. CASE ReadStatus \/ Expire
  BY <1>0, <1>5 DEF ReadStatus, Expire, Fields, Conns, logVars, pageVars
<1>6. CASE Connect
  BY <1>0, <1>6 DEF Connect, Fields, Conns, NoStream, logVars
<1>7. CASE Receive
  <2>1. Head(wire) \in Numbers  BY <1>0, <1>7 DEF Receive, Types
  <2>2. QED  BY <1>7, <2>1 DEF Receive, Fields, logVars
<1>8. CASE StreamEnds \/ StopWatching \/ ScanFails \/ UNCHANGED vars
  BY <1>0, <1>8 DEF StreamEnds, StopWatching, ScanFails, Fields, logVars, pageVars, vars
<1>9. CASE Break
  BY <1>0, <1>9 DEF Break, Fields, logVars, pageVars
<1>10. QED
  BY <1>1, <1>2, <1>3, <1>4, <1>5, <1>6, <1>7, <1>8, <1>9 DEF Next, Stream, Page

\* The i-th number of an ordered sequence of numbers is at least i, so the
\* sequence is no longer than the largest number.
LEMMA NoLonger ==
  ASSUME NEW s \in Seq(Numbers), \A i \in DOMAIN s : i <= s[i]
  PROVE  Len(s) <= MaxEvents
<1>1. CASE Len(s) = 0  BY <1>1, StreamAssumption
<1>2. CASE Len(s) # 0
  <2>1. Len(s) \in DOMAIN s /\ Len(s) \in Nat  BY <1>2
  <2>2. Len(s) <= s[Len(s)] /\ s[Len(s)] \in Numbers  BY <2>1
  <2>3. QED  BY <2>1, <2>2, StreamAssumption DEF Numbers
<1>3. QED  BY <1>1, <1>2

\* Rows, cursors, the wire and the page keep their types, and neither the wire
\* nor what arrived is ever longer than the log, however often the stream
\* expires, breaks and resumes.
THEOREM TypeCorrect == Spec => []TypeOK
<1>1. Inv /\ Fields /\ Ranked => TypeOK
  <2> SUFFICES ASSUME Inv, Fields, Ranked PROVE TypeOK  OBVIOUS
  <2>1. Len(wire) <= MaxEvents /\ Len(got) <= MaxEvents
    BY NoLonger DEF Inv, Types, Ranked
  <2>2. lastId \in 0 .. MaxEvents
    BY StreamAssumption DEF Inv, Types, GotInv, Numbers
  <2>3. QED  BY <2>1, <2>2 DEF TypeOK, Fields, Conns, Inv, Types
<1>2. QED
  BY <1>1, StreamInit, StreamStep, FieldsInit, FieldsStep, RankedStep, PTL DEF Spec

=============================================================================
