---------------------------- MODULE OwnerHeldProofs ----------------------------
(***************************************************************************)
(* Theorems about OwnerSends: what a Stop or a restore holds runs only for *)
(* a new press, for every set of sends and every bound; and, when no write *)
(* fails, nothing is stranded, hidden from its owner or runs on its own.   *)
(***************************************************************************)
EXTENDS OwnerOnceProofs

(* Send s waits, or may come back to wait without its owner: it is in the   *)
(* admission line C, in the batch B, or in the transcript with a steer of T *)
(* still to be answered.                                                    *)
Back(L, C, B, T, s) ==
    \/ L[s].st \in Undecided
    \/ \E i \in DOMAIN C : C[i].s = s
    \/ InBatch(B, s)
    \/ \E l \in T : l.line /\ l.s = s

BackNow(s) == Back(row, chain, batch, late, s)

(* What a request must show to run a held row again.                        *)
Ticket(r) == <<r.held, r.gen, r.stopped, r.tok>>

(* What waits is held by a Stop just when since says so, and no request has *)
(* the Stop's token yet; a chip held since then by a Stop or by a restore   *)
(* is opened by no older press than since says.                             *)
Ticketed(s) ==
    /\ BackNow(s) =>
         /\ ~row[s].held /\ (row[s].stopped <=> since[s] # 0)
         /\ row[s].stopped => /\ row[s].tok # 0
                              /\ \A p \in net : p.s = s => p.tok # row[s].tok
    /\ row[s].st \in {"failed", "refused"} /\ since[s] # 0 =>
         \/ row[s].held /\ \A p \in net : p.s = s /\ p.gen = row[s].gen => p.act >= since[s]
         \/ /\ ~row[s].held /\ row[s].stopped /\ row[s].tok # 0
            /\ \A p \in net : p.s = s /\ p.tok = row[s].tok => p.act >= since[s]
    /\ since[s] <= tokens.press + 1
    /\ since[s] # 0 => s \in acked

(* Requests and rows carry tokens that were minted.                         *)
MintedRows(L) == \A s \in Sends : L[s].gen <= tokens.gen /\ L[s].tok <= tokens.stop
Minted ==
    /\ \A p \in net : p.gen <= tokens.gen /\ p.tok <= tokens.stop
    /\ MintedRows(row) /\ (backup # NoBackup => MintedRows(backup.row))

(* Every row is an accepted send's; a request is left only of a send whose  *)
(* row is there, or that was never accepted; a backup knows no more.        *)
Known ==
    /\ \A s \in Sends : row[s].st # "none" => s \in acked
    /\ \A p \in net : row[p.s].st # "none" \/ p.s \notin acked
    /\ backup # NoBackup =>
         /\ \A s \in Sends : backup.row[s].st # "none" => s \in backup.acked
         /\ \A s \in backup.acked : backup.row[s].st = "none" => row[s].st = "none"
         /\ backup.acked \subseteq acked

(* The invariant behind HeldNeedsNewPress.                                  *)
HeldInv == Minted /\ Known /\ \A s \in Sends : Ticketed(s)
-----------------------------------------------------------------------------
(* What a step of the server alone may make of a row: its ticket stays, it  *)
(* never starts to decide, and it waits or becomes a chip only if it was to.*)
Like(s, m) ==
    /\ Ticket(m) = Ticket(row[s])
    /\ m.st = "sending" => row[s].st = "sending"
    /\ m.st = "none" <=> row[s].st = "none"
    /\ m.st \in Undecided => BackNow(s)
    /\ m.st \in {"failed", "refused"} => BackNow(s) \/ row[s].st \in {"failed", "refused"}

Likes(L) == \A s \in Sends : Like(s, L[s])

(* Such a step puts nothing in the line, the batch or a steer but that.     *)
Calm ==
    /\ Likes(row')
    /\ \A i \in DOMAIN chain' : BackNow(chain'[i].s)
    /\ \A b \in batch' : BackNow(b.s)
    /\ \A l \in late' : l.line => BackNow(l.s)

(* No method but accept, a Stop and a restore touches a row's ticket.       *)
LEMMA TicketOps ==
    ASSUME NEW r \in Row
    PROVE  /\ Ticket(Marked(r)) = Ticket(r) /\ Ticket(Queued(r)) = Ticket(r)
           /\ Ticket(Refused(r)) = Ticket(r) /\ Ticket(Scrubbed(r)) = Ticket(r)
           /\ Ticket(QueuedFromLine(r)) = Ticket(r) /\ Ticket(RequeuedStart(r)) = Ticket(r)
           /\ \A st \in Status, withLine \in BOOLEAN :
                 Ticket(Settled(r, st, withLine)) = Ticket(r)
<1>1. /\ Ticket(Marked(r)) = Ticket(r) /\ Ticket(Queued(r)) = Ticket(r)
      /\ Ticket(Scrubbed(r)) = Ticket(r)
      /\ Ticket(QueuedFromLine(r)) = Ticket(r) /\ Ticket(RequeuedStart(r)) = Ticket(r)
  BY DEF Row, Ticket, Marked, Queued, Scrubbed, QueuedFromLine, RequeuedStart
<1>2. \A st \in Status, withLine \in BOOLEAN : Ticket(Settled(r, st, withLine)) = Ticket(r)
  BY DEF Row, Ticket, Settled
<1>3. Ticket(Refused(r)) = Ticket(r)
  BY <1>2 DEF Refused, Status
<1> QED BY <1>1, <1>2, <1>3

(* The status an outcome leaves.                                            *)
LEMMA SettledStatus ==
    ASSUME NEW r \in Row, NEW st, NEW withLine
    PROVE  Settled(r, st, withLine).st = st
BY DEF Settled, Row

(* The row as it is.                                                        *)
LEMMA LikeSame == \A s \in Sends : Like(s, row[s])
BY DEF Like, BackNow, Back

(* One row changed.                                                         *)
LEMMA LikesOne ==
    ASSUME row \in [Sends -> Row], NEW s \in Sends, NEW r, Like(s, r),
           NEW L, L = [row EXCEPT ![s] = r]
    PROVE  Likes(L)
<1>1. \A t \in Sends : L[t] = IF t = s THEN r ELSE row[t]
  OBVIOUS
<1> QED BY <1>1, LikeSame DEF Likes

(* A drain moves only what is to wait.                                      *)
LEMMA DrainLikes ==
    ASSUME LedgerOK, NEW L \in [Sends -> Row], NEW open, NEW d \in Desks, Likes(L),
           Drain(L, open, d) \/ DrainNothing(L, open, d)
    PROVE  /\ Likes(row')
           /\ \A b \in batch' : b \in d.batch \/ (b.s \in Sends /\ BackNow(b.s))
<1>1. \A b \in batch' : b \in d.batch \/ (b.s \in Sends /\ BackNow(b.s))
  <2>1. \A s \in Sends : L[s].st = "queued" => BackNow(s)
    BY DEF Likes, Like, Undecided
  <2> QED BY <2>1, DrainMoves
<1>2. ASSUME NEW e, DrainNothing(L, open, e) PROVE Likes(row')
  BY <1>2 DEF DrainNothing
<1>3. ASSUME NEW s \in Sends, NEW m \in Row, NEW k, m.st = "queued", Like(s, m),
             Ticket(k) = Ticket(m), k.st \in {"refused", "dispatched", "started"}
      PROVE  Like(s, k)
  BY <1>3 DEF Like, Undecided
<1>4. ASSUME DrainGone(L, open, d) PROVE Likes(row')
  <2>1. PICK kept \in SUBSET Sends :
          row' = [s \in Sends |-> IF L[s].st = "queued" /\ s \notin kept
                                  THEN Refused(L[s]) ELSE L[s]]
    BY <1>4 DEF DrainGone
  <2>2. \A s \in Sends : Ticket(Refused(L[s])) = Ticket(L[s]) /\ Refused(L[s]).st = "refused"
    BY TicketOps, StatusOps
  <2>3. ASSUME NEW s \in Sends PROVE Like(s, row'[s])
    <3>1. row'[s] = L[s] \/ (L[s].st = "queued" /\ row'[s] = Refused(L[s]))
      BY <2>1
    <3>2. Like(s, L[s])
      BY DEF Likes
    <3> QED BY <1>3, <2>2, <3>1, <3>2
  <2> QED BY <2>3 DEF Likes
<1> DEFINE M == LateReleased(L, open)
<1>5. M \in [Sends -> Row] /\ Likes(M)
  <2>1. M \in [Sends -> Row]
    BY LedgerOps
  <2>2. \A s \in Sends : M[s] = Scrubbed(L[s]) \/ M[s] = L[s]
    BY DEF LateReleased
  <2>3. \A s \in Sends : Ticket(Scrubbed(L[s])) = Ticket(L[s]) /\ Scrubbed(L[s]).st = L[s].st
    BY TicketOps, StatusOps
  <2> HIDE DEF M
  <2> QED BY <2>1, <2>2, <2>3 DEF Likes, Like
<1> HIDE DEF M
<1>6. ASSUME DrainUnmarked(M, d) PROVE Likes(row')
  BY <1>5, <1>6 DEF DrainUnmarked
<1>7. ASSUME DrainStarts(M, d) PROVE Likes(row')
  <2>1. PICK passed, fate : Drained(M, Drainable(M, {}), passed, fate)
    BY <1>5, <1>7, DrainIsDrained
  <2> DEFINE D == Drainable(M, {})
  <2>2. D \in SUBSET Sends /\ \A s \in D : M[s].st = "queued"
    BY DEF Drainable
  <2> HIDE DEF D
  <2>3. ASSUME NEW s \in Sends PROVE Like(s, row'[s])
    <3>1. \/ row'[s] = M[s]
          \/ /\ M[s].st = "queued"
             /\ row'[s] \in {Refused(Marked(M[s])), Marked(M[s]),
                             Settled(Marked(M[s]), "started", TRUE)}
      BY <1>5, <2>1, <2>2, DrainedRows DEF D
    <3>2. /\ Marked(M[s]) \in Row /\ Ticket(Marked(M[s])) = Ticket(M[s])
          /\ Marked(M[s]).st = "dispatched"
      BY <1>5, RowOps, TicketOps, StatusOps DEF Status
    <3>3. Ticket(Refused(Marked(M[s]))) = Ticket(M[s]) /\ Refused(Marked(M[s])).st = "refused"
      BY <3>2, TicketOps, StatusOps
    <3>4. /\ Ticket(Settled(Marked(M[s]), "started", TRUE)) = Ticket(M[s])
          /\ Settled(Marked(M[s]), "started", TRUE).st = "started"
      BY <3>2, TicketOps, SettledStatus DEF Status
    <3>5. Like(s, M[s]) /\ M[s] \in Row
      BY <1>5 DEF Likes
    <3> QED BY <1>3, <3>1, <3>2, <3>3, <3>4, <3>5
  <2> QED BY <2>3 DEF Likes
<1> QED BY <1>1, <1>2, <1>4, <1>6, <1>7 DEF Drain, M
-----------------------------------------------------------------------------
(* What stays in the line, the batch and the steers was to wait.            *)
LEMMA BackStays ==
    /\ \A i \in DOMAIN chain : BackNow(chain[i].s)
    /\ \A b \in batch : BackNow(b.s)
    /\ \A l \in late : l.line => BackNow(l.s)
BY DEF BackNow, Back, InBatch

(* The line, or the line without its first.                                 *)
LEMMA LineShorter ==
    ASSUME TypeInv, chain' = chain \/ (chain # <<>> /\ chain' = Tail(chain))
    PROVE  \A i \in DOMAIN chain' : BackNow(chain'[i].s)
<1>1. chain \in Seq(Job)
  BY DEF TypeInv, AdmissionOK
<1>2. CASE chain # <<>> /\ chain' = Tail(chain)
  <2>1. \A i \in DOMAIN chain' : i + 1 \in DOMAIN chain /\ chain'[i] = chain[i + 1]
    BY <1>1, <1>2
  <2> QED BY <2>1, BackStays
<1> QED BY <1>2, BackStays

(* The head is in the line: every outcome of its is like its row.           *)
LEMMA HeadLike ==
    ASSUME TypeInv, FlowInv, chain # <<>>
    PROVE  LET j == Head(chain) IN
           /\ j.s \in Sends /\ row[j.s] \in Row /\ BackNow(j.s) /\ row[j.s].st # "none"
           /\ Like(j.s, Queued(row[j.s])) /\ Like(j.s, Marked(row[j.s]))
           /\ Like(j.s, CaughtRow(j)) /\ Like(j.s, row[j.s])
           /\ \A st \in {"started", "delivered", "unconfirmed"}, withLine \in BOOLEAN :
                 Like(j.s, Settled(row[j.s], st, withLine))
<1> DEFINE j == Head(chain)
           r == row[j.s]
<1>1. /\ j.s \in Sends /\ r \in Row /\ r.st # "none"
  <2>1. r.st = IF pc = "idle" THEN "sending" ELSE "dispatched"
    BY HeadRow
  <2> QED BY <2>1, HeadRow
<1>2. BackNow(j.s)
  <2>1. 1 \in DOMAIN chain /\ Head(chain) = chain[1]
    BY DEF TypeInv, AdmissionOK
  <2> QED BY <2>1, BackStays
<1> HIDE DEF j
<1>3. ASSUME NEW m, Ticket(m) = Ticket(r), m.st \notin {"none", "sending"}
      PROVE  Like(j.s, m)
  BY <1>1, <1>2, <1>3 DEF Like
<1>4. Like(j.s, Queued(r)) /\ Like(j.s, Marked(r)) /\ Like(j.s, r)
  BY <1>1, <1>3, TicketOps, StatusOps, LikeSame
<1>5. ASSUME NEW st \in {"started", "delivered", "unconfirmed"}, NEW withLine \in BOOLEAN
      PROVE  Like(j.s, Settled(r, st, withLine))
  <2>1. Ticket(Settled(r, st, withLine)) = Ticket(r) /\ Settled(r, st, withLine).st = st
    BY <1>1, TicketOps, SettledStatus DEF Status
  <2> QED BY <1>3, <2>1
<1>6. Like(j.s, CaughtRow(j))
  <2>1. CaughtRow(j) \in {Settled(r, "started", TRUE), Refused(r), r}
    BY Zenon DEF CaughtRow
  <2>2. Like(j.s, Refused(r))
    BY <1>1, <1>3, TicketOps, StatusOps
  <2>3. Like(j.s, Settled(r, "started", TRUE))
    BY <1>5
  <2> QED BY <1>4, <2>1, <2>2, <2>3
<1> QED BY <1>1, <1>2, <1>4, <1>5, <1>6 DEF j

(* The admission is calm.                                                   *)
LEMMA AdmissionCalm ==
    ASSUME TypeInv, FlowInv, Admission
    PROVE  Calm
<1> DEFINE j == Head(chain)
<1>1. chain # <<>>
  BY DEF Admission, Decide, SteerAnswered, RunRefused, RunAdmitted, RunRecorded,
     TypeInv, AdmissionOK
<1>2. /\ j.s \in Sends /\ row \in [Sends -> Row] /\ row[j.s] \in Row /\ BackNow(j.s)
      /\ Desk \in Desks /\ Desk.batch = batch /\ LedgerOK
  BY <1>1, HeadLike, FoundHere DEF TypeInv, LedgerOK
<1>3. ASSUME NEW r, Like(j.s, r), row' = [row EXCEPT ![j.s] = r], batch' = batch,
             chain' = chain \/ chain' = Tail(chain),
             \A l \in late' : l \in late \/ l.s = j.s
      PROVE  Calm
  <2>1. Likes(row')
    BY <1>2, <1>3, LikesOne
  <2>2. \A i \in DOMAIN chain' : BackNow(chain'[i].s)
    BY <1>1, <1>3, LineShorter
  <2>3. \A l \in late' : l.line => BackNow(l.s)
    BY <1>2, <1>3, BackStays
  <2> QED BY <1>3, <2>1, <2>2, <2>3, BackStays DEF Calm
<1>4. row = [row EXCEPT ![j.s] = row[j.s]] /\ Like(j.s, row[j.s])
  BY <1>1, <1>2, HeadLike
<1>5. ASSUME NEW n, Caught(j, n) PROVE Calm
  <2>1. row' = [row EXCEPT ![j.s] = CaughtRow(j)] \/ row' = row
    BY <1>5 DEF Caught, SetRow
  <2>2. batch' = batch /\ chain' = Tail(chain) /\ late' = late
    BY <1>5 DEF Caught, NoDrain, Leave
  <2>3. Like(j.s, CaughtRow(j))
    BY <1>1, HeadLike
  <2> QED BY <1>3, <1>4, <2>1, <2>2, <2>3
<1>6. ASSUME NEW drains, QueueIt(j, drains) PROVE Calm
  <2> DEFINE L == [row EXCEPT ![j.s] = Queued(row[j.s])]
  <2>1. L \in [Sends -> Row] /\ Likes(L)
    <3>1. Like(j.s, Queued(row[j.s])) /\ Queued(row[j.s]) \in Row
      BY <1>1, HeadLike, Outcomes DEF Outcome
    <3> QED BY <1>2, <3>1, LikesOne
  <2>2. \E open : Drain(L, open, Desk) \/ DrainNothing(L, open, Desk)
    BY <1>6, Zenon DEF QueueIt
  <2> HIDE DEF L
  <2>3. Likes(row') /\ \A b \in batch' : b \in batch \/ BackNow(b.s)
    BY <1>2, <2>1, <2>2, DrainLikes
  <2>4. chain' = Tail(chain) /\ late' = late
    BY <1>6 DEF QueueIt, Leave
  <2>5. \A i \in DOMAIN chain' : BackNow(chain'[i].s)
    BY <1>1, <2>4, LineShorter
  <2> QED BY <2>3, <2>4, <2>5, BackStays DEF Calm
<1>7. ASSUME NEW next, MarkThen(j, next) PROVE Calm
  <2>1. row' = [row EXCEPT ![j.s] = Marked(row[j.s])]
    BY <1>7 DEF MarkThen, SetRow
  <2>2. Like(j.s, Marked(row[j.s]))
    BY <1>1, HeadLike
  <2>3. batch' = batch /\ chain' = chain /\ late' = late
    BY <1>7 DEF MarkThen, NoDrain, Stay
  <2> QED BY <1>3, <2>1, <2>2, <2>3
<1>8. ASSUME NotSteered(j) PROVE Calm
  <2>1. \/ Caught(j, 0) \/ QueueIt(j, TRUE) \/ QueueIt(j, FALSE) \/ MarkThen(j, "starting")
    BY <1>8, Zenon DEF NotSteered
  <2> QED BY <1>5, <1>6, <1>7, <2>1
<1>9. CASE Decide
  <2>1. \/ Caught(j, 0) \/ Caught(j, 1) \/ QueueIt(j, TRUE) \/ QueueIt(j, FALSE)
        \/ MarkThen(j, "steering") \/ MarkThen(j, "starting") \/ NotSteered(j)
    BY <1>9, Zenon DEF Decide
  <2> QED BY <1>5, <1>6, <1>7, <1>8, <2>1
<1>10. CASE SteerAnswered
  <2>1. Taken(j) \/ Uncertain(j) \/ NotSteered(j) \/ Caught(j, 1)
    BY <1>10, Zenon DEF SteerAnswered
  <2>2. ASSUME NEW st \in {"delivered", "unconfirmed"}, SteerRecorded(j, st)
        PROVE  \E r : Like(j.s, r) /\ row' = [row EXCEPT ![j.s] = r]
    <3>1. \/ row' = [row EXCEPT ![j.s] = Settled(row[j.s], st, TRUE)]
          \/ row' = [row EXCEPT ![j.s] = Settled(row[j.s], "unconfirmed", FALSE)]
          \/ row' = [row EXCEPT ![j.s] = CaughtRow(j)]
          \/ row' = row
      BY <2>2, Zenon DEF SteerRecorded, SetRow
    <3>2. /\ Like(j.s, Settled(row[j.s], st, TRUE))
          /\ Like(j.s, Settled(row[j.s], "unconfirmed", FALSE)) /\ Like(j.s, CaughtRow(j))
      BY <1>1, HeadLike
    <3> QED BY <1>4, <3>1, <3>2
  <2>3. ASSUME Taken(j) PROVE Calm
    <3>1. SteerRecorded(j, "delivered") /\ late' = late /\ batch' = batch /\ chain' = Tail(chain)
      BY <2>3 DEF Taken, Leave, NoDrain
    <3> QED BY <1>3, <2>2, <3>1
  <2>4. ASSUME Uncertain(j) PROVE Calm
    <3> DEFINE l0 == [s |-> j.s, q |-> j.q, a |-> j.a, line |-> lines' # lines]
    <3>1. SteerRecorded(j, "unconfirmed") /\ batch' = batch /\ chain' = Tail(chain)
          /\ late' = late \cup {l0}
      BY <2>4 DEF Uncertain, Leave, NoDrain
    <3>2. l0.s = j.s
      OBVIOUS
    <3> HIDE DEF l0
    <3>3. \A l \in late' : l \in late \/ l.s = j.s
      BY <3>1, <3>2
    <3> QED BY <1>3, <2>2, <3>1, <3>3
  <2> QED BY <1>5, <1>8, <2>1, <2>3, <2>4
<1>11. CASE RunRefused \/ RunAdmitted \/ RunRecorded
  <2>1. CASE RunRefused
    BY <1>5, <2>1 DEF RunRefused
  <2>2. CASE RunAdmitted \/ RunRecorded
    <3>1. \/ row' = row
          \/ row' = [row EXCEPT ![j.s] = Settled(row[j.s], "started", TRUE)]
      BY <2>2 DEF RunAdmitted, RunRecorded, SetRow
    <3>2. Like(j.s, Settled(row[j.s], "started", TRUE))
      BY <1>1, HeadLike
    <3>3. batch' = batch /\ late' = late /\ (chain' = chain \/ chain' = Tail(chain))
      BY <2>2 DEF RunAdmitted, RunRecorded, Leave, Stay
    <3> QED BY <1>3, <1>4, <3>1, <3>2, <3>3
  <2> QED BY <1>11, <2>1, <2>2
<1> QED BY <1>9, <1>10, <1>11 DEF Admission

(* The queue, its timers, the late answers and the turns are calm.          *)
LEMMA QueueCalm ==
    ASSUME TypeInv, FlowInv, Queue \/ World
    PROVE  Calm
<1>1. /\ LedgerOK /\ row \in [Sends -> Row] /\ Desk \in Desks /\ Desk.batch = batch
      /\ batch \subseteq Job /\ late \subseteq LateCall /\ Likes(row)
  BY FoundHere, LikeSame DEF Found, Likes
<1>2. chain' = chain /\ late' \subseteq late
  BY DEF Queue, World, BatchAdmitted, BatchRequeued, BatchFailed, RetryTimer, WatchTimer,
     OtherDrain, LateAnswer, OtherTurnStarts, EngineGetsTurn, TurnCompleted, TurnReleased,
     RoomTurnStarts, RoomTurnEnds, TargetMoves, TurnFrame, admissionVars
<1>3. (\A i \in DOMAIN chain' : BackNow(chain'[i].s)) /\ \A l \in late' : l.line => BackNow(l.s)
  BY <1>2, BackStays
<1>4. ASSUME NEW L \in [Sends -> Row], NEW open, NEW d \in Desks, Likes(L),
             d.batch \subseteq batch, Drain(L, open, d) \/ DrainNothing(L, open, d)
      PROVE  Calm
  <2>1. Likes(row') /\ \A b \in batch' : b \in d.batch \/ BackNow(b.s)
    BY <1>1, <1>4, DrainLikes
  <2> QED BY <1>3, <1>4, <2>1, BackStays DEF Calm
<1>5. ASSUME Likes(row'), batch' \subseteq batch PROVE Calm
  BY <1>3, <1>5, BackStays DEF Calm
<1>6. CASE BatchRequeued
  <2> DEFINE mine == {b.s : b \in {b \in batch : Mine(b) /\ row[b.s].st = "started"}}
  <2>1. PICK back \in SUBSET mine :
          row' = [s \in Sends |-> IF s \in back THEN RequeuedStart(row[s]) ELSE row[s]]
    BY <1>6, Zenon DEF BatchRequeued
  <2>2. \A s \in back : row[s].st = "started" /\ BackNow(s)
    BY BackStays
  <2>3. \A s \in Sends : /\ Ticket(RequeuedStart(row[s])) = Ticket(row[s])
                         /\ RequeuedStart(row[s]).st = "queued"
    BY <1>1, TicketOps, StatusOps
  <2> HIDE DEF mine
  <2>4. Likes(row')
    BY <1>1, <2>1, <2>2, <2>3 DEF Likes, Like
  <2>5. batch' = {}
    BY <1>6 DEF BatchRequeued
  <2> QED BY <1>5, <2>4, <2>5
<1>7. CASE BatchFailed
  <2> DEFINE d == [Desk EXCEPT !.batch = {}, !.retry = "none"]
  <2>1. d \in Desks /\ d.batch \subseteq batch
    BY <1>1 DEF Desks
  <2>2. DrainNothing(row, lateOpen, d) \/ Drain(row, lateOpen, d)
    BY <1>7, Zenon DEF BatchFailed
  <2> HIDE DEF d
  <2> QED BY <1>1, <1>4, <2>1, <2>2
<1>8. CASE RetryTimer
  <2> DEFINE d == [Desk EXCEPT !.retry = "open"]
  <2>1. d \in Desks /\ Drain(row, lateOpen, d) /\ d.batch \subseteq batch
    BY <1>1, <1>8 DEF Desks, RetryTimer
  <2> HIDE DEF d
  <2> QED BY <1>1, <1>4, <2>1
<1>9. CASE WatchTimer
  <2> DEFINE d == [Desk EXCEPT !.watch = FALSE]
  <2>1. d \in Desks /\ Drain(row, lateOpen, d) /\ d.batch \subseteq batch
    BY <1>1, <1>9 DEF Desks, WatchTimer
  <2> HIDE DEF d
  <2> QED BY <1>1, <1>4, <2>1
<1>10. CASE BatchAdmitted
  <2>1. row' = row /\ batch' = {}
    BY <1>10 DEF BatchAdmitted, ledgerVars
  <2> QED BY <1>1, <1>5, <2>1
<1>11. CASE OtherDrain
  <2>1. Drain(row, lateOpen, Desk)
    BY <1>11 DEF OtherDrain
  <2> QED BY <1>1, <1>4, <2>1
<1>12. CASE World
  <2>1. (row' = row /\ batch' = batch) \/ Drain(row, lateOpen, Desk)
    BY <1>12 DEF World, OtherTurnStarts, EngineGetsTurn, TurnCompleted, TurnReleased,
       RoomTurnStarts, RoomTurnEnds, TargetMoves, TurnFrame, ledgerVars, drainVars
  <2> QED BY <1>1, <1>4, <1>5, <2>1
<1>13. ASSUME NEW l \in late, LateAnswer(l) PROVE Calm
  <2>1. l \in LateCall /\ l.s \in Sends /\ row[l.s] \in Row
    BY <1>1 DEF LateCall
  <2>2. l.line => row[l.s].st = "unconfirmed" /\ BackNow(l.s)
    BY BackStays DEF FlowInv, Flow, Asked
  <2> DEFINE N(r) == [row EXCEPT ![l.s] = r]
  <2>3. ASSUME l.line, NEW r \in Row, Ticket(r) = Ticket(row[l.s]),
               r.st \in {"delivered", "failed", "queued"}
        PROVE  N(r) \in [Sends -> Row] /\ Likes(N(r))
    <3>1. Like(l.s, r)
      BY <2>2, <2>3 DEF Like
    <3> QED BY <1>1, <2>1, <2>3, <3>1, LikesOne
  <2>4. ASSUME NEW L \in [Sends -> Row], Likes(L)
        PROVE  Release(L, l) \in [Sends -> Row] /\ Likes(Release(L, l))
    <3>1. Ticket(Scrubbed(L[l.s])) = Ticket(L[l.s])
      BY <2>1, TicketOps
    <3>2. Release(L, l) = [L EXCEPT ![l.s] = Scrubbed(L[l.s])] \/ Release(L, l) = L
      BY DEF Release
    <3>3. /\ Release(L, l) \in [Sends -> Row]
          /\ \A s \in Sends : Release(L, l)[s].st = L[s].st
      BY <2>1, <2>4, ReleaseStatus
    <3>4. \A s \in Sends : Ticket(Release(L, l)[s]) = Ticket(L[s])
      BY <2>1, <2>4, <3>1, <3>2
    <3> QED BY <2>4, <3>3, <3>4 DEF Likes, Like
  <2>5. /\ QueuedFromLine(row[l.s]) \in Row
        /\ Ticket(QueuedFromLine(row[l.s])) = Ticket(row[l.s])
        /\ QueuedFromLine(row[l.s]).st = "queued"
    BY <2>1, RowOps, TicketOps, StatusOps DEF Status
  <2>6. ASSUME NEW st \in {"delivered", "failed"}
        PROVE  /\ Settled(row[l.s], st, TRUE) \in Row
               /\ Ticket(Settled(row[l.s], st, TRUE)) = Ticket(row[l.s])
               /\ Settled(row[l.s], st, TRUE).st = st
    BY <2>1, RowOps, TicketOps, SettledStatus DEF Status
  <2>7. ASSUME NEW st \in {"delivered", "failed"}, LateSettled(l, st) PROVE Calm
    <3>1. \/ l.line /\ row' = Release(N(Settled(row[l.s], st, TRUE)), l)
          \/ row' = Release(row, l)
      BY <2>7, Zenon DEF LateSettled
    <3>2. batch' = batch
      BY <2>7 DEF LateSettled
    <3> DEFINE r == Settled(row[l.s], st, TRUE)
    <3>3. r \in Row /\ Ticket(r) = Ticket(row[l.s]) /\ r.st \in {"delivered", "failed", "queued"}
      BY <2>6, <2>7
    <3> HIDE DEF r
    <3>4. l.line => N(r) \in [Sends -> Row] /\ Likes(N(r))
      BY <2>3, <3>3
    <3>5. (l.line /\ row' = Release(N(r), l)) \/ row' = Release(row, l)
      BY <3>1 DEF r
    <3> HIDE DEF N
    <3> QED BY <1>1, <1>5, <2>4, <3>2, <3>4, <3>5
  <2>8. ASSUME LateRejected(l) PROVE Calm
    <3> DEFINE R == Release(row, l)
               Q == N(QueuedFromLine(row[l.s]))
    <3>1. \/ \E open : DrainNothing(R, open, Desk)
          \/ LateSettled(l, "failed")
          \/ l.line /\ \E open : Drain(Q, open, Desk)
          \/ row' = R /\ batch' = batch
      BY <2>8, Zenon DEF LateRejected
    <3>2. R \in [Sends -> Row] /\ Likes(R)
      BY <1>1, <2>4
    <3>3. l.line => Q \in [Sends -> Row] /\ Likes(Q)
      BY <2>3, <2>5
    <3> HIDE DEF R, Q
    <3>4. CASE \E open : DrainNothing(R, open, Desk)
      BY <1>1, <1>4, <3>2, <3>4
    <3>5. CASE l.line /\ \E open : Drain(Q, open, Desk)
      BY <1>1, <1>4, <3>3, <3>5
    <3>6. CASE row' = R /\ batch' = batch
      BY <1>5, <3>2, <3>6
    <3> QED BY <2>7, <3>1, <3>4, <3>5, <3>6
  <2>9. LateDelivered(l) => LateSettled(l, "delivered")
    BY DEF LateDelivered
  <2>10. LateUncertain(l) => row' = row /\ batch' = batch
    BY DEF LateUncertain, drainVars
  <2>11. LateDelivered(l) \/ LateRejected(l) \/ LateUncertain(l)
    BY <1>13, Zenon DEF LateAnswer
  <2> QED BY <1>1, <1>5, <2>7, <2>8, <2>9, <2>10, <2>11
<1> QED BY <1>6, <1>7, <1>8, <1>9, <1>10, <1>11, <1>12, <1>13 DEF Queue

(* A crash and a startup are calm.                                          *)
LEMMA StartupCalm ==
    ASSUME TypeInv, FlowInv,
           Crash \/ Recover \/ Ready \/ \E s \in Sends : CompleteOne(s)
    PROVE  Calm
<1>1. /\ LedgerOK /\ row \in [Sends -> Row] /\ Desk \in Desks /\ Desk.batch = batch
      /\ Likes(row)
  BY FoundHere, LikeSame DEF Found, Likes
<1>2. CASE Crash
  <2>1. row' = row /\ chain' = <<>> /\ batch' = {} /\ late' = {}
    BY <1>2 DEF Crash, ledgerVars
  <2>2. DOMAIN chain' = {}
    BY <2>1
  <2> QED BY <1>1, <2>1, <2>2 DEF Calm
<1>3. ASSUME Likes(row'), chain' = chain, late' = late, \A b \in batch' : b \in batch \/ BackNow(b.s)
      PROVE  Calm
  BY <1>3, BackStays DEF Calm
<1>4. CASE Recover
  <2>1. (row' = Recovered(row) \/ row' = row) /\ chain' = chain /\ late' = late /\ batch' = batch
    BY <1>4 DEF Recover, BootFrame, admissionVars
  <2>2. Likes(Recovered(row))
    <3>1. ASSUME NEW s \in Sends PROVE Like(s, Recovered(row)[s])
      <4> DEFINE r == row[s]
                 a == [r EXCEPT !.st = "refused", !.ex = FALSE]
                 b == [r EXCEPT !.st = "queued"]
      <4>1. Recovered(row)[s] = r \/ (r.st \in Undecided /\ Recovered(row)[s] \in {a, b})
        BY DEF Recovered, Undecided
      <4>2. r \in Row
        BY <1>1
      <4>3. Ticket(a) = Ticket(r) /\ a.st = "refused" /\ Ticket(b) = Ticket(r) /\ b.st = "queued"
        BY <4>2 DEF Ticket, Row
      <4>4. r.st \in Undecided => BackNow(s) /\ r.st # "none"
        BY DEF BackNow, Back, Undecided
      <4> HIDE DEF a, b
      <4> QED BY <4>1, <4>3, <4>4, LikeSame DEF Like
    <3> QED BY <3>1 DEF Likes
  <2> QED BY <1>1, <1>3, <2>1, <2>2
<1>5. CASE Ready
  <2>1. Drain(row, lateOpen, Desk) /\ chain' = chain /\ late' = late
    BY <1>5 DEF Ready, BootFrame, admissionVars
  <2>2. Likes(row') /\ \A b \in batch' : b \in batch \/ BackNow(b.s)
    BY <1>1, <2>1, DrainLikes
  <2> QED BY <1>3, <2>1, <2>2
<1>6. ASSUME NEW s \in Sends, CompleteOne(s) PROVE Calm
  <2> DEFINE r == row[s]
             a == Settled(r, "started", TRUE)
             b == Scrubbed(r)
             m == Settled(r, "unconfirmed", TRUE)
             c == Scrubbed(m)
  <2>1. chain' = chain /\ late' = late /\ batch' = batch
    BY <1>6 DEF CompleteOne, BootFrame, admissionVars
  <2>2. \/ row' = row
        \/ r.st = "dispatched" /\ row' = [row EXCEPT ![s] = a]
        \/ row' = [row EXCEPT ![s] = b]
        \/ r.words /\ row' = [row EXCEPT ![s] = c]
    BY <1>6, Zenon DEF CompleteOne, SetRow, ledgerVars
  <2>3. r \in Row /\ Shape(r)
    BY <1>1 DEF FlowInv, Flow, Shaped
  <2>4. m \in Row /\ Ticket(m) = Ticket(r) /\ m.st = "unconfirmed"
    BY <2>3, RowOps, TicketOps, SettledStatus DEF Status
  <2>5. r.words => r.st # "none"
    BY <2>3 DEF Shape, NoRow
  <2>6. Ticket(c) = Ticket(r) /\ c.st = "unconfirmed"
    BY <2>4, TicketOps, StatusOps
  <2>7. Ticket(a) = Ticket(r) /\ a.st = "started" /\ Ticket(b) = Ticket(r) /\ b.st = r.st
    <3>1. Ticket(a) = Ticket(r) /\ a.st = "started"
      BY <2>3, TicketOps, SettledStatus DEF Status
    <3>2. Ticket(b) = Ticket(r) /\ b.st = r.st
      BY <2>3, TicketOps, StatusOps
    <3> QED BY <3>1, <3>2
  <2> HIDE DEF a, b, c, m
  <2>8. Like(s, b)
    BY <2>7, LikeSame DEF Like
  <2>9. r.words => Like(s, c)
    BY <2>5, <2>6 DEF Like, Undecided
  <2>10. r.st = "dispatched" => Like(s, a)
    BY <2>7 DEF Like, Undecided
  <2>11. Likes(row')
    BY <1>1, <2>2, <2>8, <2>9, <2>10, LikesOne
  <2> QED BY <1>3, <2>1, <2>11
<1> QED BY <1>2, <1>4, <1>5, <1>6

(* Cancel, and a repeat that finds its row deciding, are calm.              *)
LEMMA OwnerCalm ==
    ASSUME TypeInv, FlowInv, (\E s \in Sends : Cancel(s)) \/ \E p \in net : AcceptAgain(p)
    PROVE  Calm
<1>1. row \in [Sends -> Row] /\ Likes(row)
  BY LikeSame DEF TypeInv, LedgerOK, Likes
<1>2. ASSUME NEW s \in Sends, Cancel(s) PROVE Calm
  <2> DEFINE r == Settled(row[s], "cancelled", FALSE)
  <2>1. row' = [row EXCEPT ![s] = r] /\ chain' = chain /\ batch' = batch /\ late' = late
    BY <1>2 DEF Cancel, SetRow, admissionVars
  <2>2. Ticket(r) = Ticket(row[s]) /\ r.st = "cancelled"
    BY <1>1, TicketOps, SettledStatus DEF Status
  <2>3. row[s].st # "none"
    BY <1>2 DEF Cancel, Cancellable, Chip
  <2> HIDE DEF r
  <2>4. Like(s, r)
    BY <2>2, <2>3 DEF Like, Undecided
  <2>5. Likes(row')
    BY <1>1, <2>1, <2>4, LikesOne
  <2> QED BY <2>1, <2>5, BackStays DEF Calm
<1>3. ASSUME NEW p \in net, AcceptAgain(p) PROVE Calm
  <2> DEFINE j0 == [s |-> p.s, q |-> row[p.s].seq, a |-> row[p.s].act]
  <2>1. /\ row' = row /\ chain' = Append(chain, j0) /\ batch' = batch /\ late' = late
        /\ row[p.s].st = "sending"
    BY <1>3 DEF AcceptAgain, ledgerVars
  <2>2. j0.s = p.s /\ chain \in Seq(Job)
    BY DEF TypeInv, AdmissionOK
  <2>3. BackNow(p.s)
    BY <2>1 DEF BackNow, Back, Undecided
  <2> HIDE DEF j0
  <2>4. \A i \in DOMAIN chain' : (i \in DOMAIN chain /\ chain'[i] = chain[i]) \/ chain'[i] = j0
    BY <2>1, <2>2
  <2>5. \A i \in DOMAIN chain' : BackNow(chain'[i].s)
    BY <2>2, <2>3, <2>4, BackStays
  <2> QED BY <1>1, <2>1, <2>5, BackStays DEF Calm
<1> QED BY <1>2, <1>3
-----------------------------------------------------------------------------
(* A calm step keeps the invariant.                                         *)
LEMMA CalmKeeps ==
    ASSUME TypeInv, HeldInv, Calm, UNCHANGED <<since, tokens, acked, net, backup>>
    PROVE  HeldInv'
<1>1. ASSUME NEW s \in Sends, BackNow(s)' PROVE BackNow(s)
  <2>1. \/ row'[s].st \in Undecided
        \/ \E i \in DOMAIN chain' : chain'[i].s = s
        \/ \E b \in batch' : b.s = s
        \/ \E l \in late' : l.line /\ l.s = s
    BY <1>1 DEF BackNow, Back, InBatch
  <2>2. row'[s].st \in Undecided => BackNow(s)
    BY DEF Calm, Likes, Like
  <2> QED BY <2>1, <2>2 DEF Calm
<1>2. \A s \in Sends : /\ row'[s].held = row[s].held /\ row'[s].gen = row[s].gen
                       /\ row'[s].stopped = row[s].stopped /\ row'[s].tok = row[s].tok
  BY DEF Calm, Likes, Like, Ticket
<1>3. \A s \in Sends : /\ row'[s].st = "none" <=> row[s].st = "none"
                       /\ row'[s].st \in {"failed", "refused"} =>
                             BackNow(s) \/ row[s].st \in {"failed", "refused"}
  BY DEF Calm, Likes, Like
<1>4. Minted'
  BY <1>2 DEF HeldInv, Minted, MintedRows
<1>5. Known'
  <2>1. \A p \in net : p.s \in Sends
    BY DEF TypeInv, RestOK, Request
  <2>2. backup # NoBackup => backup \in Snapshot /\ backup.acked \subseteq Sends
    BY DEF TypeInv, RestOK, Snapshot
  <2> QED BY <1>3, <2>1, <2>2 DEF HeldInv, Known
<1>6. ASSUME NEW s \in Sends PROVE Ticketed(s)'
  <2>1. Ticketed(s)
    BY DEF HeldInv
  <2>2. BackNow(s)' => BackNow(s)
    BY <1>1
  <2>3. /\ row'[s].held = row[s].held /\ row'[s].gen = row[s].gen
        /\ row'[s].stopped = row[s].stopped /\ row'[s].tok = row[s].tok
        /\ row'[s].st \in {"failed", "refused"} =>
              BackNow(s) \/ row[s].st \in {"failed", "refused"}
        /\ since'[s] = since[s] /\ tokens' = tokens /\ net' = net /\ acked' = acked
    BY <1>2, <1>3
  <2> QED BY <2>1, <2>2, <2>3 DEF Ticketed
<1> QED BY <1>4, <1>5, <1>6 DEF HeldInv

(* A chip is not to wait again without its owner.                           *)
LEMMA ChipsRest ==
    ASSUME TypeInv, FlowInv, NEW s \in Sends, ~InChain(s),
           row[s].st \in {"none", "failed", "refused", "cancelled"}
    PROVE  /\ ~BackNow(s) /\ ~InBatch(batch, s) /\ \A l \in late : l.line => l.s # s
<1>1. ~InBatch(batch, s)
  BY DEF InBatch, FlowInv, Flow, Starting
<1>2. \A l \in late : l.line => l.s # s
  BY DEF FlowInv, Flow, Asked
<1> QED BY <1>1, <1>2 DEF BackNow, Back, InChain, Undecided

(* A chip is not in the line.                                               *)
LEMMA ChipsOut ==
    ASSUME TypeInv, FlowInv, NEW s \in Sends,
           row[s].st \in {"none", "failed", "refused", "cancelled"}
    PROVE  ~InChain(s)
BY DEF InChain, FlowInv, Flow, InLine

(* A first send, and a Send again, whose press is younger than every other. *)
LEMMA PressHeld ==
    ASSUME TypeInv, FlowInv, HeldInv, NEW s \in Sends, FirstSend(s) \/ SendAgain(s)
    PROVE  HeldInv'
<1>1. /\ UNCHANGED <<row, chain, batch, late, backup, acked, since>>
  BY DEF FirstSend, SendAgain, Press, ledgerVars, admissionVars, historyVars
<1>2. PICK p0 \in Request :
        /\ net' = net \cup {p0} /\ p0.s = s
        /\ \/ s \notin acked /\ p0.gen = 0 /\ p0.tok = 0 /\ tokens' = tokens
           \/ /\ Chip(row[s]) /\ p0.act = tokens.press + 1
              /\ p0.gen \in {0, row[s].gen} /\ p0.tok \in {0, row[s].tok}
              /\ tokens' = [tokens EXCEPT !.press = @ + 1]
  <2>1. CASE FirstSend(s)
    <3> DEFINE q == [s |-> s, act |-> 0, resend |-> FALSE, gen |-> 0, tok |-> 0]
    <3>1. q \in Request /\ q.s = s /\ q.gen = 0 /\ q.tok = 0
      BY DEF Request
    <3>2. net' = net \cup {q} /\ s \notin acked /\ tokens' = tokens
      BY <2>1 DEF FirstSend, Press
    <3> HIDE DEF q
    <3> QED BY <3>1, <3>2
  <2>2. CASE SendAgain(s)
    <3> DEFINE q == [s |-> s, act |-> tokens.press + 1, resend |-> TRUE,
                     gen |-> IF row[s].held THEN row[s].gen ELSE 0,
                     tok |-> IF row[s].stopped THEN row[s].tok ELSE 0]
    <3>1. /\ q.s = s /\ q.act = tokens.press + 1
          /\ q.gen \in {0, row[s].gen} /\ q.tok \in {0, row[s].tok}
      OBVIOUS
    <3>2. q \in Request
      <4>1. row[s] \in Row /\ tokens.press \in Nat
        BY DEF TypeInv, LedgerOK, RestOK
      <4>2. row[s].gen \in Nat /\ row[s].tok \in Nat
        BY <4>1 DEF Row
      <4> QED BY <4>1, <4>2 DEF Request
    <3>3. /\ net' = net \cup {q} /\ Chip(row[s])
          /\ tokens' = [tokens EXCEPT !.press = @ + 1]
      BY <2>2, Zenon DEF SendAgain, Press
    <3> HIDE DEF q
    <3> QED BY <3>1, <3>2, <3>3
  <2> QED BY <2>1, <2>2
<1>3. /\ tokens'.press \in Nat /\ tokens.press \in Nat /\ tokens'.press >= tokens.press
      /\ tokens'.stop = tokens.stop /\ tokens'.gen = tokens.gen
      /\ tokens.stop \in Nat /\ tokens.gen \in Nat
  BY <1>2 DEF TypeInv, RestOK
<1>4. /\ row[s] \in Row /\ row[s].gen <= tokens.gen /\ row[s].tok <= tokens.stop
  BY DEF HeldInv, Minted, MintedRows, TypeInv, LedgerOK
<1>5. Minted'
  <2>1. p0.gen <= tokens.gen /\ p0.tok <= tokens.stop
    BY <1>2, <1>3, <1>4
  <2>2. \A p \in net' : p.gen <= tokens.gen /\ p.tok <= tokens.stop
    BY <1>2, <2>1 DEF HeldInv, Minted
  <2> QED BY <1>1, <1>3, <2>2 DEF HeldInv, Minted, MintedRows
<1>6. Chip(row[s]) => row[s].st \in {"failed", "refused"}
  BY DEF Chip
<1>7. Known'
  <2>1. row[p0.s].st # "none" \/ p0.s \notin acked
    BY <1>2, <1>6
  <2>2. \A p \in net' : row[p.s].st # "none" \/ p.s \notin acked
    BY <1>2, <2>1 DEF HeldInv, Known
  <2> QED BY <1>1, <2>2 DEF HeldInv, Known
<1>8. ASSUME NEW t \in Sends PROVE Ticketed(t)'
  <2>1. Ticketed(t) /\ since[t] \in Nat
    BY DEF HeldInv, TypeInv, RestOK
  <2>2. BackNow(t)' = BackNow(t)
    BY <1>1 DEF BackNow
  <2>3. s \notin acked => row[s].st = "none" /\ since[s] = 0
    BY DEF HeldInv, Known, Ticketed
  <2>4. BackNow(t) /\ row[t].stopped => t # s
    <3>1. s \notin acked /\ BackNow(s) => ~row[s].stopped
      BY <2>3 DEF HeldInv, Ticketed
    <3>2. Chip(row[s]) => ~BackNow(s)
      BY <1>6, ChipsOut, ChipsRest
    <3> QED BY <1>2, <3>1, <3>2
  <2>5. ASSUME BackNow(t), row[t].stopped PROVE \A p \in net' : p.s = t => p.tok # row[t].tok
    BY <1>2, <2>1, <2>4, <2>5 DEF Ticketed
  <2>6. ASSUME row[t].st \in {"failed", "refused"}, since[t] # 0
        PROVE  p0.s = t => p0.act >= since[t]
    <3>1. since[t] <= tokens.press + 1
      BY <2>1 DEF Ticketed
    <3>2. s \notin acked => t # s
      BY <2>3, <2>6
    <3> QED BY <1>2, <1>3, <2>1, <3>1, <3>2
  <2>7. since[t] <= tokens'.press + 1
    BY <1>3, <2>1 DEF Ticketed
  <2>8. row[t].st \in {"failed", "refused"} /\ since[t] # 0 =>
         \/ row[t].held /\ \A p \in net' : p.s = t /\ p.gen = row[t].gen => p.act >= since[t]
         \/ /\ ~row[t].held /\ row[t].stopped /\ row[t].tok # 0
            /\ \A p \in net' : p.s = t /\ p.tok = row[t].tok => p.act >= since[t]
    BY <1>2, <2>1, <2>6 DEF Ticketed
  <2> QED BY <1>1, <2>1, <2>2, <2>5, <2>7, <2>8 DEF Ticketed
<1> QED BY <1>5, <1>7, <1>8 DEF HeldInv

(* The parts of a new row.                                                  *)
LEMMA NewTicket ==
    ASSUME NEW p \in Request, NEW q \in Nat
    PROVE  /\ NewRow(p, q).st = "sending" /\ ~NewRow(p, q).held /\ NewRow(p, q).gen = 0
           /\ ~NewRow(p, q).stopped /\ NewRow(p, q).tok = 0
           /\ NewRow(p, q).act = IF p.resend THEN p.act ELSE 0
           /\ TypedStopRow(p, q).st = "cancelled" /\ TypedStopRow(p, q).gen = 0
           /\ TypedStopRow(p, q).tok = 0
BY DEF NewRow, TypedStopRow, NoRow, Request

(* What an acceptance finds: no row, or a chip the request may open.        *)
LEMMA AcceptFinds ==
    ASSUME TypeInv, HeldInv, NEW p \in net, Accepts(row[p.s], p, tokens.gen)
    PROVE  /\ p \in Request /\ p.s \in Sends
           /\ row[p.s].st \in {"none", "failed", "refused"}
           /\ row[p.s].st = "none" => p.s \notin acked /\ since[p.s] = 0
<1>1. p \in Request /\ p.s \in Sends
  BY DEF TypeInv, RestOK, Request
<1>2. row[p.s].st \in {"none", "failed", "refused"}
  BY DEF Accepts, Readmits
<1>3. row[p.s].st = "none" => p.s \notin acked
  BY DEF HeldInv, Known
<1>4. p.s \notin acked => since[p.s] = 0
  BY <1>1 DEF HeldInv, Ticketed
<1> QED BY <1>1, <1>2, <1>3, <1>4

(* What is known when one send, p's, has got a row.                         *)
LEMMA FreshKnown ==
    ASSUME TypeInv, HeldInv, NEW p \in net, p.s \in Sends,
           row[p.s].st = "none" => p.s \notin acked,
           \A s \in Sends : s # p.s /\ row'[s].st # "none" => row[s].st # "none",
           \A s \in Sends : s # p.s /\ row[s].st # "none" => row'[s].st # "none",
           row'[p.s].st # "none", acked' = acked \cup {p.s}, net' = net, backup' = backup
    PROVE  Known'
<1>1. \A r \in net : r.s \in Sends
  BY DEF TypeInv, RestOK, Request
<1>2. backup # NoBackup => backup \in Snapshot /\ backup.acked \subseteq Sends
  BY DEF TypeInv, RestOK, Snapshot
<1>3. \A s \in Sends : row'[s].st # "none" => s \in acked'
  BY DEF HeldInv, Known
<1>4. \A r \in net' : row'[r.s].st # "none" \/ r.s \notin acked'
  BY <1>1 DEF HeldInv, Known
<1>5. ASSUME backup # NoBackup
      PROVE  /\ \A s \in backup.acked : backup.row[s].st = "none" => row'[s].st = "none"
             /\ backup.acked \subseteq acked'
  <2>1. /\ \A s \in backup.acked : backup.row[s].st = "none" => row[s].st = "none"
        /\ backup.acked \subseteq acked
    BY <1>5 DEF HeldInv, Known
  <2>2. ASSUME NEW s \in backup.acked, backup.row[s].st = "none" PROVE row'[s].st = "none"
    <3>1. s \in Sends /\ row[s].st = "none" /\ s \in acked
      BY <1>2, <1>5, <2>1, <2>2
    <3> QED BY <3>1
  <2> QED BY <2>1, <2>2
<1> QED BY <1>3, <1>4, <1>5 DEF HeldInv, Known

(* acceptBotSend keeps the invariant.                                       *)
LEMMA AcceptHeld ==
    ASSUME TypeInv, FlowInv, HeldInv, NEW p \in net, Accept(p)
    PROVE  HeldInv'
<1>1. /\ p \in Request /\ p.s \in Sends /\ row[p.s].st \in {"none", "failed", "refused"}
      /\ row[p.s].st = "none" => p.s \notin acked
  BY AcceptFinds DEF Accept
<1>2. /\ ~InChain(p.s) /\ acked' = acked \cup {p.s} /\ since' = [since EXCEPT ![p.s] = 0]
      /\ UNCHANGED <<backup, late, batch, net, tokens>>
  BY DEF Accept, clientVars
<1>3. PICK q \in Seqs :
        /\ row' = [row EXCEPT ![p.s] = NewRow(p, q)]
        /\ chain' = Append(chain, [s |-> p.s, q |-> q, a |-> NewRow(p, q).act])
  BY DEF Accept, SetRow
<1> DEFINE n == NewRow(p, q)
           j0 == [s |-> p.s, q |-> q, a |-> NewRow(p, q).act]
<1>4. n.st = "sending" /\ ~n.held /\ n.gen = 0 /\ ~n.stopped /\ n.tok = 0 /\ j0.s = p.s
  BY <1>1, SeqsAssumption, NewTicket
<1>5. row' = [row EXCEPT ![p.s] = n] /\ chain' = Append(chain, j0)
  BY <1>3
<1> HIDE DEF n, j0
<1>6. /\ row \in [Sends -> Row] /\ chain \in Seq(Job) /\ since \in [Sends -> Nat]
      /\ tokens.gen \in Nat /\ tokens.stop \in Nat /\ tokens.press \in Nat
  BY DEF TypeInv, LedgerOK, AdmissionOK, RestOK
<1>7. row'[p.s] = n /\ \A s \in Sends : s # p.s => row'[s] = row[s]
  BY <1>1, <1>5, <1>6
<1>8. Minted'
  BY <1>2, <1>4, <1>6, <1>7 DEF HeldInv, Minted, MintedRows
<1>9. Known'
  BY <1>1, <1>2, <1>4, <1>7, FreshKnown
<1>10. ASSUME NEW s \in Sends, s # p.s, BackNow(s)' PROVE BackNow(s)
  <2>1. \A i \in DOMAIN chain' : (i \in DOMAIN chain /\ chain'[i] = chain[i]) \/ chain'[i] = j0
    BY <1>5, <1>6
  <2>2. \A i \in DOMAIN chain' : chain'[i].s = s => BackNow(s)
    BY <1>4, <1>10, <2>1, BackStays
  <2>3. \/ row[s].st \in Undecided
        \/ \E i \in DOMAIN chain' : chain'[i].s = s
        \/ InBatch(batch, s) \/ \E l \in late : l.line /\ l.s = s
    BY <1>2, <1>7, <1>10 DEF BackNow, Back
  <2> QED BY <2>2, <2>3 DEF BackNow, Back
<1>11. ASSUME NEW s \in Sends PROVE Ticketed(s)'
  <2>1. Ticketed(s)
    BY DEF HeldInv
  <2>2. CASE s = p.s
    <3>1. since'[s] = 0 /\ row'[s] = n
      BY <1>2, <1>6, <1>7, <2>2
    <3>2. 0 <= tokens.press + 1
      BY <1>6
    <3> QED BY <1>2, <1>4, <3>1, <3>2 DEF Ticketed
  <2>3. CASE s # p.s
    <3>1. since'[s] = since[s] /\ row'[s] = row[s]
      BY <1>2, <1>6, <1>7, <2>3
    <3> QED BY <1>2, <1>10, <2>1, <2>3, <3>1 DEF Ticketed
  <2> QED BY <2>2, <2>3
<1> QED BY <1>8, <1>9, <1>11 DEF HeldInv

(* A Stop holds what waits: marked now with a token nobody has, or marked   *)
(* already by one nobody has.                                               *)
LEMMA StopTickets ==
    ASSUME TypeInv, FlowInv, HeldInv, NEW L \in [Sends -> Row], NEW s \in Sends, L[s] = row[s],
           row'[s] = StopMarked(L, tokens.stop + 1)[s],
           tokens' = [tokens EXCEPT !.stop = @ + 1], since' = HeldSince, net' = net,
           acked \subseteq acked', UNCHANGED <<chain, batch, late>>
    PROVE  Ticketed(s)' /\ row'[s].gen <= tokens'.gen /\ row'[s].tok <= tokens'.stop
<1> DEFINE r == row[s]
           wait == r.st \in Undecided /\ ~r.disp
<1>1. /\ r \in Row /\ Shape(r) /\ tokens.stop \in Nat /\ tokens.press \in Nat
      /\ tokens.gen \in Nat /\ since[s] \in Nat
      /\ tokens'.stop = tokens.stop + 1 /\ tokens'.press = tokens.press
      /\ tokens'.gen = tokens.gen
  BY DEF TypeInv, LedgerOK, RestOK, FlowInv, Flow, Shaped
<1>2. row'[s] = IF wait /\ ~r.stopped THEN [r EXCEPT !.stopped = TRUE, !.tok = tokens.stop + 1]
                ELSE r
  BY DEF StopMarked
<1>3. since'[s] = IF wait THEN tokens.press + 1 ELSE since[s]
  BY DEF HeldSince, Waiting
<1>4. r.st \in Undecided => wait
  BY <1>1 DEF Shape, Undecided
<1>5. r.gen <= tokens.gen /\ r.tok <= tokens.stop /\ \A p \in net : p.tok <= tokens.stop
  BY DEF HeldInv, Minted, MintedRows
<1>6. Ticketed(s) /\ (r.st # "none" => s \in acked)
  BY DEF HeldInv, Known
<1> HIDE DEF r
<1>7. /\ row'[s].st = r.st /\ row'[s].held = r.held /\ row'[s].gen = r.gen
      /\ IF wait /\ ~r.stopped THEN row'[s].stopped /\ row'[s].tok = tokens.stop + 1
         ELSE row'[s].stopped = r.stopped /\ row'[s].tok = r.tok
  BY <1>1, <1>2 DEF Row
<1>8. BackNow(s)' = BackNow(s)
  BY <1>7 DEF BackNow, Back, r
<1>9. r.gen \in Nat /\ r.tok \in Nat /\ (r.st # "none" \/ ~wait)
  BY <1>1 DEF Row, Undecided
<1>10. \A p \in net : p \in Request /\ p.tok \in Nat
  BY DEF TypeInv, RestOK, Request
<1>11. row'[s].gen <= tokens'.gen /\ row'[s].tok <= tokens'.stop
  <2>1. r.gen \in Nat /\ r.tok \in Nat
    BY <1>1 DEF Row
  <2> QED BY <1>1, <1>5, <1>7, <2>1
<1>12. CASE wait
  <2>1. BackNow(s) /\ r.st \notin {"failed", "refused"}
    BY <1>12 DEF BackNow, Back, Undecided, r
  <2>2. ~r.held /\ (r.stopped => r.tok # 0 /\ \A p \in net : p.s = s => p.tok # r.tok)
    BY <1>6, <2>1 DEF Ticketed, r
  <2>3. /\ row'[s].tok # 0 /\ row'[s].stopped
        /\ \A p \in net : p.s = s => p.tok # row'[s].tok
    BY <1>1, <1>5, <1>7, <1>10, <1>12, <2>2
  <2>4. since'[s] = tokens.press + 1 /\ since'[s] # 0 /\ since'[s] <= tokens'.press + 1
    BY <1>1, <1>3, <1>12
  <2>5. s \in acked'
    BY <1>6, <1>12 DEF Undecided
  <2> QED BY <1>7, <1>8, <1>11, <2>1, <2>2, <2>3, <2>4, <2>5 DEF Ticketed
<1>13. CASE ~wait
  <2>1. since'[s] = since[s] /\ row'[s].stopped = r.stopped /\ row'[s].tok = r.tok
    BY <1>3, <1>7, <1>13
  <2>2. Ticketed(s)'
    BY <1>1, <1>6, <1>7, <1>8, <2>1 DEF Ticketed, r
  <2> QED BY <1>11, <2>2
<1> QED BY <1>12, <1>13

(* The Stop button keeps the invariant.                                     *)
LEMMA StopHeld ==
    ASSUME TypeInv, FlowInv, HeldInv, StopPressed
    PROVE  HeldInv'
<1>1. /\ tokens' = [tokens EXCEPT !.stop = @ + 1] /\ row' = StopMarked(row, tokens.stop + 1)
      /\ since' = HeldSince /\ UNCHANGED <<net, acked, backup, chain, batch, late>>
  BY DEF StopPressed, admissionVars
<1>2. /\ row \in [Sends -> Row] /\ tokens.stop \in Nat
      /\ tokens'.stop = tokens.stop + 1 /\ tokens'.gen = tokens.gen
  BY <1>1 DEF TypeInv, LedgerOK, RestOK
<1>3. \A s \in Sends : Ticketed(s)' /\ row'[s].gen <= tokens'.gen /\ row'[s].tok <= tokens'.stop
  BY <1>1, <1>2, StopTickets
<1>4. \A s \in Sends : row'[s].st = row[s].st
  BY <1>1, <1>2 DEF StopMarked, Row
<1>5. Known'
  <2>1. \A p \in net : p.s \in Sends
    BY DEF TypeInv, RestOK, Request
  <2>2. backup # NoBackup => backup \in Snapshot /\ backup.acked \subseteq Sends
    BY DEF TypeInv, RestOK, Snapshot
  <2> QED BY <1>1, <1>4, <2>1, <2>2 DEF HeldInv, Known
<1>6. Minted'
  <2>1. \A p \in net : p.tok \in Nat
    BY DEF TypeInv, RestOK, Request
  <2>2. backup # NoBackup => \A s \in Sends : backup.row[s].tok \in Nat
    BY DEF TypeInv, RestOK, Snapshot, Row
  <2> QED BY <1>1, <1>2, <1>3, <2>1, <2>2 DEF HeldInv, Minted, MintedRows
<1> QED BY <1>3, <1>5, <1>6 DEF HeldInv

(* A typed stop, born finished, keeps the invariant.                        *)
LEMMA TypedStopHeld ==
    ASSUME TypeInv, FlowInv, HeldInv, NEW p \in net, AcceptTypedStop(p)
    PROVE  HeldInv'
<1>1. /\ p \in Request /\ p.s \in Sends /\ row[p.s].st \in {"none", "failed", "refused"}
      /\ row[p.s].st = "none" => p.s \notin acked
  BY AcceptFinds DEF AcceptTypedStop
<1>2. /\ ~InChain(p.s) /\ acked' = acked \cup {p.s} /\ since' = HeldSince
      /\ tokens' = [tokens EXCEPT !.stop = @ + 1]
      /\ UNCHANGED <<backup, chain, late, batch, net>>
  BY DEF AcceptTypedStop, admissionVars
<1>3. PICK q \in Seqs :
        row' = StopMarked([row EXCEPT ![p.s] = TypedStopRow(p, q)], tokens.stop + 1)
  BY DEF AcceptTypedStop
<1> DEFINE n == TypedStopRow(p, q)
           L == [row EXCEPT ![p.s] = n]
<1>4. n.st = "cancelled" /\ n.gen = 0 /\ n.tok = 0
  BY <1>1, SeqsAssumption, NewTicket
<1>5. n \in Row /\ L \in [Sends -> Row] /\ row \in [Sends -> Row]
  BY <1>1, SeqsAssumption, NewRows DEF TypeInv, LedgerOK
<1>6. L[p.s] = n /\ \A s \in Sends : s # p.s => L[s] = row[s]
  BY <1>1, <1>5
<1>7. row' = StopMarked(L, tokens.stop + 1)
  BY <1>3
<1> HIDE DEF n, L
<1>8. row'[p.s] = n
  BY <1>1, <1>4, <1>6, <1>7 DEF StopMarked, Undecided
<1>9. /\ tokens.stop \in Nat /\ tokens.gen \in Nat /\ tokens.press \in Nat
      /\ since \in [Sends -> Nat]
      /\ tokens'.stop = tokens.stop + 1 /\ tokens'.gen = tokens.gen
      /\ tokens'.press = tokens.press
  BY <1>2 DEF TypeInv, RestOK
<1>10. ASSUME NEW s \in Sends, s # p.s
       PROVE  /\ Ticketed(s)' /\ row'[s].gen <= tokens'.gen /\ row'[s].tok <= tokens'.stop
              /\ row'[s].st = row[s].st
  <2>1. L[s] = row[s] /\ row'[s] = StopMarked(L, tokens.stop + 1)[s] /\ acked \subseteq acked'
    BY <1>2, <1>6, <1>7, <1>10
  <2>2. Ticketed(s)' /\ row'[s].gen <= tokens'.gen /\ row'[s].tok <= tokens'.stop
    BY <1>2, <1>5, <2>1, StopTickets
  <2>3. row'[s].st = row[s].st
    BY <1>5, <2>1 DEF StopMarked, Row
  <2> QED BY <2>2, <2>3
<1>11. Ticketed(p.s)'
  <2>1. ~BackNow(p.s)'
    <3>1. ~InBatch(batch, p.s) /\ \A l \in late : l.line => l.s # p.s
      BY <1>1, <1>2, ChipsRest
    <3> QED BY <1>2, <1>4, <1>8, <3>1 DEF BackNow, Back, InChain, Undecided
  <2>2. since'[p.s] = since[p.s]
    BY <1>1, <1>2 DEF HeldSince, Waiting, Undecided
  <2>3. since[p.s] <= tokens'.press + 1
    BY <1>1, <1>9 DEF HeldInv, Ticketed
  <2> QED BY <1>2, <1>4, <1>8, <2>1, <2>2, <2>3 DEF Ticketed
<1>12. Known'
  BY <1>1, <1>2, <1>4, <1>8, <1>10, FreshKnown
<1>13. Minted'
  <2>1. \A r \in net : r.tok \in Nat
    BY DEF TypeInv, RestOK, Request
  <2>2. backup # NoBackup => \A s \in Sends : backup.row[s].tok \in Nat
    BY DEF TypeInv, RestOK, Snapshot, Row
  <2>3. MintedRows(row)'
    BY <1>4, <1>8, <1>9, <1>10 DEF MintedRows
  <2> QED BY <1>2, <1>9, <2>1, <2>2, <2>3 DEF HeldInv, Minted, MintedRows
<1> QED BY <1>10, <1>11, <1>12, <1>13 DEF HeldInv

(* A row pruned takes its requests with it.                                 *)
LEMMA PruneHeld ==
    ASSUME TypeInv, FlowInv, HeldInv, NEW s \in Sends, Prune(s)
    PROVE  HeldInv'
<1>1. /\ row' = [row EXCEPT ![s] = NoRow] /\ net' = {p \in net : p.s # s}
      /\ ~InChain(s) /\ Prunable(row[s]) /\ late = {} /\ ~InBatch(batch, s)
      /\ UNCHANGED <<backup, chain, batch, late, tokens, since, acked>>
  BY DEF Prune, SetRow, admissionVars, historyVars, InBatch
<1>2. /\ row \in [Sends -> Row] /\ tokens.gen \in Nat /\ tokens.stop \in Nat
  BY DEF TypeInv, LedgerOK, RestOK
<1>3. row'[s] = NoRow /\ \A t \in Sends : t # s => row'[t] = row[t]
  BY <1>1, <1>2
<1>4. NoRow.st = "none" /\ NoRow.gen = 0 /\ NoRow.tok = 0
  BY DEF NoRow
<1>5. row[s].st # "none" /\ s \in acked
  BY <1>1 DEF Prunable, HeldInv, Known
<1>6. Minted'
  <2>1. MintedRows(row)'
    BY <1>1, <1>2, <1>3, <1>4 DEF HeldInv, Minted, MintedRows
  <2> QED BY <1>1, <2>1 DEF HeldInv, Minted, MintedRows
<1>7. Known'
  <2>1. \A t \in Sends : row'[t].st # "none" => t \in acked
    BY <1>3, <1>4 DEF HeldInv, Known
  <2>2. \A p \in net' : row'[p.s].st # "none" \/ p.s \notin acked
    <3>1. \A p \in net' : p \in net /\ p.s \in Sends /\ p.s # s
      BY <1>1 DEF TypeInv, RestOK, Request
    <3> QED BY <1>3, <3>1 DEF HeldInv, Known
  <2>3. backup # NoBackup => backup.acked \subseteq Sends
    BY DEF TypeInv, RestOK, Snapshot
  <2>4. backup # NoBackup => \A t \in backup.acked : backup.row[t].st = "none" => row'[t].st = "none"
    BY <1>3, <1>4, <2>3 DEF HeldInv, Known
  <2> QED BY <1>1, <2>1, <2>2, <2>4 DEF HeldInv, Known
<1>8. ASSUME NEW t \in Sends PROVE Ticketed(t)'
  <2>1. Ticketed(t)
    BY DEF HeldInv
  <2>2. CASE t = s
    <3>1. ~BackNow(s)'
      BY <1>1, <1>3, <1>4 DEF BackNow, Back, InChain, Undecided
    <3> QED BY <1>1, <1>3, <1>4, <2>1, <2>2, <3>1 DEF Ticketed
  <2>3. CASE t # s
    <3>1. BackNow(t)' = BackNow(t)
      BY <1>1, <1>3, <2>3 DEF BackNow, Back
    <3> QED BY <1>1, <1>3, <2>1, <2>3, <3>1 DEF Ticketed
  <2> QED BY <2>2, <2>3
<1> QED BY <1>6, <1>7, <1>8 DEF HeldInv

(* A snapshot.                                                              *)
LEMMA BackupHeld == ASSUME TypeInv, HeldInv, TakeBackup PROVE HeldInv'
<1>1. /\ backup'.row = row /\ backup'.acked = acked
      /\ UNCHANGED <<row, chain, batch, late, tokens, since, acked, net>>
  BY DEF TakeBackup, ledgerVars, admissionVars, clientVars, historyVars
<1>2. Minted'
  BY <1>1 DEF HeldInv, Minted, MintedRows
<1>3. Known'
  BY <1>1 DEF HeldInv, Known
<1>4. \A s \in Sends : Ticketed(s)'
  BY <1>1 DEF HeldInv, Ticketed, BackNow
<1> QED BY <1>2, <1>3, <1>4 DEF HeldInv

(* A restore: nothing waits, every chip is held anew, and no request has    *)
(* the generation it is held with.                                          *)
LEMMA RestoreHeld == ASSUME TypeInv, FlowInv, HeldInv, Restore PROVE HeldInv'
<1>1. /\ backup # NoBackup /\ row' = Neutralized(backup.row, tokens.gen + 1)
      /\ acked' = backup.acked /\ net' = net /\ backup' = NoBackup
      /\ tokens' = [tokens EXCEPT !.gen = @ + 1]
      /\ since' = [s \in Sends |-> IF row'[s].held THEN tokens.press + 1 ELSE 0]
      /\ chain' = <<>> /\ late' = {} /\ batch' = {}
  BY DEF Restore, admissionVars, FlowInv
<1>2. /\ \A s \in Sends : backup.row[s] \in Row /\ backup.row[s].gen \in Nat
                          /\ backup.row[s].tok \in Nat
      /\ backup.acked \subseteq Sends
      /\ tokens.gen \in Nat /\ tokens.stop \in Nat /\ tokens.press \in Nat
      /\ tokens'.gen = tokens.gen + 1 /\ tokens'.stop = tokens.stop
      /\ tokens'.press = tokens.press
  BY <1>1 DEF TypeInv, RestOK, Snapshot, Row
<1>3. ASSUME NEW s \in Sends
      PROVE  /\ row'[s].st \notin Undecided
             /\ row'[s].st # "none" <=> backup.row[s].st # "none"
             /\ row'[s].st \in {"failed", "refused"} => row'[s].held
             /\ row'[s].gen = IF row'[s].held THEN tokens.gen + 1 ELSE backup.row[s].gen
             /\ row'[s].tok = backup.row[s].tok
             /\ row'[s].held => row'[s].st # "none"
  <2> DEFINE r == Neutral(backup.row[s])
  <2>0. backup.row[s].st = "none" => ~backup.row[s].held
    BY <1>1 DEF FlowInv, Shaped, Shape, NoRow
  <2>1. /\ r.st \notin Undecided
        /\ r.st # "none" <=> backup.row[s].st # "none"
        /\ r.st \in {"failed", "refused"} => r.held
        /\ r.gen = backup.row[s].gen /\ r.tok = backup.row[s].tok
        /\ r.held => r.st # "none"
    BY <1>2, <2>0 DEF Neutral, Row, Undecided
  <2>2. r \in Row
    BY <1>2, RowOps DEF Status
  <2>3. row'[s] = IF r.held THEN [r EXCEPT !.gen = tokens.gen + 1] ELSE r
    BY <1>1 DEF Neutralized
  <2> HIDE DEF r
  <2>4. /\ row'[s].st = r.st /\ row'[s].held = r.held /\ row'[s].tok = r.tok
        /\ row'[s].gen = IF r.held THEN tokens.gen + 1 ELSE r.gen
    BY <2>2, <2>3 DEF Row
  <2> QED BY <2>1, <2>4
<1>4. /\ \A s \in Sends : backup.row[s].gen <= tokens.gen /\ backup.row[s].tok <= tokens.stop
      /\ \A s \in Sends : backup.row[s].st # "none" => s \in backup.acked
      /\ \A s \in backup.acked : backup.row[s].st = "none" => row[s].st = "none"
      /\ backup.acked \subseteq acked
  BY <1>1 DEF HeldInv, Minted, MintedRows, Known
<1>5. Minted'
  <2>1. MintedRows(row)'
    BY <1>2, <1>3, <1>4 DEF MintedRows
  <2>2. \A p \in net : p.gen \in Nat /\ p.gen <= tokens.gen /\ p.tok <= tokens.stop
    BY DEF HeldInv, Minted, TypeInv, RestOK, Request
  <2> QED BY <1>1, <1>2, <2>1, <2>2 DEF Minted
<1>6. Known'
  <2>1. \A s \in Sends : row'[s].st # "none" => s \in acked'
    BY <1>1, <1>3, <1>4
  <2>2. ASSUME NEW p \in net, p.s \in backup.acked, row'[p.s].st = "none" PROVE FALSE
    <3>1. p.s \in Sends
      BY DEF TypeInv, RestOK, Request
    <3>2. row[p.s].st = "none" /\ p.s \in acked
      BY <1>3, <1>4, <2>2, <3>1
    <3> QED BY <3>2 DEF HeldInv, Known
  <2> QED BY <1>1, <2>1, <2>2 DEF Known
<1>7. ASSUME NEW s \in Sends PROVE Ticketed(s)'
  <2>1. ~BackNow(s)'
    <3>1. DOMAIN chain' = {}
      BY <1>1
    <3> QED BY <1>1, <1>3, <3>1 DEF BackNow, Back, InBatch
  <2>2. row'[s].held => \A p \in net' : p.gen # row'[s].gen
    <3>1. \A p \in net : p.gen \in Nat /\ p.gen <= tokens.gen
      BY DEF HeldInv, Minted, TypeInv, RestOK, Request
    <3> QED BY <1>1, <1>2, <1>3, <3>1
  <2>3. since'[s] = IF row'[s].held THEN tokens.press + 1 ELSE 0
    BY <1>1
  <2>4. since'[s] <= tokens'.press + 1
    BY <1>2, <2>3
  <2>5. since'[s] # 0 => s \in acked'
    BY <1>1, <1>3, <1>4, <2>3
  <2> QED BY <1>3, <2>1, <2>2, <2>3, <2>4, <2>5 DEF Ticketed
<1> QED BY <1>5, <1>6, <1>7 DEF HeldInv
-----------------------------------------------------------------------------
(* At first nothing was sent.                                               *)
LEMMA HeldInit == Init => HeldInv
<1> SUFFICES ASSUME Init PROVE HeldInv
  OBVIOUS
<1>1. /\ \A s \in Sends : row[s] = NoRow /\ since[s] = 0
      /\ net = {} /\ backup = NoBackup /\ chain = <<>> /\ late = {} /\ batch = {}
      /\ tokens.press = 0 /\ tokens.gen = 0 /\ tokens.stop = 0
  BY DEF Init
<1>2. /\ NoRow.st = "none" /\ NoRow.gen = 0 /\ NoRow.tok = 0 /\ NoRow.held = FALSE
      /\ NoRow.stopped = FALSE
  BY DEF NoRow
<1>3. DOMAIN chain = {}
  BY <1>1
<1>4. Minted
  BY <1>1, <1>2 DEF Minted, MintedRows
<1>5. Known
  BY <1>1, <1>2 DEF Known
<1>6. ASSUME NEW s \in Sends PROVE Ticketed(s)
  <2>1. ~BackNow(s)
    BY <1>1, <1>2, <1>3 DEF BackNow, Back, InBatch, Undecided
  <2>2. since[s] <= tokens.press + 1
    BY <1>1
  <2> QED BY <1>1, <1>2, <2>1, <2>2 DEF Ticketed
<1> QED BY <1>4, <1>5, <1>6 DEF HeldInv

(* What only the owner and a restore write.                                 *)
OwnerVars == <<since, tokens, acked, net, backup>>

(* The steps of the server alone, and the owner's that touch no ticket, are *)
(* calm and leave what only the owner and a restore write.                  *)
LEMMA ServerCalm ==
    ASSUME TypeInv, FlowInv,
           \/ Admission \/ Queue \/ World
           \/ Crash \/ Recover \/ Ready \/ \E s \in Sends : CompleteOne(s) \/ Cancel(s)
           \/ \E p \in net : AcceptAgain(p)
    PROVE  Calm /\ UNCHANGED OwnerVars
<1>1. CASE Admission
  <2>1. UNCHANGED OwnerVars
    <3>1. CASE Decide
      BY <3>1, Zenon DEF Decide, Caught, QueueIt, MarkThen, NotSteered, clientVars, OwnerVars
    <3>2. CASE SteerAnswered
      BY <3>2, Zenon DEF SteerAnswered, Taken, Uncertain, Caught, QueueIt, MarkThen, NotSteered,
         clientVars, OwnerVars
    <3>3. CASE RunRefused
      BY <3>3 DEF RunRefused, Caught, clientVars, OwnerVars
    <3>4. CASE RunAdmitted \/ RunRecorded
      BY <3>4 DEF RunAdmitted, RunRecorded, clientVars, historyVars, OwnerVars
    <3> QED BY <1>1, <3>1, <3>2, <3>3, <3>4 DEF Admission
  <2> QED BY <1>1, <2>1, AdmissionCalm
<1>2. CASE Queue
  <2>1. CASE BatchAdmitted \/ BatchRequeued \/ BatchFailed \/ RetryTimer \/ WatchTimer \/ OtherDrain
    <3>1. UNCHANGED OwnerVars
      BY <2>1 DEF BatchAdmitted, BatchRequeued, BatchFailed, RetryTimer, WatchTimer, OtherDrain,
         clientVars, historyVars, OwnerVars
    <3> QED BY <1>2, <3>1, QueueCalm
  <2>2. CASE \E l \in late : LateAnswer(l)
    <3>1. UNCHANGED OwnerVars
      BY <2>2 DEF LateAnswer, clientVars, OwnerVars
    <3> QED BY <1>2, <3>1, QueueCalm
  <2> QED BY <1>2, <2>1, <2>2 DEF Queue
<1>3. CASE World
  <2>1. UNCHANGED OwnerVars
    BY <1>3 DEF World, OtherTurnStarts, EngineGetsTurn, TurnCompleted, TurnReleased,
       RoomTurnStarts, RoomTurnEnds, TargetMoves, TurnFrame, clientVars, OwnerVars
  <2> QED BY <1>3, <2>1, QueueCalm
<1>4. CASE Crash \/ Recover \/ Ready \/ \E s \in Sends : CompleteOne(s)
  <2>1. UNCHANGED OwnerVars
    BY <1>4 DEF Crash, Recover, Ready, CompleteOne, BootFrame, clientVars, historyVars, OwnerVars
  <2> QED BY <1>4, <2>1, StartupCalm
<1>5. CASE (\E s \in Sends : Cancel(s)) \/ \E p \in net : AcceptAgain(p)
  <2>1. UNCHANGED OwnerVars
    BY <1>5 DEF Cancel, AcceptAgain, clientVars, historyVars, OwnerVars
  <2> QED BY <1>5, <2>1, OwnerCalm
<1> QED BY <1>1, <1>2, <1>3, <1>4, <1>5

(* A step is one of those, or one the owner or a restore takes.             *)
LEMMA StepsAre ==
    ASSUME Next
    PROVE  \/ \/ Admission \/ Queue \/ World
              \/ Crash \/ Recover \/ Ready \/ \E s \in Sends : CompleteOne(s) \/ Cancel(s)
              \/ \E p \in net : AcceptAgain(p)
           \/ \E s \in Sends : FirstSend(s) \/ SendAgain(s)
           \/ \E p \in net : Accept(p)
           \/ \E p \in net : AcceptTypedStop(p)
           \/ StopPressed
           \/ \E s \in Sends : Prune(s)
           \/ TakeBackup \/ Restore
BY Zenon DEF Next, Client, Lifecycle

(* Every step keeps it.                                                     *)
LEMMA HeldStep == ASSUME TypeInv, FlowInv, HeldInv, [Next]_vars PROVE HeldInv'
<1>1. CASE UNCHANGED vars
  <2>1. UNCHANGED <<row, chain, batch, late, since, tokens, acked, net, backup>>
    BY <1>1 DEF vars
  <2>2. Minted' /\ Known'
    BY <2>1 DEF HeldInv, Minted, MintedRows, Known
  <2>3. \A s \in Sends : Ticketed(s)'
    BY <2>1 DEF HeldInv, Ticketed, BackNow
  <2> QED BY <2>2, <2>3 DEF HeldInv
<1>2. ASSUME Calm, UNCHANGED OwnerVars PROVE HeldInv'
  BY <1>2, CalmKeeps DEF OwnerVars
<1>3. CASE Next
  BY <1>2, <1>3, StepsAre, ServerCalm, PressHeld, AcceptHeld, TypedStopHeld, StopHeld, PruneHeld,
     BackupHeld, RestoreHeld
<1> QED BY <1>1, <1>3

(* It holds in every state, beside the others.                              *)
LEMMA HeldHolds == Spec => [](TypeInv /\ WordsInv /\ FlowInv /\ HeldInv)
<1>1. Init => HeldInv
  BY HeldInit
<1>2. TypeInv /\ FlowInv /\ HeldInv /\ [Next]_vars => HeldInv'
  BY HeldStep
<1>3. Spec => [](TypeInv /\ WordsInv /\ FlowInv)
  BY FlowHolds
<1> QED BY <1>1, <1>2, <1>3, PTL DEF Spec

(* A press that opens a row held since an earlier one is no older than that.*)
LEMMA AcceptPress ==
    ASSUME TypeInv, FlowInv, HeldInv, NEW p \in net, Accept(p),
           NEW s \in Sends, row[s].st # "sending", row'[s].st = "sending"
    PROVE  row'[s].act >= since[s]
<1>1. /\ p \in Request /\ p.s \in Sends /\ row[p.s].st \in {"none", "failed", "refused"}
      /\ row[p.s].st = "none" => since[p.s] = 0
      /\ Accepts(row[p.s], p, tokens.gen)
  BY AcceptFinds DEF Accept
<1>2. PICK q \in Seqs : row' = [row EXCEPT ![p.s] = NewRow(p, q)]
  BY DEF Accept, SetRow
<1>3. s = p.s /\ row'[s] = NewRow(p, q)
  BY <1>1, <1>2 DEF TypeInv, LedgerOK
<1>4. row'[s].act = IF p.resend THEN p.act ELSE 0
  BY <1>1, <1>3, SeqsAssumption, NewTicket
<1>5. since[s] \in Nat /\ p.act \in Nat
  BY <1>1 DEF TypeInv, RestOK, Request
<1>6. CASE since[s] = 0
  BY <1>4, <1>5, <1>6
<1>7. CASE since[s] # 0
  <2>1. Readmits(row[s], p, tokens.gen) /\ row[s].st \in {"failed", "refused"} /\ Ticketed(s)
    BY <1>1, <1>3, <1>7 DEF Accepts, HeldInv
  <2>2. p.resend /\ p.act >= since[s]
    BY <1>3, <1>7, <2>1 DEF Readmits, StoppedResendRuns, Ticketed
  <2> QED BY <1>4, <2>2
<1> QED BY <1>6, <1>7

(* For every set of sends and every bound: a send that a Stop found waiting,*)
(* or that a restore held, starts to be decided again only for a press of   *)
(* Send again made after that; no retry of the first request, no repeat of  *)
(* an earlier press, no crash and no failed write brings it back without    *)
(* one (accept, stoppedResendRuns, markStopped, neutralizeRestoredSends).   *)
THEOREM HeldPressHolds == Spec => HeldNeedsNewPress
<1> DEFINE Pressed ==
      \A s \in Sends :
          row[s].st # "sending" /\ row'[s].st = "sending" => row'[s].act >= since[s]
<1>1. ASSUME TypeInv, FlowInv, HeldInv, Next PROVE Pressed
  <2> SUFFICES ASSUME NEW s \in Sends, row[s].st # "sending", row'[s].st = "sending"
               PROVE  row'[s].act >= since[s]
    OBVIOUS
  <2>1. row \in [Sends -> Row]
    BY <1>1 DEF TypeInv, LedgerOK
  <2>2. ~Calm
    BY DEF Calm, Likes, Like
  <2>3. CASE \E p \in net : Accept(p)
    BY <1>1, <2>3, AcceptPress
  <2>4. CASE \E p \in net : AcceptTypedStop(p)
    <3>1. PICK p \in net, q \in Seqs :
            /\ row' = StopMarked([row EXCEPT ![p.s] = TypedStopRow(p, q)], tokens.stop + 1)
            /\ Accepts(row[p.s], p, tokens.gen)
      BY <2>4 DEF AcceptTypedStop
    <3>2. p \in Request /\ p.s \in Sends
      BY <1>1 DEF TypeInv, RestOK, Request
    <3> DEFINE L == [row EXCEPT ![p.s] = TypedStopRow(p, q)]
    <3>3. /\ L \in [Sends -> Row] /\ L[p.s].st = "cancelled"
          /\ \A t \in Sends : t # p.s => L[t] = row[t]
      <4>1. TypedStopRow(p, q) \in Row /\ TypedStopRow(p, q).st = "cancelled"
        BY <3>2, SeqsAssumption, NewRows, NewTicket
      <4> HIDE DEF L
      <4> QED BY <2>1, <3>2, <4>1 DEF L
    <3> HIDE DEF L
    <3>4. row'[s].st = L[s].st
      BY <3>1, <3>3 DEF StopMarked, Row, L
    <3> QED BY <3>3, <3>4
  <2>5. ~StopPressed
    <3>1. StopMarked(row, tokens.stop + 1)[s].st = row[s].st
      BY <2>1 DEF StopMarked, Row
    <3> QED BY <3>1 DEF StopPressed
  <2>6. ~\E t \in Sends : FirstSend(t) \/ SendAgain(t)
    BY DEF FirstSend, SendAgain, Press, ledgerVars
  <2>7. ~\E t \in Sends : Prune(t)
    <3>1. ASSUME NEW t \in Sends, Prune(t) PROVE FALSE
      <4>1. row'[s] \in {row[s], NoRow}
        BY <2>1, <3>1 DEF Prune, SetRow
      <4> QED BY <4>1 DEF NoRow
    <3> QED BY <3>1
  <2>8. ~TakeBackup
    BY DEF TakeBackup, ledgerVars
  <2>9. ~Restore
    <3> SUFFICES ASSUME Restore PROVE FALSE
      OBVIOUS
    <3>1. row' = Neutralized(backup.row, tokens.gen + 1) /\ backup.row[s] \in Row
      BY <1>1 DEF Restore, TypeInv, RestOK, Snapshot
    <3> DEFINE r == Neutral(backup.row[s])
    <3>2. r \in Row /\ r.st # "sending"
      <4>1. r \in Row
        BY <3>1, RowOps DEF Status
      <4>2. r.st # "sending"
        BY <3>1 DEF Neutral, Row, Undecided
      <4> QED BY <4>1, <4>2
    <3>3. row'[s].st = r.st
      <4>1. row'[s] = IF r.held THEN [r EXCEPT !.gen = tokens.gen + 1] ELSE r
        BY <3>1 DEF Neutralized
      <4> HIDE DEF r
      <4> QED BY <3>2, <4>1 DEF Row
    <3> QED BY <3>2, <3>3
  <2> QED BY <1>1, <2>2, <2>3, <2>4, <2>5, <2>6, <2>7, <2>8, <2>9, StepsAre, ServerCalm
<1>2. TypeInv /\ FlowInv /\ HeldInv /\ [Next]_vars => [Pressed]_vars
  BY <1>1
<1> QED BY <1>2, HeldHolds, PTL DEF Spec, HeldNeedsNewPress, Pressed
-----------------------------------------------------------------------------
(* When no write fails.  A row in the ledger or in a snapshot, with n lines *)
(* of its words: cancelled it has dropped them, waiting or marked it has    *)
(* them or its line, unconfirmed it shows a line.                           *)
Tidy(r, n) ==
    /\ r.st = "cancelled" => ~r.words
    /\ r.st \in {"queued", "dispatched"} => r.words \/ r.line
    /\ r.st = "unconfirmed" => n > 0 \/ target = "gone"

Dropped(r) == r.st \in {"none", "cancelled"}
Rests(r) == r.st \in {"refused", "cancelled", "none"} /\ ~r.disp
Working(r) == r.st \in {"sending", "dispatched"}

(* A parked send has its words only in its line, or rests; until the        *)
(* recovery has seen it, it waits with its Stop's mark.                     *)
ParkedSo(s) ==
    s \in parked =>
        \/ row[s].ex \/ Rests(row[s])
        \/ server = "down" /\ row[s].st \in Undecided /\ row[s].stopped

(* Whatever is being decided has somebody working on it.                    *)
Worked ==
    target # "gone" =>
        /\ Up => \A s \in Sends : Working(row[s]) => InChain(s)
        /\ server = "recovering" =>
             \A s \in Sends : row[s].st # "sending" /\ (row[s].st = "dispatched" => s \in todo)

(* The invariant behind NobodyStranded, Visible and ParkedStays.            *)
TidyInv ==
    /\ \A s \in Sends : /\ Tidy(row[s], lines[s]) /\ ParkedSo(s)
                        /\ s \in dismissed => Dropped(row[s])
    /\ dismissed \subseteq acked
    /\ backup # NoBackup =>
         /\ \A s \in Sends : /\ Tidy(backup.row[s], backup.lines[s])
                             /\ s \in backup.dismissed => Dropped(backup.row[s])
         /\ backup.dismissed \subseteq backup.acked
    /\ server # "recovering" => todo = {}
    /\ \A s \in todo : row[s].st \in {"dispatched", "unconfirmed"}
    /\ Worked
-----------------------------------------------------------------------------
(* With no write to fail, none does.                                        *)
LEMMA NoFails ==
    ASSUME MaxFail = 0, LedgerOK, NEW n \in Nat, Fails(n)
    PROVE  n = 0
<1>1. spent.fail \in Nat /\ spent["fail"] = spent.fail /\ spent["fail"] + n <= MaxFail
  BY DEF LedgerOK, Fails, Spend
<1> QED BY <1>1

(* A drain then starts what it takes, or makes chips of it for a bot gone.  *)
LEMMA DrainTidy ==
    ASSUME MaxFail = 0, LedgerOK, NEW L \in [Sends -> Row], NEW open, NEW d,
           Drain(L, open, d) \/ DrainNothing(L, open, d), NEW s \in Sends
    PROVE  /\ lines'[s] >= lines[s]
           /\ \/ row'[s] \in {L[s], Scrubbed(L[s])}
              \/ /\ L[s].st = "queued"
                 /\ row'[s] \in {Settled(Marked(L[s]), "started", TRUE), Refused(L[s])}
<1>1. lines \in [Sends -> Nat]
  BY DEF LedgerOK
<1>2. ASSUME NEW e, DrainNothing(L, open, e) PROVE row' = L /\ lines' = lines
  BY <1>2 DEF DrainNothing
<1>3. ASSUME DrainGone(L, open, d)
      PROVE  lines' = lines /\ (row'[s] = L[s] \/ (L[s].st = "queued" /\ row'[s] = Refused(L[s])))
  BY <1>3 DEF DrainGone
<1> DEFINE M == LateReleased(L, open)
<1>4. /\ M \in [Sends -> Row] /\ M[s] \in {L[s], Scrubbed(L[s])}
      /\ M[s].st = "queued" => M[s] = L[s]
  <2>1. M \in [Sends -> Row]
    BY LedgerOps
  <2>2. M[s] \in {L[s], Scrubbed(L[s])}
    BY DEF LateReleased
  <2>3. Scrubbed(L[s]).st = "queued" => Scrubbed(L[s]) = L[s]
    BY StatusOps DEF Scrubbed
  <2> HIDE DEF M
  <2> QED BY <2>1, <2>2, <2>3
<1> HIDE DEF M
<1>5. ASSUME DrainUnmarked(M, d) PROVE FALSE
  BY <1>5, NoFails DEF DrainUnmarked
<1>6. ASSUME DrainStarts(M, d)
      PROVE  /\ lines'[s] >= lines[s]
             /\ \/ row'[s] = M[s]
                \/ M[s].st = "queued" /\ row'[s] = Settled(Marked(M[s]), "started", TRUE)
  <2> DEFINE D == Drainable(M, {})
  <2>1. PICK passed \in SUBSET (D \cap Via) :
          LET B == DrainBatch(M, D \ passed)
          IN  \E fate \in [B -> {"ok", "refused", "stuck"}] :
                LET failed == {x \in B : fate[x] # "ok"}
                    runs == {x \in B : fate[x] = "ok" \/ M[x].ex}
                    twice == {x \in B : fate[x] = "stuck" /\ ~M[x].ex}
                IN  /\ Fails(Cardinality(failed) + Cardinality(twice) + Cardinality(passed))
                    /\ row' = [x \in Sends |->
                                 IF x \in passed THEN Refused(Marked(M[x]))
                                 ELSE IF x \in B THEN DrainedRow(M[x], fate[x]) ELSE M[x]]
                    /\ lines' = [x \in Sends |-> lines[x] +
                                   IF x \in runs /\ ~M[x].ex THEN 1 ELSE 0]
    BY <1>6, Zenon DEF DrainStarts
  <2> DEFINE B == DrainBatch(M, D \ passed)
             failed(f) == {x \in B : f[x] # "ok"}
             runs(f) == {x \in B : f[x] = "ok" \/ M[x].ex}
             twice(f) == {x \in B : f[x] = "stuck" /\ ~M[x].ex}
  <2>2. PICK fate \in [B -> {"ok", "refused", "stuck"}] :
          /\ Fails(Cardinality(failed(fate)) + Cardinality(twice(fate)) + Cardinality(passed))
          /\ row' = [x \in Sends |->
                       IF x \in passed THEN Refused(Marked(M[x]))
                       ELSE IF x \in B THEN DrainedRow(M[x], fate[x]) ELSE M[x]]
          /\ lines' = [x \in Sends |-> lines[x] +
                         IF x \in runs(fate) /\ ~M[x].ex THEN 1 ELSE 0]
    BY <2>1, Zenon
  <2>3. /\ B \subseteq D /\ \A x \in D : M[x].st = "queued"
        /\ failed(fate) \in SUBSET Sends /\ twice(fate) \in SUBSET Sends /\ passed \in SUBSET Sends
    BY DEF DrainBatch, Drainable
  <2>4. passed = {} /\ failed(fate) = {}
    <3> DEFINE x == Cardinality(failed(fate))
               y == Cardinality(twice(fate))
               z == Cardinality(passed)
    <3>1. x \in Nat /\ y \in Nat /\ z \in Nat
      BY <2>3, Counted
    <3>2. Fails(x + y + z)
      BY <2>2
    <3> HIDE DEF x, y, z
    <3>3. x = 0 /\ z = 0
      <4>1. x + y + z \in Nat
        BY <3>1
      <4>2. x + y + z = 0
        BY <3>2, <4>1, NoFails
      <4> QED BY <3>1, <4>2
    <3>4. IsFiniteSet(failed(fate)) /\ IsFiniteSet(passed)
      BY <2>3, SendsAssumption, FS_Subset
    <3> HIDE DEF failed
    <3> QED BY <3>3, <3>4, FS_EmptySet DEF x, z
  <2>5. \A x \in B : fate[x] = "ok"
    BY <2>4
  <2>6. lines'[s] >= lines[s]
    BY <1>1, <2>2
  <2>7. row'[s] = IF s \in B THEN DrainedRow(M[s], fate[s]) ELSE M[s]
    BY <2>2, <2>4
  <2> HIDE DEF B
  <2> QED BY <2>3, <2>5, <2>6, <2>7 DEF DrainedRow
<1>7. lines[s] \in Nat
  BY <1>1
<1>8. \/ \E e : DrainNothing(L, open, e)
      \/ DrainGone(L, open, d) \/ DrainStarts(M, d) \/ DrainUnmarked(M, d)
  BY Zenon DEF Drain, M
<1>9. CASE DrainStarts(M, d)
  BY <1>4, <1>6, <1>9
<1>10. CASE DrainGone(L, open, d) \/ \E e : DrainNothing(L, open, e)
  <2>1. lines'[s] >= lines[s]
    BY <1>2, <1>3, <1>7, <1>10
  <2> QED BY <1>2, <1>3, <1>10, <2>1
<1> QED BY <1>5, <1>8, <1>9, <1>10
-----------------------------------------------------------------------------
(* What a step of the server may then make of the row of s: the same, or,   *)
(* of one at work, an outcome that keeps what its words need.               *)
Active == {"sending", "queued", "dispatched", "started", "unconfirmed"}

Moves(s, m) ==
    \/ m = row[s]
    \/ /\ row[s].st \in Active /\ (row[s].ex => m.ex)
       /\ m.st \notin {"none", "sending", "cancelled"}
       /\ m.st \in {"queued", "dispatched"} => m.words \/ m.line
       /\ m.st = "unconfirmed" => lines'[s] > 0 \/ target' = "gone"

(* A thread deleted does not come back, nor do lines go.                    *)
Onward == /\ \A s \in Sends : lines'[s] \in Nat /\ lines'[s] >= lines[s]
          /\ target = "gone" => target' = "gone"

(* A finished outcome is such a move.                                       *)
LEMMA SettledMoves ==
    ASSUME NEW s \in Sends, NEW k \in Row, row[s].st \in Active, row[s].ex => k.ex,
           NEW st \in {"started", "delivered", "failed", "refused"}, NEW withLine
    PROVE  Moves(s, Settled(k, st, withLine))
<1> DEFINE m == Settled(k, st, withLine)
<1>1. m.st = st /\ m.ex = k.ex
  BY DEF Settled, Row
<1> HIDE DEF m
<1>2. Moves(s, m)
  BY <1>1 DEF Moves
<1> QED BY <1>2 DEF m

(* A scrub on top of one is one.                                            *)
LEMMA ScrubMoves ==
    ASSUME TypeInv, TidyInv, Onward, NEW s \in Sends, NEW m \in Row, Moves(s, m)
    PROVE  Moves(s, Scrubbed(m))
<1> DEFINE k == Scrubbed(m)
<1>1. k = m \/ (m.st = "unconfirmed" /\ k.st = "unconfirmed" /\ k.ex = m.ex)
  BY DEF Scrubbed, Row
<1>2. row[s].st = "unconfirmed" => lines'[s] > 0 \/ target' = "gone"
  BY DEF TidyInv, Tidy, Onward, TypeInv, LedgerOK
<1> HIDE DEF k
<1>3. Moves(s, k)
  BY <1>1, <1>2 DEF Moves, Active
<1> QED BY <1>3 DEF k

(* A drain on top of such moves makes such moves, and leaves nothing marked *)
(* that was not.                                                            *)
LEMMA DrainMovesOn ==
    ASSUME MaxFail = 0, TypeInv, TidyInv, NEW L \in [Sends -> Row], NEW open, NEW d,
           Drain(L, open, d) \/ DrainNothing(L, open, d),
           lines' \in [Sends -> Nat], target' = target, \A s \in Sends : Moves(s, L[s])
    PROVE  /\ Onward
           /\ \A s \in Sends : /\ Moves(s, row'[s])
                               /\ Working(row'[s]) => row'[s].st = L[s].st
<1>1. LedgerOK
  BY DEF TypeInv
<1>2. Onward
  BY <1>1, DrainTidy DEF Onward
<1>3. ASSUME NEW s \in Sends
      PROVE  Moves(s, row'[s]) /\ (Working(row'[s]) => row'[s].st = L[s].st)
  <2>1. /\ Moves(s, L[s]) /\ L[s] \in Row
        /\ \/ row'[s] \in {L[s], Scrubbed(L[s])}
           \/ /\ L[s].st = "queued"
              /\ row'[s] \in {Settled(Marked(L[s]), "started", TRUE), Refused(L[s])}
    BY <1>1, DrainTidy
  <2>2. CASE row'[s] \in {L[s], Scrubbed(L[s])}
    <3>1. Moves(s, Scrubbed(L[s]))
      BY <1>2, <2>1, ScrubMoves
    <3>2. Scrubbed(L[s]).st = L[s].st
      BY <2>1, StatusOps
    <3> QED BY <2>1, <2>2, <3>1, <3>2
  <2>3. CASE /\ L[s].st = "queued"
             /\ row'[s] \in {Settled(Marked(L[s]), "started", TRUE), Refused(L[s])}
    <3>1. row[s].st \in Active /\ (row[s].ex => L[s].ex)
      BY <2>1, <2>3 DEF Moves, Active
    <3>2. Marked(L[s]) \in Row /\ (Marked(L[s]).ex <=> L[s].ex)
      BY <2>1 DEF Marked, Row, Status
    <3>3. Moves(s, Settled(Marked(L[s]), "started", TRUE))
      BY <3>1, <3>2, SettledMoves
    <3>4. Moves(s, Refused(L[s]))
      BY <2>1, <3>1, SettledMoves DEF Refused
    <3>5. Refused(L[s]).st = "refused"
      BY <2>1, StatusOps
    <3>6. Settled(Marked(L[s]), "started", TRUE).st = "started"
      BY <3>2, SettledStatus
    <3> QED BY <2>3, <3>3, <3>4, <3>5, <3>6 DEF Working
  <2> QED BY <2>1, <2>2, <2>3
<1> QED BY <1>2, <1>3

(* Such moves keep the invariant, with somebody still working on what is    *)
(* being decided.                                                           *)
LEMMA MovesKeep ==
    ASSUME TypeInv, TidyInv, Onward, \A s \in Sends : Moves(s, row'[s]),
           server # "down", server' # "down", server' # "recovering" => todo' = {},
           \A s \in todo' : row'[s].st \in {"dispatched", "unconfirmed"}, Worked',
           UNCHANGED <<dismissed, acked, backup, parked>>
    PROVE  TidyInv'
<1>1. ASSUME NEW s \in Sends
      PROVE  Tidy(row[s], lines[s])' /\ ParkedSo(s)' /\ (s \in dismissed => Dropped(row'[s]))
  <2>1. /\ Moves(s, row'[s]) /\ Tidy(row[s], lines[s]) /\ ParkedSo(s)
        /\ s \in dismissed => Dropped(row[s])
        /\ lines[s] \in Nat /\ lines'[s] \in Nat /\ lines'[s] >= lines[s]
        /\ target = "gone" => target' = "gone"
    BY DEF TidyInv, Onward, TypeInv, LedgerOK
  <2>2. CASE row'[s] = row[s]
    <3>1. Tidy(row[s], lines[s])'
      BY <2>1, <2>2 DEF Tidy
    <3>2. ParkedSo(s)'
      BY <2>1, <2>2 DEF ParkedSo
    <3> QED BY <2>1, <2>2, <3>1, <3>2
  <2>3. CASE row'[s] # row[s]
    <3>1. /\ row[s].st \in Active /\ (row[s].ex => row'[s].ex)
          /\ row'[s].st \notin {"none", "sending", "cancelled"}
          /\ row'[s].st \in {"queued", "dispatched"} => row'[s].words \/ row'[s].line
          /\ row'[s].st = "unconfirmed" => lines'[s] > 0 \/ target' = "gone"
      BY <2>1, <2>3 DEF Moves
    <3>2. Tidy(row[s], lines[s])'
      BY <3>1 DEF Tidy
    <3>3. ParkedSo(s)' /\ (s \in dismissed => Dropped(row'[s]))
      BY <2>1, <3>1 DEF ParkedSo, Rests, Dropped, Active
    <3> QED BY <3>2, <3>3
  <2> QED BY <2>2, <2>3
<1>2. backup # NoBackup =>
         /\ \A s \in Sends : /\ Tidy(backup.row[s], backup.lines[s])'
                             /\ s \in backup.dismissed => Dropped(backup.row[s])
         /\ backup.dismissed \subseteq backup.acked
  BY DEF TidyInv, Tidy, Onward
<1> QED BY <1>1, <1>2 DEF TidyInv

(* While the server is up: when what is still being decided is in line.     *)
LEMMA UpKeeps ==
    ASSUME TypeInv, TidyInv, Onward, Up, \A s \in Sends : Moves(s, row'[s]),
           \A s \in Sends : Working(row'[s]) => InChain(s)' \/ target' = "gone",
           UNCHANGED <<dismissed, acked, backup, parked, server, todo>>
    PROVE  TidyInv'
<1>1. server = "up" /\ server' = "up" /\ todo' = {}
  BY DEF Up, TidyInv
<1>2. Worked'
  BY <1>1 DEF Worked, Up
<1> QED BY <1>1, <1>2, MovesKeep
-----------------------------------------------------------------------------
(* The head of the line is being decided, and its words are in its row.     *)
LEMMA HeadTidy ==
    ASSUME TypeInv, FlowInv, TidyInv, chain # <<>>
    PROVE  LET j == Head(chain)
               r == row[j.s]
           IN  /\ j.s \in Sends /\ r \in Row /\ Mine(j) /\ r.st \in {"sending", "dispatched"}
               /\ r.words \/ r.line
               /\ Moves(j.s, Queued(r)) /\ Moves(j.s, Marked(r)) /\ Moves(j.s, CaughtRow(j))
               /\ ~Working(CaughtRow(j)) /\ ~Working(Queued(r))
<1> DEFINE j == Head(chain)
           r == row[j.s]
<1>1. /\ j.s \in Sends /\ r \in Row /\ Mine(j) /\ r.st \in {"sending", "dispatched"}
  <2>1. r.st = IF pc = "idle" THEN "sending" ELSE "dispatched"
    BY HeadRow
  <2>2. j.s \in Sends /\ r \in Row /\ r.seq = j.q
    BY HeadRow
  <2> QED BY <2>1, <2>2 DEF Mine
<1>2. r.words \/ r.line
  <2>1. Shape(r) /\ Tidy(r, lines[j.s])
    BY <1>1 DEF FlowInv, Flow, Shaped, TidyInv
  <2> QED BY <1>1, <2>1 DEF Shape, Tidy
<1>3. CaughtRow(j) \in {Settled(r, "started", TRUE), Refused(r)}
  BY <1>1, Zenon DEF CaughtRow
<1> HIDE DEF j
<1>4. Moves(j.s, Queued(r)) /\ Queued(r).st = "queued"
  BY <1>1, <1>2 DEF Moves, Queued, Row, Active
<1>5. Moves(j.s, Marked(r))
  BY <1>1, <1>2 DEF Moves, Marked, Row, Active
<1>6. Moves(j.s, Settled(r, "started", TRUE)) /\ Moves(j.s, Settled(r, "refused", FALSE))
  BY <1>1, SettledMoves DEF Active
<1>7. Settled(r, "started", TRUE).st = "started" /\ Settled(r, "refused", FALSE).st = "refused"
  BY <1>1, SettledStatus
<1>8. Moves(j.s, CaughtRow(j)) /\ ~Working(CaughtRow(j)) /\ ~Working(Queued(r))
  BY <1>3, <1>4, <1>6, <1>7 DEF Refused, Working
<1> QED BY <1>1, <1>2, <1>4, <1>5, <1>8 DEF j

(* With no write to fail the admission keeps it: the head leaves the line   *)
(* only decided.                                                            *)
LEMMA AdmissionTidy ==
    ASSUME MaxFail = 0, TypeInv, TypeInv', FlowInv, TidyInv, Admission
    PROVE  TidyInv'
<1> DEFINE j == Head(chain)
<1>1. chain # <<>> /\ Up
  BY DEF Admission, Decide, SteerAnswered, RunRefused, RunAdmitted, RunRecorded,
     TypeInv, AdmissionOK
<1>2. /\ j.s \in Sends /\ row \in [Sends -> Row] /\ row[j.s] \in Row
      /\ row[j.s].st \in {"sending", "dispatched"} /\ Mine(j)
      /\ Moves(j.s, Queued(row[j.s])) /\ Moves(j.s, Marked(row[j.s]))
      /\ Moves(j.s, CaughtRow(j))
      /\ ~Working(CaughtRow(j)) /\ ~Working(Queued(row[j.s]))
      /\ chain \in Seq(Job) /\ LedgerOK /\ LedgerOK'
      /\ lines \in [Sends -> Nat] /\ lines' \in [Sends -> Nat]
  BY <1>1, HeadTidy DEF TypeInv, LedgerOK, AdmissionOK
<1>3. ASSUME NEW s \in Sends, Working(row[s]), s # j.s \/ chain' = chain,
             chain' = chain \/ chain' = Tail(chain)
      PROVE  InChain(s)' \/ target = "gone"
  <2>1. InChain(s) \/ target = "gone"
    BY <1>1, <1>3 DEF TidyInv, Worked
  <2>2. ASSUME NEW i \in DOMAIN chain, chain[i].s = s, chain' = Tail(chain), s # j.s
        PROVE  InChain(s)'
    <3>1. i # 1 /\ i \in 1..Len(chain)
      BY <1>2, <2>2
    <3>2. i - 1 \in DOMAIN chain' /\ chain'[i - 1] = chain[i]
      BY <1>1, <1>2, <2>2, <3>1
    <3> QED BY <2>2, <3>2 DEF InChain
  <2>3. chain' = chain => InChain(s)' = InChain(s)
    BY DEF InChain
  <2> QED BY <1>3, <2>1, <2>2, <2>3 DEF InChain
<1> DEFINE Frame == /\ UNCHANGED <<dismissed, acked, backup, parked, server, todo, target>>
                    /\ chain' = chain \/ chain' = Tail(chain)
<1>4. ASSUME NEW m, Moves(j.s, m), row' = [row EXCEPT ![j.s] = m], Frame,
             \A s \in Sends : lines'[s] >= lines[s],
             ~Working(m) \/ target = "gone" \/ chain' = chain
      PROVE  TidyInv'
  <2>1. row'[j.s] = m /\ \A s \in Sends : s # j.s => row'[s] = row[s]
    BY <1>2, <1>4
  <2>2. \A s \in Sends : Moves(s, row'[s])
    BY <1>4, <2>1 DEF Moves
  <2>3. Onward
    BY <1>2, <1>4 DEF Onward
  <2>4. ASSUME NEW s \in Sends, Working(row'[s]) PROVE InChain(s)' \/ target' = "gone"
    <3>1. s # j.s => Working(row[s])
      BY <2>1, <2>4
    <3>2. s = j.s => Working(row[s])
      BY <1>2 DEF Working
    <3> QED BY <1>3, <1>4, <2>1, <2>4, <3>1, <3>2
  <2> QED BY <1>1, <1>4, <2>2, <2>3, <2>4, UpKeeps
<1>5. /\ row = [row EXCEPT ![j.s] = row[j.s]] /\ Moves(j.s, row[j.s])
      /\ \A s \in Sends : lines[s] >= lines[s]
  BY <1>2 DEF Moves
<1>6. ASSUME NEW n \in {0, 1}, Caught(j, n), Frame PROVE TidyInv'
  <2>1. /\ row' = [row EXCEPT ![j.s] = CaughtRow(j)] \/ Fails(n + 1)
        /\ lines' = lines
    BY <1>6, Zenon DEF Caught, SetRow
  <2>2. ~Fails(n + 1)
    <3>1. n + 1 \in Nat /\ n + 1 # 0
      BY <1>6
    <3> QED BY <1>2, <3>1, NoFails
  <2> QED BY <1>2, <1>4, <1>5, <1>6, <2>1, <2>2
<1>7. ASSUME NEW drains, QueueIt(j, drains), Frame PROVE TidyInv'
  <2> DEFINE L == [row EXCEPT ![j.s] = Queued(row[j.s])]
  <2>1. \E open : Drain(L, open, Desk) \/ DrainNothing(L, open, Desk)
    BY <1>7, Zenon DEF QueueIt
  <2>2. /\ L \in [Sends -> Row] /\ L[j.s] = Queued(row[j.s])
        /\ \A s \in Sends : s # j.s => L[s] = row[s]
    <3>1. Queued(row[j.s]) \in Row
      BY <1>1, Outcomes DEF Outcome
    <3> QED BY <1>2, <3>1
  <2> HIDE DEF L
  <2>3. \A s \in Sends : Moves(s, L[s])
    BY <1>2, <2>2 DEF Moves
  <2>4. /\ Onward
        /\ \A s \in Sends : /\ Moves(s, row'[s])
                            /\ Working(row'[s]) => row'[s].st = L[s].st
    BY <1>2, <1>7, <2>1, <2>2, <2>3, DrainMovesOn
  <2>5. ASSUME NEW s \in Sends, Working(row'[s]) PROVE InChain(s)' \/ target' = "gone"
    <3>1. row'[s].st = L[s].st
      BY <2>4, <2>5
    <3>2. s # j.s /\ Working(row[s])
      BY <1>2, <2>2, <2>5, <3>1 DEF Working
    <3> QED BY <1>3, <1>7, <3>2
  <2> QED BY <1>1, <1>7, <2>4, <2>5, UpKeeps
<1>8. ASSUME NEW next, MarkThen(j, next), Frame PROVE TidyInv'
  <2>1. /\ row' = [row EXCEPT ![j.s] = Marked(row[j.s])] /\ lines' = lines /\ chain' = chain
    BY <1>8 DEF MarkThen, SetRow, Stay
  <2> QED BY <1>2, <1>4, <1>5, <1>8, <2>1
<1>9. ASSUME NotSteered(j), Frame PROVE TidyInv'
  <2>1. \/ Caught(j, 0) \/ QueueIt(j, TRUE) \/ QueueIt(j, FALSE) \/ MarkThen(j, "starting")
    BY <1>9, Zenon DEF NotSteered
  <2> QED BY <1>6, <1>7, <1>8, <1>9, <2>1
<1>10. CASE Decide
  <2>1. \/ Caught(j, 0) \/ Caught(j, 1) \/ QueueIt(j, TRUE) \/ QueueIt(j, FALSE)
        \/ MarkThen(j, "steering") \/ MarkThen(j, "starting") \/ NotSteered(j)
    BY <1>10, Zenon DEF Decide
  <2>2. Frame
    BY <1>10, Zenon DEF Decide, Caught, QueueIt, MarkThen, NotSteered, Leave, Stay, turnVars,
       bootVars
  <2> QED BY <1>6, <1>7, <1>8, <1>9, <2>1, <2>2
<1>11. CASE SteerAnswered
  <2>1. Taken(j) \/ Uncertain(j) \/ NotSteered(j) \/ Caught(j, 1)
    BY <1>11, Zenon DEF SteerAnswered
  <2>2. Frame
    BY <1>11, Zenon DEF SteerAnswered, Taken, Uncertain, Caught, QueueIt, MarkThen, NotSteered,
       Leave, Stay, turnVars, bootVars
  <2>3. ASSUME NEW st \in {"delivered", "unconfirmed"}, SteerRecorded(j, st) PROVE TidyInv'
    <3> DEFINE m == Settled(row[j.s], st, TRUE)
               k == Settled(row[j.s], "unconfirmed", FALSE)
    <3>1. /\ m.st = st /\ m.ex = row[j.s].ex /\ k.st = "unconfirmed" /\ k.ex = row[j.s].ex
      BY <1>2, <2>3 DEF Settled, Row
    <3>2. \/ /\ row' = [row EXCEPT ![j.s] = m] /\ lines' = [lines EXCEPT ![j.s] = @ + 1]
          \/ /\ row' = [row EXCEPT ![j.s] = k] /\ lines' = lines
             /\ Fails(IF target = "gone" THEN 0 ELSE 1)
          \/ Fails(IF target = "gone" THEN 1 ELSE 2) \/ Fails(IF target = "gone" THEN 2 ELSE 3)
      <4> DEFINE lost == IF target = "gone" THEN 0 ELSE 1
      <4>1. /\ lost + 1 = IF target = "gone" THEN 1 ELSE 2
            /\ lost + 2 = IF target = "gone" THEN 2 ELSE 3
        OBVIOUS
      <4>2. \/ /\ row' = [row EXCEPT ![j.s] = m] /\ lines' = [lines EXCEPT ![j.s] = @ + 1]
            \/ /\ row' = [row EXCEPT ![j.s] = k] /\ lines' = lines /\ Fails(lost)
            \/ Fails(lost + 1) \/ Fails(lost + 2)
        BY <2>3, Zenon DEF SteerRecorded, SetRow
      <4> QED BY <4>1, <4>2
    <3> HIDE DEF m, k
    <3>3. ~Fails(1) /\ ~Fails(2) /\ ~Fails(3)
      BY <1>2, NoFails
    <3>4. row[j.s].st \in Active
      BY <1>2 DEF Active
    <3>5. CASE row' = [row EXCEPT ![j.s] = m] /\ lines' = [lines EXCEPT ![j.s] = @ + 1]
      <4>1. lines'[j.s] > 0 /\ \A s \in Sends : lines'[s] >= lines[s]
        BY <1>2, <3>5
      <4>2. Moves(j.s, m) /\ ~Working(m)
        BY <3>1, <3>4, <4>1 DEF Moves, Working
      <4> QED BY <1>4, <2>2, <3>5, <4>1, <4>2
    <3>6. CASE row' = [row EXCEPT ![j.s] = k] /\ lines' = lines /\ target = "gone"
      <4>1. Moves(j.s, k) /\ ~Working(k)
        BY <2>2, <3>1, <3>4, <3>6 DEF Moves, Working
      <4> QED BY <1>4, <1>5, <2>2, <3>6, <4>1
    <3> QED BY <3>2, <3>3, <3>5, <3>6
  <2>4. /\ Taken(j) => SteerRecorded(j, "delivered")
        /\ Uncertain(j) => SteerRecorded(j, "unconfirmed")
    BY DEF Taken, Uncertain
  <2> QED BY <1>6, <1>9, <2>1, <2>2, <2>3, <2>4
<1>12. CASE RunRefused
  <2>1. Frame
    BY <1>12, Zenon DEF RunRefused, Caught, Leave, turnVars, bootVars
  <2> QED BY <1>6, <1>12, <2>1 DEF RunRefused
<1>13. CASE RunAdmitted
  <2>1. Frame /\ chain' = chain /\ row' = row
    BY <1>13, Zenon DEF RunAdmitted, Stay, bootVars, historyVars
  <2>2. \A s \in Sends : lines'[s] >= lines[s]
    BY <1>2, <1>13 DEF RunAdmitted
  <2> QED BY <1>4, <1>5, <2>1, <2>2
<1>14. CASE RunRecorded
  <2>1. Frame /\ lines' = lines
    BY <1>14, Zenon DEF RunRecorded, Leave, turnVars, bootVars, historyVars
  <2>2. ~Fails(1)
    BY <1>2, NoFails
  <2>3. row' = [row EXCEPT ![j.s] = Settled(row[j.s], "started", TRUE)]
    BY <1>14, <2>2 DEF RunRecorded, SetRow
  <2> DEFINE m == Settled(row[j.s], "started", TRUE)
  <2>4. Moves(j.s, m) /\ m.st = "started"
    BY <1>2, SettledMoves, SettledStatus DEF Active
  <2> HIDE DEF m
  <2>5. row' = [row EXCEPT ![j.s] = m] /\ ~Working(m)
    BY <2>3, <2>4 DEF m, Working
  <2> QED BY <1>4, <1>5, <2>1, <2>4, <2>5
<1> QED BY <1>10, <1>11, <1>12, <1>13, <1>14 DEF Admission

(* A step that leaves the line alone and marks nothing.                     *)
LEMMA LineKeeps ==
    ASSUME TypeInv, TidyInv, Onward, Up, chain' = chain, \A s \in Sends : Moves(s, row'[s]),
           \A s \in Sends : Working(row'[s]) => Working(row[s]),
           UNCHANGED <<dismissed, acked, backup, parked, server, todo>>
    PROVE  TidyInv'
<1>1. \A s \in Sends : Working(row[s]) => InChain(s) \/ target = "gone"
  BY DEF TidyInv, Worked
<1>2. \A s \in Sends : InChain(s)' = InChain(s)
  BY DEF InChain
<1> QED BY <1>1, <1>2, UpKeeps DEF Onward

(* The queue, its timers, the late answers, the turns and rooms keep it.    *)
LEMMA QueueTidy ==
    ASSUME MaxFail = 0, TypeInv, TypeInv', FlowInv, TidyInv, Queue \/ World
    PROVE  TidyInv'
<1>1. /\ LedgerOK /\ row \in [Sends -> Row] /\ lines \in [Sends -> Nat]
      /\ lines' \in [Sends -> Nat] /\ late \subseteq LateCall
  BY DEF TypeInv, LedgerOK, RestOK
<1> DEFINE Frame == /\ UNCHANGED <<chain, dismissed, acked, backup, parked, server, todo>>
                    /\ Up
                    /\ target = "gone" => target' = "gone"
<1>2. Frame
  <2>1. CASE Queue
    <3>1. CASE \E l \in late : LateAnswer(l)
      BY <3>1 DEF LateAnswer, admissionVars, bootVars, turnVars
    <3>2. CASE BatchAdmitted \/ BatchRequeued \/ BatchFailed \/ RetryTimer \/ WatchTimer \/ OtherDrain
      BY <3>2 DEF BatchAdmitted, BatchRequeued, BatchFailed, RetryTimer, WatchTimer, OtherDrain,
         admissionVars, bootVars, turnVars, historyVars
    <3> QED BY <2>1, <3>1, <3>2 DEF Queue
  <2>2. CASE World
    BY <2>2 DEF World, OtherTurnStarts, EngineGetsTurn, TurnCompleted, TurnReleased,
       RoomTurnStarts, RoomTurnEnds, TargetMoves, TurnFrame, admissionVars, bootVars
  <2> QED BY <2>1, <2>2
<1>3. \A s \in Sends : Moves(s, row[s])
  BY DEF Moves
<1>4. ASSUME NEW L \in [Sends -> Row], NEW open, NEW d, target' = target,
             Drain(L, open, d) \/ DrainNothing(L, open, d),
             \A s \in Sends : Moves(s, L[s]) /\ (Working(L[s]) => Working(row[s]))
      PROVE  TidyInv'
  <2>1. /\ Onward
        /\ \A s \in Sends : /\ Moves(s, row'[s])
                            /\ Working(row'[s]) => row'[s].st = L[s].st
    BY <1>1, <1>4, DrainMovesOn
  <2>2. \A s \in Sends : Working(row'[s]) => Working(row[s])
    BY <1>4, <2>1 DEF Working
  <2> QED BY <1>2, <2>1, <2>2, LineKeeps
<1>5. ASSUME lines' = lines, \A s \in Sends : Moves(s, row'[s]) /\ (Working(row'[s]) => Working(row[s]))
      PROVE  TidyInv'
  <2>1. Onward
    BY <1>1, <1>2, <1>5 DEF Onward
  <2> QED BY <1>2, <1>5, <2>1, LineKeeps
<1>6. CASE BatchRequeued
  <2> DEFINE mine == {b.s : b \in {b \in batch : Mine(b) /\ row[b.s].st = "started"}}
  <2>1. PICK back \in SUBSET mine :
          row' = [s \in Sends |-> IF s \in back THEN RequeuedStart(row[s]) ELSE row[s]]
    BY <1>6, Zenon DEF BatchRequeued
  <2>2. \A s \in back : row[s].st = "started"
    OBVIOUS
  <2> HIDE DEF mine
  <2>3. ASSUME NEW s \in Sends PROVE Moves(s, row'[s]) /\ (Working(row'[s]) => Working(row[s]))
    <3>1. row'[s] = row[s] \/ (row[s].st = "started" /\ row'[s] = RequeuedStart(row[s]))
      BY <2>1, <2>2
    <3> DEFINE m == RequeuedStart(row[s])
    <3>2. m.st = "queued" /\ m.ex /\ m.words
      BY <1>1 DEF RequeuedStart, QueuedFromLine, Queued, Row
    <3> HIDE DEF m
    <3>3. row[s].st = "started" => Moves(s, m) /\ ~Working(m)
      BY <3>2 DEF Moves, Active, Working
    <3> QED BY <1>3, <3>1, <3>3 DEF m
  <2>4. lines' = lines
    BY <1>6 DEF BatchRequeued
  <2> QED BY <1>5, <2>3, <2>4
<1>7. CASE BatchFailed \/ RetryTimer \/ WatchTimer \/ OtherDrain \/ TurnCompleted \/ TurnReleased
           \/ RoomTurnEnds
  <2>1. \E d : DrainNothing(row, lateOpen, d) \/ Drain(row, lateOpen, d)
    BY <1>7, Zenon DEF BatchFailed, RetryTimer, WatchTimer, OtherDrain, TurnCompleted,
       TurnReleased, RoomTurnEnds
  <2>2. target' = target
    BY <1>7 DEF BatchFailed, RetryTimer, WatchTimer, OtherDrain, TurnCompleted,
       TurnReleased, RoomTurnEnds, turnVars
  <2> QED BY <1>1, <1>3, <1>4, <2>1, <2>2
<1>8. CASE BatchAdmitted \/ OtherTurnStarts \/ EngineGetsTurn \/ RoomTurnStarts \/ TargetMoves
  <2>1. row' = row /\ lines' = lines
    BY <1>8 DEF BatchAdmitted, OtherTurnStarts, EngineGetsTurn, RoomTurnStarts, TargetMoves,
       drainVars, ledgerVars
  <2> QED BY <1>3, <1>5, <2>1
<1>9. ASSUME NEW l \in late, LateAnswer(l) PROVE TidyInv'
  <2>1. l \in LateCall /\ l.s \in Sends /\ row[l.s] \in Row /\ target' = target
    BY <1>1, <1>9 DEF LateCall, LateAnswer, turnVars
  <2>2. l.line => row[l.s].st = "unconfirmed" /\ row[l.s].line
    BY DEF FlowInv, Flow, Asked
  <2>3. lines' = lines => Onward
    BY <1>1, <2>1 DEF Onward
  <2> DEFINE Still(L) == /\ L \in [Sends -> Row]
                         /\ \A s \in Sends : Moves(s, L[s]) /\ (Working(L[s]) => Working(row[s]))
             N(r) == [row EXCEPT ![l.s] = r]
  <2>4. ASSUME NEW r \in Row, Moves(l.s, r), ~Working(r) PROVE Still(N(r))
    BY <1>1, <1>3, <2>1, <2>4
  <2>5. ASSUME NEW L, Still(L), Onward PROVE Still(Release(L, l))
    <3>1. Release(L, l) = [L EXCEPT ![l.s] = Scrubbed(L[l.s])] \/ Release(L, l) = L
      BY DEF Release
    <3>2. Scrubbed(L[l.s]) \in Row /\ Scrubbed(L[l.s]).st = L[l.s].st /\ Moves(l.s, Scrubbed(L[l.s]))
      <4>1. L[l.s] \in Row /\ Moves(l.s, L[l.s])
        BY <2>1, <2>5
      <4>2. Scrubbed(L[l.s]) \in Row
        BY <4>1, RowOps DEF Status
      <4>3. Scrubbed(L[l.s]).st = L[l.s].st
        BY <4>1, StatusOps
      <4>4. Moves(l.s, Scrubbed(L[l.s]))
        BY <2>1, <2>5, <4>1, ScrubMoves
      <4> QED BY <4>2, <4>3, <4>4
    <3> DEFINE S == [L EXCEPT ![l.s] = Scrubbed(L[l.s])]
    <3>3. /\ S \in [Sends -> Row] /\ S[l.s] = Scrubbed(L[l.s])
          /\ \A s \in Sends : s # l.s => S[s] = L[s]
      BY <2>1, <2>5, <3>2
    <3> HIDE DEF S
    <3>4. Still(S)
      BY <2>5, <3>2, <3>3 DEF Working
    <3> QED BY <2>5, <3>1, <3>4 DEF S
  <2>6. Still(row)
    BY <1>1, <1>3
  <2>7. ASSUME NEW st \in {"delivered", "failed"}, l.line PROVE Still(N(Settled(row[l.s], st, TRUE)))
    <3> DEFINE r == Settled(row[l.s], st, TRUE)
    <3>1. r \in Row
      BY <2>1, RowOps DEF Status
    <3>2. r.st = st
      BY <2>1, SettledStatus
    <3>3. Moves(l.s, r)
      BY <2>1, <2>2, <2>7, SettledMoves DEF Active
    <3> HIDE DEF r
    <3>4. Still(N(r))
      BY <2>4, <3>1, <3>2, <3>3 DEF Working
    <3> QED BY <3>4 DEF r
  <2>8. ASSUME l.line PROVE Still(N(QueuedFromLine(row[l.s])))
    <3> DEFINE r == QueuedFromLine(row[l.s])
    <3>1. r \in Row
      BY <2>1, RowOps DEF Status
    <3>2. r.st = "queued" /\ r.ex /\ (r.line <=> row[l.s].line)
      BY <2>1 DEF QueuedFromLine, Queued, Row
    <3> HIDE DEF r
    <3>3. Moves(l.s, r) /\ ~Working(r)
      BY <2>2, <2>8, <3>2 DEF Moves, Active, Working
    <3>4. Still(N(r))
      BY <2>4, <3>1, <3>3
    <3> QED BY <3>4 DEF r
  <2>9. ASSUME NEW st \in {"delivered", "failed"}, LateSettled(l, st) PROVE TidyInv'
    <3>1. \/ l.line /\ row' = Release(N(Settled(row[l.s], st, TRUE)), l)
          \/ row' = Release(row, l)
      BY <2>9, Zenon DEF LateSettled
    <3>2. lines' = lines /\ Onward
      BY <2>3, <2>9 DEF LateSettled
    <3> DEFINE A == N(Settled(row[l.s], st, TRUE))
    <3>3. l.line => Still(A)
      BY <2>7
    <3> HIDE DEF N, Still, A
    <3>4. l.line => Still(Release(A, l))
      BY <2>5, <3>2, <3>3
    <3>5. Still(Release(row, l))
      BY <2>5, <2>6, <3>2
    <3>6. row' = Release(row, l) \/ (l.line /\ row' = Release(A, l))
      BY <3>1 DEF A
    <3>7. Still(row')
      BY <3>4, <3>5, <3>6
    <3> QED BY <1>5, <3>2, <3>7 DEF Still
  <2>10. ASSUME LateRejected(l) PROVE TidyInv'
    <3> DEFINE R == Release(row, l)
               Q == N(QueuedFromLine(row[l.s]))
    <3>1. \/ \E open : DrainNothing(R, open, Desk)
          \/ LateSettled(l, "failed")
          \/ l.line /\ \E open : Drain(Q, open, Desk)
          \/ row' = R /\ lines' = lines
      BY <2>10, Zenon DEF LateRejected
    <3>2. Onward => Still(R)
      BY <2>5, <2>6
    <3>3. l.line => Still(Q)
      BY <2>8
    <3> HIDE DEF R, Q, N
    <3>4. CASE \E open : DrainNothing(R, open, Desk)
      <4>1. row' = R /\ lines' = lines
        BY <3>4 DEF DrainNothing
      <4> QED BY <1>5, <2>3, <3>2, <4>1
    <3>5. CASE l.line /\ \E open : Drain(Q, open, Desk)
      BY <1>4, <2>1, <3>3, <3>5
    <3>6. CASE row' = R /\ lines' = lines
      BY <1>5, <2>3, <3>2, <3>6
    <3> QED BY <2>9, <3>1, <3>4, <3>5, <3>6
  <2>11. LateDelivered(l) => LateSettled(l, "delivered")
    BY DEF LateDelivered
  <2>12. LateUncertain(l) => row' = row /\ lines' = lines
    BY DEF LateUncertain, drainVars
  <2>13. LateDelivered(l) \/ LateRejected(l) \/ LateUncertain(l)
    BY <1>9, Zenon DEF LateAnswer
  <2> QED BY <1>3, <1>5, <2>9, <2>10, <2>11, <2>12, <2>13
<1> QED BY <1>6, <1>7, <1>8, <1>9 DEF Queue, World
-----------------------------------------------------------------------------
(* A crash: what a Stop held is parked with its mark.                       *)
LEMMA CrashTidy == ASSUME TypeInv, FlowInv, HeldInv, TidyInv, Crash PROVE TidyInv'
<1>1. /\ UNCHANGED <<row, lines, target, dismissed, acked, backup>>
      /\ server # "down" /\ server' = "down" /\ todo' = {}
      /\ parked' = parked \cup {s \in Waiting : since[s] # 0}
  BY DEF Crash, ledgerVars
<1>2. ASSUME NEW s \in Sends
      PROVE  Tidy(row[s], lines[s])' /\ ParkedSo(s)' /\ (s \in dismissed => Dropped(row'[s]))
  <2>1. Tidy(row[s], lines[s]) /\ ParkedSo(s) /\ (s \in dismissed => Dropped(row[s]))
    BY DEF TidyInv
  <2>2. s \in Waiting /\ since[s] # 0 => row[s].st \in Undecided /\ row[s].stopped
    BY DEF Waiting, HeldInv, Ticketed, BackNow, Back
  <2>3. Tidy(row[s], lines[s])'
    BY <1>1, <2>1 DEF Tidy
  <2>4. ParkedSo(s)'
    BY <1>1, <2>1, <2>2 DEF ParkedSo, Rests
  <2> QED BY <1>1, <2>1, <2>3, <2>4
<1>3. backup # NoBackup =>
         /\ \A s \in Sends : /\ Tidy(backup.row[s], backup.lines[s])'
                             /\ s \in backup.dismissed => Dropped(backup.row[s])
         /\ backup.dismissed \subseteq backup.acked
  BY <1>1 DEF TidyInv, Tidy
<1>4. Worked'
  BY <1>1 DEF Worked, Up
<1> QED BY <1>1, <1>2, <1>3, <1>4 DEF TidyInv

(* SendStore.recover takes up every row still being decided: what a Stop    *)
(* held becomes a chip, or has its words only in its line.                  *)
LEMMA RecoverTidy ==
    ASSUME MaxFail = 0, TypeInv, FlowInv, TidyInv, Recover
    PROVE  TidyInv'
<1>1. /\ UNCHANGED <<lines, target, dismissed, acked, backup, parked>>
      /\ server = "down" /\ server' = "recovering"
      /\ row' = Recovered(row) /\ todo' = Unresolved(row)
  <2>1. ~Fails(1)
    BY NoFails DEF TypeInv
  <2> QED BY <2>1, Zenon DEF Recover, BootFrame, turnVars, historyVars
<1>2. ASSUME NEW s \in Sends
      PROVE  /\ Tidy(row[s], lines[s])' /\ ParkedSo(s)' /\ (s \in dismissed => Dropped(row'[s]))
             /\ row'[s].st # "sending"
             /\ row[s].st \in {"dispatched", "unconfirmed"} => row'[s] = row[s]
             /\ row'[s].st = "dispatched" => row[s].st = "dispatched"
  <2> DEFINE r == row[s]
             a == [r EXCEPT !.st = "refused", !.ex = FALSE]
             b == [r EXCEPT !.st = "queued"]
  <2>1. /\ Tidy(r, lines[s]) /\ ParkedSo(s) /\ (s \in dismissed => Dropped(r))
        /\ r \in Row /\ Shape(r)
    BY DEF TidyInv, TypeInv, LedgerOK, FlowInv, Flow, Shaped
  <2>2. row'[s] = IF r.st \in Undecided /\ ~r.disp /\ r.stopped /\ r.words THEN a
                  ELSE IF r.st = "sending" /\ ~r.disp THEN b ELSE r
    BY <1>1 DEF Recovered
  <2>3. /\ a.st = "refused" /\ (a.disp <=> r.disp)
        /\ b.st = "queued" /\ (b.words <=> r.words) /\ (b.ex <=> r.ex) /\ (b.line <=> r.line)
    BY <2>1 DEF Row
  <2> HIDE DEF a, b
  <2>4. CASE r.st \in Undecided /\ ~r.disp /\ r.stopped /\ r.words
    <3>1. row'[s] = a /\ ~a.disp
      BY <2>2, <2>3, <2>4
    <3>2. Tidy(row[s], lines[s])'
      BY <2>3, <3>1 DEF Tidy
    <3>3. ParkedSo(s)'
      BY <2>3, <3>1 DEF ParkedSo, Rests
    <3> QED BY <2>1, <2>3, <2>4, <3>1, <3>2, <3>3 DEF Dropped, Undecided
  <2>5. CASE ~(r.st \in Undecided /\ ~r.disp /\ r.stopped /\ r.words) /\ r.st = "sending"
    <3>1. ~r.disp /\ r.words /\ ~r.stopped /\ ~r.ex
      BY <2>1, <2>5 DEF Shape, Undecided
    <3>2. row'[s] = b
      BY <2>2, <2>5, <3>1
    <3>3. s \notin parked
      BY <2>1, <2>5, <3>1 DEF ParkedSo, Rests
    <3>4. Tidy(row[s], lines[s])' /\ ParkedSo(s)'
      BY <1>1, <2>3, <3>1, <3>2, <3>3 DEF Tidy, ParkedSo
    <3> QED BY <1>1, <2>1, <2>3, <2>5, <3>2, <3>4 DEF Dropped
  <2>6. CASE ~(r.st \in Undecided /\ ~r.disp /\ r.stopped /\ r.words) /\ r.st # "sending"
    <3>1. row'[s] = r
      BY <2>2, <2>6
    <3>2. Tidy(row[s], lines[s])'
      BY <1>1, <2>1, <3>1 DEF Tidy
    <3>3. r.st \in Undecided /\ r.stopped => r.ex
      BY <2>1, <2>6 DEF Shape, Tidy, Undecided
    <3>4. ParkedSo(s)'
      BY <1>1, <2>1, <3>1, <3>3 DEF ParkedSo, Rests
    <3> QED BY <2>1, <2>6, <3>1, <3>2, <3>4
  <2> QED BY <2>4, <2>5, <2>6
<1>3. /\ todo' = {s \in Sends : row[s].st \in {"dispatched", "unconfirmed"}}
      /\ \A s \in todo' : row'[s].st \in {"dispatched", "unconfirmed"}
  BY <1>1, <1>2 DEF Unresolved
<1>4. Worked'
  BY <1>1, <1>2, <1>3 DEF Worked, Up
<1>5. backup # NoBackup =>
         /\ \A s \in Sends : /\ Tidy(backup.row[s], backup.lines[s])'
                             /\ s \in backup.dismissed => Dropped(backup.row[s])
         /\ backup.dismissed \subseteq backup.acked
  BY <1>1 DEF TidyInv, Tidy
<1> QED BY <1>1, <1>2, <1>3, <1>4, <1>5 DEF TidyInv

(* completeUnresolved gives the row it takes up its outcome.                *)
LEMMA CompleteTidy ==
    ASSUME MaxFail = 0, TypeInv, TypeInv', WordsInv, TidyInv, NEW s \in Sends, CompleteOne(s)
    PROVE  TidyInv'
<1> DEFINE r == row[s]
           a == Settled(r, "started", TRUE)
           b == Scrubbed(r)
           m == Settled(r, "unconfirmed", TRUE)
           c == Scrubbed(m)
<1>1. /\ UNCHANGED <<target, dismissed, acked, backup, parked, server, chain>>
      /\ server = "recovering" /\ s \in todo /\ todo' = todo \ {s}
  BY DEF CompleteOne, BootFrame, turnVars, historyVars, admissionVars
<1>2. /\ r \in Row /\ row \in [Sends -> Row] /\ lines \in [Sends -> Nat]
      /\ lines' \in [Sends -> Nat] /\ todo \subseteq Sends /\ LedgerOK
      /\ r.st \in {"dispatched", "unconfirmed"} /\ Tidy(r, lines[s])
      /\ r.words \/ lines[s] > 0
  <2>1. r.st \in {"dispatched", "unconfirmed"} /\ s \notin dismissed
    BY <1>1 DEF TidyInv, Dropped
  <2>2. r.words \/ lines[s] > 0
    BY <2>1 DEF WordsInv, SafeLedger, Safe
  <2> QED BY <2>1, <2>2 DEF TypeInv, LedgerOK, RestOK, TidyInv
<1>3. \/ row' = row /\ lines' = lines /\ target = "gone"
      \/ /\ lines[s] > 0 /\ lines' = lines
         /\ row' = [row EXCEPT ![s] = IF r.st = "dispatched" THEN a ELSE b]
      \/ row' = [row EXCEPT ![s] = c] /\ lines' = [lines EXCEPT ![s] = @ + 1]
  <2>1. ~Fails(1)
    BY <1>2, NoFails
  <2>2. \/ row' = row /\ lines' = lines /\ Fails(IF target = "gone" THEN 0 ELSE 1)
        \/ lines[s] > 0 /\ lines' = lines
           /\ row' = [row EXCEPT ![s] = IF r.st = "dispatched" THEN a ELSE b]
        \/ ~(lines[s] > 0) /\ ~r.words
        \/ row' = [row EXCEPT ![s] = c] /\ lines' = [lines EXCEPT ![s] = @ + 1]
    BY Zenon DEF CompleteOne, SetRow, ledgerVars
  <2> QED BY <1>2, <2>1, <2>2
<1>4. Onward /\ \A t \in Sends : Moves(t, row[t])
  <2>1. lines' = lines \/ lines' = [lines EXCEPT ![s] = @ + 1]
    BY <1>3
  <2>2. \A t \in Sends : lines'[t] \in Nat /\ lines'[t] >= lines[t]
    BY <1>2, <2>1
  <2> QED BY <1>1, <2>2 DEF Onward, Moves
<1>5. Moves(s, a) /\ a.st = "started"
  BY <1>2, SettledMoves, SettledStatus DEF Active
<1>6. Moves(s, b) /\ b.st = r.st
  BY <1>2, <1>4, ScrubMoves, StatusOps
<1>7. lines'[s] > 0 => Moves(s, c) /\ c.st = "unconfirmed"
  <2>1. m \in Row
    BY <1>2, RowOps DEF Status
  <2>2. m.st = "unconfirmed" /\ m.ex = r.ex
    BY <1>2 DEF Settled, Row
  <2> HIDE DEF m
  <2>3. lines'[s] > 0 => Moves(s, m)
    BY <1>2, <2>2 DEF Moves, Active
  <2>4. c.st = "unconfirmed"
    BY <2>1, <2>2, StatusOps
  <2> QED BY <1>4, <2>1, <2>3, <2>4, ScrubMoves
<1> HIDE DEF a, b, c
<1>8. /\ Moves(s, row'[s]) /\ \A t \in Sends : t # s => row'[t] = row[t]
      /\ row'[s].st # "sending"
      /\ row'[s].st = "dispatched" => target = "gone"
  <2>1. CASE row' = [row EXCEPT ![s] = c] /\ lines' = [lines EXCEPT ![s] = @ + 1]
    BY <1>2, <1>7, <2>1
  <2>2. CASE row' = row /\ lines' = lines /\ target = "gone"
    BY <1>2, <1>4, <2>2
  <2>3. CASE row' = [row EXCEPT ![s] = IF r.st = "dispatched" THEN a ELSE b]
    BY <1>2, <1>5, <1>6, <2>3
  <2> QED BY <1>3, <2>1, <2>2, <2>3
<1>9. \A t \in Sends : Moves(t, row'[t])
  BY <1>4, <1>8
<1>10. \A t \in todo' : row'[t].st \in {"dispatched", "unconfirmed"}
  BY <1>1, <1>2, <1>8 DEF TidyInv
<1>11. Worked'
  <2>1. target # "gone" =>
          \A t \in Sends : row[t].st # "sending" /\ (row[t].st = "dispatched" => t \in todo)
    BY <1>1 DEF TidyInv, Worked
  <2> QED BY <1>1, <1>8, <2>1 DEF Worked, Up
<1> QED BY <1>1, <1>4, <1>9, <1>10, <1>11, MovesKeep

(* Startup ends with nothing left half done, and drains what waits.         *)
LEMMA ReadyTidy ==
    ASSUME MaxFail = 0, TypeInv, TypeInv', TidyInv, Ready
    PROVE  TidyInv'
<1>1. /\ UNCHANGED <<target, dismissed, acked, backup, parked, chain, todo>>
      /\ server = "recovering" /\ server' = "up" /\ todo = {}
      /\ Drain(row, lateOpen, Desk)
  BY DEF Ready, BootFrame, turnVars, historyVars, admissionVars
<1>2. /\ row \in [Sends -> Row] /\ lines' \in [Sends -> Nat]
      /\ \A s \in Sends : Moves(s, row[s])
  BY DEF TypeInv, LedgerOK, Moves
<1>3. /\ Onward
      /\ \A s \in Sends : /\ Moves(s, row'[s])
                          /\ Working(row'[s]) => row'[s].st = row[s].st
  BY <1>1, <1>2, DrainMovesOn
<1>4. target # "gone" => \A s \in Sends : ~Working(row[s])
  BY <1>1 DEF TidyInv, Worked, Working
<1>5. Worked'
  BY <1>1, <1>3, <1>4 DEF Worked, Working
<1> QED BY <1>1, <1>3, <1>5, MovesKeep
-----------------------------------------------------------------------------
(* acceptBotSend gives one send a row, and works on it unless it is a typed *)
(* stop; what else a Stop marks it leaves as it is.                         *)
LEMMA FreshTidy ==
    ASSUME TypeInv, FlowInv, HeldInv, TidyInv, NEW p \in net,
           Accept(p) \/ AcceptTypedStop(p)
    PROVE  TidyInv'
<1>1. /\ p \in Request /\ p.s \in Sends /\ row[p.s].st \in {"none", "failed", "refused"}
      /\ row[p.s].st = "none" => p.s \notin acked
  BY AcceptFinds DEF Accept, AcceptTypedStop
<1>2. /\ UNCHANGED <<lines, target, backup, server, todo>> /\ Up
      /\ acked' = acked \cup {p.s} /\ parked' = parked \ {p.s}
  BY DEF Accept, AcceptTypedStop, turnVars, bootVars
<1>3. p.s \notin dismissed /\ dismissed \subseteq acked
  BY <1>1 DEF TidyInv, Dropped
<1>4. /\ row \in [Sends -> Row] /\ chain \in Seq(Job)
      /\ \A s \in Sends : s # p.s => row[s] \in Row
  BY DEF TypeInv, LedgerOK, AdmissionOK
<1>5. ASSUME NEW s \in Sends, s # p.s
      PROVE  /\ row'[s].st = row[s].st /\ row'[s].words = row[s].words
             /\ row'[s].line = row[s].line /\ row'[s].ex = row[s].ex
             /\ row'[s].disp = row[s].disp
             /\ s \in dismissed' <=> s \in dismissed
             /\ InChain(s) => InChain(s)'
  <2>1. CASE Accept(p)
    <3>1. PICK q \in Seqs :
            /\ row' = [row EXCEPT ![p.s] = NewRow(p, q)]
            /\ chain' = Append(chain, [s |-> p.s, q |-> q, a |-> NewRow(p, q).act])
      BY <2>1 DEF Accept, SetRow
    <3>2. dismissed' = dismissed /\ row'[s] = row[s]
      BY <1>1, <1>4, <1>5, <2>1, <3>1 DEF Accept
    <3>3. \A i \in DOMAIN chain : i \in DOMAIN chain' /\ chain'[i] = chain[i]
      <4> DEFINE j0 == [s |-> p.s, q |-> q, a |-> NewRow(p, q).act]
      <4>1. chain' = Append(chain, j0)
        BY <3>1
      <4> HIDE DEF j0
      <4> QED BY <1>4, <4>1
    <3> QED BY <3>2, <3>3 DEF InChain
  <2>2. CASE AcceptTypedStop(p)
    <3>1. PICK q \in Seqs :
            row' = StopMarked([row EXCEPT ![p.s] = TypedStopRow(p, q)], tokens.stop + 1)
      BY <2>2 DEF AcceptTypedStop
    <3>2. dismissed' = dismissed \cup {p.s} /\ chain' = chain
      BY <2>2 DEF AcceptTypedStop, admissionVars
    <3>3. row'[s] = row[s] \/ row'[s] = [row[s] EXCEPT !.stopped = TRUE, !.tok = tokens.stop + 1]
      BY <1>1, <1>4, <1>5, <3>1 DEF StopMarked
    <3> QED BY <1>4, <1>5, <3>2, <3>3 DEF InChain, Row
  <2> QED BY <2>1, <2>2
<1>6. \/ row'[p.s].st = "sending" /\ InChain(p.s)' /\ dismissed' = dismissed
      \/ row'[p.s].st = "cancelled" /\ ~row'[p.s].words
  <2>1. CASE Accept(p)
    <3>1. PICK q \in Seqs :
            /\ row' = [row EXCEPT ![p.s] = NewRow(p, q)]
            /\ chain' = Append(chain, [s |-> p.s, q |-> q, a |-> NewRow(p, q).act])
      BY <2>1 DEF Accept, SetRow
    <3>2. row'[p.s].st = "sending"
      BY <1>1, <1>4, <3>1, SeqsAssumption, NewTicket
    <3> DEFINE j0 == [s |-> p.s, q |-> q, a |-> NewRow(p, q).act]
    <3>3. chain' = Append(chain, j0) /\ j0.s = p.s
      BY <3>1
    <3> HIDE DEF j0
    <3>4. Len(chain') \in DOMAIN chain' /\ chain'[Len(chain')] = j0
      BY <1>4, <3>3
    <3> QED BY <2>1, <3>2, <3>3, <3>4 DEF InChain, Accept
  <2>2. CASE AcceptTypedStop(p)
    <3>1. PICK q \in Seqs :
            row' = StopMarked([row EXCEPT ![p.s] = TypedStopRow(p, q)], tokens.stop + 1)
      BY <2>2 DEF AcceptTypedStop
    <3> DEFINE n == TypedStopRow(p, q)
    <3>2. n.st = "cancelled" /\ ~n.words
      BY DEF TypedStopRow, NewRow, NoRow
    <3>3. [row EXCEPT ![p.s] = n][p.s] = n
      BY <1>1, <1>4
    <3> HIDE DEF n
    <3>4. row'[p.s] = n
      BY <1>1, <3>1, <3>2, <3>3 DEF StopMarked, Undecided, n
    <3> QED BY <3>2, <3>4
  <2> QED BY <2>1, <2>2
<1>7. ASSUME NEW s \in Sends
      PROVE  Tidy(row[s], lines[s])' /\ ParkedSo(s)' /\ (s \in dismissed' => Dropped(row'[s]))
  <2>1. Tidy(row[s], lines[s]) /\ ParkedSo(s) /\ (s \in dismissed => Dropped(row[s]))
    BY DEF TidyInv
  <2>2. CASE s = p.s
    BY <1>2, <1>3, <1>6, <2>2 DEF Tidy, ParkedSo, Dropped
  <2>3. CASE s # p.s
    BY <1>2, <1>5, <2>1, <2>3 DEF Tidy, ParkedSo, Rests, Dropped, Up
  <2> QED BY <2>2, <2>3
<1>8. Worked'
  <2>1. server = "up" /\ (target # "gone" => \A s \in Sends : Working(row[s]) => InChain(s))
    BY <1>2 DEF TidyInv, Worked, Up
  <2>2. ASSUME NEW s \in Sends, target # "gone", Working(row'[s]) PROVE InChain(s)'
    BY <1>5, <1>6, <2>1, <2>2 DEF Working
  <2> QED BY <1>2, <2>1, <2>2 DEF Worked, Up
<1>9. backup # NoBackup =>
         /\ \A s \in Sends : /\ Tidy(backup.row[s], backup.lines[s])'
                             /\ s \in backup.dismissed => Dropped(backup.row[s])
         /\ backup.dismissed \subseteq backup.acked
  BY <1>2 DEF TidyInv, Tidy
<1>10. todo = {} /\ dismissed' \subseteq acked'
  <2>1. todo = {}
    BY <1>2 DEF TidyInv, Up
  <2>2. dismissed' \in {dismissed, dismissed \cup {p.s}}
    BY DEF Accept, AcceptTypedStop
  <2> QED BY <1>2, <1>3, <2>1, <2>2
<1> QED BY <1>2, <1>7, <1>8, <1>9, <1>10 DEF TidyInv

(* Other requests, a Stop, a cancellation and a pruning keep it.            *)
LEMMA OwnerTidy ==
    ASSUME TypeInv, FlowInv, HeldInv, TidyInv,
           \/ \E s \in Sends : FirstSend(s) \/ SendAgain(s) \/ Cancel(s) \/ Prune(s)
           \/ StopPressed \/ \E p \in net : AcceptAgain(p)
    PROVE  TidyInv'
<1>1. /\ UNCHANGED <<lines, target, backup, server, todo, acked>>
  BY DEF FirstSend, SendAgain, Press, Cancel, Prune, StopPressed, AcceptAgain,
     ledgerVars, turnVars, bootVars, historyVars
<1>2. /\ row \in [Sends -> Row] /\ chain \in Seq(Job) /\ acked \subseteq Sends
  BY DEF TypeInv, LedgerOK, AdmissionOK, RestOK
<1>3. ASSUME \A s \in Sends :
               \/ /\ row'[s].st = row[s].st /\ row'[s].words = row[s].words
                  /\ row'[s].line = row[s].line /\ row'[s].ex = row[s].ex
                  /\ row'[s].disp = row[s].disp
                  /\ row[s].stopped => row'[s].stopped
                  /\ s \in dismissed' => s \in dismissed
               \/ Dropped(row'[s]) /\ ~row'[s].words /\ (s \in parked' => ~row'[s].disp),
             parked' \subseteq parked, dismissed' \subseteq acked,
             \A s \in Sends : InChain(s) => InChain(s)',
             Up \/ row' = row
      PROVE  TidyInv'
  <2>1. ASSUME NEW s \in Sends
        PROVE  Tidy(row[s], lines[s])' /\ ParkedSo(s)' /\ (s \in dismissed' => Dropped(row'[s]))
    <3>1. Tidy(row[s], lines[s]) /\ ParkedSo(s) /\ (s \in dismissed => Dropped(row[s]))
      BY DEF TidyInv
    <3>2. CASE Dropped(row'[s]) /\ ~row'[s].words /\ (s \in parked' => ~row'[s].disp)
      BY <3>2 DEF Tidy, ParkedSo, Rests, Dropped
    <3>3. CASE /\ row'[s].st = row[s].st /\ row'[s].words = row[s].words
               /\ row'[s].line = row[s].line /\ row'[s].ex = row[s].ex
               /\ row'[s].disp = row[s].disp /\ (row[s].stopped => row'[s].stopped)
               /\ (s \in dismissed' => s \in dismissed)
      BY <1>1, <1>3, <3>1, <3>3 DEF Tidy, ParkedSo, Rests, Dropped
    <3> QED BY <1>3, <3>2, <3>3
  <2>2. Worked'
    <3>1. CASE Up
      <4>1. server' = "up" /\ (target # "gone" => \A s \in Sends : Working(row[s]) => InChain(s))
        BY <1>1, <3>1 DEF TidyInv, Worked, Up
      <4>2. \A s \in Sends : Working(row'[s]) => Working(row[s])
        BY <1>3 DEF Working, Dropped
      <4> QED BY <1>1, <1>3, <4>1, <4>2 DEF Worked, Up
    <3>2. CASE ~Up
      <4>1. row' = row /\ server' # "up"
        BY <1>1, <1>3, <3>2 DEF Up
      <4> QED BY <1>1, <4>1 DEF TidyInv, Worked, Up
    <3> QED BY <3>1, <3>2
  <2>3. backup # NoBackup =>
         /\ \A s \in Sends : /\ Tidy(backup.row[s], backup.lines[s])'
                             /\ s \in backup.dismissed => Dropped(backup.row[s])
         /\ backup.dismissed \subseteq backup.acked
    BY <1>1 DEF TidyInv, Tidy
  <2>4. (server' # "recovering" => todo' = {}) /\ \A s \in todo' : row'[s].st \in {"dispatched", "unconfirmed"}
    BY <1>1, <1>3 DEF TidyInv, Up
  <2> QED BY <1>1, <1>3, <2>1, <2>2, <2>3, <2>4 DEF TidyInv
<1>4. dismissed \subseteq acked
  BY DEF TidyInv
<1>5. CASE \/ \E s \in Sends : FirstSend(s) \/ SendAgain(s)
           \/ \E p \in net : AcceptAgain(p)
  <2>1. UNCHANGED <<row, dismissed, parked>>
    BY <1>5 DEF FirstSend, SendAgain, Press, AcceptAgain, ledgerVars, historyVars
  <2>2. \A s \in Sends : InChain(s) => InChain(s)'
    <3>1. CASE \E s \in Sends : FirstSend(s) \/ SendAgain(s)
      BY <3>1 DEF FirstSend, SendAgain, Press, admissionVars, InChain
    <3>2. ASSUME NEW p \in net, AcceptAgain(p) PROVE \A s \in Sends : InChain(s) => InChain(s)'
      <4> DEFINE j0 == [s |-> p.s, q |-> row[p.s].seq, a |-> row[p.s].act]
      <4>1. chain' = Append(chain, j0)
        BY <3>2 DEF AcceptAgain
      <4> HIDE DEF j0
      <4>2. \A i \in DOMAIN chain : i \in DOMAIN chain' /\ chain'[i] = chain[i]
        BY <1>2, <4>1
      <4> QED BY <4>2 DEF InChain
    <3> QED BY <1>5, <3>1, <3>2
  <2> QED BY <1>3, <1>4, <2>1, <2>2
<1>6. CASE StopPressed
  <2>1. /\ UNCHANGED <<dismissed, parked, chain>> /\ Up /\ row' = StopMarked(row, tokens.stop + 1)
    BY <1>6 DEF StopPressed, admissionVars
  <2>2. ASSUME NEW s \in Sends
        PROVE  /\ row'[s].st = row[s].st /\ row'[s].words = row[s].words
               /\ row'[s].line = row[s].line /\ row'[s].ex = row[s].ex
               /\ row'[s].disp = row[s].disp /\ (row[s].stopped => row'[s].stopped)
    <3>1. row'[s] = row[s] \/ row'[s] = [row[s] EXCEPT !.stopped = TRUE, !.tok = tokens.stop + 1]
      BY <2>1 DEF StopMarked
    <3> QED BY <1>2, <3>1 DEF Row
  <2>3. \A s \in Sends : InChain(s) => InChain(s)'
    BY <2>1 DEF InChain
  <2> QED BY <1>3, <1>4, <2>1, <2>2, <2>3
<1>7. ASSUME NEW s \in Sends, Cancel(s) PROVE TidyInv'
  <2> DEFINE m == Settled(row[s], "cancelled", FALSE)
  <2>1. /\ row' = [row EXCEPT ![s] = m] /\ chain' = chain /\ Up /\ Cancellable(row[s])
        /\ dismissed' = dismissed \cup {s} /\ parked' = parked \ {s}
    BY <1>7 DEF Cancel, SetRow, admissionVars
  <2>2. m.st = "cancelled" /\ ~m.words
    BY <1>2 DEF Settled, Row
  <2> HIDE DEF m
  <2>3. row'[s] = m /\ \A t \in Sends : t # s => row'[t] = row[t]
    BY <1>2, <2>1
  <2>4. s \in acked
    BY <2>1 DEF Cancellable, Chip, HeldInv, Known
  <2>5. \A t \in Sends : InChain(t) => InChain(t)'
    BY <2>1 DEF InChain
  <2> QED BY <1>3, <1>4, <2>1, <2>2, <2>3, <2>4, <2>5 DEF Dropped
<1>8. ASSUME NEW s \in Sends, Prune(s) PROVE TidyInv'
  <2>1. /\ row' = [row EXCEPT ![s] = NoRow] /\ Up /\ UNCHANGED <<chain, dismissed, parked>>
    BY <1>8 DEF Prune, SetRow, admissionVars, historyVars
  <2>2. NoRow.st = "none" /\ ~NoRow.words /\ ~NoRow.disp
    BY DEF NoRow
  <2>3. row'[s] = NoRow /\ \A t \in Sends : t # s => row'[t] = row[t]
    BY <1>2, <2>1
  <2>4. \A t \in Sends : InChain(t) => InChain(t)'
    BY <2>1 DEF InChain
  <2> QED BY <1>3, <1>4, <2>1, <2>2, <2>3, <2>4 DEF Dropped
<1> QED BY <1>5, <1>6, <1>7, <1>8

(* A snapshot is as tidy as the ledger.                                     *)
LEMMA BackupTidy == ASSUME TypeInv, TidyInv, TakeBackup PROVE TidyInv'
<1>1. /\ backup'.row = row /\ backup'.lines = lines /\ backup'.acked = acked
      /\ backup'.dismissed = dismissed
      /\ UNCHANGED <<row, lines, target, chain, server, todo, acked, dismissed, parked>>
  BY DEF TakeBackup, ledgerVars, turnVars, bootVars, admissionVars, historyVars
<1>2. \A s \in Sends : /\ Tidy(row[s], lines[s])' /\ ParkedSo(s)'
                       /\ s \in dismissed' => Dropped(row'[s])
                       /\ Tidy(backup.row[s], backup.lines[s])'
  BY <1>1 DEF TidyInv, Tidy, ParkedSo
<1>3. Worked'
  BY <1>1 DEF TidyInv, Worked, Up, InChain
<1> QED BY <1>1, <1>2, <1>3 DEF TidyInv

(* A restore leaves nothing waiting: what was parked in the snapshot rests. *)
LEMMA RestoreTidy == ASSUME TypeInv, FlowInv, TidyInv, Restore PROVE TidyInv'
<1>1. /\ backup # NoBackup /\ row' = Neutralized(backup.row, tokens.gen + 1)
      /\ lines' = backup.lines /\ acked' = backup.acked /\ dismissed' = backup.dismissed
      /\ parked' = {s \in Sends : backup.row[s].st \in Undecided}
      /\ backup' = NoBackup /\ server = "down"
      /\ UNCHANGED <<target, server, todo>>
  BY DEF Restore, turnVars, bootVars
<1>2. /\ \A s \in Sends : backup.row[s] \in Row /\ Shape(backup.row[s])
      /\ \A s \in Sends : /\ Tidy(backup.row[s], backup.lines[s])
                          /\ s \in backup.dismissed => Dropped(backup.row[s])
      /\ backup.dismissed \subseteq backup.acked /\ todo = {}
  BY <1>1 DEF TypeInv, RestOK, Snapshot, FlowInv, Shaped, TidyInv
<1>3. ASSUME NEW s \in Sends
      PROVE  Tidy(row[s], lines[s])' /\ ParkedSo(s)' /\ (s \in dismissed' => Dropped(row'[s]))
  <2> DEFINE r == backup.row[s]
             m == Neutral(r)
  <2>1. r \in Row /\ Shape(r) /\ Tidy(r, backup.lines[s]) /\ (s \in backup.dismissed => Dropped(r))
    BY <1>2
  <2>2. m \in Row
    BY <2>1, RowOps DEF Status
  <2>3. row'[s] = IF m.held THEN [m EXCEPT !.gen = tokens.gen + 1] ELSE m
    BY <1>1 DEF Neutralized
  <2>4. /\ IF r.st \in Undecided THEN m.st \in {"refused", "cancelled"} /\ ~m.disp
           ELSE m.st = r.st /\ m.disp = r.disp
        /\ m.words = r.words /\ m.line = r.line
        /\ m.st = "cancelled" /\ r.st \in Undecided => ~m.words
    BY <2>1 DEF Neutral, Row, Undecided
  <2> HIDE DEF m
  <2>5. /\ row'[s].st = m.st /\ row'[s].disp = m.disp /\ row'[s].words = m.words
        /\ row'[s].line = m.line
    BY <2>2, <2>3 DEF Row
  <2> HIDE DEF r
  <2>6. Tidy(row[s], lines[s])'
    BY <1>1, <2>1, <2>4, <2>5 DEF Tidy, Undecided
  <2>7. ParkedSo(s)'
    BY <1>1, <2>4, <2>5 DEF ParkedSo, Rests, r
  <2>8. s \in dismissed' => Dropped(row'[s])
    BY <1>1, <2>1, <2>4, <2>5 DEF Dropped, Undecided
  <2> QED BY <2>6, <2>7, <2>8
<1>4. Worked'
  BY <1>1 DEF Worked, Up
<1> QED BY <1>1, <1>2, <1>3, <1>4 DEF TidyInv
-----------------------------------------------------------------------------
(* It holds at first, in every step that fails no write, and so always.     *)
LEMMA TidyInit == Init => TidyInv
<1> SUFFICES ASSUME Init PROVE TidyInv
  OBVIOUS
<1>1. /\ \A s \in Sends : row[s] = NoRow
      /\ backup = NoBackup /\ dismissed = {} /\ acked = {} /\ parked = {}
      /\ server = "up" /\ todo = {}
  BY DEF Init
<1>2. NoRow.st = "none"
  BY DEF NoRow
<1>3. \A s \in Sends : Tidy(row[s], lines[s]) /\ ParkedSo(s)
  BY <1>1, <1>2 DEF Tidy, ParkedSo
<1>4. Worked
  BY <1>1, <1>2 DEF Worked, Up, Working
<1> QED BY <1>1, <1>3, <1>4 DEF TidyInv

(* Every step keeps it.                                                     *)
LEMMA TidyStep ==
    ASSUME MaxFail = 0, TypeInv, TypeInv', WordsInv, FlowInv, HeldInv, TidyInv, [Next]_vars
    PROVE  TidyInv'
<1>1. CASE UNCHANGED vars
  <2>1. UNCHANGED <<row, lines, target, chain, server, todo, acked, dismissed, parked, backup>>
    BY <1>1 DEF vars
  <2>2. \A s \in Sends : /\ Tidy(row[s], lines[s])' /\ ParkedSo(s)'
                         /\ s \in dismissed' => Dropped(row'[s])
    BY <2>1 DEF TidyInv, Tidy, ParkedSo
  <2>3. backup # NoBackup => \A s \in Sends : Tidy(backup.row[s], backup.lines[s])'
    BY <2>1 DEF TidyInv, Tidy
  <2>4. Worked'
    BY <2>1 DEF TidyInv, Worked, Up, InChain
  <2> QED BY <2>1, <2>2, <2>3, <2>4 DEF TidyInv
<1>2. CASE Next
  <2>1. \/ Admission \/ Queue \/ World
        \/ Crash \/ Recover \/ Ready \/ TakeBackup \/ Restore
        \/ \E s \in Sends : CompleteOne(s)
        \/ \E p \in net : Accept(p) \/ AcceptTypedStop(p)
        \/ \/ \E s \in Sends : FirstSend(s) \/ SendAgain(s) \/ Cancel(s) \/ Prune(s)
           \/ StopPressed \/ \E p \in net : AcceptAgain(p)
    BY <1>2, Zenon DEF Next, Client, Lifecycle
  <2> QED BY <2>1, AdmissionTidy, QueueTidy, CrashTidy, RecoverTidy, ReadyTidy, BackupTidy,
             RestoreTidy, CompleteTidy, FreshTidy, OwnerTidy
<1> QED BY <1>1, <1>2

(* It holds in every state, beside the others.                              *)
LEMMA TidyHolds ==
    ASSUME MaxFail = 0
    PROVE  Spec => [](TypeInv /\ WordsInv /\ FlowInv /\ HeldInv /\ TidyInv)
<1>1. Init => TidyInv
  BY TidyInit
<1>2. TypeInv /\ WordsInv /\ FlowInv /\ HeldInv /\ TidyInv /\ [Next]_vars => TidyInv'
  BY TypeStep, TidyStep
<1>3. Spec => [](TypeInv /\ WordsInv /\ FlowInv /\ HeldInv)
  BY HeldHolds
<1> QED BY <1>1, <1>2, <1>3, PTL DEF Spec

(* For every set of sends and every bound: while writes succeed no send of  *)
(* a thread that is there is left deciding with nobody working on it, after *)
(* any crash, late answer, refused start or Stop (the catch block of        *)
(* admitDirectSend, recover and completeUnresolved).                        *)
THEOREM StrandedHolds == ASSUME MaxFail = 0 PROVE Spec => []NobodyStranded
<1>1. TidyInv => NobodyStranded
  BY DEF TidyInv, Worked, Working, NobodyStranded
<1>2. Spec => [](TypeInv /\ WordsInv /\ FlowInv /\ HeldInv /\ TidyInv)
  BY TidyHolds
<1> QED BY <1>1, <1>2, PTL

(* For every set of sends and every bound: while writes succeed an accepted *)
(* send the owner has not dropped is a line of the transcript or an item of *)
(* pending(), whatever became of its steer, its start or its restore        *)
(* (send-store.ts, the state table; pending()).                             *)
THEOREM VisibleHolds == ASSUME MaxFail = 0 PROVE Spec => []Visible
<1>1. ASSUME TypeInv, WordsInv, FlowInv, TidyInv PROVE Visible
  <2> SUFFICES ASSUME target # "gone", NEW s \in acked \ dismissed, ~(lines[s] > 0)
               PROVE  row[s].words /\ (row[s].st \in InFlight \/ Chip(row[s]))
    BY DEF Visible
  <2>1. s \in Sends /\ row[s] \in Row
    BY <1>1 DEF TypeInv, LedgerOK, RestOK
  <2>2. /\ Safe(row[s], lines[s], TRUE, FALSE) /\ Shape(row[s]) /\ Tidy(row[s], lines[s])
    BY <1>1, <2>1 DEF WordsInv, SafeLedger, FlowInv, Flow, Shaped, TidyInv, Safe
  <2>3. row[s].words /\ ~row[s].line
    BY <2>2 DEF Safe
  <2>4. row[s].st # "none"
    BY <2>2, <2>3 DEF Shape, NoRow
  <2>5. row[s].st \in {"sending", "queued", "dispatched", "failed", "refused"}
    BY <2>1, <2>2, <2>3, <2>4 DEF Safe, Tidy, Row, Status
  <2> QED BY <2>3, <2>5 DEF InFlight, Chip
<1>2. Spec => [](TypeInv /\ WordsInv /\ FlowInv /\ HeldInv /\ TidyInv)
  BY TidyHolds
<1> QED BY <1>1, <1>2, PTL

(* For every set of sends and every bound: while writes succeed a send that *)
(* waited at a Stop and then met a restart, or waited in a backup now       *)
(* restored, has not run since, unless its words are only in its line       *)
(* (recover, neutralizeRestoredSends).                                      *)
THEOREM ParkedHolds == ASSUME MaxFail = 0 PROVE Spec => []ParkedStays
<1>1. ASSUME TypeInv, FlowInv, TidyInv PROVE ParkedStays
  <2> SUFFICES ASSUME NEW s \in parked, Ran(row[s]) PROVE row[s].ex
    BY DEF ParkedStays
  <2>1. s \in Sends
    BY <1>1 DEF TypeInv, RestOK
  <2>2. ParkedSo(s) /\ Shape(row[s])
    BY <1>1, <2>1 DEF TidyInv, FlowInv, Flow, Shaped
  <2> QED BY <2>2 DEF ParkedSo, Ran, Rests, Shape, Undecided
<1>2. Spec => [](TypeInv /\ WordsInv /\ FlowInv /\ HeldInv /\ TidyInv)
  BY TidyHolds
<1> QED BY <1>1, <1>2, PTL
=============================================================================
