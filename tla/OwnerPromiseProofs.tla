--------------------------- MODULE OwnerPromiseProofs ---------------------------
(***************************************************************************)
(* OwnerSends implements SendPromise: between two restores every step of   *)
(* the pipeline is, for each send, a step of the promise made about it or  *)
(* none, for every set of sends and every bound but that of the failed     *)
(* writes, which is one.                                                   *)
(***************************************************************************)
EXTENDS OwnerOnceProofs

(* A row the server still moves by itself.                                  *)
Borne == {"sending", "queued", "dispatched", "started", "unconfirmed"}

(* What a step of the server may make of the row of s: the same, or, of one *)
(* it still moves, another of the same act that is neither gone nor dropped.*)
Pass(s, m) ==
    \/ m = row[s]
    \/ /\ row[s].st \in Borne /\ m.st \notin {"none", "cancelled"}
       /\ m.act = row[s].act

Passes(L) == \A s \in Sends : Pass(s, L[s])

(* Lines are added to what it moves, and to nothing else.                   *)
LinesPass == \A s \in Sends : row[s].st \notin Borne => lines'[s] = lines[s]

(* Such a step.                                                             *)
Serves == Passes(row') /\ LinesPass

(* What is not dropped yet, the server has dropped none of.                 *)
LEMMA PassOn ==
    ASSUME NEW s \in Sends, NEW m, NEW k, Pass(s, m), m.st \in Borne,
           k.st \notin {"none", "cancelled"}, k.act = m.act
    PROVE  Pass(s, k)
BY DEF Pass, Borne

(* One row changed.                                                         *)
LEMMA PassOne ==
    ASSUME row \in [Sends -> Row], NEW s \in Sends, NEW r, Pass(s, r),
           NEW L, L = [row EXCEPT ![s] = r]
    PROVE  Passes(L)
<1>1. \A t \in Sends : L[t] = IF t = s THEN r ELSE row[t]
  OBVIOUS
<1> QED BY <1>1 DEF Passes, Pass

(* A settled row: its status and its act.                                   *)
LEMMA SettledAct ==
    ASSUME NEW r \in Row
    PROVE  \A st \in Status, withLine \in BOOLEAN :
              Settled(r, st, withLine).st = st /\ Settled(r, st, withLine).act = r.act
BY DEF Settled, Row

(* A drain moves what waits, and writes lines of nothing else.              *)
LEMMA DrainPass ==
    ASSUME LedgerOK, NEW L \in [Sends -> Row], NEW open, NEW d \in Desks, Passes(L),
           Drain(L, open, d) \/ DrainNothing(L, open, d)
    PROVE  Serves
<1>1. /\ lines \in [Sends -> Nat]
      /\ \A s \in Sends : L[s] \in Row /\ Pass(s, L[s])
  BY DEF LedgerOK, Passes
<1>2. ASSUME NEW e, DrainNothing(L, open, e) PROVE Serves
  BY <1>2 DEF DrainNothing, Serves, LinesPass
<1>3. ASSUME DrainGone(L, open, d) PROVE Serves
  <2>1. PICK kept \in SUBSET Sends :
          row' = [s \in Sends |-> IF L[s].st = "queued" /\ s \notin kept
                                  THEN Refused(L[s]) ELSE L[s]]
    BY <1>3 DEF DrainGone
  <2>2. \A s \in Sends : Refused(L[s]).act = L[s].act /\ Refused(L[s]).st = "refused"
    BY <1>1, ActOps, StatusOps
  <2>3. ASSUME NEW s \in Sends PROVE Pass(s, row'[s])
    <3>1. row'[s] = L[s] \/ (L[s].st = "queued" /\ row'[s] = Refused(L[s]))
      BY <2>1
    <3>2. L[s].st = "queued" => Pass(s, Refused(L[s]))
      BY <1>1, <2>2, PassOn DEF Borne
    <3> QED BY <1>1, <3>1, <3>2
  <2> QED BY <1>3, <2>3 DEF DrainGone, Serves, Passes, LinesPass
<1> DEFINE M == LateReleased(L, open)
<1>4. /\ M \in [Sends -> Row] /\ Passes(M)
      /\ \A s \in Sends : M[s].st = "queued" => row[s].st \in Borne
  <2>1. M \in [Sends -> Row]
    BY LedgerOps
  <2>2. \A s \in Sends : M[s] = Scrubbed(L[s]) \/ M[s] = L[s]
    BY DEF LateReleased
  <2>3. ASSUME NEW s \in Sends PROVE Pass(s, M[s]) /\ (M[s].st = "queued" => row[s].st \in Borne)
    <3>1. Scrubbed(L[s]) = L[s] \/ L[s].st = "unconfirmed"
      BY DEF Scrubbed
    <3>2. Scrubbed(L[s]).st = L[s].st /\ Scrubbed(L[s]).act = L[s].act
      BY <1>1, StatusOps, SameOps
    <3>3. Pass(s, Scrubbed(L[s]))
      BY <1>1, <3>1, <3>2, PassOn DEF Borne
    <3>4. Pass(s, M[s])
      BY <1>1, <2>2, <3>3
    <3>5. M[s].st = "queued" => row[s].st \in Borne
      BY <3>4 DEF Pass, Borne
    <3> QED BY <3>4, <3>5
  <2> QED BY <2>1, <2>3 DEF Passes
<1> HIDE DEF M
<1>5. ASSUME DrainUnmarked(M, d) PROVE Serves
  BY <1>4, <1>5 DEF DrainUnmarked, Serves, LinesPass
<1>6. ASSUME DrainStarts(M, d) PROVE Serves
  <2>1. PICK passed, fate : Drained(M, Drainable(M, {}), passed, fate)
    BY <1>4, <1>6, DrainIsDrained
  <2> DEFINE D == Drainable(M, {})
             B == DrainBatch(M, D \ passed)
             runs == {s \in B : fate[s] = "ok" \/ M[s].ex}
  <2>2. D \in SUBSET Sends /\ \A s \in D : M[s].st = "queued"
    BY DEF Drainable
  <2>3. runs \subseteq D
    BY DEF DrainBatch
  <2>4. lines' = [s \in Sends |-> lines[s] + IF s \in runs /\ ~M[s].ex THEN 1 ELSE 0]
    BY <2>1, Zenon DEF Drained
  <2> HIDE DEF D, runs
  <2>5. LinesPass
    <3>1. ASSUME NEW s \in Sends, row[s].st \notin Borne PROVE lines'[s] = lines[s]
      <4>1. s \notin runs
        BY <1>4, <2>2, <2>3, <3>1
      <4>2. lines'[s] = lines[s] + 0
        BY <2>4, <4>1
      <4> QED BY <1>1, <4>2
    <3> QED BY <3>1 DEF LinesPass
  <2>6. ASSUME NEW s \in Sends PROVE Pass(s, row'[s])
    <3>1. \/ row'[s] = M[s]
          \/ /\ M[s].st = "queued"
             /\ row'[s] \in {Refused(Marked(M[s])), Marked(M[s]),
                             Settled(Marked(M[s]), "started", TRUE)}
      BY <1>4, <2>1, <2>2, DrainedRows DEF D
    <3>2. M[s] \in Row /\ Pass(s, M[s])
      BY <1>4 DEF Passes
    <3>3. /\ Marked(M[s]) \in Row /\ Marked(M[s]).act = M[s].act
          /\ Marked(M[s]).st = "dispatched"
      BY <3>2, RowOps, ActOps, StatusOps DEF Status
    <3>4. Refused(Marked(M[s])).act = M[s].act /\ Refused(Marked(M[s])).st = "refused"
      BY <3>3, ActOps, StatusOps
    <3>5. /\ Settled(Marked(M[s]), "started", TRUE).act = M[s].act
          /\ Settled(Marked(M[s]), "started", TRUE).st = "started"
      <4> DEFINE k == Marked(M[s])
      <4>1. k \in Row /\ k.act = M[s].act
        BY <3>3
      <4> HIDE DEF k
      <4>2. Settled(k, "started", TRUE).act = M[s].act /\ Settled(k, "started", TRUE).st = "started"
        BY ZenonT(40), <4>1, SettledAct DEF Status
      <4> QED BY <4>2 DEF k
    <3>6. M[s].st = "queued" => /\ Pass(s, Refused(Marked(M[s]))) /\ Pass(s, Marked(M[s]))
                                /\ Pass(s, Settled(Marked(M[s]), "started", TRUE))
      BY <3>2, <3>3, <3>4, <3>5, PassOn DEF Borne
    <3> QED BY <3>1, <3>2, <3>6
  <2> QED BY <2>5, <2>6 DEF Serves, Passes
<1> QED BY <1>2, <1>3, <1>5, <1>6 DEF Drain, M
-----------------------------------------------------------------------------
(* Every outcome of the head of the line is such a move.                    *)
LEMMA HeadPass ==
    ASSUME TypeInv, FlowInv, chain # <<>>
    PROVE  LET j == Head(chain) IN
           /\ j.s \in Sends /\ row[j.s] \in Row /\ row[j.s].st \in Borne
           /\ Pass(j.s, Queued(row[j.s])) /\ Pass(j.s, Marked(row[j.s]))
           /\ Pass(j.s, CaughtRow(j)) /\ Pass(j.s, row[j.s])
           /\ \A st \in {"started", "delivered", "unconfirmed"}, withLine \in BOOLEAN :
                 Pass(j.s, Settled(row[j.s], st, withLine))
<1> DEFINE j == Head(chain)
           r == row[j.s]
<1>1. j.s \in Sends /\ r \in Row /\ r.st \in Borne
  <2>1. r.st = IF pc = "idle" THEN "sending" ELSE "dispatched"
    BY HeadRow
  <2> QED BY <2>1, HeadRow DEF Borne
<1> HIDE DEF j
<1>2. ASSUME NEW m, m.act = r.act, m.st \notin {"none", "cancelled"}
      PROVE  Pass(j.s, m)
  BY <1>1, <1>2 DEF Pass
<1>3. Pass(j.s, Queued(r)) /\ Pass(j.s, Marked(r)) /\ Pass(j.s, r)
  <2>1. Pass(j.s, Queued(r))
    BY <1>1, <1>2, ActOps, StatusOps
  <2>2. Pass(j.s, Marked(r))
    BY <1>1, <1>2, ActOps, StatusOps
  <2> QED BY <2>1, <2>2 DEF Pass
<1>4. ASSUME NEW st \in {"started", "delivered", "unconfirmed"}, NEW withLine \in BOOLEAN
      PROVE  Pass(j.s, Settled(r, st, withLine))
  BY <1>1, <1>2, SettledAct DEF Status
<1>5. Pass(j.s, CaughtRow(j))
  <2>1. CaughtRow(j) \in {Settled(r, "started", TRUE), Refused(r), r}
    BY Zenon DEF CaughtRow
  <2>2. Pass(j.s, Refused(r))
    BY <1>1, <1>2, ActOps, StatusOps
  <2>3. Pass(j.s, Settled(r, "started", TRUE))
    BY <1>4
  <2> QED BY <1>3, <2>1, <2>2, <2>3
<1> QED BY <1>1, <1>3, <1>4, <1>5 DEF j

(* The admission's steps.                                                   *)
LEMMA AdmissionPass ==
    ASSUME TypeInv, FlowInv, Admission
    PROVE  Serves
<1> DEFINE j == Head(chain)
<1>1. chain # <<>>
  BY DEF Admission, Decide, SteerAnswered, RunRefused, RunAdmitted, RunRecorded,
     TypeInv, AdmissionOK
<1>2. /\ j.s \in Sends /\ row \in [Sends -> Row] /\ row[j.s] \in Row /\ row[j.s].st \in Borne
      /\ Desk \in Desks /\ LedgerOK /\ lines \in [Sends -> Nat]
  BY <1>1, HeadPass, FoundHere DEF TypeInv, LedgerOK
<1>3. ASSUME NEW r, Pass(j.s, r), row' = [row EXCEPT ![j.s] = r],
             lines' = lines \/ lines' = [lines EXCEPT ![j.s] = @ + 1]
      PROVE  Serves
  <2>1. Passes(row')
    BY <1>2, <1>3, PassOne
  <2>2. LinesPass
    BY <1>2, <1>3 DEF LinesPass
  <2> QED BY <2>1, <2>2 DEF Serves
<1>4. row = [row EXCEPT ![j.s] = row[j.s]] /\ Pass(j.s, row[j.s])
  BY <1>1, <1>2, HeadPass
<1>5. ASSUME NEW n, Caught(j, n) PROVE Serves
  <2>1. row' = [row EXCEPT ![j.s] = CaughtRow(j)] \/ row' = row
    BY <1>5 DEF Caught, SetRow
  <2>2. lines' = lines
    BY <1>5 DEF Caught
  <2>3. Pass(j.s, CaughtRow(j))
    BY <1>1, HeadPass
  <2> QED BY <1>3, <1>4, <2>1, <2>2, <2>3
<1>6. ASSUME NEW drains, QueueIt(j, drains) PROVE Serves
  <2> DEFINE L == [row EXCEPT ![j.s] = Queued(row[j.s])]
  <2>1. L \in [Sends -> Row] /\ Passes(L)
    <3>1. Pass(j.s, Queued(row[j.s])) /\ Queued(row[j.s]) \in Row
      BY <1>1, HeadPass, Outcomes DEF Outcome
    <3> QED BY <1>2, <3>1, PassOne
  <2>2. \E open : Drain(L, open, Desk) \/ DrainNothing(L, open, Desk)
    BY <1>6, Zenon DEF QueueIt
  <2> HIDE DEF L
  <2> QED BY <1>2, <2>1, <2>2, DrainPass
<1>7. ASSUME NEW next, MarkThen(j, next) PROVE Serves
  <2>1. row' = [row EXCEPT ![j.s] = Marked(row[j.s])] /\ lines' = lines
    BY <1>7 DEF MarkThen, SetRow
  <2>2. Pass(j.s, Marked(row[j.s]))
    BY <1>1, HeadPass
  <2> QED BY <1>3, <2>1, <2>2
<1>8. ASSUME NotSteered(j) PROVE Serves
  <2>1. \/ Caught(j, 0) \/ QueueIt(j, TRUE) \/ QueueIt(j, FALSE) \/ MarkThen(j, "starting")
    BY <1>8, Zenon DEF NotSteered
  <2> QED BY <1>5, <1>6, <1>7, <2>1
<1>9. CASE Decide
  <2>1. \/ Caught(j, 0) \/ Caught(j, 1) \/ QueueIt(j, TRUE) \/ QueueIt(j, FALSE)
        \/ MarkThen(j, "steering") \/ MarkThen(j, "starting") \/ NotSteered(j)
    BY <1>9, Zenon DEF Decide
  <2> QED BY <1>5, <1>6, <1>7, <1>8, <2>1
<1>10. CASE SteerAnswered
  <2>1. Taken(j) \/ Uncertain(j) \/ NotSteered(j) \/ Caught(j, 1)
    BY <1>10, Zenon DEF SteerAnswered
  <2>2. ASSUME NEW st \in {"delivered", "unconfirmed"}, SteerRecorded(j, st)
        PROVE  Serves
    <3>1. \/ row' = [row EXCEPT ![j.s] = Settled(row[j.s], st, TRUE)]
          \/ row' = [row EXCEPT ![j.s] = Settled(row[j.s], "unconfirmed", FALSE)]
          \/ row' = [row EXCEPT ![j.s] = CaughtRow(j)]
          \/ row' = row
      BY <2>2, Zenon DEF SteerRecorded, SetRow
    <3>2. lines' = lines \/ lines' = [lines EXCEPT ![j.s] = @ + 1]
      BY <2>2, Zenon DEF SteerRecorded
    <3>3. /\ Pass(j.s, Settled(row[j.s], st, TRUE))
          /\ Pass(j.s, Settled(row[j.s], "unconfirmed", FALSE)) /\ Pass(j.s, CaughtRow(j))
      BY <1>1, HeadPass
    <3> QED BY <1>3, <1>4, <3>1, <3>2, <3>3
  <2> QED BY <1>5, <1>8, <2>1, <2>2 DEF Taken, Uncertain
<1>11. CASE RunRefused \/ RunAdmitted \/ RunRecorded
  <2>1. CASE RunRefused
    BY <1>5, <2>1 DEF RunRefused
  <2>2. CASE RunAdmitted \/ RunRecorded
    <3>1. \/ row' = row
          \/ row' = [row EXCEPT ![j.s] = Settled(row[j.s], "started", TRUE)]
      BY <2>2 DEF RunAdmitted, RunRecorded, SetRow
    <3>2. Pass(j.s, Settled(row[j.s], "started", TRUE))
      BY <1>1, HeadPass
    <3>3. lines' = lines \/ lines' = [lines EXCEPT ![j.s] = @ + 1]
      BY <2>2 DEF RunAdmitted, RunRecorded
    <3> QED BY <1>3, <1>4, <3>1, <3>2, <3>3
  <2> QED BY <1>11, <2>1, <2>2
<1> QED BY <1>9, <1>10, <1>11 DEF Admission

(* A late answer's release of its row.                                      *)
LEMMA ReleasePass ==
    ASSUME NEW L \in [Sends -> Row], Passes(L), NEW l, l.s \in Sends
    PROVE  Release(L, l) \in [Sends -> Row] /\ Passes(Release(L, l))
<1> DEFINE k == Scrubbed(L[l.s])
<1>1. k \in Row /\ k.st = L[l.s].st /\ k.act = L[l.s].act
  BY ZenonT(40), RowOps, StatusOps, SameOps DEF Status
<1>2. k = L[l.s] \/ L[l.s].st = "unconfirmed"
  BY DEF Scrubbed
<1>3. Pass(l.s, L[l.s])
  BY DEF Passes
<1> HIDE DEF k
<1>4. Pass(l.s, k)
  BY <1>1, <1>2, <1>3, PassOn DEF Borne
<1>5. Release(L, l) = [L EXCEPT ![l.s] = k] \/ Release(L, l) = L
  BY DEF Release, k
<1>6. [L EXCEPT ![l.s] = k] \in [Sends -> Row] /\ Passes([L EXCEPT ![l.s] = k])
  BY <1>1, <1>4 DEF Passes
<1> QED BY <1>5, <1>6

(* The queue's, the timers', the late answers' and the turns' steps.        *)
LEMMA QueuePass ==
    ASSUME TypeInv, FlowInv, Queue \/ World
    PROVE  Serves
<1>1. /\ LedgerOK /\ row \in [Sends -> Row] /\ Desk \in Desks
      /\ batch \subseteq Job /\ late \subseteq LateCall /\ Passes(row)
  BY FoundHere DEF Found, Passes, Pass
<1>2. ASSUME NEW L \in [Sends -> Row], NEW open, NEW d \in Desks, Passes(L),
             Drain(L, open, d) \/ DrainNothing(L, open, d)
      PROVE  Serves
  BY <1>1, <1>2, DrainPass
<1>3. ASSUME Passes(row'), lines' = lines PROVE Serves
  BY <1>3 DEF Serves, LinesPass
<1>4. CASE BatchRequeued
  <2> DEFINE mine == {b.s : b \in {b \in batch : Mine(b) /\ row[b.s].st = "started"}}
  <2>1. PICK back \in SUBSET mine :
          row' = [s \in Sends |-> IF s \in back THEN RequeuedStart(row[s]) ELSE row[s]]
    BY <1>4, Zenon DEF BatchRequeued
  <2>2. \A s \in back : row[s].st = "started"
    OBVIOUS
  <2>3. \A s \in Sends : /\ RequeuedStart(row[s]).act = row[s].act
                         /\ RequeuedStart(row[s]).st = "queued"
    BY <1>1, ActOps, StatusOps
  <2> HIDE DEF mine
  <2>4. Passes(row')
    BY <1>1, <2>1, <2>2, <2>3 DEF Passes, Pass, Borne
  <2>5. lines' = lines
    BY <1>4 DEF BatchRequeued
  <2> QED BY <1>3, <2>4, <2>5
<1>5. CASE BatchFailed
  <2> DEFINE d == [Desk EXCEPT !.batch = {}, !.retry = "none"]
  <2>1. d \in Desks
    BY <1>1 DEF Desks
  <2>2. DrainNothing(row, lateOpen, d) \/ Drain(row, lateOpen, d)
    BY <1>5, Zenon DEF BatchFailed
  <2> HIDE DEF d
  <2> QED BY <1>1, <1>2, <2>1, <2>2
<1>6. CASE RetryTimer
  <2> DEFINE d == [Desk EXCEPT !.retry = "open"]
  <2>1. d \in Desks /\ Drain(row, lateOpen, d)
    BY <1>1, <1>6 DEF Desks, RetryTimer
  <2> HIDE DEF d
  <2> QED BY <1>1, <1>2, <2>1
<1>7. CASE WatchTimer
  <2> DEFINE d == [Desk EXCEPT !.watch = FALSE]
  <2>1. d \in Desks /\ Drain(row, lateOpen, d)
    BY <1>1, <1>7 DEF Desks, WatchTimer
  <2> HIDE DEF d
  <2> QED BY <1>1, <1>2, <2>1
<1>8. CASE BatchAdmitted
  BY <1>1, <1>3, <1>8 DEF BatchAdmitted, ledgerVars
<1>9. CASE OtherDrain
  <2>1. Drain(row, lateOpen, Desk)
    BY <1>9 DEF OtherDrain
  <2> QED BY <1>1, <1>2, <2>1
<1>10. CASE World
  <2>1. (row' = row /\ lines' = lines) \/ Drain(row, lateOpen, Desk)
    BY <1>10 DEF World, OtherTurnStarts, EngineGetsTurn, TurnCompleted, TurnReleased,
       RoomTurnStarts, RoomTurnEnds, TargetMoves, TurnFrame, ledgerVars, drainVars
  <2> QED BY <1>1, <1>2, <1>3, <2>1
<1>11. ASSUME NEW l \in late, LateAnswer(l) PROVE Serves
  <2>1. l \in LateCall /\ l.s \in Sends /\ row[l.s] \in Row
    BY <1>1 DEF LateCall
  <2>2. l.line => row[l.s].st = "unconfirmed"
    BY DEF FlowInv, Flow, Asked
  <2> DEFINE N(r) == [row EXCEPT ![l.s] = r]
  <2>3. ASSUME l.line, NEW r \in Row, r.act = row[l.s].act,
               r.st \in {"delivered", "failed", "queued"}
        PROVE  N(r) \in [Sends -> Row] /\ Passes(N(r))
    <3>1. Pass(l.s, r)
      BY <2>2, <2>3 DEF Pass, Borne
    <3> QED BY <1>1, <2>1, <2>3, <3>1, PassOne
  <2>4. ASSUME NEW L \in [Sends -> Row], Passes(L)
        PROVE  Release(L, l) \in [Sends -> Row] /\ Passes(Release(L, l))
    BY <2>1, <2>4, ReleasePass
  <2>5. /\ QueuedFromLine(row[l.s]) \in Row
        /\ QueuedFromLine(row[l.s]).act = row[l.s].act
        /\ QueuedFromLine(row[l.s]).st = "queued"
    BY <2>1, RowOps, ActOps, StatusOps DEF Status
  <2>6. ASSUME NEW st \in {"delivered", "failed"}
        PROVE  /\ Settled(row[l.s], st, TRUE) \in Row
               /\ Settled(row[l.s], st, TRUE).act = row[l.s].act
               /\ Settled(row[l.s], st, TRUE).st = st
    <3>1. Settled(row[l.s], st, TRUE) \in Row
      BY <2>1, RowOps DEF Status
    <3>2. st \in Status
      BY DEF Status
    <3> QED BY <2>1, <3>1, <3>2, SettledAct
  <2>7. ASSUME NEW st \in {"delivered", "failed"}, LateSettled(l, st) PROVE Serves
    <3>1. \/ l.line /\ row' = Release(N(Settled(row[l.s], st, TRUE)), l)
          \/ row' = Release(row, l)
      BY <2>7, Zenon DEF LateSettled
    <3>2. lines' = lines
      BY <2>7 DEF LateSettled
    <3> DEFINE r == Settled(row[l.s], st, TRUE)
    <3>3. r \in Row /\ r.act = row[l.s].act /\ r.st \in {"delivered", "failed", "queued"}
      BY <2>6, <2>7
    <3> HIDE DEF r
    <3>4. l.line => N(r) \in [Sends -> Row] /\ Passes(N(r))
      BY <2>3, <3>3
    <3>5. (l.line /\ row' = Release(N(r), l)) \/ row' = Release(row, l)
      BY <3>1 DEF r
    <3> HIDE DEF N
    <3> QED BY <1>1, <1>3, <2>4, <3>2, <3>4, <3>5
  <2>8. ASSUME LateRejected(l) PROVE Serves
    <3> DEFINE R == Release(row, l)
               Q == N(QueuedFromLine(row[l.s]))
    <3>1. \/ \E open : DrainNothing(R, open, Desk)
          \/ LateSettled(l, "failed")
          \/ l.line /\ \E open : Drain(Q, open, Desk)
          \/ row' = R /\ lines' = lines
      BY <2>8, Zenon DEF LateRejected
    <3>2. R \in [Sends -> Row] /\ Passes(R)
      BY <1>1, <2>4
    <3>3. l.line => Q \in [Sends -> Row] /\ Passes(Q)
      BY <2>3, <2>5
    <3> HIDE DEF R, Q
    <3>4. CASE \E open : DrainNothing(R, open, Desk)
      BY <1>1, <1>2, <3>2, <3>4
    <3>5. CASE l.line /\ \E open : Drain(Q, open, Desk)
      BY <1>1, <1>2, <3>3, <3>5
    <3>6. CASE row' = R /\ lines' = lines
      BY <1>3, <3>2, <3>6
    <3> QED BY <2>7, <3>1, <3>4, <3>5, <3>6
  <2>9. LateDelivered(l) => LateSettled(l, "delivered")
    BY DEF LateDelivered
  <2>10. LateUncertain(l) => row' = row /\ lines' = lines
    BY DEF LateUncertain, drainVars
  <2>11. LateDelivered(l) \/ LateRejected(l) \/ LateUncertain(l)
    BY <1>11, Zenon DEF LateAnswer
  <2> QED BY <1>1, <1>3, <2>7, <2>8, <2>9, <2>10, <2>11
<1> QED BY <1>4, <1>5, <1>6, <1>7, <1>8, <1>9, <1>10, <1>11 DEF Queue

(* A crash and a startup: completeUnresolved finds rows it may still move.  *)
LEMMA StartupPass ==
    ASSUME TypeInv, FlowInv, todo \subseteq {s \in Sends : row[s].st \in Borne},
           Crash \/ Recover \/ Ready \/ \E s \in Sends : CompleteOne(s)
    PROVE  Serves
<1>1. /\ LedgerOK /\ row \in [Sends -> Row] /\ Desk \in Desks
      /\ Passes(row) /\ lines \in [Sends -> Nat]
  BY FoundHere DEF Found, Passes, Pass, LedgerOK
<1>2. ASSUME Passes(row'), lines' = lines PROVE Serves
  BY <1>2 DEF Serves, LinesPass
<1>3. CASE Crash
  BY <1>1, <1>2, <1>3 DEF Crash, ledgerVars
<1>4. CASE Recover
  <2>1. (row' = Recovered(row) \/ row' = row) /\ lines' = lines
    BY <1>4 DEF Recover
  <2>2. Passes(Recovered(row))
    <3>1. ASSUME NEW s \in Sends PROVE Pass(s, Recovered(row)[s])
      <4> DEFINE r == row[s]
                 a == [r EXCEPT !.st = "refused", !.ex = FALSE]
                 b == [r EXCEPT !.st = "queued"]
      <4>1. Recovered(row)[s] = r \/ (r.st \in Undecided /\ Recovered(row)[s] \in {a, b})
        BY DEF Recovered, Undecided
      <4>2. r \in Row
        BY <1>1
      <4>3. a.act = r.act /\ a.st = "refused" /\ b.act = r.act /\ b.st = "queued"
        BY <4>2 DEF Row
      <4> HIDE DEF a, b
      <4> QED BY <4>1, <4>3 DEF Pass, Borne, Undecided
    <3> QED BY <3>1 DEF Passes
  <2> QED BY <1>1, <1>2, <2>1, <2>2
<1>5. CASE Ready
  <2>1. Drain(row, lateOpen, Desk)
    BY <1>5 DEF Ready
  <2> QED BY <1>1, <2>1, DrainPass
<1>6. ASSUME NEW s \in Sends, CompleteOne(s) PROVE Serves
  <2> DEFINE r == row[s]
             a == Settled(r, "started", TRUE)
             b == Scrubbed(r)
             m == Settled(r, "unconfirmed", TRUE)
             c == Scrubbed(m)
  <2>1. lines' = lines \/ lines' = [lines EXCEPT ![s] = @ + 1]
    BY <1>6, Zenon DEF CompleteOne, ledgerVars
  <2>2. \/ row' = row
        \/ row' = [row EXCEPT ![s] = a]
        \/ row' = [row EXCEPT ![s] = b]
        \/ row' = [row EXCEPT ![s] = c]
    BY <1>6, Zenon DEF CompleteOne, SetRow, ledgerVars
  <2>3. r \in Row /\ r.st \in Borne
    BY <1>1, <1>6 DEF CompleteOne
  <2>4. m \in Row /\ m.act = r.act /\ m.st = "unconfirmed"
    BY <2>3, RowOps, SettledAct DEF Status
  <2>5. c.act = r.act /\ c.st = "unconfirmed"
    BY <2>4, ActOps, StatusOps
  <2>6. a.act = r.act /\ a.st = "started"
    BY <2>3, SettledAct DEF Status
  <2>7. b.act = r.act /\ b.st = r.st
    BY <2>3, ActOps, StatusOps
  <2> HIDE DEF a, b, c, m
  <2>8. Pass(s, a) /\ Pass(s, b) /\ Pass(s, c)
    BY <2>3, <2>5, <2>6, <2>7 DEF Pass, Borne
  <2>9. Passes(row')
    BY <1>1, <2>2, <2>8, PassOne
  <2>10. LinesPass
    BY <1>1, <2>1, <2>3 DEF LinesPass
  <2> QED BY <2>9, <2>10 DEF Serves
<1> QED BY <1>3, <1>4, <1>5, <1>6

(* A Stop, and a repeat of a request in hand.                               *)
LEMMA OwnerPass ==
    ASSUME TypeInv, StopPressed \/ \E p \in net : AcceptAgain(p)
    PROVE  Serves
<1>1. row \in [Sends -> Row] /\ Passes(row)
  BY DEF TypeInv, LedgerOK, Passes, Pass
<1>2. CASE StopPressed
  <2> DEFINE L == StopMarked(row, tokens.stop + 1)
  <2>1. row' = L /\ lines' = lines
    BY <1>2 DEF StopPressed
  <2>2. ASSUME NEW s \in Sends PROVE Pass(s, L[s])
    <3> DEFINE m == [row[s] EXCEPT !.stopped = TRUE, !.tok = tokens.stop + 1]
    <3>1. L[s] = row[s] \/ (row[s].st \in Undecided /\ L[s] = m)
      BY DEF StopMarked
    <3>2. m.st = row[s].st /\ m.act = row[s].act
      BY <1>1 DEF Row
    <3> HIDE DEF m, L
    <3> QED BY <3>1, <3>2 DEF Pass, Borne, Undecided
  <2> QED BY <2>1, <2>2 DEF Serves, Passes, LinesPass
<1>3. CASE \E p \in net : AcceptAgain(p)
  BY <1>1, <1>3 DEF AcceptAgain, ledgerVars, Serves, LinesPass
<1> QED BY <1>2, <1>3
-----------------------------------------------------------------------------
(* What a run without a restore keeps, besides the invariants of the other  *)
(* modules: what the owner dropped stays so, what completeUnresolved still  *)
(* has to finish is a row it may move, and there is no backup.              *)
PathInv ==
    /\ dismissed \subseteq acked
    /\ \A s \in dismissed : row[s].st \in {"none", "cancelled"}
    /\ todo \subseteq {s \in Sends : row[s].st \in {"dispatched", "unconfirmed"}}
    /\ server = "up" => todo = {}
    /\ backup = NoBackup /\ forgot = {}

(* The steps but these are the server's, or change no row.                  *)
LEMMA StepsServe ==
    ASSUME TypeInv, FlowInv, PathInv, Next
    PROVE  \/ Serves
           \/ \E p \in net : Accept(p) \/ AcceptTypedStop(p)
           \/ \E s \in Sends : Cancel(s) \/ Prune(s)
           \/ Restore
<1>1. row' = row /\ lines' = lines => Serves
  BY DEF Serves, Passes, Pass, LinesPass
<1>2. TakeBackup \/ (\E s \in Sends : FirstSend(s) \/ SendAgain(s)) => row' = row /\ lines' = lines
  BY DEF TakeBackup, FirstSend, SendAgain, Press, ledgerVars
<1>3. todo \subseteq {s \in Sends : row[s].st \in Borne}
  BY DEF PathInv, Borne
<1>4. \/ Admission \/ Queue \/ World
      \/ Crash \/ Recover \/ Ready \/ (\E s \in Sends : CompleteOne(s))
      \/ StopPressed \/ (\E p \in net : AcceptAgain(p))
      \/ TakeBackup \/ (\E s \in Sends : FirstSend(s) \/ SendAgain(s))
      \/ (\E p \in net : Accept(p) \/ AcceptTypedStop(p))
      \/ (\E s \in Sends : Cancel(s) \/ Prune(s)) \/ Restore
  BY Zenon DEF Next, Client, Lifecycle
<1> QED BY <1>1, <1>2, <1>3, <1>4, AdmissionPass, QueuePass, StartupPass, OwnerPass

(* A deleted thread does not come back.                                     *)
LEMMA GoneStays == ASSUME [Next]_vars, target = "gone" PROVE target' = "gone"
<1>1. CASE UNCHANGED vars
  BY <1>1 DEF vars
<1>2. CASE Client
  BY <1>2 DEF Client, FirstSend, SendAgain, Press, Cancel, Accept, AcceptAgain, AcceptTypedStop,
     StopPressed, turnVars
<1>3. CASE Admission
  <2>1. CASE Decide
    BY <2>1, Zenon DEF Decide, Caught, QueueIt, MarkThen, NotSteered, turnVars
  <2>2. CASE SteerAnswered
    BY <2>2, Zenon DEF SteerAnswered, Taken, Uncertain, Caught, QueueIt, MarkThen, NotSteered,
       turnVars
  <2>3. CASE RunRefused
    BY <2>3 DEF RunRefused, Caught, turnVars
  <2>4. CASE RunAdmitted \/ RunRecorded
    BY <2>4 DEF RunAdmitted, RunRecorded, turnVars
  <2> QED BY <1>3, <2>1, <2>2, <2>3, <2>4 DEF Admission
<1>4. CASE Queue
  BY <1>4, Zenon DEF Queue, BatchAdmitted, BatchRequeued, BatchFailed, RetryTimer, WatchTimer,
     OtherDrain, LateAnswer, turnVars
<1>5. CASE World
  BY <1>5 DEF World, OtherTurnStarts, EngineGetsTurn, TurnCompleted, TurnReleased,
     RoomTurnStarts, RoomTurnEnds, TargetMoves
<1>6. CASE Lifecycle
  BY <1>6 DEF Lifecycle, Crash, Recover, Ready, CompleteOne, Prune, TakeBackup, Restore,
     BootFrame, turnVars
<1> QED BY <1>1, <1>2, <1>3, <1>4, <1>5, <1>6 DEF Next

(* What the steps of the server and of a client leave alone.                *)
LEMMA PathFrame ==
    ASSUME MaxRestore = 0, TypeInv, PathInv, Next
    PROVE  /\ UNCHANGED <<backup, forgot>>
           /\ acked \subseteq acked'
           /\ \/ UNCHANGED <<dismissed>>
              \/ \E s \in Sends : Cancel(s) /\ dismissed' = dismissed \cup {s}
              \/ \E p \in net : AcceptTypedStop(p)
           /\ \/ UNCHANGED <<server, todo>>
              \/ todo' = {} \/ Recover
              \/ \E s \in Sends : CompleteOne(s)
<1> DEFINE Frame == UNCHANGED <<backup, forgot, acked, dismissed>>
<1>1. ~TakeBackup /\ ~Restore
  <2>1. spent.restore \in Nat /\ backup = NoBackup
    BY DEF TypeInv, LedgerOK, PathInv
  <2> QED BY <2>1 DEF TakeBackup, Restore
<1>2. CASE Client
  BY <1>2 DEF Client, FirstSend, SendAgain, Press, Cancel, Accept, AcceptAgain, AcceptTypedStop,
     StopPressed, historyVars, bootVars
<1>3. CASE Admission
  <2>1. CASE Decide
    BY <2>1, Zenon DEF Decide, Caught, QueueIt, MarkThen, NotSteered, bootVars
  <2>2. CASE SteerAnswered
    BY <2>2, Zenon DEF SteerAnswered, Taken, Uncertain, Caught, QueueIt, MarkThen, NotSteered,
       bootVars
  <2>3. CASE RunRefused
    BY <2>3 DEF RunRefused, Caught, bootVars
  <2>4. CASE RunAdmitted \/ RunRecorded
    BY <2>4 DEF RunAdmitted, RunRecorded, historyVars, bootVars
  <2> QED BY <1>3, <2>1, <2>2, <2>3, <2>4 DEF Admission
<1>4. CASE Queue
  <2>1. Frame /\ UNCHANGED <<server, todo>>
    BY <1>4, Zenon DEF Queue, BatchAdmitted, BatchRequeued, BatchFailed, RetryTimer, WatchTimer,
       OtherDrain, LateAnswer, historyVars, bootVars
  <2> QED BY <2>1
<1>5. CASE World
  BY <1>5 DEF World, OtherTurnStarts, EngineGetsTurn, TurnCompleted, TurnReleased,
     RoomTurnStarts, RoomTurnEnds, TargetMoves, TurnFrame, bootVars
<1>6. CASE Lifecycle
  <2>1. CASE Crash
    BY <2>1 DEF Crash
  <2>2. CASE Recover
    BY <2>2 DEF Recover, BootFrame, historyVars
  <2>3. CASE Ready
    BY <2>3 DEF Ready, BootFrame, historyVars
  <2>4. ASSUME NEW s \in Sends, CompleteOne(s) PROVE Frame
    BY <2>4 DEF CompleteOne, BootFrame, historyVars
  <2>5. ASSUME NEW s \in Sends, Prune(s) PROVE Frame /\ UNCHANGED <<server, todo>>
    BY <2>5 DEF Prune, bootVars, historyVars
  <2> QED BY <1>1, <1>6, <2>1, <2>2, <2>3, <2>4, <2>5 DEF Lifecycle
<1> QED BY <1>2, <1>3, <1>4, <1>5, <1>6 DEF Next

(* What has to be finished at startup is still to move after any step.      *)
LEMMA PathTodo ==
    ASSUME MaxRestore = 0, TypeInv, FlowInv, PathInv, Next
    PROVE  /\ todo' \subseteq {s \in Sends : row'[s].st \in {"dispatched", "unconfirmed"}}
           /\ server' = "up" => todo' = {}
<1>1. /\ todo \subseteq {s \in Sends : row[s].st \in {"dispatched", "unconfirmed"}}
      /\ server = "up" => todo = {}
  BY DEF PathInv
<1>2. CASE Recover
  <2>1. /\ server' = "recovering"
        /\ (row' = Recovered(row) /\ todo' = Unresolved(row)) \/ todo' = {}
    BY <1>2 DEF Recover
  <2>2. \A s \in Unresolved(row) : /\ s \in Sends /\ row[s].st \in {"dispatched", "unconfirmed"}
                                   /\ Recovered(row)[s] = row[s]
    BY DEF Unresolved, Recovered, Undecided
  <2> QED BY <2>1, <2>2
<1>3. ASSUME NEW s \in Sends, CompleteOne(s)
      PROVE  /\ todo' \subseteq {t \in Sends : row'[t].st \in {"dispatched", "unconfirmed"}}
             /\ server' = "up" => todo' = {}
  <2>1. /\ server' = "recovering" /\ todo' = todo \ {s}
        /\ row' = row \/ \E r : row' = [row EXCEPT ![s] = r]
    BY <1>3, Zenon DEF CompleteOne, SetRow, ledgerVars
  <2>2. \A t \in Sends : t # s => row'[t] = row[t]
    BY <2>1 DEF TypeInv, LedgerOK
  <2> QED BY <1>1, <2>1, <2>2
<1>4. CASE UNCHANGED <<server, todo>> /\ server # "up"
  <2>1. UNCHANGED row \/ todo' = {}
    <3>1. CASE \E s \in Sends : FirstSend(s)
      BY <3>1 DEF FirstSend, Press, ledgerVars
    <3>2. CASE Crash \/ Recover \/ Ready
      BY <1>4, <3>2 DEF Crash, Recover, Ready
    <3>3. CASE \E s \in Sends : CompleteOne(s)
      BY <1>4, <3>3 DEF CompleteOne
    <3>4. \/ Admission \/ Queue \/ World
          \/ Crash \/ Recover \/ Ready \/ TakeBackup \/ Restore
          \/ (\E s \in Sends : CompleteOne(s)) \/ (\E s \in Sends : Prune(s))
          \/ StopPressed \/ (\E p \in net : Accept(p) \/ AcceptAgain(p) \/ AcceptTypedStop(p))
          \/ (\E s \in Sends : FirstSend(s)) \/ (\E s \in Sends : SendAgain(s) \/ Cancel(s))
      BY Zenon DEF Next, Client, Lifecycle
    <3>5. ~Admission
      BY <1>4 DEF Admission, Decide, SteerAnswered, RunRefused, RunAdmitted, RunRecorded, Up
    <3>6. ~Queue
      BY <1>4 DEF Queue, BatchAdmitted, BatchRequeued, BatchFailed, RetryTimer, WatchTimer,
         OtherDrain, LateAnswer, Up
    <3>7. ~World
      BY <1>4 DEF World, OtherTurnStarts, EngineGetsTurn, TurnCompleted, TurnReleased,
         RoomTurnStarts, RoomTurnEnds, TargetMoves, Up
    <3>8. /\ ~TakeBackup /\ ~Restore /\ ~StopPressed
          /\ \A s \in Sends : ~Prune(s) /\ ~SendAgain(s) /\ ~Cancel(s)
          /\ \A p \in net : ~Accept(p) /\ ~AcceptAgain(p) /\ ~AcceptTypedStop(p)
      BY <1>4 DEF TakeBackup, Restore, PathInv, StopPressed, Prune, SendAgain, Cancel, Accept,
         AcceptAgain, AcceptTypedStop, Up
    <3> QED BY <3>1, <3>2, <3>3, <3>4, <3>5, <3>6, <3>7, <3>8
  <2> QED BY <1>1, <1>4, <2>1
<1>5. CASE UNCHANGED <<server, todo>> /\ server = "up"
  BY <1>1, <1>5
<1> QED BY <1>2, <1>3, <1>4, <1>5, PathFrame

(* Every step keeps it.                                                     *)
LEMMA PathStep ==
    ASSUME MaxRestore = 0, TypeInv, FlowInv, OnceInv, PathInv, [Next]_vars
    PROVE  PathInv'
<1>1. CASE UNCHANGED vars
  BY <1>1 DEF vars, PathInv
<1>2. CASE Next
  <2>1. /\ dismissed \subseteq acked /\ acked \subseteq Sends
        /\ \A s \in dismissed : s \in Sends /\ row[s].st \in {"none", "cancelled"}
        /\ backup = NoBackup /\ forgot = {} /\ row \in [Sends -> Row]
    BY DEF PathInv, TypeInv, RestOK, LedgerOK
  <2>2. /\ \A s \in Sends : row[s].st # "none" => s \in acked
        /\ \A p \in net : row[p.s].st # "none" \/ p.s \notin acked
    BY DEF OnceInv, Asks
  <2> DEFINE Goal == /\ dismissed' \subseteq acked'
                     /\ \A s \in dismissed' : row'[s].st \in {"none", "cancelled"}
  <2>3. ASSUME NEW p \in net, Accept(p) \/ AcceptTypedStop(p) PROVE Goal
    <3>1. /\ p.s \in Sends /\ row[p.s].st \in {"none", "failed", "refused"}
      BY <2>3 DEF Accept, AcceptTypedStop, Accepts, Readmits, TypeInv, RestOK, Request
    <3>2. p.s \notin dismissed
      BY <2>1, <2>2, <3>1
    <3>3. CASE Accept(p)
      <4>1. PICK r : row' = [row EXCEPT ![p.s] = r]
        BY <3>3 DEF Accept, SetRow
      <4>2. dismissed' = dismissed /\ acked' = acked \cup {p.s}
        BY <3>3 DEF Accept
      <4> QED BY <2>1, <3>2, <4>1, <4>2
    <3>4. CASE AcceptTypedStop(p)
      <4>1. PICK q \in Seqs :
              row' = StopMarked([row EXCEPT ![p.s] = TypedStopRow(p, q)], tokens.stop + 1)
        BY <3>4 DEF AcceptTypedStop
      <4>2. dismissed' = dismissed \cup {p.s} /\ acked' = acked \cup {p.s}
        BY <3>4 DEF AcceptTypedStop
      <4> DEFINE L == [row EXCEPT ![p.s] = TypedStopRow(p, q)]
      <4>3. TypedStopRow(p, q).st = "cancelled"
        BY DEF TypedStopRow, NewRow, NoRow
      <4>4. \A s \in dismissed' : s \in Sends /\ L[s].st \in {"none", "cancelled"}
        BY <2>1, <3>1, <4>2, <4>3
      <4> HIDE DEF L
      <4>5. \A s \in Sends : L[s].st \notin Undecided => StopMarked(L, tokens.stop + 1)[s] = L[s]
        BY DEF StopMarked
      <4>6. row' = StopMarked(L, tokens.stop + 1)
        BY <4>1 DEF L
      <4>7. \A s \in dismissed' : row'[s].st \in {"none", "cancelled"}
        BY <4>4, <4>5, <4>6 DEF Undecided
      <4> QED BY <2>1, <4>2, <4>7
    <3> QED BY <2>3, <3>3, <3>4
  <2>4. ASSUME NEW s \in Sends, Cancel(s) \/ Prune(s) PROVE Goal
    <3>1. PICK r : row' = [row EXCEPT ![s] = r] /\ r.st \in {"none", "cancelled"}
      <4>1. CASE Cancel(s)
        <5>1. row[s] \in Row
          BY <2>1
        <5>2. Settled(row[s], "cancelled", FALSE).st = "cancelled"
          BY <5>1, SettledAct DEF Status
        <5> QED BY <4>1, <5>2 DEF Cancel, SetRow
      <4>2. CASE Prune(s)
        <5>1. row' = [row EXCEPT ![s] = NoRow]
          BY <4>2 DEF Prune, SetRow
        <5>2. NoRow.st = "none"
          BY DEF NoRow
        <5> QED BY <5>1, <5>2
      <4> QED BY <2>4, <4>1, <4>2
    <3>2. dismissed' \subseteq dismissed \cup {s} /\ acked' = acked
      BY <2>4 DEF Cancel, Prune, historyVars
    <3>3. row[s].st # "none" \/ dismissed' = dismissed
      BY <2>4 DEF Cancel, Cancellable, Chip, Prune, historyVars
    <3> QED BY <2>1, <2>2, <3>1, <3>2, <3>3
  <2>5. ASSUME Serves, \A p \in net : ~AcceptTypedStop(p), \A s \in Sends : ~Cancel(s) PROVE Goal
    <3>1. dismissed' = dismissed /\ acked \subseteq acked'
      BY <1>2, <2>5, PathFrame
    <3>2. \A s \in dismissed : row'[s] = row[s]
      BY <2>1, <2>5 DEF Serves, Passes, Pass, Borne
    <3> QED BY <2>1, <3>1, <3>2
  <2>6. ~Restore
    BY <2>1 DEF Restore
  <2>7. Goal
    BY <1>2, <2>3, <2>4, <2>5, <2>6, StepsServe
  <2> HIDE DEF Goal
  <2>8. backup' = NoBackup /\ forgot' = {}
    BY <1>2, <2>1, PathFrame
  <2> QED BY <1>2, <2>7, <2>8, PathTodo DEF PathInv, Goal
<1> QED BY <1>1, <1>2
-----------------------------------------------------------------------------
(* Where SendPromise sees a send, whether its engine got it, and whether    *)
(* its words are held.                                                      *)
Here(s) == PlaceOf(row[s])
Got(s) == row[s].st # "none" /\ given[s][row[s].act] > 0
Held(s) == row[s].words \/ lines[s] > 0

(* The places by status.                                                    *)
LEMMA PlaceIs ==
    ASSUME NEW r \in Row
    PROVE  /\ r.st = "none" => PlaceOf(r) = "none"
           /\ r.st \in Undecided => PlaceOf(r) = "waiting"
           /\ r.st \in {"dispatched", "started", "delivered", "unconfirmed"} => PlaceOf(r) = "out"
           /\ r.st \in {"failed", "refused"} => PlaceOf(r) = "chip"
           /\ r.st = "cancelled" => PlaceOf(r) = "dropped"
BY DEF PlaceOf, Undecided, Row, Status

(* What SendPromise asks of a step, in the pipeline's own terms.            *)
Kept(s) == Held(s) /\ Held(s)'
Fresh(s) == ~Got(s) /\ ~Got(s)'
Keeping(s) ==
    \/ Here(s) = "waiting" /\ Here(s)' = "out" /\ ~Got(s) /\ Kept(s)
    \/ Here(s) = "waiting" /\ Here(s)' = "chip" /\ Fresh(s) /\ Kept(s)
    \/ Here(s) = "out" /\ Here(s)' \in {"waiting", "chip"} /\ Fresh(s) /\ Kept(s)
    \/ Here(s) = "out" /\ Here(s)' = "out" /\ ~Got(s) /\ Got(s)' /\ Kept(s)
    \/ Here(s)' = Here(s) /\ (Got(s)' <=> Got(s)) /\ (Held(s)' <=> Held(s))
Acting(s) ==
    \/ Here(s) \in {"none", "chip"} /\ Here(s)' = "waiting" /\ ~Got(s)' /\ Held(s)'
    \/ Here(s) \in {"none", "chip"} /\ Here(s)' = "dropped" /\ ~Got(s)'
    \/ Here(s) \in {"waiting", "chip"} /\ Here(s)' = "dropped" /\ Fresh(s)
    \/ Here(s) \in {"out", "chip", "dropped"} /\ Here(s)' = "none" /\ (Held(s)' <=> Held(s))

(* A send that does one of these lives or rests as SendPromise has it.      *)
LEMMA Maps ==
    ASSUME NEW s \in Sends, Keeping(s) \/ Acting(s)
    PROVE  Promise!Lives(s) \/ Promise!Rests(s)
BY DEF Keeping, Acting, Kept, Fresh, Here, Got, Held, Promise!Lives, Promise!Rests,
   Promise!Accepted, Promise!Answered, Promise!GoesOut, Promise!HeldBack, Promise!ComesBack,
   Promise!Given, Promise!Dropped, Promise!Forgotten, Promise!Moves, Promise!Ungiven,
   Promise!Holds

(* The invariants the steps are seen by.                                    *)
Ground ==
    /\ TypeInv /\ WordsInv /\ FlowInv /\ OnceInv /\ ActsInv /\ PathInv /\ target # "gone"

(* A row that is there and not dropped has its words.                       *)
LEMMA GroundHeld ==
    ASSUME Ground, NEW s \in Sends, row[s].st \notin {"none", "cancelled"}
    PROVE  Held(s)
<1>1. Safe(row[s], lines[s], s \in acked, s \in dismissed)
  BY DEF Ground, WordsInv, SafeLedger
<1>2. s \notin dismissed
  BY DEF Ground, PathInv
<1> QED BY <1>1, <1>2 DEF Safe, Held

(* What may yet be given, or sent again, its engine has not got.            *)
LEMMA GroundFresh ==
    ASSUME Ground, NEW s \in Sends,
           May(row, chain, pc, late, batch, carry, s) \/ row[s].st \in {"failed", "refused"}
    PROVE  Ungiven(given[s]) /\ ~Got(s)
<1>1. Ungiven(given[s])
  BY DEF Ground, PathInv, OnceInv, Unspent
<1>2. row[s].act \in Acts
  BY DEF Ground, ActsInv, ActsOK
<1> QED BY <1>1, <1>2 DEF Ungiven, Got

(* What may yet be given is a row the server moves.                         *)
LEMMA MayBorne ==
    ASSUME Ground, NEW s \in Sends, May(row, chain, pc, late, batch, carry, s)
    PROVE  row[s].st \in Borne
<1>1. CASE row[s].st \in Undecided
  BY <1>1 DEF Undecided, Borne
<1>2. CASE AtHead(chain, pc, s)
  <2>1. chain # <<>> /\ Head(chain).s = s
    BY <1>2 DEF AtHead, Ground, TypeInv, AdmissionOK
  <2> QED BY <2>1, HeadPass DEF Ground
<1>3. CASE InBatch(batch, s)
  BY <1>3 DEF InBatch, Ground, FlowInv, Flow, Starting, Borne
<1>4. CASE InTurn(carry, s)
  BY <1>4 DEF InTurn, Ground, OnceInv, Apart, Borne
<1>5. CASE InLate(late, s)
  BY <1>5 DEF InLate, Ground, OnceInv, Apart, Borne
<1> QED BY <1>1, <1>2, <1>3, <1>4, <1>5 DEF May, Free

(* The words a step gives are not of a send that then waits or is a chip,   *)
(* nor of one the server does not move.                                     *)
LEMMA GivesOut ==
    ASSUME Ground, NEW W, Orderly(W), NEW s \in Sends,
           \/ row'[s].st \in Undecided \/ row'[s].st \in {"failed", "refused"}
           \/ row[s].st \notin Borne
    PROVE  \A a \in Acts : given'[s][a] = given[s][a]
<1>1. ASSUME NEW a \in Acts, <<s, a>> \in W PROVE FALSE
  <2>1. <<s, a>>[1] = s
    OBVIOUS
  <2>2. /\ May(row, chain, pc, late, batch, carry, s)
        /\ ~May(row', chain', pc', late', batch', carry', s)
        /\ row'[s].st \notin {"failed", "refused"} \/ target = "gone"
    BY <1>1, <2>1 DEF Orderly, Given
  <2>3. row[s].st \in Borne
    BY <2>2, MayBorne
  <2>4. row'[s].st \notin Undecided
    BY <2>2 DEF May, Free
  <2> QED BY <2>2, <2>3, <2>4 DEF Ground
<1>2. given \in [Sends -> [Acts -> Nat]] /\ given' = Gave(given, W)
  BY PlacesHere DEF Ground, Orderly
<1> QED BY <1>1, <1>2, GaveCounts

(* An orderly step of the server keeps every promise.                       *)
LEMMA ServesKeeping ==
    ASSUME Ground, Ground', NEW W, Orderly(W), Serves, NEW s \in Sends
    PROVE  Keeping(s)
<1> DEFINE r == row[s]
           m == row'[s]
           Out == {"dispatched", "started", "delivered", "unconfirmed"}
           Over == {"failed", "refused"}
<1>1. r \in Row /\ m \in Row /\ Pass(s, m) /\ r.act \in Acts /\ m.act \in Acts
  BY DEF Ground, TypeInv, LedgerOK, Serves, Passes, ActsInv, ActsOK
<1>2. /\ r.st = "none" => Here(s) = "none"
      /\ r.st \in Undecided => Here(s) = "waiting"
      /\ r.st \in Out => Here(s) = "out"
      /\ r.st \in Over => Here(s) = "chip"
      /\ r.st = "cancelled" => Here(s) = "dropped"
  BY <1>1, PlaceIs DEF Here
<1>3. /\ m.st = "none" => Here(s)' = "none"
      /\ m.st \in Undecided => Here(s)' = "waiting"
      /\ m.st \in Out => Here(s)' = "out"
      /\ m.st \in Over => Here(s)' = "chip"
      /\ m.st = "cancelled" => Here(s)' = "dropped"
  BY <1>1, PlaceIs DEF Here
<1>4. r.st \notin {"none", "cancelled"} => Held(s)
  BY GroundHeld
<1>5. m.st \notin {"none", "cancelled"} => Held(s)'
  <2>1. (Ground /\ row[s].st \notin {"none", "cancelled"} => Held(s))'
    BY GroundHeld, PTL
  <2> QED BY <2>1
<1>6. (\A a \in Acts : given'[s][a] = given[s][a]) /\ m.act = r.act /\ (m.st = "none" <=> r.st = "none")
      => (Got(s)' <=> Got(s))
  BY <1>1 DEF Got
<1>7. m.st \in Undecided \/ m.st \in Over \/ r.st \notin Borne
      => \A a \in Acts : given'[s][a] = given[s][a]
  BY GivesOut
<1>8. CASE r.st \notin Borne
  <2>1. m = r /\ lines'[s] = lines[s]
    BY <1>8 DEF Serves, Passes, Pass, LinesPass
  <2>2. Got(s)' <=> Got(s)
    BY <1>6, <1>7, <1>8, <2>1
  <2>3. Held(s)' <=> Held(s)
    BY <2>1 DEF Held
  <2>4. Here(s)' = Here(s)
    BY <2>1 DEF Here
  <2> QED BY <2>2, <2>3, <2>4 DEF Keeping
<1>9. CASE r.st \in Borne
  <2>1. m.st \notin {"none", "cancelled"} /\ m.act = r.act /\ r.st \notin {"none", "cancelled"}
    BY <1>1, <1>9 DEF Pass, Borne
  <2>2. Kept(s)
    BY <1>4, <1>5, <2>1 DEF Kept
  <2>3. m.st \in Undecided \/ m.st \in Over => (Got(s)' <=> Got(s))
    BY <1>6, <1>7, <2>1
  <2>4. r.st \in Undecided => ~Got(s)
    BY GroundFresh DEF May, Free
  <2>5. r.st \in Out /\ (m.st \in Undecided \/ m.st \in Over) => ~Got(s)
    <3>1. ASSUME r.st \in Out, m.st \in Undecided \/ m.st \in Over
          PROVE  May(row, chain, pc, late, batch, carry, s)
      <4>1. InHand(row, chain, pc, late, batch, late', s)
        BY <3>1 DEF Orderly, Moved, Undecided
      <4> QED BY <4>1 DEF InHand, May
    <3> QED BY <3>1, GroundFresh
  <2>6. Got(s) /\ r.st \in Out /\ m.st \in Out => Got(s)'
    <3>1. given \in [Sends -> [Acts -> Nat]] /\ given' = Gave(given, W)
      BY PlacesHere DEF Ground, Orderly
    <3>2. given'[s][r.act] = given[s][r.act] + IF <<s, r.act>> \in W THEN 1 ELSE 0
      BY <1>1, <3>1 DEF Gave
    <3>3. given[s][r.act] \in Nat
      BY <1>1, <3>1
    <3>4. given[s][r.act] > 0 => given'[s][r.act] > 0
      BY <3>2, <3>3
    <3> QED BY <2>1, <3>4 DEF Got
  <2>7. /\ r.st \in Undecided \/ r.st \in Out
        /\ m.st \in Undecided \/ m.st \in Out \/ m.st \in Over
    BY <1>1, <1>9, <2>1 DEF Borne, Undecided, Row, Status
  <2> HIDE DEF r, m, Out, Over
  <2> QED BY <1>2, <1>3, <2>2, <2>3, <2>4, <2>5, <2>6, <2>7 DEF Keeping, Kept, Fresh
<1> QED BY <1>8, <1>9

(* A step that leaves rows, lines and what was given as they are.           *)
LEMMA SameKeeping ==
    ASSUME UNCHANGED <<row, lines, given>>, NEW s \in Sends PROVE Keeping(s)
BY DEF Keeping, Here, Got, Held

(* A row's words, act and status as they were, beside one that is changed.  *)
LEMMA BesideKeeping ==
    ASSUME UNCHANGED <<lines, given>>, NEW s \in Sends, row'[s].st = row[s].st,
           row'[s].act = row[s].act, row'[s].words = row[s].words
    PROVE  Keeping(s)
<1>1. Here(s)' = Here(s)
  BY DEF Here, PlaceOf
<1>2. (Got(s)' <=> Got(s)) /\ (Held(s)' <=> Held(s))
  BY DEF Got, Held
<1> QED BY <1>1, <1>2 DEF Keeping

(* An act of the owner on one send that the engine has not got for its row. *)
LEMMA FreshAct ==
    ASSUME Ground', UNCHANGED given, NEW s \in Sends, Ungiven(given[s])
    PROVE  ~Got(s)'
<1>1. row'[s].act \in Acts
  BY DEF Ground, ActsInv, ActsOK
<1> QED BY <1>1 DEF Got, Ungiven

(* A send accepted, or answered as a Stop, is one the engine has not got.   *)
LEMMA FreshActing ==
    ASSUME Ground, Ground', NEW p \in net, Accept(p) \/ AcceptTypedStop(p), NEW s \in Sends
    PROVE  Keeping(s) \/ Acting(s)
<1>1. /\ p.s \in Sends /\ row \in [Sends -> Row] /\ row' \in [Sends -> Row]
      /\ row[p.s].st \in {"none", "failed", "refused"}
      /\ UNCHANGED <<lines, given>>
  BY DEF Accept, AcceptTypedStop, Accepts, Readmits, Ground, TypeInv, RestOK, Request, LedgerOK
<1>2. Here(p.s) \in {"none", "chip"}
  BY <1>1, PlaceIs DEF Here
<1>3. Ungiven(given[p.s])
  <2>1. CASE row[p.s].st = "none"
    BY <1>1, <2>1 DEF Ground, OnceInv, Asks, PathInv
  <2>2. CASE row[p.s].st \in {"failed", "refused"}
    BY <1>1, <2>2, GroundFresh
  <2> QED BY <1>1, <2>1, <2>2
<1>4. ~Got(p.s)'
  BY <1>1, <1>3, FreshAct
<1>5. CASE Accept(p)
  <2>1. PICK q \in Seqs : row' = [row EXCEPT ![p.s] = NewRow(p, q)]
    BY <1>5 DEF Accept, SetRow
  <2>2. NewRow(p, q).st = "sending" /\ NewRow(p, q).words
    BY DEF NewRow, NoRow
  <2> DEFINE n == NewRow(p, q)
  <2> HIDE DEF n
  <2>3. row'[p.s] = n /\ n.st = "sending" /\ n.words /\ \A t \in Sends : t # p.s => row'[t] = row[t]
    BY <1>1, <2>1, <2>2 DEF n
  <2>4. Acting(p.s)
    <3>1. Held(p.s)'
      BY <2>3 DEF Held
    <3>2. Here(p.s)' = "waiting"
      BY <1>1, <2>3, PlaceIs DEF Here, Undecided
    <3> QED BY <1>2, <1>4, <3>1, <3>2 DEF Acting
  <2>5. s # p.s => Keeping(s)
    BY <1>1, <2>3, BesideKeeping
  <2> QED BY <2>4, <2>5
<1>6. CASE AcceptTypedStop(p)
  <2>1. PICK q \in Seqs :
          row' = StopMarked([row EXCEPT ![p.s] = TypedStopRow(p, q)], tokens.stop + 1)
    BY <1>6 DEF AcceptTypedStop
  <2>2. TypedStopRow(p, q).st = "cancelled"
    BY DEF TypedStopRow, NewRow, NoRow
  <2> DEFINE n == TypedStopRow(p, q)
             L == [row EXCEPT ![p.s] = n]
  <2>3. row' = StopMarked(L, tokens.stop + 1) /\ n.st = "cancelled"
    BY <2>1, <2>2
  <2> HIDE DEF n
  <2>4. L[p.s] = n /\ \A t \in Sends : t # p.s => L[t] = row[t]
    BY <1>1
  <2> HIDE DEF L
  <2>5. \A t \in Sends : L[t].st \notin Undecided => row'[t] = L[t]
    BY <2>3 DEF StopMarked
  <2>6. Acting(p.s)
    <3>1. row'[p.s].st = "cancelled"
      BY <1>1, <2>3, <2>4, <2>5 DEF Undecided
    <3>2. Here(p.s)' = "dropped"
      BY <1>1, <3>1, PlaceIs DEF Here
    <3> QED BY <1>2, <1>4, <3>2 DEF Acting
  <2>7. ASSUME s # p.s PROVE Keeping(s)
    <3> DEFINE m == [row[s] EXCEPT !.stopped = TRUE, !.tok = tokens.stop + 1]
    <3>1. L[s] = row[s]
      BY <2>4, <2>7
    <3>2. row'[s] = L[s] \/ row'[s] = m
      BY <2>3, <3>1 DEF StopMarked
    <3>3. m.st = row[s].st /\ m.act = row[s].act /\ m.words = row[s].words
      BY <1>1 DEF Row
    <3> HIDE DEF m
    <3>4. row'[s].st = row[s].st /\ row'[s].act = row[s].act /\ row'[s].words = row[s].words
      BY <3>1, <3>2, <3>3
    <3> QED BY <1>1, <3>4, BesideKeeping
  <2> QED BY <2>6, <2>7
<1> QED BY <1>5, <1>6

(* A send dropped, or a finished one forgotten.                             *)
LEMMA EndActing ==
    ASSUME Ground, Ground', NEW t \in Sends, Cancel(t) \/ Prune(t), NEW s \in Sends
    PROVE  Keeping(s) \/ Acting(s)
<1>1. /\ row \in [Sends -> Row] /\ row' \in [Sends -> Row]
      /\ UNCHANGED <<lines, given>>
  BY DEF Cancel, Prune, historyVars, Ground, TypeInv, LedgerOK
<1>2. CASE Cancel(t)
  <2>1. row' = [row EXCEPT ![t] = Settled(row[t], "cancelled", FALSE)] /\ Cancellable(row[t])
    BY <1>2 DEF Cancel, SetRow
  <2>2. Settled(row[t], "cancelled", FALSE).st = "cancelled"
    BY <1>1, SettledAct DEF Status
  <2>3. row'[t].st = "cancelled" /\ (s # t => row'[s] = row[s])
    BY <1>1, <2>1, <2>2
  <2>4. row[t].st \in Undecided \/ row[t].st \in {"failed", "refused"}
    BY <2>1 DEF Cancellable, Chip, Undecided
  <2>5. Ungiven(given[t]) /\ ~Got(t)
    BY <2>4, GroundFresh DEF May, Free
  <2>6. ~Got(t)'
    BY <1>1, <2>5, FreshAct
  <2>7. Here(t) \in {"waiting", "chip"}
    BY <1>1, <2>4, PlaceIs DEF Here
  <2>8. Here(t)' = "dropped"
    BY <1>1, <2>3, PlaceIs DEF Here
  <2>9. Acting(t)
    BY <2>5, <2>6, <2>7, <2>8 DEF Acting, Fresh
  <2>10. s # t => Keeping(s)
    BY <1>1, <2>3, BesideKeeping
  <2> QED BY <2>9, <2>10
<1>3. CASE Prune(t)
  <2>1. row' = [row EXCEPT ![t] = NoRow] /\ Prunable(row[t])
    BY <1>3 DEF Prune, SetRow
  <2>2. row'[t] = NoRow /\ (s # t => row'[s] = row[s])
    BY <1>1, <2>1
  <2>3. NoRow.st = "none" /\ ~NoRow.words
    BY DEF NoRow
  <2>4. ~row[t].words /\ row[t].st \in {"started", "delivered", "cancelled", "unconfirmed", "failed"}
    BY <2>1 DEF Prunable
  <2>5. Held(t)' <=> Held(t)
    BY <1>1, <2>2, <2>3, <2>4 DEF Held
  <2>6. Here(t) \in {"out", "chip", "dropped"}
    BY <1>1, <2>4, PlaceIs DEF Here
  <2>7. Here(t)' = "none"
    BY <1>1, <2>2, <2>3, PlaceIs DEF Here
  <2>8. Acting(t)
    BY <2>5, <2>6, <2>7 DEF Acting
  <2>9. s # t => Keeping(s)
    BY <1>1, <2>2, BesideKeeping
  <2> QED BY <2>8, <2>9
<1> QED BY <1>2, <1>3
-----------------------------------------------------------------------------
(* Every step is an orderly one, or leaves rows and words as they are, or   *)
(* accepts a send, or is a restore.                                         *)
LEMMA StepsOrderly ==
    ASSUME MaxFail <= 1, TypeInv, FlowInv, OnceInv, Next
    PROVE  \/ \E W : Orderly(W)
           \/ UNCHANGED <<row, lines, given>>
           \/ \E p \in net : Accept(p) \/ AcceptTypedStop(p)
           \/ Restore
<1>1. CASE Client
  <2>1. (\E s \in Sends : FirstSend(s) \/ SendAgain(s)) => UNCHANGED <<row, lines, given>>
    BY DEF FirstSend, SendAgain, Press, ledgerVars, historyVars
  <2>2. StopPressed \/ (\E s \in Sends : Cancel(s)) \/ (\E p \in net : AcceptAgain(p))
        => Orderly({})
    BY OwnerActsOnce
  <2>3. \/ \E s \in Sends : FirstSend(s) \/ SendAgain(s)
        \/ \E p \in net : Accept(p) \/ AcceptTypedStop(p)
        \/ StopPressed \/ (\E s \in Sends : Cancel(s)) \/ (\E p \in net : AcceptAgain(p))
    BY <1>1, Zenon DEF Client
  <2> QED BY <2>1, <2>2, <2>3
<1>2. CASE Admission
  BY <1>2, DecideOnce, SteerAnsweredOnce, RunOnce DEF Admission
<1>3. CASE Queue
  BY <1>3, QueueStepsOnce, LateAnswerOnce DEF Queue
<1>4. CASE World
  <2>1. CASE target' = target
    BY <1>4, <2>1, WorldOnce
  <2>2. CASE target' # target
    <3>1. TargetMoves
      BY <1>4, <2>2 DEF World, OtherTurnStarts, EngineGetsTurn, TurnCompleted, TurnReleased,
         RoomTurnStarts, RoomTurnEnds
    <3> QED BY <3>1 DEF TargetMoves, ledgerVars
  <2> QED BY <2>1, <2>2
<1>5. CASE Lifecycle
  <2>1. Crash \/ Recover \/ Ready \/ (\E s \in Sends : CompleteOne(s) \/ Prune(s))
        => \E W : Orderly(W)
    BY CrashOnce, StartupOnce
  <2>2. TakeBackup => UNCHANGED <<row, lines, given>>
    BY DEF TakeBackup, ledgerVars, historyVars
  <2> QED BY <1>5, <2>1, <2>2 DEF Lifecycle
<1> QED BY <1>1, <1>2, <1>3, <1>4, <1>5 DEF Next

(* While the thread is there, every send keeps or is acted on in every step.*)
LEMMA StepKeeps ==
    ASSUME MaxFail <= 1, Ground, Ground', Next, NEW s \in Sends
    PROVE  Keeping(s) \/ Acting(s)
<1>1. TypeInv /\ FlowInv /\ OnceInv /\ PathInv
  BY DEF Ground
<1>2. ~Restore
  BY <1>1 DEF PathInv, Restore
<1>3. CASE \E p \in net : Accept(p) \/ AcceptTypedStop(p)
  BY <1>3, FreshActing
<1>4. CASE \E t \in Sends : Cancel(t) \/ Prune(t)
  BY <1>4, EndActing
<1>5. CASE UNCHANGED <<row, lines, given>>
  BY <1>5, SameKeeping
<1>6. CASE Serves /\ \E W : Orderly(W)
  BY <1>6, ServesKeeping
<1> QED BY <1>1, <1>2, <1>3, <1>4, <1>5, <1>6, StepsServe, StepsOrderly

(* The start of the pipeline is the start of the promise.                   *)
LEMMA PromiseInit == Init => Promise!Init
<1> SUFFICES ASSUME Init PROVE Promise!Init
  OBVIOUS
<1>1. NoRow.st = "none" /\ ~NoRow.words
  BY DEF NoRow
<1>4. PlaceOf(NoRow) = "none"
  <2>1. NoRow \in Row
    BY DEF NoRow, Row, Status
  <2> QED BY <1>1, <2>1, PlaceIs
<1>2. target = "here" /\ \A s \in Sends : row[s] = NoRow /\ lines[s] = 0
  BY DEF Init
<1>3. ~(0 > 0)
  OBVIOUS
<1> QED BY <1>1, <1>2, <1>3, <1>4 DEF Promise!Init

(* Every step of the pipeline is a step of the promise, or none.            *)
LEMMA PromiseStep ==
    ASSUME MaxFail <= 1, [Next]_vars,
           TypeInv /\ WordsInv /\ FlowInv /\ OnceInv /\ ActsInv /\ PathInv,
           (TypeInv /\ WordsInv /\ FlowInv /\ OnceInv /\ ActsInv /\ PathInv)'
    PROVE  [Promise!Next]_(Promise!promised)
<1>1. CASE UNCHANGED vars
  BY <1>1 DEF vars, Promise!promised
<1>2. CASE Next /\ target' # "gone"
  <2>1. target # "gone"
    BY <1>2, GoneStays
  <2>2. Ground /\ Ground'
    BY <1>2, <2>1 DEF Ground
  <2>3. \A s \in Sends : Keeping(s) \/ Acting(s)
    BY <1>2, <2>2, StepKeeps
  <2>4. \A s \in Sends : Promise!Lives(s) \/ Promise!Rests(s)
    BY <2>3, Maps
  <2> QED BY <1>2, <2>1, <2>4 DEF Promise!Next
<1>3. CASE target' = "gone"
  BY <1>3 DEF Promise!Next
<1> QED BY <1>1, <1>2, <1>3

(* The pipeline implements SendPromise between two restores, for every set  *)
(* of sends and every bound, but that no more than one write fails: however *)
(* the queue, the late answers, the retries and a crash come together, a    *)
(* send waits, is out with the engine, comes back only while the engine has *)
(* not got it, and is given once for each act (acceptBotSend,               *)
(* admitDirectSend, drainSteeredMessages, reconcileLateSteer, recover).     *)
THEOREM PromiseKept == ASSUME MaxFail <= 1, MaxRestore = 0 PROVE Spec => KeepsPromise
<1>1. Init => ActsInv /\ PathInv
  <2>1. Init => ActsInv
    BY BoundsAssumption DEF Init, ActsInv, ActsOK, Acts, NoRow, NoBackup
  <2>2. Init => PathInv
    BY DEF Init, PathInv
  <2> QED BY <2>1, <2>2
<1>2. TypeInv /\ FlowInv /\ ActsInv /\ [Next]_vars => ActsInv'
  BY ActsStep
<1>3. TypeInv /\ FlowInv /\ OnceInv /\ PathInv /\ [Next]_vars => PathInv'
  BY PathStep
<1>4. Spec => [](TypeInv /\ WordsInv /\ FlowInv /\ OnceInv)
  BY OnceHolds
<1>5. /\ TypeInv /\ WordsInv /\ FlowInv /\ OnceInv /\ ActsInv /\ PathInv
      /\ (TypeInv /\ WordsInv /\ FlowInv /\ OnceInv /\ ActsInv /\ PathInv)'
      /\ [Next]_vars
      => [Promise!Next]_(Promise!promised)
  BY PromiseStep
<1>6. Init => Promise!Init
  BY PromiseInit
<1> QED BY <1>1, <1>2, <1>3, <1>4, <1>5, <1>6, PTL DEF Spec, KeepsPromise, Promise!Spec
=============================================================================
