--------------------------- MODULE OwnerSendsProofs ---------------------------
(***************************************************************************)
(* Theorems about OwnerSends, for every set of sends and every bound.      *)
(***************************************************************************)
EXTENDS OwnerSends, FiniteSetTheorems, TLAPS

(* The variables a drain writes, and the other ones.                        *)
LedgerOK ==
    /\ row \in [Sends -> Row] /\ lines \in [Sends -> Nat]
    /\ lateOpen \subseteq Nat
    /\ batch \subseteq Job /\ watch \in BOOLEAN
    /\ spent \in [crash : Nat, fail : Nat, other : Nat, restore : Nat]

Desks == [batch : SUBSET Job, retry : {"none", "wait", "open"}, watch : BOOLEAN]

(* What one method makes of a row is a row.                                 *)
LEMMA RowOps ==
    ASSUME NEW r \in Row, NEW st \in Status, NEW withLine \in BOOLEAN
    PROVE  /\ Marked(r) \in Row /\ Queued(r) \in Row /\ QueuedFromLine(r) \in Row
           /\ RequeuedStart(r) \in Row /\ Settled(r, st, withLine) \in Row
           /\ Refused(r) \in Row /\ Scrubbed(r) \in Row
           /\ Neutral(r) \in Row
<1>1. /\ Marked(r) \in Row /\ Queued(r) \in Row /\ QueuedFromLine(r) \in Row
      /\ RequeuedStart(r) \in Row
  BY DEF Row, Status, Marked, Queued, QueuedFromLine, RequeuedStart
<1>2. Settled(r, st, withLine) \in Row
  <2> DEFINE hold == \/ st \in {"refused", "unconfirmed"}
                     \/ st = "failed" /\ ~withLine
             line == r.line \/ withLine
             disp == r.disp /\ st # "refused"
             words == r.words /\ hold
  <2>1. line \in BOOLEAN /\ disp \in BOOLEAN /\ words \in BOOLEAN
    OBVIOUS
  <2>2. Settled(r, st, withLine) = [r EXCEPT !.st = st, !.line = line, !.disp = disp, !.words = words]
    BY Zenon DEF Settled
  <2> HIDE DEF line, disp, words
  <2> QED BY <2>1, <2>2 DEF Row
<1>3. Refused(r) \in Row
  BY DEF Row, Status, Refused, Settled
<1>4. Scrubbed(r) \in Row /\ Neutral(r) \in Row
  BY ZenonT(40) DEF Row, Status, Scrubbed, Neutral
<1> QED BY <1>1, <1>2, <1>3, <1>4

(* A new row is a row.                                                      *)
LEMMA NewRows ==
    ASSUME NEW p \in Request, NEW q \in Nat
    PROVE  NoRow \in Row /\ NewRow(p, q) \in Row /\ TypedStopRow(p, q) \in Row
BY DEF Row, Status, Request, NoRow, NewRow, TypedStopRow

(* What one method makes of the whole ledger is a ledger.                   *)
LEMMA LedgerOps ==
    ASSUME NEW L \in [Sends -> Row], NEW n \in Nat, NEW open
    PROVE  /\ StopMarked(L, n) \in [Sends -> Row]
           /\ Recovered(L) \in [Sends -> Row]
           /\ Neutralized(L, n) \in [Sends -> Row]
           /\ LateReleased(L, open) \in [Sends -> Row]
<1>1. StopMarked(L, n) \in [Sends -> Row]
  BY ZenonT(40) DEF StopMarked, Row, Status
<1>2. Recovered(L) \in [Sends -> Row]
  BY ZenonT(40) DEF Recovered, Row, Status
<1>3. Neutralized(L, n) \in [Sends -> Row]
  <2>1. \A s \in Sends : Neutral(L[s]) \in Row
    BY RowOps DEF Status
  <2>2. \A r \in Row : [r EXCEPT !.gen = n] \in Row
    BY DEF Row
  <2> QED BY <2>1, <2>2 DEF Neutralized
<1>4. LateReleased(L, open) \in [Sends -> Row]
  BY RowOps DEF LateReleased, Status
<1> QED BY <1>1, <1>2, <1>3, <1>4

(* The number of sends with some property is a number.                      *)
LEMMA Counted == \A S \in SUBSET Sends : Cardinality(S) \in Nat
BY SendsAssumption, FS_CardinalityType, FS_Subset

(* A bound is used up by numbers.                                           *)
LEMMA SpendType ==
    ASSUME LedgerOK, NEW what \in {"crash", "fail", "other", "restore"}, NEW n \in Nat,
           NEW bound, Spend(what, n, bound)
    PROVE  spent' \in [crash : Nat, fail : Nat, other : Nat, restore : Nat]
BY DEF LedgerOK, Spend

(* A failing database write spends its bound only.                          *)
LEMMA FailsType ==
    ASSUME LedgerOK, NEW n \in Nat, Fails(n)
    PROVE  spent' \in [crash : Nat, fail : Nat, other : Nat, restore : Nat]
BY SpendType DEF Fails

(* A drain that starts rows leaves rows, lines and a batch of jobs.         *)
LEMMA DrainStartsType ==
    ASSUME LedgerOK, NEW L \in [Sends -> Row], NEW d \in Desks, DrainStarts(L, d)
    PROVE  LedgerOK'
<1> DEFINE D == Drainable(L, {})
<1>1. PICK passed \in SUBSET (D \cap Via) :
        LET B == DrainBatch(L, D \ passed)
        IN  \E fate \in [B -> {"ok", "refused", "stuck"}] :
              LET failed == {s \in B : fate[s] # "ok"}
                  runs == {s \in B : fate[s] = "ok" \/ L[s].ex}
                  twice == {s \in B : fate[s] = "stuck" /\ ~L[s].ex}
              IN  /\ Fails(Cardinality(failed) + Cardinality(twice) + Cardinality(passed))
                  /\ row' = [s \in Sends |->
                               IF s \in passed THEN Refused(Marked(L[s]))
                               ELSE IF s \in B THEN DrainedRow(L[s], fate[s]) ELSE L[s]]
                  /\ lines' = [s \in Sends |-> lines[s] +
                                 IF s \in runs /\ ~L[s].ex THEN 1 ELSE 0]
                  /\ batch' = {[s |-> s, q |-> L[s].seq, a |-> L[s].act] : s \in runs}
  BY Zenon DEF DrainStarts
<1> DEFINE B == DrainBatch(L, D \ passed)
           failed(f) == {s \in B : f[s] # "ok"}
           runs(f) == {s \in B : f[s] = "ok" \/ L[s].ex}
           twice(f) == {s \in B : f[s] = "stuck" /\ ~L[s].ex}
<1>2. PICK fate \in [B -> {"ok", "refused", "stuck"}] :
        /\ Fails(Cardinality(failed(fate)) + Cardinality(twice(fate)) + Cardinality(passed))
        /\ row' = [s \in Sends |->
                     IF s \in passed THEN Refused(Marked(L[s]))
                     ELSE IF s \in B THEN DrainedRow(L[s], fate[s]) ELSE L[s]]
        /\ lines' = [s \in Sends |-> lines[s] +
                       IF s \in runs(fate) /\ ~L[s].ex THEN 1 ELSE 0]
        /\ batch' = {[s |-> s, q |-> L[s].seq, a |-> L[s].act] : s \in runs(fate)}
  BY <1>1, Zenon
<1>3. B \subseteq Sends /\ D \subseteq Sends
  BY DEF DrainBatch, Drainable
<1>4. row' \in [Sends -> Row]
  <2>1. \A r \in Row : /\ Refused(Marked(r)) \in Row /\ Marked(r) \in Row
                       /\ Settled(Marked(r), "started", TRUE) \in Row
    BY RowOps DEF Status
  <2>2. \A s \in B : DrainedRow(L[s], fate[s]) \in Row
    BY <1>3, <2>1 DEF DrainedRow
  <2> HIDE DEF B
  <2> QED BY <1>2, <2>1, <2>2
<1>5. lines' \in [Sends -> Nat]
  <2> HIDE DEF runs
  <2> QED BY <1>2 DEF LedgerOK
<1>6. batch' \subseteq Job
  <2>1. runs(fate) \subseteq Sends
    BY <1>3
  <2> HIDE DEF runs
  <2> QED BY <1>2, <2>1 DEF Job, Row
<1>7. spent' \in [crash : Nat, fail : Nat, other : Nat, restore : Nat]
  <2>1. /\ Cardinality(failed(fate)) \in Nat /\ Cardinality(twice(fate)) \in Nat
        /\ Cardinality(passed) \in Nat
    <3>1. failed(fate) \in SUBSET Sends /\ twice(fate) \in SUBSET Sends /\ passed \in SUBSET Sends
      BY <1>3
    <3> QED BY <3>1, Counted
  <2> HIDE DEF failed, twice
  <2> QED BY <1>2, <2>1, FailsType
<1>8. lateOpen' \subseteq Nat /\ watch' \in BOOLEAN
  BY DEF DrainStarts, Desks
<1> QED BY <1>4, <1>5, <1>6, <1>7, <1>8 DEF LedgerOK

(* Whatever a drain does, it leaves a ledger, and a desk in order.          *)
LEMMA DrainType ==
    ASSUME LedgerOK, NEW L \in [Sends -> Row], NEW open \in SUBSET Nat,
           NEW d \in Desks, Drain(L, open, d)
    PROVE  LedgerOK'
<1>1. \A e \in Desks : DrainNothing(L, open, e) => LedgerOK'
  BY DEF DrainNothing, Desks, LedgerOK
<1>2. DrainGone(L, open, d) => LedgerOK'
  <2> SUFFICES ASSUME DrainGone(L, open, d) PROVE LedgerOK'
    OBVIOUS
  <2>1. PICK kept \in SUBSET Sends :
          /\ Fails(Cardinality(kept))
          /\ row' = [s \in Sends |-> IF L[s].st = "queued" /\ s \notin kept
                                    THEN Refused(L[s]) ELSE L[s]]
    BY DEF DrainGone
  <2>2. row' \in [Sends -> Row]
    BY <2>1, RowOps DEF Status
  <2>3. spent' \in [crash : Nat, fail : Nat, other : Nat, restore : Nat]
    BY <2>1, Counted, FailsType
  <2> QED BY <2>2, <2>3 DEF DrainGone, LedgerOK, Desks
<1>3. LateReleased(L, open) \in [Sends -> Row]
  BY LedgerOps
<1>4. DrainStarts(LateReleased(L, open), d) => LedgerOK'
  BY <1>3, DrainStartsType
<1>5. DrainUnmarked(LateReleased(L, open), d) => LedgerOK'
  BY <1>3, FailsType DEF DrainUnmarked, LedgerOK, Desks
<1>6. [d EXCEPT !.watch = d.watch \/ d.retry = "none"] \in Desks
  BY DEF Desks
<1> QED BY <1>1, <1>2, <1>4, <1>5, <1>6 DEF Drain
-----------------------------------------------------------------------------
(* The invariant behind TypeOK: a send is at the head of the line whenever  *)
(* the admission awaits something.                                          *)
AdmissionOK ==
    /\ chain \in Seq(Job) /\ pc \in {"idle", "steering", "starting", "landed"}
    /\ pc # "idle" => chain # <<>>

(* What only the clients, the turn, startup and the history write.          *)
RestOK ==
    /\ backup \in Snapshot \cup {NoBackup}
    /\ late \subseteq LateCall /\ retry \in {"none", "wait", "open"}
    /\ turn \in {"idle", "setup", "running", "settling"}
    /\ carry \subseteq Sends \X Nat /\ room \in BOOLEAN
    /\ target \in {"here", "away", "gone"}
    /\ server \in {"down", "recovering", "up"} /\ todo \subseteq Sends
    /\ net \subseteq Request /\ tokens \in [press : Nat, stop : Nat, gen : Nat]
    /\ given \in [Sends -> [Acts -> Nat]]
    /\ acked \subseteq Sends /\ dismissed \subseteq Sends
    /\ forgot \subseteq Sends /\ parked \subseteq Sends
    /\ since \in [Sends -> Nat]

TypeInv == LedgerOK /\ AdmissionOK /\ RestOK

(* The invariant's parts make up the type.                                  *)
LEMMA TypeParts == TypeInv => TypeOK
BY DEF TypeInv, TypeOK, LedgerOK, AdmissionOK, RestOK

(* The initial state is typed.                                              *)
LEMMA TypeInit == Init => TypeInv
<1> SUFFICES ASSUME Init PROVE TypeInv
  OBVIOUS
<1>1. NoRow \in Row
  BY DEF NoRow, Row, Status
<1>2. LedgerOK
  BY <1>1 DEF Init, LedgerOK
<1>3. AdmissionOK
  BY DEF Init, AdmissionOK
<1>4. RestOK
  BY DEF Init, RestOK
<1> QED BY <1>2, <1>3, <1>4 DEF TypeInv

(* The head of the line is a job, and what is behind it still a line.       *)
LEMMA HeadJob ==
    ASSUME AdmissionOK, chain # <<>>
    PROVE  /\ Head(chain) \in Job /\ Head(chain).s \in Sends
           /\ Head(chain).q \in Nat /\ Head(chain).a \in Nat
           /\ Tail(chain) \in Seq(Job)
<1>1. Head(chain) \in Job /\ Tail(chain) \in Seq(Job)
  BY DEF AdmissionOK
<1> QED BY <1>1 DEF Job

(* Counting what the engine got keeps the counts numbers.                   *)
LEMMA GaveType ==
    ASSUME NEW g \in [Sends -> [Acts -> Nat]], NEW words
    PROVE  Gave(g, words) \in [Sends -> [Acts -> Nat]]
BY DEF Gave

(* What the drain reads of its own maps (starting, retries, watches).       *)
LEMMA DeskType == LedgerOK /\ RestOK => Desk \in Desks
BY DEF LedgerOK, RestOK, Desk, Desks

(* One row replaced by another.                                             *)
LEMMA SetRowType ==
    ASSUME LedgerOK, NEW s \in Sends, NEW r \in Row, SetRow(s, r)
    PROVE  row' \in [Sends -> Row]
BY DEF LedgerOK, SetRow

(* The catch block.                                                         *)
LEMMA CaughtType ==
    ASSUME LedgerOK, NEW j \in Job, NEW n \in Nat, Caught(j, n)
    PROVE  LedgerOK'
<1>1. j.s \in Sends /\ row[j.s] \in Row
  BY DEF Job, LedgerOK
<1>2. CaughtRow(j) \in Row
  BY <1>1, RowOps DEF CaughtRow, Status
<1>3. row' \in [Sends -> Row]
  BY <1>1, <1>2, SetRowType DEF Caught, LedgerOK
<1>4. spent' \in [crash : Nat, fail : Nat, other : Nat, restore : Nat]
  BY FailsType, n + 1 \in Nat DEF Caught
<1> QED BY <1>3, <1>4 DEF Caught, LedgerOK, NoDrain

(* queueIt.                                                                 *)
LEMMA QueueItType ==
    ASSUME LedgerOK, RestOK, NEW j \in Job, NEW drains, QueueIt(j, drains)
    PROVE  LedgerOK'
<1> DEFINE L == [row EXCEPT ![j.s] = Queued(@)]
           open == lateOpen \ {j.q}
<1>1. j.s \in Sends /\ row[j.s] \in Row
  BY DEF Job, LedgerOK
<1>2. L \in [Sends -> Row]
  BY <1>1, RowOps DEF LedgerOK, Status
<1>3. open \in SUBSET Nat
  BY DEF LedgerOK
<1>4. Desk \in Desks
  BY DeskType
<1>5. Drain(L, open, Desk) \/ DrainNothing(L, open, Desk)
  BY DEF QueueIt
<1> HIDE DEF L, open
<1>6. DrainNothing(L, open, Desk) => LedgerOK'
  BY <1>2, <1>3, <1>4 DEF DrainNothing, LedgerOK, Desks
<1> QED BY <1>2, <1>3, <1>4, <1>5, <1>6, DrainType

(* A marker is put up; the words were not taken; the awaited answer.        *)
LEMMA MarkThenType ==
    ASSUME LedgerOK, NEW j \in Job, NEW next, MarkThen(j, next)
    PROVE  LedgerOK'
<1>1. j.s \in Sends /\ row[j.s] \in Row
  BY DEF Job, LedgerOK
<1>2. row' \in [Sends -> Row]
  BY <1>1, RowOps, SetRowType DEF MarkThen, Status
<1> QED BY <1>2 DEF MarkThen, NoDrain, LedgerOK

(* The engine refused the steer: the send runs, waits or is caught.         *)
LEMMA NotSteeredType ==
    ASSUME LedgerOK, RestOK, NEW j \in Job, NotSteered(j)
    PROVE  LedgerOK'
BY CaughtType, QueueItType, MarkThenType DEF NotSteered

(* The outcome of a steer is written, or its writes fail.                   *)
LEMMA SteerRecordedType ==
    ASSUME LedgerOK, NEW j \in Job, NEW st \in Status, SteerRecorded(j, st)
    PROVE  /\ row' \in [Sends -> Row] /\ lines' \in [Sends -> Nat]
           /\ spent' \in [crash : Nat, fail : Nat, other : Nat, restore : Nat]
<1>1. j.s \in Sends /\ row[j.s] \in Row
  BY DEF Job, LedgerOK
<1>2. CaughtRow(j) \in Row /\ Settled(row[j.s], st, TRUE) \in Row
      /\ Settled(row[j.s], "unconfirmed", FALSE) \in Row
  BY <1>1, RowOps DEF CaughtRow, Status
<1>3. row' \in [Sends -> Row]
  BY <1>1, <1>2, SetRowType DEF SteerRecorded, LedgerOK
<1>4. lines' \in [Sends -> Nat]
  <2>1. lines' = [lines EXCEPT ![j.s] = @ + 1] \/ lines' = lines
    BY Zenon DEF SteerRecorded
  <2> QED BY <1>1, <2>1 DEF LedgerOK
<1>5. spent' \in [crash : Nat, fail : Nat, other : Nat, restore : Nat]
  <2> DEFINE lost == IF target = "gone" THEN 0 ELSE 1
  <2>1. lost \in Nat /\ lost + 1 \in Nat /\ lost + 2 \in Nat
    OBVIOUS
  <2>2. Fails(0) \/ Fails(lost) \/ Fails(lost + 1) \/ Fails(lost + 2)
    BY DEF SteerRecorded
  <2> HIDE DEF lost
  <2> QED BY <2>1, <2>2, FailsType
<1> QED BY <1>3, <1>4, <1>5

(* Every way out of the admission leaves the line a line.                   *)
LEMMA AdmissionType ==
    ASSUME AdmissionOK, chain # <<>>,
           Leave \/ \E next \in {"steering", "starting", "landed"} : Stay(next)
    PROVE  AdmissionOK'
BY HeadJob DEF Leave, Stay, AdmissionOK

(* Decide keeps the types.                                                  *)
LEMMA DecideType == TypeInv /\ Decide => TypeInv'
<1> SUFFICES ASSUME TypeInv, Decide PROVE TypeInv'
  OBVIOUS
<1> DEFINE j == Head(chain)
<1>1. j \in Job /\ chain # <<>>
  BY HeadJob DEF Decide, TypeInv
<1> HIDE DEF j
<1>2. \/ Caught(j, 0) \/ Caught(j, 1) \/ QueueIt(j, TRUE) \/ QueueIt(j, FALSE)
      \/ MarkThen(j, "steering") \/ MarkThen(j, "starting") \/ NotSteered(j)
  BY Zenon DEF Decide, j
<1>3. LedgerOK'
  BY <1>1, <1>2, CaughtType, QueueItType, MarkThenType, NotSteeredType DEF TypeInv
<1>4. Leave \/ Stay("steering") \/ Stay("starting")
  BY <1>2 DEF NotSteered, Caught, QueueIt, MarkThen
<1>5. AdmissionOK'
  BY <1>1, <1>4, AdmissionType DEF TypeInv
<1>6. UNCHANGED <<late, retry, turnVars, given>>
  BY <1>2 DEF NotSteered, Caught, QueueIt, MarkThen
<1>7. RestOK'
  BY <1>6 DEF Decide, TypeInv, RestOK, turnVars, bootVars, clientVars
<1> QED BY <1>3, <1>5, <1>7 DEF TypeInv

(* SteerAnswered keeps the types.                                           *)
LEMMA SteerAnsweredType == TypeInv /\ SteerAnswered => TypeInv'
<1> SUFFICES ASSUME TypeInv, SteerAnswered PROVE TypeInv'
  OBVIOUS
<1> DEFINE j == Head(chain)
<1>1. j \in Job /\ chain # <<>>
  BY HeadJob DEF SteerAnswered, TypeInv, AdmissionOK
<1> HIDE DEF j
<1>2. Taken(j) \/ Uncertain(j) \/ NotSteered(j) \/ Caught(j, 1)
  BY Zenon DEF SteerAnswered, j
<1>3. LedgerOK'
  <2>1. ASSUME Taken(j) PROVE LedgerOK'
    <3>1. SteerRecorded(j, "delivered") /\ "delivered" \in Status
      BY <2>1 DEF Taken, Status
    <3> QED BY <1>1, <2>1, <3>1, SteerRecordedType DEF Taken, NoDrain, LedgerOK, TypeInv
  <2>2. ASSUME Uncertain(j) PROVE LedgerOK'
    <3>1. SteerRecorded(j, "unconfirmed") /\ "unconfirmed" \in Status
      BY <2>2 DEF Uncertain, Status
    <3>2. lateOpen' \subseteq Nat
      BY <1>1, <2>2 DEF Uncertain, LedgerOK, TypeInv, Job
    <3> QED BY <1>1, <2>2, <3>1, <3>2, SteerRecordedType DEF Uncertain, NoDrain, LedgerOK, TypeInv
  <2> QED BY <1>1, <1>2, <2>1, <2>2, CaughtType, NotSteeredType DEF TypeInv
<1>4. Leave \/ Stay("starting")
  BY <1>2 DEF Taken, Uncertain, NotSteered, Caught, QueueIt, MarkThen
<1>5. AdmissionOK'
  BY <1>1, <1>4, AdmissionType DEF TypeInv
<1>6. UNCHANGED <<retry, turnVars>>
  BY <1>2 DEF Taken, Uncertain, NotSteered, Caught, QueueIt, MarkThen
<1>7. late' \subseteq LateCall /\ given' \in [Sends -> [Acts -> Nat]]
  <2>1. late \subseteq LateCall /\ given \in [Sends -> [Acts -> Nat]]
    BY DEF TypeInv, RestOK
  <2>2. CASE Taken(j)
    BY <2>1, <2>2, GaveType DEF Taken
  <2>3. CASE Uncertain(j)
    <3>1. [s |-> j.s, q |-> j.q, a |-> j.a, line |-> lines' # lines] \in LateCall
      BY <1>1 DEF Job, LateCall
    <3> QED BY <2>1, <2>3, <3>1 DEF Uncertain
  <2>4. CASE NotSteered(j) \/ Caught(j, 1)
    BY <2>1, <2>4 DEF NotSteered, Caught, QueueIt, MarkThen
  <2> QED BY <1>2, <2>2, <2>3, <2>4
<1>8. RestOK'
  BY <1>6, <1>7 DEF SteerAnswered, TypeInv, RestOK, turnVars, bootVars, clientVars
<1> QED BY <1>3, <1>5, <1>8 DEF TypeInv

(* The rest of a start keeps the types.                                     *)
LEMMA RunType == TypeInv /\ (RunRefused \/ RunAdmitted \/ RunRecorded) => TypeInv'
<1> SUFFICES ASSUME TypeInv, RunRefused \/ RunAdmitted \/ RunRecorded PROVE TypeInv'
  OBVIOUS
<1> DEFINE j == Head(chain)
<1>1. j \in Job /\ j.s \in Sends /\ j.a \in Nat /\ chain # <<>> /\ row[j.s] \in Row
  BY HeadJob DEF RunRefused, RunAdmitted, RunRecorded, TypeInv, AdmissionOK, LedgerOK
<1>2. LedgerOK'
  <2>1. CASE RunRefused
    BY <1>1, <2>1, CaughtType DEF RunRefused, TypeInv
  <2>2. CASE RunAdmitted
    BY SMTT(30), <1>1, <2>2 DEF RunAdmitted, Spend, LedgerOK, TypeInv
  <2>3. CASE RunRecorded
    <3>1. Settled(row[j.s], "started", TRUE) \in Row
      BY <1>1, RowOps DEF Status
    <3>2. row' \in [Sends -> Row]
      BY <1>1, <2>3, <3>1, SetRowType DEF RunRecorded, LedgerOK, TypeInv
    <3>3. spent' \in [crash : Nat, fail : Nat, other : Nat, restore : Nat]
      BY <2>3, FailsType DEF RunRecorded, LedgerOK, TypeInv
    <3> QED BY <2>3, <3>2, <3>3 DEF RunRecorded, LedgerOK, TypeInv
  <2> QED BY <2>1, <2>2, <2>3
<1>3. Leave \/ Stay("landed")
  BY DEF RunRefused, RunAdmitted, RunRecorded, Caught
<1>4. AdmissionOK'
  BY <1>1, <1>3, AdmissionType DEF TypeInv
<1>5. turn' \in {"idle", "setup", "running", "settling"} /\ carry' \subseteq Sends \X Nat
  <2>1. carry' = carry \/ carry' = {<<j.s, j.a>>}
    BY Zenon DEF RunRefused, RunAdmitted, RunRecorded, Caught, turnVars
  <2>2. turn' = turn \/ turn' = "setup"
    BY Zenon DEF RunRefused, RunAdmitted, RunRecorded, Caught, turnVars
  <2> QED BY <1>1, <2>1, <2>2 DEF TypeInv, RestOK
<1>6. UNCHANGED <<backup, late, retry, room, target, bootVars, clientVars, historyVars>>
  BY DEF RunRefused, RunAdmitted, RunRecorded, Caught, turnVars, historyVars
<1>7. RestOK'
  BY <1>5, <1>6 DEF TypeInv, RestOK, bootVars, clientVars, historyVars
<1> QED BY <1>2, <1>4, <1>7 DEF TypeInv
-----------------------------------------------------------------------------
(* The clients' actions keep the types.                                     *)
LEMMA PressType ==
    ASSUME TypeInv, NEW p \in Request, Press(p), tokens' \in [press : Nat, stop : Nat, gen : Nat]
    PROVE  TypeInv'
<1>1. LedgerOK' /\ AdmissionOK'
  BY DEF Press, TypeInv, LedgerOK, AdmissionOK, ledgerVars, admissionVars
<1>2. net' \subseteq Request
  BY DEF Press, TypeInv, RestOK
<1>3. RestOK'
  BY <1>2 DEF Press, TypeInv, RestOK, turnVars, bootVars, historyVars
<1> QED BY <1>1, <1>3 DEF TypeInv

(* A client posts a send, for the first time or again.                      *)
LEMMA SendsType ==
    ASSUME TypeInv, NEW s \in Sends, FirstSend(s) \/ SendAgain(s)
    PROVE  TypeInv'
<1>1. CASE FirstSend(s)
  <2>1. [s |-> s, act |-> 0, resend |-> FALSE, gen |-> 0, tok |-> 0] \in Request
    BY DEF Request
  <2> QED BY <1>1, <2>1, PressType DEF FirstSend, TypeInv, RestOK
<1>2. CASE SendAgain(s)
  <2> DEFINE g == IF row[s].held THEN row[s].gen ELSE 0
             k == IF row[s].stopped THEN row[s].tok ELSE 0
  <2>1. g \in Nat /\ k \in Nat
    BY DEF TypeInv, LedgerOK, Row
  <2>2. [s |-> s, act |-> tokens.press + 1, resend |-> TRUE, gen |-> g, tok |-> k] \in Request
    BY <2>1 DEF Request, TypeInv, RestOK
  <2>3. tokens' \in [press : Nat, stop : Nat, gen : Nat]
    BY <1>2 DEF SendAgain, TypeInv, RestOK
  <2> QED BY <1>2, <2>2, <2>3, PressType DEF SendAgain
<1> QED BY <1>1, <1>2

(* The press a newly held send waits for.                                   *)
LEMMA HeldSinceType ==
    ASSUME RestOK
    PROVE  HeldSince \in [Sends -> Nat]
BY DEF RestOK, HeldSince

(* SendStore.accept of a new send writes its row and appends it.            *)
LEMMA AcceptType ==
    ASSUME TypeInv, NEW p \in net, Accept(p)
    PROVE  TypeInv'
<1>1. p \in Request /\ p.s \in Sends
  BY DEF TypeInv, RestOK, Request
<1>2. PICK q \in Seqs :
        /\ SetRow(p.s, NewRow(p, q))
        /\ chain' = Append(chain, [s |-> p.s, q |-> q, a |-> NewRow(p, q).act])
  BY DEF Accept
<1>3. q \in Nat
  BY SeqsAssumption
<1>4. NewRow(p, q) \in Row /\ NewRow(p, q).act \in Nat
  BY <1>1, <1>3, NewRows DEF Row
<1>5. row' \in [Sends -> Row]
  BY <1>1, <1>2, <1>4, SetRowType DEF TypeInv
<1>6. LedgerOK'
  BY <1>5 DEF Accept, TypeInv, LedgerOK
<1>7. [s |-> p.s, q |-> q, a |-> NewRow(p, q).act] \in Job
  BY <1>1, <1>3, <1>4 DEF Job
<1>8. AdmissionOK'
  BY <1>2, <1>7 DEF Accept, TypeInv, AdmissionOK
<1>9. /\ acked' \subseteq Sends /\ parked' \subseteq Sends
      /\ since' \in [Sends -> Nat]
  BY <1>1 DEF Accept, TypeInv, RestOK
<1>10. RestOK'
  BY <1>9 DEF Accept, TypeInv, RestOK, turnVars, bootVars, clientVars
<1> QED BY <1>6, <1>8, <1>10 DEF TypeInv

(* The same action posted again finds its row.                              *)
LEMMA AcceptAgainType ==
    ASSUME TypeInv, NEW p \in net, AcceptAgain(p)
    PROVE  TypeInv'
<1>1. p.s \in Sends
  BY DEF TypeInv, RestOK, Request
<1>2. [s |-> p.s, q |-> row[p.s].seq, a |-> row[p.s].act] \in Job
  BY <1>1 DEF TypeInv, LedgerOK, Row, Job
<1>3. AdmissionOK'
  BY <1>2 DEF AcceptAgain, TypeInv, AdmissionOK
<1>4. LedgerOK'
  BY DEF AcceptAgain, TypeInv, LedgerOK, ledgerVars
<1>5. RestOK'
  BY DEF AcceptAgain, TypeInv, RestOK, turnVars, bootVars, clientVars, historyVars
<1> QED BY <1>3, <1>4, <1>5 DEF TypeInv

(* acceptTypedStop stops the thread and records its own send.               *)
LEMMA AcceptTypedStopType ==
    ASSUME TypeInv, NEW p \in net, AcceptTypedStop(p)
    PROVE  TypeInv'
<1>1. p \in Request /\ p.s \in Sends
  BY DEF TypeInv, RestOK, Request
<1>2. PICK q \in Seqs :
        row' = StopMarked([row EXCEPT ![p.s] = TypedStopRow(p, q)], tokens.stop + 1)
  BY DEF AcceptTypedStop
<1>3. q \in Nat /\ tokens.stop + 1 \in Nat
  BY SeqsAssumption DEF TypeInv, RestOK
<1>4. [row EXCEPT ![p.s] = TypedStopRow(p, q)] \in [Sends -> Row]
  BY <1>1, <1>3, NewRows DEF TypeInv, LedgerOK
<1>5. row' \in [Sends -> Row]
  BY <1>2, <1>3, <1>4, LedgerOps
<1>6. LedgerOK' /\ AdmissionOK'
  BY <1>5 DEF AcceptTypedStop, TypeInv, LedgerOK, AdmissionOK, admissionVars
<1>7. /\ acked' \subseteq Sends /\ dismissed' \subseteq Sends
      /\ parked' \subseteq Sends
      /\ since' \in [Sends -> Nat] /\ tokens' \in [press : Nat, stop : Nat, gen : Nat]
  BY <1>1, HeldSinceType DEF AcceptTypedStop, TypeInv, RestOK
<1>8. RestOK'
  BY <1>7 DEF AcceptTypedStop, TypeInv, RestOK, turnVars, bootVars
<1> QED BY <1>6, <1>8 DEF TypeInv

(* The Stop route marks what waits.                                         *)
LEMMA StopType == TypeInv /\ StopPressed => TypeInv'
<1> SUFFICES ASSUME TypeInv, StopPressed PROVE TypeInv'
  OBVIOUS
<1>1. tokens.stop + 1 \in Nat /\ tokens' \in [press : Nat, stop : Nat, gen : Nat]
  BY DEF StopPressed, TypeInv, RestOK
<1>2. row' \in [Sends -> Row] /\ since' \in [Sends -> Nat]
  BY <1>1, LedgerOps, HeldSinceType DEF StopPressed, TypeInv, LedgerOK
<1>3. LedgerOK' /\ AdmissionOK'
  BY <1>2 DEF StopPressed, TypeInv, LedgerOK, AdmissionOK, admissionVars
<1>4. RestOK'
  BY <1>1, <1>2 DEF StopPressed, TypeInv, RestOK, turnVars, bootVars
<1> QED BY <1>3, <1>4 DEF TypeInv

(* A waiting row is cancelled.                                              *)
LEMMA CancelType ==
    ASSUME TypeInv, NEW s \in Sends, Cancel(s)
    PROVE  TypeInv'
<1>1. Settled(row[s], "cancelled", FALSE) \in Row
  BY RowOps DEF TypeInv, LedgerOK, Status
<1>2. row' \in [Sends -> Row]
  BY <1>1, SetRowType DEF Cancel, TypeInv
<1>3. LedgerOK' /\ AdmissionOK'
  BY <1>2 DEF Cancel, TypeInv, LedgerOK, AdmissionOK, admissionVars
<1>4. RestOK'
  BY DEF Cancel, TypeInv, RestOK, turnVars, bootVars, clientVars
<1> QED BY <1>3, <1>4 DEF TypeInv
-----------------------------------------------------------------------------
(* The drain's own steps, its timers and the late answers keep the types.   *)
LEMMA QueueStepsType ==
    TypeInv /\ (BatchAdmitted \/ BatchRequeued \/ BatchFailed \/ RetryTimer
                \/ WatchTimer \/ OtherDrain) => TypeInv'
<1> SUFFICES ASSUME TypeInv,
                    BatchAdmitted \/ BatchRequeued \/ BatchFailed \/ RetryTimer
                    \/ WatchTimer \/ OtherDrain
             PROVE  TypeInv'
  OBVIOUS
<1>1. /\ row \in [Sends -> Row] /\ lateOpen \in SUBSET Nat /\ Desk \in Desks
      /\ LedgerOK /\ RestOK
  BY DeskType DEF TypeInv, LedgerOK
<1>2. CASE BatchAdmitted
  <2>1. carry' \subseteq Sends \X Nat
    BY <1>2 DEF BatchAdmitted, TypeInv, LedgerOK, Job
  <2>2. LedgerOK' /\ AdmissionOK'
    BY <1>2 DEF BatchAdmitted, TypeInv, LedgerOK, AdmissionOK, ledgerVars, admissionVars
  <2>3. RestOK'
    BY <1>2, <2>1 DEF BatchAdmitted, TypeInv, RestOK, bootVars, clientVars, historyVars
  <2> QED BY <2>2, <2>3 DEF TypeInv
<1>3. CASE BatchRequeued
  <2> DEFINE mine == {b.s : b \in {b \in batch : Mine(b) /\ row[b.s].st = "started"}}
  <2>1. mine \subseteq Sends
    BY DEF TypeInv, LedgerOK, Job
  <2>2. PICK back \in SUBSET mine :
          /\ Spend("other", 1, MaxOther) \/ Fails(Cardinality(mine \ back))
          /\ row' = [s \in Sends |-> IF s \in back THEN RequeuedStart(row[s]) ELSE row[s]]
          /\ lateOpen' = lateOpen \ {row[s].seq : s \in back}
    BY <1>3, Zenon DEF BatchRequeued
  <2> HIDE DEF mine
  <2>3. row' \in [Sends -> Row]
    BY <1>1, <2>2, RowOps DEF Status
  <2>4. spent' \in [crash : Nat, fail : Nat, other : Nat, restore : Nat]
    <3>1. mine \ back \in SUBSET Sends
      BY <2>1
    <3>2. Cardinality(mine \ back) \in Nat
      BY <3>1, Counted
    <3>3. CASE Spend("other", 1, MaxOther)
      BY <3>3 DEF Spend, TypeInv, LedgerOK
    <3> QED BY <1>1, <2>2, <3>2, <3>3, FailsType
  <2>5. LedgerOK' /\ AdmissionOK'
    BY <1>3, <2>2, <2>3, <2>4 DEF BatchRequeued, TypeInv, LedgerOK, AdmissionOK, admissionVars
  <2>6. RestOK'
    BY <1>3 DEF BatchRequeued, TypeInv, RestOK, turnVars, bootVars, clientVars, historyVars
  <2> QED BY <2>5, <2>6 DEF TypeInv
<1>4. CASE BatchFailed
  <2> DEFINE d == [Desk EXCEPT !.batch = {}, !.retry = "none"]
  <2>1. d \in Desks
    BY <1>1 DEF Desks
  <2>2. DrainNothing(row, lateOpen, d) \/ Drain(row, lateOpen, d)
    BY <1>4, Zenon DEF BatchFailed
  <2> HIDE DEF d
  <2>3. LedgerOK'
    BY <1>1, <2>1, <2>2, DrainType DEF DrainNothing, LedgerOK, Desks
  <2>4. RestOK' /\ AdmissionOK'
    BY <1>4 DEF BatchFailed, TypeInv, RestOK, AdmissionOK, admissionVars, turnVars, bootVars,
       clientVars, historyVars
  <2> QED BY <2>3, <2>4 DEF TypeInv
<1>5. CASE RetryTimer
  <2>1. [Desk EXCEPT !.retry = "open"] \in Desks
    BY <1>1 DEF Desks
  <2>2. LedgerOK'
    BY <1>1, <1>5, <2>1, DrainType DEF RetryTimer
  <2>3. RestOK' /\ AdmissionOK'
    BY <1>5 DEF RetryTimer, TypeInv, RestOK, AdmissionOK, admissionVars, turnVars, bootVars,
       clientVars, historyVars
  <2> QED BY <2>2, <2>3 DEF TypeInv
<1>6. CASE WatchTimer
  <2>1. [Desk EXCEPT !.watch = FALSE] \in Desks
    BY <1>1 DEF Desks
  <2>2. LedgerOK'
    BY <1>1, <1>6, <2>1, DrainType DEF WatchTimer
  <2>3. RestOK' /\ AdmissionOK'
    BY <1>6 DEF WatchTimer, TypeInv, RestOK, AdmissionOK, admissionVars, turnVars, bootVars,
       clientVars, historyVars
  <2> QED BY <2>2, <2>3 DEF TypeInv
<1>7. CASE OtherDrain
  <2>1. LedgerOK'
    BY <1>1, <1>7, DrainType DEF OtherDrain
  <2>2. RestOK' /\ AdmissionOK'
    BY <1>7 DEF OtherDrain, TypeInv, RestOK, AdmissionOK, admissionVars, turnVars, bootVars,
       clientVars, historyVars
  <2> QED BY <2>1, <2>2 DEF TypeInv
<1> QED BY <1>2, <1>3, <1>4, <1>5, <1>6, <1>7

(* A late answer settles the row, or its write fails.                       *)
LEMMA LateSettledType ==
    ASSUME LedgerOK, NEW l \in LateCall, NEW st \in Status, LateSettled(l, st)
    PROVE  LedgerOK'
<1>1. l.s \in Sends /\ l.q \in Nat /\ row[l.s] \in Row
  BY DEF LateCall, LedgerOK
<1>2. \A L \in [Sends -> Row] : Release(L, l) \in [Sends -> Row]
  BY <1>1, RowOps DEF Release, Status
<1>3. [row EXCEPT ![l.s] = Settled(@, st, TRUE)] \in [Sends -> Row]
  BY <1>1, RowOps DEF LedgerOK
<1>4. row' \in [Sends -> Row]
  BY <1>2, <1>3 DEF LateSettled, LedgerOK
<1>5. spent' \in [crash : Nat, fail : Nat, other : Nat, restore : Nat]
  <2>1. Fails(0) \/ Fails(1)
    BY DEF LateSettled
  <2> QED BY <2>1, FailsType
<1> QED BY <1>4, <1>5 DEF LateSettled, LedgerOK

(* reconcileLateSteer, for each answer the engine may still give.           *)
LEMMA LateAnswerType ==
    ASSUME TypeInv, NEW l \in late, LateAnswer(l)
    PROVE  TypeInv'
<1>1. l \in LateCall /\ l.s \in Sends /\ row[l.s] \in Row /\ LedgerOK
  BY DEF TypeInv, RestOK, LateCall, LedgerOK
<1>2. LedgerOK'
  <2>1. CASE LateDelivered(l)
    BY <1>1, <2>1, LateSettledType DEF LateDelivered, Status
  <2>2. CASE LateRejected(l)
    <3>1. lateOpen \ {l.q} \in SUBSET Nat /\ Desk \in Desks
      BY DeskType DEF TypeInv, LedgerOK
    <3>2. Release(row, l) \in [Sends -> Row]
      BY <1>1, RowOps DEF Release, Status, LedgerOK
    <3>3. [row EXCEPT ![l.s] = QueuedFromLine(@)] \in [Sends -> Row]
      BY <1>1, RowOps DEF Status, LedgerOK
    <3>4. \/ DrainNothing(Release(row, l), lateOpen \ {l.q}, Desk)
          \/ LateSettled(l, "failed")
          \/ Drain([row EXCEPT ![l.s] = QueuedFromLine(@)], lateOpen \ {l.q}, Desk)
          \/ /\ Fails(1)
             /\ row' = Release(row, l) /\ lateOpen' = lateOpen \ {l.q}
             /\ UNCHANGED <<lines, batch, watch>>
      BY <2>2, Zenon DEF LateRejected
    <3>5. DrainNothing(Release(row, l), lateOpen \ {l.q}, Desk) => LedgerOK'
      BY <1>1, <3>1, <3>2 DEF DrainNothing, LedgerOK, Desks
    <3>6. LateSettled(l, "failed") => LedgerOK'
      BY <1>1, LateSettledType DEF Status
    <3>7. Fails(1) /\ row' = Release(row, l) /\ lateOpen' = lateOpen \ {l.q}
            /\ UNCHANGED <<lines, batch, watch>> => LedgerOK'
      BY <1>1, <3>2, FailsType DEF LedgerOK
    <3> QED BY <1>1, <3>1, <3>3, <3>4, <3>5, <3>6, <3>7, DrainType
  <2>3. CASE LateUncertain(l)
    BY <1>1, <2>3 DEF LateUncertain, LedgerOK, drainVars
  <2> QED BY <2>1, <2>2, <2>3 DEF LateAnswer
<1>3. given' \in [Sends -> [Acts -> Nat]]
  BY GaveType DEF LateAnswer, LateDelivered, LateRejected, LateUncertain, TypeInv, RestOK
<1>4. RestOK' /\ AdmissionOK'
  BY <1>3 DEF LateAnswer, TypeInv, RestOK, AdmissionOK, admissionVars, turnVars, bootVars,
     clientVars
<1> QED BY <1>2, <1>4 DEF TypeInv
-----------------------------------------------------------------------------
(* The turn's and the room's steps keep the types.                          *)
LEMMA WorldType == TypeInv /\ World => TypeInv'
<1> SUFFICES ASSUME TypeInv, World PROVE TypeInv'
  OBVIOUS
<1>1. /\ row \in [Sends -> Row] /\ lateOpen \in SUBSET Nat /\ Desk \in Desks
      /\ LedgerOK /\ RestOK
  BY DeskType DEF TypeInv, LedgerOK
<1>2. LedgerOK'
  <2>1. CASE OtherTurnStarts \/ RoomTurnStarts \/ TargetMoves
    <3>1. spent' \in [crash : Nat, fail : Nat, other : Nat, restore : Nat]
      BY <1>1, <2>1, SpendType DEF OtherTurnStarts, RoomTurnStarts, TargetMoves
    <3> QED BY <2>1, <3>1 DEF OtherTurnStarts, RoomTurnStarts, TargetMoves, TypeInv, LedgerOK,
       ledgerVars
  <2>2. CASE EngineGetsTurn
    BY <2>2 DEF EngineGetsTurn, TypeInv, LedgerOK, drainVars
  <2>3. CASE TurnCompleted \/ TurnReleased \/ RoomTurnEnds
    BY <1>1, <2>3, DrainType DEF TurnCompleted, TurnReleased, RoomTurnEnds
  <2> QED BY <2>1, <2>2, <2>3 DEF World
<1>3. TurnFrame
  BY DEF World, OtherTurnStarts, EngineGetsTurn, TurnCompleted, TurnReleased,
     RoomTurnStarts, RoomTurnEnds, TargetMoves
<1>4. /\ turn' \in {"idle", "setup", "running", "settling"} /\ carry' \subseteq Sends \X Nat
      /\ room' \in BOOLEAN /\ target' \in {"here", "away", "gone"}
      /\ given' \in [Sends -> [Acts -> Nat]]
  BY ZenonT(40), GaveType DEF World, OtherTurnStarts, EngineGetsTurn, TurnCompleted, TurnReleased,
     RoomTurnStarts, RoomTurnEnds, TargetMoves, TypeInv, RestOK
<1>5. RestOK' /\ AdmissionOK'
  BY <1>3, <1>4 DEF TurnFrame, TypeInv, RestOK, AdmissionOK, admissionVars, bootVars, clientVars
<1> QED BY <1>2, <1>5 DEF TypeInv

(* Crash, startup, pruning, backup and restore keep the types.              *)
LEMMA CompleteOneType ==
    ASSUME TypeInv, NEW s \in Sends, CompleteOne(s)
    PROVE  TypeInv'
<1>1. row[s] \in Row /\ LedgerOK
  BY DEF TypeInv, LedgerOK
<1>2. /\ Settled(row[s], "started", TRUE) \in Row /\ Scrubbed(row[s]) \in Row
      /\ Scrubbed(Settled(row[s], "unconfirmed", TRUE)) \in Row
  BY <1>1, RowOps DEF Status
<1>3. row' \in [Sends -> Row]
  BY <1>1, <1>2, SetRowType DEF CompleteOne, ledgerVars, LedgerOK
<1>4. lines' \in [Sends -> Nat]
  <2>1. lines' = lines \/ lines' = [lines EXCEPT ![s] = @ + 1]
    BY Zenon DEF CompleteOne, ledgerVars
  <2> QED BY <1>1, <2>1 DEF LedgerOK
<1>5. spent' \in [crash : Nat, fail : Nat, other : Nat, restore : Nat]
  BY <1>1, FailsType DEF CompleteOne
<1>6. LedgerOK' /\ AdmissionOK'
  BY <1>3, <1>4, <1>5 DEF CompleteOne, BootFrame, TypeInv, LedgerOK, AdmissionOK, admissionVars
<1>7. RestOK'
  BY DEF CompleteOne, BootFrame, TypeInv, RestOK, turnVars, clientVars, historyVars
<1> QED BY <1>6, <1>7 DEF TypeInv

(* Recovery, and the end of start-up.                                       *)
LEMMA StartupType == TypeInv /\ (Recover \/ Ready) => TypeInv'
<1> SUFFICES ASSUME TypeInv, Recover \/ Ready PROVE TypeInv'
  OBVIOUS
<1>1. /\ row \in [Sends -> Row] /\ lateOpen \in SUBSET Nat /\ Desk \in Desks /\ LedgerOK
  BY DeskType DEF TypeInv, LedgerOK
<1>2. LedgerOK'
  <2>1. CASE Recover
    <3>1. row' \in [Sends -> Row]
      BY <1>1, <2>1, LedgerOps DEF Recover
    <3>2. spent' \in [crash : Nat, fail : Nat, other : Nat, restore : Nat]
      BY <1>1, <2>1, FailsType DEF Recover
    <3> QED BY <2>1, <3>1, <3>2 DEF Recover, TypeInv, LedgerOK
  <2>2. CASE Ready
    BY <1>1, <2>2, DrainType DEF Ready
  <2> QED BY <2>1, <2>2
<1>3. todo' \subseteq Sends
  BY DEF Recover, Ready, Unresolved, TypeInv, RestOK
<1>4. RestOK' /\ AdmissionOK'
  BY <1>3 DEF Recover, Ready, BootFrame, TypeInv, RestOK, AdmissionOK, admissionVars,
     turnVars, clientVars, historyVars
<1> QED BY <1>2, <1>4 DEF TypeInv

(* A crash takes what was only in memory.                                   *)
LEMMA CrashType == TypeInv /\ Crash => TypeInv'
<1> SUFFICES ASSUME TypeInv, Crash PROVE TypeInv'
  OBVIOUS
<1>1. LedgerOK' /\ AdmissionOK'
  <2>1. spent' \in [crash : Nat, fail : Nat, other : Nat, restore : Nat]
    BY SpendType DEF Crash, TypeInv
  <2>2. chain' \in Seq(Job)
    BY DEF Crash
  <2> QED BY <2>1, <2>2 DEF Crash, TypeInv, LedgerOK, AdmissionOK, ledgerVars
<1>2. given' \in [Sends -> [Acts -> Nat]]
  BY GaveType DEF Crash, TypeInv, RestOK
<1>3. Waiting \subseteq Sends
  BY DEF Waiting
<1>4. RestOK'
  BY <1>2, <1>3 DEF Crash, TypeInv, RestOK, clientVars
<1> QED BY <1>1, <1>4 DEF TypeInv

(* pruneResolved drops a resolved row.                                      *)
LEMMA PruneType ==
    ASSUME TypeInv, NEW s \in Sends, Prune(s)
    PROVE  TypeInv'
<1>1. NoRow \in Row
  BY DEF NoRow, Row, Status
<1>2. row' \in [Sends -> Row]
  BY <1>1, SetRowType DEF Prune, TypeInv
<1>3. LedgerOK' /\ AdmissionOK'
  BY <1>2 DEF Prune, TypeInv, LedgerOK, AdmissionOK, admissionVars
<1>4. RestOK'
  BY DEF Prune, TypeInv, RestOK, turnVars, bootVars, historyVars
<1> QED BY <1>3, <1>4 DEF TypeInv

(* A snapshot of the database.                                              *)
LEMMA BackupType == TypeInv /\ TakeBackup => TypeInv'
<1> SUFFICES ASSUME TypeInv, TakeBackup PROVE TypeInv'
  OBVIOUS
<1>1. backup' \in Snapshot
  BY DEF TakeBackup, TypeInv, LedgerOK, RestOK, Snapshot
<1>2. LedgerOK' /\ AdmissionOK'
  BY DEF TakeBackup, TypeInv, LedgerOK, AdmissionOK, ledgerVars, admissionVars
<1>3. RestOK'
  BY <1>1 DEF TakeBackup, TypeInv, RestOK, turnVars, bootVars, clientVars, historyVars
<1> QED BY <1>2, <1>3 DEF TypeInv

(* A restore brings the snapshot back, neutralized.                         *)
LEMMA RestoreType == TypeInv /\ Restore => TypeInv'
<1> SUFFICES ASSUME TypeInv, Restore PROVE TypeInv'
  OBVIOUS
<1>1. backup \in Snapshot
  BY DEF Restore, TypeInv, RestOK
<1>2. /\ backup.row \in [Sends -> Row] /\ backup.lines \in [Sends -> Nat]
      /\ backup.acked \subseteq Sends /\ backup.dismissed \subseteq Sends
  BY <1>1 DEF Snapshot
<1>3. tokens.gen + 1 \in Nat /\ tokens' \in [press : Nat, stop : Nat, gen : Nat]
  BY DEF Restore, TypeInv, RestOK
<1>4. row' \in [Sends -> Row]
  BY <1>2, <1>3, LedgerOps DEF Restore
<1>5. LedgerOK' /\ AdmissionOK'
  <2>1. spent' \in [crash : Nat, fail : Nat, other : Nat, restore : Nat]
    BY SpendType DEF Restore, TypeInv
  <2> QED BY <1>2, <1>4, <2>1 DEF Restore, TypeInv, LedgerOK, AdmissionOK, admissionVars
<1>6. since' \in [Sends -> Nat]
  BY DEF Restore, TypeInv, RestOK
<1>7. /\ forgot' \subseteq Sends /\ parked' \subseteq Sends
      /\ backup' \in {NoBackup}
  BY <1>2 DEF Restore, TypeInv, RestOK
<1>8. RestOK'
  BY <1>2, <1>3, <1>6, <1>7 DEF Restore, TypeInv, RestOK, turnVars, bootVars
<1> QED BY <1>5, <1>8 DEF TypeInv
-----------------------------------------------------------------------------
(* The type invariant is inductive: every step of the pipeline keeps it.    *)
LEMMA TypeStep == TypeInv /\ [Next]_vars => TypeInv'
<1> SUFFICES ASSUME TypeInv, [Next]_vars PROVE TypeInv'
  OBVIOUS
<1>1. CASE Client
  BY <1>1, SendsType, CancelType, AcceptType, AcceptAgainType, AcceptTypedStopType, StopType
     DEF Client
<1>2. CASE Admission
  BY <1>2, DecideType, SteerAnsweredType, RunType DEF Admission
<1>3. CASE Queue
  BY <1>3, QueueStepsType, LateAnswerType DEF Queue
<1>4. CASE World
  BY <1>4, WorldType
<1>5. CASE Lifecycle
  BY <1>5, CrashType, StartupType, BackupType, RestoreType, CompleteOneType, PruneType
     DEF Lifecycle
<1>6. CASE UNCHANGED vars
  BY <1>6 DEF vars, TypeInv, LedgerOK, AdmissionOK, RestOK
<1> QED BY <1>1, <1>2, <1>3, <1>4, <1>5, <1>6 DEF Next

(* Types hold in every run: the ledger's rows keep to the statuses of       *)
(* send-store.ts, and no count, queue or token leaves its range.            *)
THEOREM TypesHold == Spec => []TypeOK
<1>1. Init => TypeInv
  BY TypeInit
<1>2. TypeInv /\ [Next]_vars => TypeInv'
  BY TypeStep
<1>3. TypeInv => TypeOK
  BY TypeParts
<1> QED BY <1>1, <1>2, <1>3, PTL DEF Spec
-----------------------------------------------------------------------------
(* The invariant behind WordsKept.  A row that says a line exists is right  *)
(* (n counts the lines), a row that ran has one, and the words of a row are *)
(* in it or in a line unless the owner dropped them.                        *)
Safe(r, n, isAcked, isDismissed) ==
    /\ r.line \/ r.ex => n > 0
    /\ r.st \in {"started", "delivered"} => n > 0
    /\ r.st # "none" \/ isAcked => r.words \/ n > 0 \/ isDismissed

SafeLedger(L, n) == \A s \in Sends : Safe(L[s], n[s], s \in acked, s \in dismissed)

(* The same of the snapshot a restore would bring back; what waits for an   *)
(* answer knows whether its line was written.                               *)
WordsInv ==
    /\ SafeLedger(row, lines)
    /\ backup # NoBackup =>
         \A s \in Sends : Safe(backup.row[s], backup.lines[s],
                              s \in backup.acked, s \in backup.dismissed)
    /\ \A i \in DOMAIN chain : row[chain[i].s].st # "none"
    /\ pc = "landed" => lines[Head(chain).s] > 0
    /\ \A l \in late : l.line => lines[l.s] > 0
    /\ server = "down" => chain = <<>> /\ pc = "idle" /\ late = {}

(* What a method makes of a safe row is safe: one that keeps its words, one *)
(* that needs a line, and one that may find any row.                        *)
LEMMA SafeStill ==
    ASSUME NEW r \in Row, NEW n \in Nat, NEW a, NEW d, Safe(r, n, a, d), r.st # "none"
    PROVE  /\ Safe(Marked(r), n, a, d) /\ Safe(Queued(r), n, a, d)
           /\ Safe(Refused(r), n, a, d)
           /\ Safe(Settled(r, "unconfirmed", FALSE), n, a, d)
BY DEF Row, Safe, Marked, Queued, Refused, Settled

(* With a line in the transcript every outcome is safe.                     *)
LEMMA SafeLined ==
    ASSUME NEW r, NEW n \in Nat, NEW a, NEW d, n > 0
    PROVE  /\ Safe(QueuedFromLine(r), n, a, d) /\ Safe(RequeuedStart(r), n, a, d)
           /\ Safe(Settled(r, "started", TRUE), n, a, d)
           /\ Safe(Settled(r, "delivered", TRUE), n, a, d)
           /\ Safe(Settled(r, "failed", TRUE), n, a, d)
           /\ Safe(Settled(r, "unconfirmed", TRUE), n, a, d)
           /\ Safe(Scrubbed(Settled(r, "unconfirmed", TRUE)), n, a, d)
BY DEF Safe

(* An unconfirmed row's words are dropped only when its line exists.        *)
LEMMA SafeScrubbed ==
    ASSUME NEW r \in Row, NEW n \in Nat, NEW a, NEW d, Safe(r, n, a, d)
    PROVE  Safe(Scrubbed(r), n, a, d)
BY DEF Row, Safe, Scrubbed

(* More lines do no harm.                                                   *)
LEMMA SafeMore ==
    ASSUME NEW r, NEW n \in Nat, NEW a, NEW d, Safe(r, n, a, d), NEW m \in Nat, m >= n
    PROVE  Safe(r, m, a, d)
BY DEF Safe

(* neutralizeRestoredSends keeps every row's words safe.                    *)
LEMMA SafeNeutral ==
    ASSUME NEW r \in Row, NEW n \in Nat, NEW a, NEW d, Safe(r, n, a, d)
    PROVE  Safe(Neutral(r), n, a, d)
<1>1. CASE r.st \in Undecided /\ r.words
  BY <1>1 DEF Row, Safe, Neutral
<1>2. CASE r.st \in Undecided /\ ~r.words
  BY <1>2 DEF Row, Safe, Neutral, Undecided
<1>3. CASE r.st \notin Undecided
  <2> DEFINE h == r.held \/ r.st \in {"failed", "refused"}
  <2>1. Neutral(r) = [r EXCEPT !.held = h]
    BY <1>3, Zenon DEF Neutral
  <2> HIDE DEF h
  <2> QED BY <2>1 DEF Row, Safe
<1> QED BY <1>1, <1>2, <1>3

(* The status a method leaves.                                              *)
LEMMA StatusOps ==
    ASSUME NEW r \in Row
    PROVE  /\ Marked(r).st = "dispatched" /\ Queued(r).st = "queued"
           /\ QueuedFromLine(r).st = "queued" /\ RequeuedStart(r).st = "queued"
           /\ Refused(r).st = "refused"
           /\ Scrubbed(r).st = r.st
BY DEF Row, Marked, Queued, QueuedFromLine, RequeuedStart, Settled,
   Refused, Scrubbed

(* L and n are what a step may leave of the ledger and the transcript:      *)
(* every row safe, none gone, no line taken back.                           *)
Grows(L, n) ==
    \A s \in Sends : /\ Safe(L[s], n[s], s \in acked, s \in dismissed)
                     /\ row[s].st # "none" => L[s].st # "none"
                     /\ n[s] >= lines[s]

(* One safe row in place of another.                                        *)
LEMMA RowGrows ==
    ASSUME LedgerOK, SafeLedger(row, lines), NEW j \in Sends, NEW r \in Row, NEW L,
           L = [row EXCEPT ![j] = r], r.st # "none",
           Safe(r, lines[j], j \in acked, j \in dismissed)
    PROVE  Grows(L, lines)
BY DEF LedgerOK, SafeLedger, Grows

(* Nothing done.                                                            *)
LEMMA SameGrows == LedgerOK /\ SafeLedger(row, lines) => Grows(row, lines)
BY DEF LedgerOK, SafeLedger, Grows

(* A drain's steps.                                                         *)
LEMMA DrainStartsGrows ==
    ASSUME LedgerOK, NEW L \in [Sends -> Row], NEW d \in Desks, Grows(L, lines),
           DrainStarts(L, d)
    PROVE  Grows(row', lines')
<1> DEFINE D == Drainable(L, {})
<1>1. PICK passed \in SUBSET (D \cap Via) :
        LET B == DrainBatch(L, D \ passed)
        IN  \E fate \in [B -> {"ok", "refused", "stuck"}] :
              LET runs == {s \in B : fate[s] = "ok" \/ L[s].ex}
              IN  /\ row' = [s \in Sends |->
                               IF s \in passed THEN Refused(Marked(L[s]))
                               ELSE IF s \in B THEN DrainedRow(L[s], fate[s]) ELSE L[s]]
                  /\ lines' = [s \in Sends |-> lines[s] +
                                 IF s \in runs /\ ~L[s].ex THEN 1 ELSE 0]
  BY Zenon DEF DrainStarts
<1> DEFINE B == DrainBatch(L, D \ passed)
           runs(f) == {s \in B : f[s] = "ok" \/ L[s].ex}
<1>2. PICK fate \in [B -> {"ok", "refused", "stuck"}] :
        /\ row' = [s \in Sends |->
                     IF s \in passed THEN Refused(Marked(L[s]))
                     ELSE IF s \in B THEN DrainedRow(L[s], fate[s]) ELSE L[s]]
        /\ lines' = [s \in Sends |-> lines[s] +
                       IF s \in runs(fate) /\ ~L[s].ex THEN 1 ELSE 0]
  BY <1>1, Zenon
<1>3. \A s \in B \cup passed : s \in Sends /\ L[s].st = "queued"
  BY DEF DrainBatch, Drainable
<1>4. \A s \in B : fate[s] = "ok" /\ ~L[s].ex => s \in runs(fate)
  OBVIOUS
<1> HIDE DEF B, runs
<1> SUFFICES ASSUME NEW s \in Sends
             PROVE  /\ Safe(row'[s], lines'[s], s \in acked, s \in dismissed)
                    /\ row[s].st # "none" => row'[s].st # "none"
                    /\ lines'[s] >= lines[s]
  BY DEF Grows
<1>5. /\ L[s] \in Row /\ lines[s] \in Nat /\ lines'[s] \in Nat /\ lines'[s] >= lines[s]
      /\ Safe(L[s], lines[s], s \in acked, s \in dismissed)
      /\ row[s].st # "none" => L[s].st # "none"
  BY <1>2 DEF LedgerOK, Grows
<1>6. Safe(L[s], lines'[s], s \in acked, s \in dismissed)
  BY <1>5, SafeMore
<1> DEFINE M == Marked(L[s])
<1>7. CASE L[s].st = "queued"
  <2>1. M \in Row /\ M.st = "dispatched"
    BY <1>5, RowOps, StatusOps DEF Status
  <2>2. Safe(M, lines'[s], s \in acked, s \in dismissed)
    BY <1>5, <1>6, <1>7, SafeStill
  <2> HIDE DEF M
  <2>3. /\ Safe(Refused(M), lines'[s], s \in acked, s \in dismissed)
        /\ Refused(M).st # "none"
    BY <1>5, <2>1, <2>2, SafeStill, StatusOps
  <2>4. lines'[s] > 0 =>
          /\ Safe(Settled(M, "started", TRUE), lines'[s], s \in acked, s \in dismissed)
          /\ Settled(M, "started", TRUE).st # "none"
    <3>1. Settled(M, "started", TRUE).st = "started"
      BY <2>1 DEF Settled, Row
    <3>2. lines'[s] > 0 =>
            Safe(Settled(M, "started", TRUE), lines'[s], s \in acked, s \in dismissed)
      BY <1>5, SafeLined
    <3> QED BY <3>1, <3>2
  <2>5. s \in B /\ fate[s] = "ok" => lines'[s] > 0
    <3> SUFFICES ASSUME s \in B, fate[s] = "ok" PROVE lines'[s] > 0
      OBVIOUS
    <3>1. CASE L[s].ex
      BY <1>5, <1>6, <3>1 DEF Safe
    <3>2. CASE ~L[s].ex
      BY <1>2, <1>4, <1>5, <3>2
    <3> QED BY <3>1, <3>2
  <2>6. s \in B /\ s \notin passed =>
          \/ row'[s] = M \/ row'[s] = Refused(M)
          \/ fate[s] = "ok" /\ row'[s] = Settled(M, "started", TRUE)
    <3>1. s \in B /\ s \notin passed => row'[s] = DrainedRow(L[s], fate[s])
      BY <1>2
    <3>2. s \in B => fate[s] \in {"ok", "refused", "stuck"}
      OBVIOUS
    <3> QED BY <3>1, <3>2 DEF DrainedRow, M
  <2>7. s \in passed => row'[s] = Refused(M)
    BY <1>2 DEF M
  <2>8. s \notin B \cup passed => row'[s] = L[s]
    BY <1>2
  <2> QED BY <1>5, <1>6, <1>7, <2>1, <2>2, <2>3, <2>4, <2>5, <2>6, <2>7, <2>8
<1>8. CASE L[s].st # "queued"
  <2>1. row'[s] = L[s]
    BY <1>2, <1>3, <1>8
  <2> QED BY <1>5, <1>6, <2>1
<1> QED BY <1>7, <1>8

(* drainSteeredMessages, whatever it finds, loses no words.                 *)
LEMMA DrainGrows ==
    ASSUME LedgerOK, NEW L \in [Sends -> Row], NEW open \in SUBSET Nat, NEW d \in Desks,
           Grows(L, lines), Drain(L, open, d)
    PROVE  Grows(row', lines')
<1>1. \A e : DrainNothing(L, open, e) => Grows(row', lines')
  BY DEF DrainNothing
<1>2. DrainGone(L, open, d) => Grows(row', lines')
  <2> SUFFICES ASSUME DrainGone(L, open, d), NEW s \in Sends
               PROVE  /\ Safe(row'[s], lines'[s], s \in acked, s \in dismissed)
                      /\ row[s].st # "none" => row'[s].st # "none"
                      /\ lines'[s] >= lines[s]
    BY DEF Grows
  <2>1. lines' = lines /\ (row'[s] = L[s] \/ (L[s].st = "queued" /\ row'[s] = Refused(L[s])))
    BY DEF DrainGone
  <2>2. /\ L[s] \in Row /\ lines[s] \in Nat
        /\ Safe(L[s], lines[s], s \in acked, s \in dismissed)
        /\ row[s].st # "none" => L[s].st # "none"
    BY DEF LedgerOK, Grows
  <2>3. L[s].st = "queued" => /\ Refused(L[s]).st # "none"
                              /\ Safe(Refused(L[s]), lines[s], s \in acked, s \in dismissed)
    BY <2>2, SafeStill, StatusOps
  <2> QED BY <2>1, <2>2, <2>3
<1>3. /\ LateReleased(L, open) \in [Sends -> Row] /\ Grows(LateReleased(L, open), lines)
  <2>1. \A s \in Sends : LateReleased(L, open)[s] \in {L[s], Scrubbed(L[s])}
    BY DEF LateReleased
  <2>2. \A s \in Sends : /\ L[s] \in Row /\ lines[s] \in Nat
                         /\ Safe(L[s], lines[s], s \in acked, s \in dismissed)
    BY DEF LedgerOK, Grows
  <2>3. \A s \in Sends : /\ Safe(Scrubbed(L[s]), lines[s], s \in acked, s \in dismissed)
                         /\ Scrubbed(L[s]).st = L[s].st
    BY <2>2, SafeScrubbed, StatusOps
  <2> QED BY <2>1, <2>2, <2>3, LedgerOps DEF Grows
<1>4. DrainStarts(LateReleased(L, open), d) => Grows(row', lines')
  BY <1>3, DrainStartsGrows
<1>5. DrainUnmarked(LateReleased(L, open), d) => Grows(row', lines')
  BY <1>3 DEF DrainUnmarked
<1> QED BY <1>1, <1>2, <1>4, <1>5 DEF Drain

(* A step that leaves a safe successor of the ledger, takes jobs only from  *)
(* the head of the line and adds only honest late calls keeps WordsInv.     *)
LEMMA KeepsWords ==
    ASSUME TypeInv, WordsInv, Grows(row', lines'), lines' \in [Sends -> Nat],
           UNCHANGED <<backup, acked, dismissed>>,
           \/ UNCHANGED <<chain, pc>>
           \/ chain # <<>> /\ Leave
           \/ \E next \in {"steering", "starting"} : Stay(next),
           \A l \in late' : l \in late \/ (l.line => lines'[l.s] > 0),
           server' = "down" => server = "down" /\ UNCHANGED <<chain, pc, late>>
    PROVE  WordsInv'
<1>1. /\ lines \in [Sends -> Nat] /\ \A s \in Sends : lines'[s] >= lines[s]
      /\ \A s \in Sends : row[s].st # "none" => row'[s].st # "none"
  BY DEF TypeInv, LedgerOK, Grows
<1>2. SafeLedger(row, lines)'
  BY DEF SafeLedger, Grows
<1>3. \A i \in DOMAIN chain' : row'[chain'[i].s].st # "none"
  <2>1. chain \in Seq(Job) /\ \A i \in DOMAIN chain : chain[i].s \in Sends
    <3>1. chain \in Seq(Job)
      BY DEF TypeInv, AdmissionOK
    <3>2. \A i \in DOMAIN chain : chain[i] \in Job
      BY <3>1
    <3>3. \A j \in Job : j.s \in Sends
      BY DEF Job
    <3> QED BY <3>1, <3>2, <3>3
  <2>2. \A i \in DOMAIN chain : row'[chain[i].s].st # "none"
    BY <1>1, <2>1 DEF WordsInv
  <2>3. CASE chain' = chain
    BY <2>2, <2>3
  <2>4. CASE chain # <<>> /\ chain' = Tail(chain)
    BY <2>1, <2>2, <2>4
  <2> QED BY <2>3, <2>4 DEF Leave, Stay
<1>4. pc' = "landed" => lines'[Head(chain').s] > 0
  <2> SUFFICES ASSUME pc' = "landed" PROVE lines'[Head(chain').s] > 0
    OBVIOUS
  <2>1. chain' = chain /\ pc = "landed"
    BY DEF Leave, Stay
  <2>2. Head(chain).s \in Sends /\ lines[Head(chain).s] > 0
    BY <2>1, HeadJob DEF TypeInv, AdmissionOK, WordsInv
  <2> QED BY <1>1, <2>1, <2>2
<1>5. \A l \in late' : l.line => lines'[l.s] > 0
  <2>1. \A l \in late : l.s \in Sends
    BY DEF TypeInv, RestOK, LateCall
  <2> QED BY <1>1, <2>1 DEF WordsInv
<1>6. server' = "down" => chain' = <<>> /\ pc' = "idle" /\ late' = {}
  BY DEF WordsInv
<1>7. (backup # NoBackup =>
         \A s \in Sends : Safe(backup.row[s], backup.lines[s],
                              s \in backup.acked, s \in backup.dismissed))'
  BY DEF WordsInv
<1> QED BY <1>2, <1>3, <1>4, <1>5, <1>6, <1>7 DEF WordsInv

(* The admission's handlers.                                                *)
LEMMA CaughtGrows ==
    ASSUME LedgerOK, SafeLedger(row, lines), NEW j \in Job, NEW n, row[j.s].st # "none",
           Caught(j, n)
    PROVE  Grows(row', lines')
<1>1. /\ j.s \in Sends /\ row[j.s] \in Row /\ lines[j.s] \in Nat
      /\ Safe(row[j.s], lines[j.s], j.s \in acked, j.s \in dismissed)
  BY DEF Job, LedgerOK, SafeLedger
<1>2. CaughtRow(j) \in Row
  BY <1>1, RowOps DEF CaughtRow, Status
<1>3. CaughtRow(j).st # "none"
  BY <1>1 DEF CaughtRow, Settled, Refused, Row
<1>4. Safe(CaughtRow(j), lines[j.s], j.s \in acked, j.s \in dismissed)
  BY <1>1, SafeStill, SafeLined DEF CaughtRow
<1>5. lines' = lines /\ (row' = row \/ row' = [row EXCEPT ![j.s] = CaughtRow(j)])
  BY DEF Caught, SetRow
<1>6. row' = row => Grows(row', lines')
  BY <1>5, SameGrows
<1> QED BY <1>1, <1>2, <1>3, <1>4, <1>5, <1>6, RowGrows

(* A send that is put in the queue, with the drain that may follow.         *)
LEMMA QueueItGrows ==
    ASSUME LedgerOK, RestOK, SafeLedger(row, lines), NEW j \in Job, NEW drains,
           row[j.s].st # "none", QueueIt(j, drains)
    PROVE  Grows(row', lines')
<1> DEFINE L == [row EXCEPT ![j.s] = Queued(row[j.s])]
           open == lateOpen \ {j.q}
<1>1. /\ j.s \in Sends /\ row[j.s] \in Row /\ lines[j.s] \in Nat
      /\ Safe(row[j.s], lines[j.s], j.s \in acked, j.s \in dismissed)
  BY DEF Job, LedgerOK, SafeLedger
<1>2. /\ Queued(row[j.s]) \in Row /\ Queued(row[j.s]).st # "none"
      /\ Safe(Queued(row[j.s]), lines[j.s], j.s \in acked, j.s \in dismissed)
  <2>1. Queued(row[j.s]) \in Row
    BY <1>1, RowOps DEF Status
  <2> QED BY <1>1, <2>1, StatusOps, SafeStill
<1>3. L \in [Sends -> Row] /\ Grows(L, lines)
  BY <1>1, <1>2, RowGrows DEF LedgerOK
<1>4. open \in SUBSET Nat /\ Desk \in Desks
  BY DeskType DEF LedgerOK
<1>5. Drain(L, open, Desk) \/ DrainNothing(L, open, Desk)
  BY DEF QueueIt
<1> HIDE DEF L, open
<1>6. DrainNothing(L, open, Desk) => Grows(row', lines')
  BY <1>3 DEF DrainNothing
<1> QED BY <1>3, <1>4, <1>5, <1>6, DrainGrows

(* The marker before the engine is asked.                                   *)
LEMMA MarkThenGrows ==
    ASSUME LedgerOK, SafeLedger(row, lines), NEW j \in Job, NEW next, row[j.s].st # "none",
           MarkThen(j, next)
    PROVE  Grows(row', lines')
<1>1. /\ j.s \in Sends /\ row[j.s] \in Row /\ lines[j.s] \in Nat
      /\ Safe(row[j.s], lines[j.s], j.s \in acked, j.s \in dismissed)
  BY DEF Job, LedgerOK, SafeLedger
<1>2. Marked(row[j.s]) \in Row
  BY <1>1, RowOps DEF Status
<1>3. /\ Marked(row[j.s]).st # "none"
      /\ Safe(Marked(row[j.s]), lines[j.s], j.s \in acked, j.s \in dismissed)
  BY <1>1, StatusOps, SafeStill
<1>4. lines' = lines /\ row' = [row EXCEPT ![j.s] = Marked(row[j.s])]
  BY DEF MarkThen, SetRow
<1> QED BY <1>1, <1>2, <1>3, <1>4, RowGrows

(* The engine refused the steer.                                            *)
LEMMA NotSteeredGrows ==
    ASSUME LedgerOK, RestOK, SafeLedger(row, lines), NEW j \in Job, row[j.s].st # "none",
           NotSteered(j)
    PROVE  Grows(row', lines')
BY CaughtGrows, QueueItGrows, MarkThenGrows DEF NotSteered

(* The outcome of a steer: its line, or the failure to write it.            *)
LEMMA SteerRecordedGrows ==
    ASSUME LedgerOK, SafeLedger(row, lines), NEW j \in Job, row[j.s].st # "none",
           NEW st \in {"delivered", "unconfirmed"}, SteerRecorded(j, st)
    PROVE  /\ Grows(row', lines')
           /\ lines' # lines => lines'[j.s] > 0
<1>1. /\ j.s \in Sends /\ row[j.s] \in Row /\ lines[j.s] \in Nat
      /\ Safe(row[j.s], lines[j.s], j.s \in acked, j.s \in dismissed)
      /\ row \in [Sends -> Row] /\ lines \in [Sends -> Nat]
  BY DEF Job, LedgerOK, SafeLedger
<1>2. CASE row' = [row EXCEPT ![j.s] = Settled(row[j.s], st, TRUE)]
           /\ lines' = [lines EXCEPT ![j.s] = @ + 1]
  <2>1. lines'[j.s] = lines[j.s] + 1 /\ row'[j.s] = Settled(row[j.s], st, TRUE)
        /\ \A s \in Sends \ {j.s} : row'[s] = row[s] /\ lines'[s] = lines[s]
    BY <1>1, <1>2
  <2>2. Settled(row[j.s], st, TRUE).st # "none"
    BY <1>1 DEF Settled, Row
  <2>3. lines'[j.s] \in Nat /\ lines'[j.s] > 0 /\ lines'[j.s] >= lines[j.s]
    BY <1>1, <2>1
  <2>4. Safe(Settled(row[j.s], st, TRUE), lines'[j.s], j.s \in acked, j.s \in dismissed)
    <3>1. st = "delivered" \/ st = "unconfirmed"
      OBVIOUS
    <3> QED BY <2>3, <3>1, SafeLined
  <2>5. \A s \in Sends \ {j.s} :
          /\ Safe(row[s], lines[s], s \in acked, s \in dismissed)
          /\ lines[s] \in Nat
    BY <1>1 DEF SafeLedger
  <2>6. \A s \in Sends : /\ Safe(row'[s], lines'[s], s \in acked, s \in dismissed)
                         /\ row[s].st # "none" => row'[s].st # "none"
                         /\ lines'[s] >= lines[s]
    <3> SUFFICES ASSUME NEW s \in Sends
                 PROVE  /\ Safe(row'[s], lines'[s], s \in acked, s \in dismissed)
                        /\ row[s].st # "none" => row'[s].st # "none"
                        /\ lines'[s] >= lines[s]
      OBVIOUS
    <3>1. CASE s = j.s
      BY <2>1, <2>2, <2>3, <2>4, <3>1
    <3>2. CASE s # j.s
      BY <2>1, <2>5, <3>2
    <3> QED BY <3>1, <3>2
  <2> QED BY <2>3, <2>6 DEF Grows
<1>3. CASE row' = [row EXCEPT ![j.s] = Settled(row[j.s], "unconfirmed", FALSE)]
           /\ lines' = lines
  <2>1. Settled(row[j.s], "unconfirmed", FALSE) \in Row
    BY <1>1, RowOps DEF Status
  <2>2. Settled(row[j.s], "unconfirmed", FALSE).st # "none"
    BY <1>1 DEF Settled, Row
  <2>3. Safe(Settled(row[j.s], "unconfirmed", FALSE), lines[j.s], j.s \in acked, j.s \in dismissed)
    BY <1>1, SafeStill
  <2> QED BY <1>1, <1>3, <2>1, <2>2, <2>3, RowGrows
<1>4. CASE row' = [row EXCEPT ![j.s] = CaughtRow(j)] /\ lines' = lines
  <2>1. CaughtRow(j) \in Row
    BY <1>1, RowOps DEF CaughtRow, Status
  <2>2. CaughtRow(j).st # "none"
    BY <1>1 DEF CaughtRow, Settled, Refused, Row
  <2>3. Safe(CaughtRow(j), lines[j.s], j.s \in acked, j.s \in dismissed)
    BY <1>1, SafeStill, SafeLined DEF CaughtRow
  <2> QED BY <1>1, <1>4, <2>1, <2>2, <2>3, RowGrows
<1>5. CASE row' = row /\ lines' = lines
  BY <1>5, SameGrows
<1> QED BY <1>2, <1>3, <1>4, <1>5, Zenon DEF SteerRecorded, SetRow

(* The head of the line has a row.                                          *)
LEMMA HeadHasRow ==
    ASSUME AdmissionOK, WordsInv, chain # <<>>
    PROVE  row[Head(chain).s].st # "none"
<1>1. 1 \in DOMAIN chain /\ Head(chain) = chain[1]
  BY DEF AdmissionOK
<1> QED BY <1>1 DEF WordsInv

(* The admission keeps every row's words.                                   *)
LEMMA DecideWords == TypeInv /\ WordsInv /\ TypeInv' /\ Decide => WordsInv'
<1> SUFFICES ASSUME TypeInv, WordsInv, TypeInv', Decide PROVE WordsInv'
  OBVIOUS
<1> DEFINE j == Head(chain)
<1>1. /\ j \in Job /\ chain # <<>> /\ row[j.s].st # "none"
      /\ LedgerOK /\ RestOK /\ SafeLedger(row, lines) /\ lines' \in [Sends -> Nat]
  <2>1. chain # <<>>
    BY DEF Decide
  <2> QED BY <2>1, HeadJob, HeadHasRow DEF TypeInv, LedgerOK, WordsInv
<1> HIDE DEF j
<1>2. \/ Caught(j, 0) \/ Caught(j, 1) \/ QueueIt(j, TRUE) \/ QueueIt(j, FALSE)
      \/ MarkThen(j, "steering") \/ MarkThen(j, "starting") \/ NotSteered(j)
  BY Zenon DEF Decide, j
<1>3. Grows(row', lines')
  BY <1>1, <1>2, CaughtGrows, QueueItGrows, MarkThenGrows, NotSteeredGrows
<1>4. Leave \/ Stay("steering") \/ Stay("starting")
  BY <1>2 DEF NotSteered, Caught, QueueIt, MarkThen
<1>5. UNCHANGED <<backup, acked, dismissed, late, server>> /\ server = "up"
  BY <1>2 DEF NotSteered, Caught, QueueIt, MarkThen, Decide, Up, bootVars
<1> QED BY <1>1, <1>3, <1>4, <1>5, KeepsWords

(* The engine's answer to a steer, in time or not.                          *)
LEMMA SteerAnsweredWords == TypeInv /\ WordsInv /\ TypeInv' /\ SteerAnswered => WordsInv'
<1> SUFFICES ASSUME TypeInv, WordsInv, TypeInv', SteerAnswered PROVE WordsInv'
  OBVIOUS
<1> DEFINE j == Head(chain)
<1>1. /\ j \in Job /\ chain # <<>> /\ row[j.s].st # "none"
      /\ LedgerOK /\ RestOK /\ SafeLedger(row, lines) /\ lines' \in [Sends -> Nat]
  <2>1. chain # <<>>
    BY DEF SteerAnswered, TypeInv, AdmissionOK
  <2> QED BY <2>1, HeadJob, HeadHasRow DEF TypeInv, LedgerOK, WordsInv
<1> HIDE DEF j
<1>2. Taken(j) \/ Uncertain(j) \/ NotSteered(j) \/ Caught(j, 1)
  BY Zenon DEF SteerAnswered, j
<1>3. Grows(row', lines')
  BY <1>1, <1>2, CaughtGrows, NotSteeredGrows, SteerRecordedGrows DEF Taken, Uncertain
<1>4. Leave \/ Stay("starting")
  BY <1>2 DEF Taken, Uncertain, NotSteered, Caught, QueueIt, MarkThen
<1>5. UNCHANGED <<backup, acked, dismissed, server>> /\ server = "up"
  BY DEF SteerAnswered, Up, bootVars
<1>6. \A l \in late' : l \in late \/ (l.line => lines'[l.s] > 0)
  <2>1. CASE Uncertain(j)
    <3>1. late' = late \cup {[s |-> j.s, q |-> j.q, a |-> j.a, line |-> lines' # lines]}
          /\ SteerRecorded(j, "unconfirmed")
      BY <2>1 DEF Uncertain
    <3>2. lines' # lines => lines'[j.s] > 0
      BY <1>1, <3>1, SteerRecordedGrows
    <3> DEFINE l0 == [s |-> j.s, q |-> j.q, a |-> j.a, line |-> lines' # lines]
    <3>3. l0.s = j.s /\ l0.line = (lines' # lines)
      OBVIOUS
    <3>4. l0.line => lines'[l0.s] > 0
      BY <3>2, <3>3
    <3> HIDE DEF l0
    <3>5. late' = late \cup {l0}
      BY <3>1 DEF l0
    <3> QED BY <3>4, <3>5
  <2>2. CASE Taken(j) \/ NotSteered(j) \/ Caught(j, 1)
    BY <2>2 DEF Taken, NotSteered, Caught, QueueIt, MarkThen
  <2> QED BY <1>2, <2>1, <2>2
<1> QED BY <1>1, <1>3, <1>4, <1>5, <1>6, KeepsWords

(* startTurn refuses, admits, and its outcome is recorded.                  *)
LEMMA RunWords ==
    TypeInv /\ WordsInv /\ TypeInv' /\ (RunRefused \/ RunAdmitted \/ RunRecorded) => WordsInv'
<1> SUFFICES ASSUME TypeInv, WordsInv, TypeInv', RunRefused \/ RunAdmitted \/ RunRecorded
             PROVE  WordsInv'
  OBVIOUS
<1> DEFINE j == Head(chain)
<1>1. /\ j \in Job /\ j.s \in Sends /\ chain # <<>> /\ row[j.s].st # "none"
      /\ LedgerOK /\ RestOK /\ SafeLedger(row, lines) /\ lines' \in [Sends -> Nat]
      /\ row \in [Sends -> Row] /\ lines \in [Sends -> Nat]
  <2>1. chain # <<>>
    BY DEF RunRefused, RunAdmitted, RunRecorded, TypeInv, AdmissionOK
  <2> QED BY <2>1, HeadJob, HeadHasRow DEF TypeInv, LedgerOK, WordsInv
<1>2. CASE RunRefused
  <2>1. Caught(j, 0) /\ UNCHANGED <<backup, acked, dismissed, server>> /\ server = "up"
    BY <1>2 DEF RunRefused, Up, bootVars
  <2>2. Grows(row', lines')
    BY <1>1, <2>1, CaughtGrows
  <2>3. Leave /\ late' = late
    BY <2>1 DEF Caught
  <2> QED BY <1>1, <2>1, <2>2, <2>3, KeepsWords
<1>3. CASE RunAdmitted
  <2>1. /\ lines' = [lines EXCEPT ![j.s] = @ + 1] /\ row' = row /\ chain' = chain
        /\ late' = late /\ server' = "up" /\ UNCHANGED <<backup, acked, dismissed>>
    BY <1>3 DEF RunAdmitted, Stay, Up, bootVars, historyVars
  <2>2. \A s \in Sends : lines[s] \in Nat /\ lines'[s] \in Nat /\ lines'[s] >= lines[s]
    BY <1>1, <2>1
  <2>3. lines'[j.s] > 0
    BY <1>1, <2>1
  <2>4. SafeLedger(row, lines)'
    BY <1>1, <2>1, <2>2, SafeMore DEF SafeLedger
  <2>5. \A l \in late' : l.line => lines'[l.s] > 0
    <3>1. \A l \in late : l.s \in Sends
      BY DEF TypeInv, RestOK, LateCall
    <3> QED BY <2>1, <2>2, <3>1 DEF WordsInv
  <2> HIDE DEF j
  <2>6. lines'[Head(chain').s] > 0
    BY <2>1, <2>3 DEF j
  <2> QED BY <2>1, <2>4, <2>5, <2>6 DEF WordsInv
<1>4. CASE RunRecorded
  <2>1. /\ row' = row \/ row' = [row EXCEPT ![j.s] = Settled(row[j.s], "started", TRUE)]
        /\ lines' = lines /\ Leave /\ late' = late /\ server' = "up" /\ pc = "landed"
        /\ UNCHANGED <<backup, acked, dismissed>>
    BY <1>4 DEF RunRecorded, SetRow, Up, bootVars, historyVars
  <2>2. lines[j.s] > 0
    BY <2>1 DEF WordsInv
  <2>3. Settled(row[j.s], "started", TRUE) \in Row
    BY <1>1, RowOps DEF Status
  <2>4. Settled(row[j.s], "started", TRUE).st # "none"
    BY <1>1 DEF Settled, Row
  <2>5. Safe(Settled(row[j.s], "started", TRUE), lines[j.s], j.s \in acked, j.s \in dismissed)
    BY <1>1, <2>2, SafeLined
  <2>6. row' = [row EXCEPT ![j.s] = Settled(row[j.s], "started", TRUE)] => Grows(row', lines)
    BY <1>1, <2>3, <2>4, <2>5, RowGrows
  <2>7. Grows(row', lines')
    BY <1>1, <2>1, <2>6, SameGrows
  <2> QED BY <1>1, <2>1, <2>7, KeepsWords
<1> QED BY <1>2, <1>3, <1>4
-----------------------------------------------------------------------------
(* The clients' actions keep every row's words.                             *)
LEMMA PressWords ==
    ASSUME TypeInv, WordsInv, NEW p, Press(p)
    PROVE  WordsInv'
BY DEF Press, WordsInv, SafeLedger, ledgerVars, admissionVars, bootVars, historyVars

(* A new send's row holds its words.                                        *)
LEMMA AcceptWords ==
    ASSUME TypeInv, WordsInv, NEW p \in net, Accept(p)
    PROVE  WordsInv'
<1>1. p \in Request /\ p.s \in Sends /\ row \in [Sends -> Row] /\ lines \in [Sends -> Nat]
      /\ chain \in Seq(Job)
  BY DEF TypeInv, RestOK, LedgerOK, AdmissionOK, Request
<1>2. PICK q \in Seqs :
        /\ SetRow(p.s, NewRow(p, q))
        /\ chain' = Append(chain, [s |-> p.s, q |-> q, a |-> NewRow(p, q).act])
  BY DEF Accept
<1> DEFINE r == NewRow(p, q)
<1>3. r.st = "sending" /\ r.words /\ ~r.line /\ ~r.ex
  BY DEF NewRow, NoRow
<1> HIDE DEF r
<1>4. row' = [row EXCEPT ![p.s] = r]
  BY <1>2 DEF SetRow, r
<1>5. /\ lines' = lines /\ pc' = pc /\ late' = late /\ server' = "up" /\ backup' = backup
      /\ acked' = acked \cup {p.s} /\ dismissed' = dismissed
  BY DEF Accept, Up, bootVars
<1>6. SafeLedger(row, lines)'
  <2> SUFFICES ASSUME NEW s \in Sends
               PROVE  Safe(row'[s], lines'[s], s \in acked', s \in dismissed')
    BY DEF SafeLedger
  <2>1. CASE s = p.s
    BY <1>1, <1>3, <1>4, <2>1 DEF Safe
  <2>2. CASE s # p.s
    <3>1. Safe(row[s], lines[s], s \in acked, s \in dismissed)
      BY DEF WordsInv, SafeLedger
    <3>2. row'[s] = row[s] /\ lines'[s] = lines[s] /\ (s \in acked' <=> s \in acked)
      BY <1>1, <1>4, <1>5, <2>2
    <3> QED BY <1>5, <3>1, <3>2 DEF Safe
  <2> QED BY <2>1, <2>2
<1>7. \A i \in DOMAIN chain' : row'[chain'[i].s].st # "none"
  <2>1. \A i \in DOMAIN chain : chain[i].s \in Sends /\ row[chain[i].s].st # "none"
    <3>1. \A i \in DOMAIN chain : chain[i] \in Job
      BY <1>1
    <3> QED BY <3>1 DEF Job, WordsInv
  <2>2. \A s \in Sends : row[s].st # "none" => row'[s].st # "none"
    BY <1>1, <1>3, <1>4
  <2>3. row'[p.s].st # "none"
    BY <1>1, <1>3, <1>4
  <2> DEFINE job == [s |-> p.s, q |-> q, a |-> NewRow(p, q).act]
  <2>4. job.s = p.s
    OBVIOUS
  <2> HIDE DEF job
  <2>5. chain' = Append(chain, job)
    BY <1>2 DEF job
  <2>6. \A i \in DOMAIN chain' : (i \in DOMAIN chain /\ chain'[i] = chain[i]) \/ chain'[i] = job
    BY <1>1, <2>5
  <2> QED BY <2>1, <2>2, <2>3, <2>4, <2>6
<1>8. pc' = "landed" => lines'[Head(chain').s] > 0
  <2>1. pc = "landed" => chain # <<>> /\ lines[Head(chain).s] > 0
    BY DEF TypeInv, AdmissionOK, WordsInv
  <2>2. chain # <<>> => Head(chain') = Head(chain)
    BY <1>1, <1>2
  <2> QED BY <1>5, <2>1, <2>2
<1> QED BY <1>5, <1>6, <1>7, <1>8 DEF WordsInv

(* A repeat of a request, and Send again of a row that ended.               *)
LEMMA AcceptAgainWords ==
    ASSUME TypeInv, WordsInv, NEW p \in net, AcceptAgain(p)
    PROVE  WordsInv'
<1>1. /\ chain \in Seq(Job) /\ row[p.s].st = "sending"
      /\ UNCHANGED <<row, lines, pc, late, server, backup, acked, dismissed>> /\ server = "up"
  BY DEF AcceptAgain, TypeInv, AdmissionOK, ledgerVars, bootVars, historyVars, Up
<1> DEFINE job == [s |-> p.s, q |-> row[p.s].seq, a |-> row[p.s].act]
<1>2. job.s = p.s
  OBVIOUS
<1> HIDE DEF job
<1>3. chain' = Append(chain, job)
  BY DEF AcceptAgain, job
<1>4. \A i \in DOMAIN chain' : (i \in DOMAIN chain /\ chain'[i] = chain[i]) \/ chain'[i] = job
  BY <1>1, <1>3
<1>5. \A i \in DOMAIN chain' : row'[chain'[i].s].st # "none"
  BY <1>1, <1>2, <1>4 DEF WordsInv
<1>6. pc' = "landed" => lines'[Head(chain').s] > 0
  <2>1. pc = "landed" => chain # <<>> /\ lines[Head(chain).s] > 0
    BY DEF TypeInv, AdmissionOK, WordsInv
  <2>2. chain # <<>> => Head(chain') = Head(chain)
    BY <1>1, <1>3
  <2> QED BY <1>1, <2>1, <2>2
<1> QED BY <1>1, <1>5, <1>6 DEF WordsInv, SafeLedger

(* Marking what waits changes nothing a safe row is about.                  *)
LEMMA StopMarkedSafe ==
    ASSUME NEW L \in [Sends -> Row], NEW n, NEW s \in Sends
    PROVE  /\ StopMarked(L, n)[s].st = L[s].st /\ StopMarked(L, n)[s].words = L[s].words
           /\ StopMarked(L, n)[s].line = L[s].line /\ StopMarked(L, n)[s].ex = L[s].ex
BY DEF StopMarked, Row

(* A typed stop's words are done with once the thread is stopped.           *)
LEMMA AcceptTypedStopWords ==
    ASSUME TypeInv, WordsInv, NEW p \in net, AcceptTypedStop(p)
    PROVE  WordsInv'
<1>1. p \in Request /\ p.s \in Sends /\ row \in [Sends -> Row] /\ chain \in Seq(Job)
  BY DEF TypeInv, RestOK, LedgerOK, AdmissionOK, Request
<1>2. PICK q \in Seqs :
        row' = StopMarked([row EXCEPT ![p.s] = TypedStopRow(p, q)], tokens.stop + 1)
  BY DEF AcceptTypedStop
<1> DEFINE r == TypedStopRow(p, q)
           L == [row EXCEPT ![p.s] = r]
<1>3. r \in Row
  BY <1>1, SeqsAssumption, NewRows
<1>4. r.st = "cancelled" /\ ~r.line /\ ~r.ex
  BY DEF TypedStopRow, NewRow, NoRow
<1> HIDE DEF r
<1>5. /\ lines' = lines /\ UNCHANGED <<chain, pc, late, server, backup>> /\ server = "up"
      /\ acked' = acked \cup {p.s} /\ dismissed' = dismissed \cup {p.s}
  BY DEF AcceptTypedStop, Up, bootVars, admissionVars
<1>6. L \in [Sends -> Row] /\ row' = StopMarked(L, tokens.stop + 1)
  BY <1>1, <1>2, <1>3 DEF r
<1>7. \A s \in Sends : L[s] = IF s = p.s THEN r ELSE row[s]
  BY <1>1
<1> HIDE DEF L
<1>8. \A s \in Sends : /\ row'[s].st = L[s].st /\ row'[s].words = L[s].words
                       /\ row'[s].line = L[s].line /\ row'[s].ex = L[s].ex
  BY <1>6, StopMarkedSafe
<1>9. SafeLedger(row, lines)'
  <2> SUFFICES ASSUME NEW s \in Sends
               PROVE  Safe(row'[s], lines'[s], s \in acked', s \in dismissed')
    BY DEF SafeLedger
  <2>1. CASE s = p.s
    BY <1>4, <1>5, <1>7, <1>8, <2>1 DEF Safe
  <2>2. CASE s # p.s
    BY <1>5, <1>7, <1>8, <2>2 DEF Safe, WordsInv, SafeLedger
  <2> QED BY <2>1, <2>2
<1>10. \A i \in DOMAIN chain' : row'[chain'[i].s].st # "none"
  <2>1. \A i \in DOMAIN chain : chain[i].s \in Sends /\ row[chain[i].s].st # "none"
    <3>1. \A i \in DOMAIN chain : chain[i] \in Job
      BY <1>1
    <3> QED BY <3>1 DEF Job, WordsInv
  <2>2. \A s \in Sends : row[s].st # "none" => row'[s].st # "none"
    BY <1>4, <1>7, <1>8
  <2> QED BY <1>5, <2>1, <2>2
<1> QED BY <1>5, <1>9, <1>10 DEF WordsInv

(* Stop only marks rows.                                                    *)
LEMMA StopWords == TypeInv /\ WordsInv /\ TypeInv' /\ StopPressed => WordsInv'
<1> SUFFICES ASSUME TypeInv, WordsInv, TypeInv', StopPressed PROVE WordsInv'
  OBVIOUS
<1>1. \A s \in Sends : /\ row'[s].st = row[s].st /\ row'[s].words = row[s].words
                       /\ row'[s].line = row[s].line /\ row'[s].ex = row[s].ex
  BY StopMarkedSafe DEF StopPressed, TypeInv, LedgerOK
<1>2. UNCHANGED <<lines, chain, pc, late, server, backup, acked, dismissed>> /\ server = "up"
  BY DEF StopPressed, Up, bootVars, admissionVars
<1>3. lines' \in [Sends -> Nat] /\ Grows(row', lines')
  BY <1>1, <1>2 DEF Grows, Safe, WordsInv, SafeLedger, TypeInv, LedgerOK
<1> QED BY <1>2, <1>3, KeepsWords

(* What is cancelled was dismissed by the owner.                            *)
LEMMA CancelWords ==
    ASSUME TypeInv, WordsInv, NEW s \in Sends, Cancel(s)
    PROVE  WordsInv'
<1>1. row \in [Sends -> Row] /\ chain \in Seq(Job) /\ Safe(row[s], lines[s], s \in acked, s \in dismissed)
  BY DEF TypeInv, LedgerOK, AdmissionOK, WordsInv, SafeLedger
<1>2. /\ row' = [row EXCEPT ![s] = Settled(row[s], "cancelled", FALSE)]
      /\ dismissed' = dismissed \cup {s}
      /\ UNCHANGED <<lines, chain, pc, late, server, backup, acked>> /\ server = "up"
  BY DEF Cancel, SetRow, Up, bootVars, admissionVars
<1> DEFINE r == Settled(row[s], "cancelled", FALSE)
<1>3. r.st = "cancelled" /\ (r.line => row[s].line) /\ r.ex = row[s].ex
  BY <1>1 DEF Settled, Row
<1> HIDE DEF r
<1>4. row' = [row EXCEPT ![s] = r]
  BY <1>2 DEF r
<1>5. SafeLedger(row, lines)'
  <2> SUFFICES ASSUME NEW t \in Sends
               PROVE  Safe(row'[t], lines'[t], t \in acked', t \in dismissed')
    BY DEF SafeLedger
  <2>1. CASE t = s
    BY <1>1, <1>2, <1>3, <1>4, <2>1 DEF Safe
  <2>2. CASE t # s
    <3>1. row'[t] = row[t] /\ lines'[t] = lines[t] /\ (t \in dismissed' <=> t \in dismissed)
          /\ acked' = acked
      BY <1>1, <1>2, <1>4, <2>2
    <3> QED BY <3>1 DEF Safe, WordsInv, SafeLedger
  <2> QED BY <2>1, <2>2
<1>6. \A i \in DOMAIN chain' : row'[chain'[i].s].st # "none"
  <2>1. \A i \in DOMAIN chain : chain[i].s \in Sends /\ row[chain[i].s].st # "none"
    <3>1. \A i \in DOMAIN chain : chain[i] \in Job
      BY <1>1
    <3> QED BY <3>1 DEF Job, WordsInv
  <2>2. \A t \in Sends : row[t].st # "none" => row'[t].st # "none"
    BY <1>1, <1>3, <1>4
  <2> QED BY <1>2, <2>1, <2>2
<1> QED BY <1>2, <1>5, <1>6 DEF WordsInv
-----------------------------------------------------------------------------
(* The drain's steps and its timers keep every row's words.                 *)
LEMMA QueueStepsWords ==
    TypeInv /\ WordsInv /\ TypeInv'
      /\ (BatchAdmitted \/ BatchRequeued \/ BatchFailed \/ RetryTimer
          \/ WatchTimer \/ OtherDrain)
    => WordsInv'
<1> SUFFICES ASSUME TypeInv, WordsInv, TypeInv',
                    BatchAdmitted \/ BatchRequeued \/ BatchFailed \/ RetryTimer
                    \/ WatchTimer \/ OtherDrain
             PROVE  WordsInv'
  OBVIOUS
<1>1. /\ row \in [Sends -> Row] /\ lateOpen \in SUBSET Nat /\ Desk \in Desks
      /\ LedgerOK /\ RestOK /\ SafeLedger(row, lines) /\ lines' \in [Sends -> Nat]
      /\ Grows(row, lines)
  BY DeskType, SameGrows DEF TypeInv, LedgerOK, WordsInv
<1>2. /\ UNCHANGED <<chain, pc, late, backup, acked, dismissed>>
      /\ server' = "up"
  BY DEF BatchAdmitted, BatchRequeued, BatchFailed, RetryTimer, WatchTimer, OtherDrain,
     Up, admissionVars, bootVars, historyVars
<1>3. Grows(row', lines')
  <2>1. CASE BatchAdmitted
    BY <1>1, <2>1 DEF BatchAdmitted, ledgerVars
  <2>2. CASE BatchRequeued
    <3> DEFINE mine == {b.s : b \in {b \in batch : Mine(b) /\ row[b.s].st = "started"}}
    <3>1. \A s \in mine : s \in Sends /\ row[s].st = "started"
      BY DEF TypeInv, LedgerOK, Job
    <3>2. PICK back \in SUBSET mine :
            row' = [s \in Sends |-> IF s \in back THEN RequeuedStart(row[s]) ELSE row[s]]
      BY <2>2, Zenon DEF BatchRequeued
    <3> HIDE DEF mine
    <3> SUFFICES ASSUME NEW s \in Sends
                 PROVE  /\ Safe(row'[s], lines'[s], s \in acked, s \in dismissed)
                        /\ row[s].st # "none" => row'[s].st # "none"
                        /\ lines'[s] >= lines[s]
      BY DEF Grows
    <3>3. /\ lines' = lines /\ row[s] \in Row /\ lines[s] \in Nat
          /\ Safe(row[s], lines[s], s \in acked, s \in dismissed)
      BY <1>1, <2>2 DEF BatchRequeued, LedgerOK, SafeLedger
    <3>4. CASE s \in back
      <4>1. row'[s] = RequeuedStart(row[s]) /\ lines[s] > 0
        BY <3>1, <3>2, <3>3, <3>4 DEF Safe
      <4>2. RequeuedStart(row[s]).st = "queued"
        BY <3>3, StatusOps
      <4>3. Safe(RequeuedStart(row[s]), lines[s], s \in acked, s \in dismissed)
        BY <3>3, <4>1, SafeLined
      <4> QED BY <3>3, <4>1, <4>2, <4>3
    <3>5. CASE s \notin back
      BY <3>2, <3>3, <3>5
    <3> QED BY <3>4, <3>5
  <2>3. CASE BatchFailed
    <3> DEFINE d == [Desk EXCEPT !.batch = {}, !.retry = "none"]
    <3>1. d \in Desks
      BY <1>1 DEF Desks
    <3>2. DrainNothing(row, lateOpen, d) \/ Drain(row, lateOpen, d)
      BY <2>3, Zenon DEF BatchFailed
    <3> HIDE DEF d
    <3>3. DrainNothing(row, lateOpen, d) => Grows(row', lines')
      BY <1>1 DEF DrainNothing
    <3> QED BY <1>1, <3>1, <3>2, <3>3, DrainGrows
  <2>4. CASE RetryTimer
    <3>1. [Desk EXCEPT !.retry = "open"] \in Desks
      BY <1>1 DEF Desks
    <3> QED BY <1>1, <2>4, <3>1, DrainGrows DEF RetryTimer
  <2>5. CASE WatchTimer
    <3>1. [Desk EXCEPT !.watch = FALSE] \in Desks
      BY <1>1 DEF Desks
    <3> QED BY <1>1, <2>5, <3>1, DrainGrows DEF WatchTimer
  <2>6. CASE OtherDrain
    BY <1>1, <2>6, DrainGrows DEF OtherDrain
  <2> QED BY <2>1, <2>2, <2>3, <2>4, <2>5, <2>6
<1> QED BY <1>1, <1>2, <1>3, KeepsWords

(* A late answer, whichever it is, keeps every row's words.                 *)
LEMMA ReleaseGrows ==
    ASSUME LedgerOK, SafeLedger(row, lines), NEW L \in [Sends -> Row], Grows(L, lines),
           NEW l \in LateCall
    PROVE  Release(L, l) \in [Sends -> Row] /\ Grows(Release(L, l), lines)
<1>1. Release(L, l) = L \/ Release(L, l) = [L EXCEPT ![l.s] = Scrubbed(L[l.s])]
  BY DEF Release
<1>2. /\ l.s \in Sends /\ L[l.s] \in Row /\ lines[l.s] \in Nat
      /\ Safe(L[l.s], lines[l.s], l.s \in acked, l.s \in dismissed)
  BY DEF LateCall, LedgerOK, Grows
<1>3. /\ Scrubbed(L[l.s]) \in Row /\ Scrubbed(L[l.s]).st = L[l.s].st
      /\ Safe(Scrubbed(L[l.s]), lines[l.s], l.s \in acked, l.s \in dismissed)
  <2>1. Scrubbed(L[l.s]) \in Row
    BY <1>2, RowOps DEF Status
  <2> QED BY <1>2, <2>1, SafeScrubbed, StatusOps
<1>4. \A M : M = [L EXCEPT ![l.s] = Scrubbed(L[l.s])] => M \in [Sends -> Row] /\ Grows(M, lines)
  BY <1>2, <1>3 DEF Grows
<1> QED BY <1>1, <1>4

(* A late answer that settles a row finds its line.                         *)
LEMMA LateSettledGrows ==
    ASSUME LedgerOK, SafeLedger(row, lines), NEW l \in LateCall, l.line => lines[l.s] > 0,
           NEW st \in {"delivered", "failed"}, LateSettled(l, st)
    PROVE  Grows(row', lines')
<1>1. /\ l.s \in Sends /\ row[l.s] \in Row /\ lines[l.s] \in Nat /\ lines' = lines
      /\ row \in [Sends -> Row] /\ Grows(row, lines)
  BY SameGrows DEF LateCall, LedgerOK, LateSettled
<1> DEFINE L == [row EXCEPT ![l.s] = Settled(row[l.s], st, TRUE)]
<1>2. ASSUME l.line PROVE L \in [Sends -> Row] /\ Grows(L, lines)
  <2>1. Settled(row[l.s], st, TRUE) \in Row
    BY <1>1, RowOps DEF Status
  <2>2. Settled(row[l.s], st, TRUE).st # "none"
    BY <1>1 DEF Settled, Row
  <2>3. Safe(Settled(row[l.s], st, TRUE), lines[l.s], l.s \in acked, l.s \in dismissed)
    <3>1. st = "delivered" \/ st = "failed"
      OBVIOUS
    <3> QED BY <1>1, <1>2, <3>1, SafeLined
  <2> QED BY <1>1, <2>1, <2>2, <2>3, RowGrows
<1>3. row' = Release(row, l) \/ (l.line /\ row' = Release(L, l))
  BY DEF LateSettled
<1> HIDE DEF L
<1> QED BY <1>1, <1>2, <1>3, ReleaseGrows

(* reconcileLateSteer, for each late answer.                                *)
LEMMA LateAnswerWords ==
    ASSUME TypeInv, WordsInv, TypeInv', NEW l \in late, LateAnswer(l)
    PROVE  WordsInv'
<1>1. /\ l \in LateCall /\ l.s \in Sends /\ row[l.s] \in Row /\ lines[l.s] \in Nat
      /\ LedgerOK /\ RestOK /\ SafeLedger(row, lines) /\ lines' \in [Sends -> Nat]
      /\ row \in [Sends -> Row] /\ Grows(row, lines)
      /\ (l.line => lines[l.s] > 0)
  BY SameGrows DEF TypeInv, RestOK, LateCall, LedgerOK, WordsInv
<1>2. /\ late' \subseteq late /\ UNCHANGED <<chain, pc, backup, acked, dismissed>>
      /\ server' = "up"
  BY DEF LateAnswer, Up, admissionVars, bootVars
<1>3. Grows(row', lines')
  <2>1. CASE LateDelivered(l)
    BY <1>1, <2>1, LateSettledGrows DEF LateDelivered
  <2>2. CASE LateRejected(l)
    <3>1. lateOpen \ {l.q} \in SUBSET Nat /\ Desk \in Desks
      BY <1>1, DeskType DEF LedgerOK
    <3> DEFINE L == [row EXCEPT ![l.s] = QueuedFromLine(row[l.s])]
    <3>2. ASSUME l.line PROVE L \in [Sends -> Row] /\ Grows(L, lines)
      <4>1. QueuedFromLine(row[l.s]) \in Row /\ QueuedFromLine(row[l.s]).st # "none"
        <5>1. QueuedFromLine(row[l.s]) \in Row
          BY <1>1, RowOps DEF Status
        <5> QED BY <1>1, <5>1, StatusOps
      <4>2. Safe(QueuedFromLine(row[l.s]), lines[l.s], l.s \in acked, l.s \in dismissed)
        BY <1>1, <3>2, SafeLined
      <4> QED BY <1>1, <4>1, <4>2, RowGrows
    <3>3. \/ DrainNothing(Release(row, l), lateOpen \ {l.q}, Desk)
          \/ LateSettled(l, "failed")
          \/ l.line /\ Drain(L, lateOpen \ {l.q}, Desk)
          \/ row' = Release(row, l) /\ lines' = lines
      BY <2>2, Zenon DEF LateRejected
    <3> HIDE DEF L
    <3>4. Grows(Release(row, l), lines)
      BY <1>1, ReleaseGrows
    <3>5. DrainNothing(Release(row, l), lateOpen \ {l.q}, Desk) => Grows(row', lines')
      BY <3>4 DEF DrainNothing
    <3>6. LateSettled(l, "failed") => Grows(row', lines')
      BY <1>1, LateSettledGrows
    <3>7. l.line /\ Drain(L, lateOpen \ {l.q}, Desk) => Grows(row', lines')
      BY <1>1, <3>1, <3>2, DrainGrows
    <3> QED BY <3>3, <3>4, <3>5, <3>6, <3>7
  <2>3. CASE LateUncertain(l)
    BY <1>1, <2>3 DEF LateUncertain, drainVars
  <2> QED BY <2>1, <2>2, <2>3 DEF LateAnswer
<1> QED BY <1>1, <1>2, <1>3, KeepsWords

(* The turn's and the room's steps keep every row's words.                  *)
LEMMA WorldWords == TypeInv /\ WordsInv /\ TypeInv' /\ World => WordsInv'
<1> SUFFICES ASSUME TypeInv, WordsInv, TypeInv', World PROVE WordsInv'
  OBVIOUS
<1>1. /\ row \in [Sends -> Row] /\ lateOpen \in SUBSET Nat /\ Desk \in Desks
      /\ LedgerOK /\ RestOK /\ lines' \in [Sends -> Nat] /\ Grows(row, lines)
  BY DeskType, SameGrows DEF TypeInv, LedgerOK, WordsInv
<1>2. Grows(row', lines')
  <2>1. CASE OtherTurnStarts \/ RoomTurnStarts \/ TargetMoves \/ EngineGetsTurn
    BY <1>1, <2>1 DEF OtherTurnStarts, RoomTurnStarts, TargetMoves, EngineGetsTurn, ledgerVars,
       drainVars
  <2>2. CASE TurnCompleted \/ TurnReleased \/ RoomTurnEnds
    BY <1>1, <2>2, DrainGrows DEF TurnCompleted, TurnReleased, RoomTurnEnds
  <2> QED BY <2>1, <2>2 DEF World
<1>3. TurnFrame /\ server = "up"
  BY DEF World, OtherTurnStarts, EngineGetsTurn, TurnCompleted, TurnReleased,
     RoomTurnStarts, RoomTurnEnds, TargetMoves, Up
<1> QED BY <1>1, <1>2, <1>3, KeepsWords DEF TurnFrame, admissionVars, bootVars
-----------------------------------------------------------------------------
(* Startup keeps every row's words.                                         *)
LEMMA RecoveredSafe ==
    ASSUME NEW r \in Row, NEW n \in Nat, NEW a, NEW d, Safe(r, n, a, d),
           NEW L \in [Sends -> Row], NEW s \in Sends, L[s] = r
    PROVE  /\ Safe(Recovered(L)[s], n, a, d)
           /\ r.st # "none" => Recovered(L)[s].st # "none"
<1>1. \/ r.words /\ r.st # "none" /\ Recovered(L)[s] = [r EXCEPT !.st = "refused", !.ex = FALSE]
      \/ r.st # "none" /\ Recovered(L)[s] = [r EXCEPT !.st = "queued"]
      \/ Recovered(L)[s] = r
  BY DEF Recovered, Undecided
<1> QED BY <1>1 DEF Safe, Row

(* Recovery at start-up classifies rows by marker and line.                 *)
LEMMA RecoverWords == TypeInv /\ WordsInv /\ TypeInv' /\ Recover => WordsInv'
<1> SUFFICES ASSUME TypeInv, WordsInv, TypeInv', Recover PROVE WordsInv'
  OBVIOUS
<1>1. /\ row \in [Sends -> Row] /\ lines \in [Sends -> Nat] /\ lines' = lines
      /\ SafeLedger(row, lines) /\ LedgerOK /\ (row' = Recovered(row) \/ row' = row)
      /\ UNCHANGED <<chain, pc, late, backup, acked, dismissed>> /\ server' = "recovering"
  BY DEF Recover, BootFrame, TypeInv, LedgerOK, WordsInv, admissionVars, historyVars
<1>2. \A s \in Sends : /\ row[s] \in Row /\ lines[s] \in Nat
                       /\ Safe(row[s], lines[s], s \in acked, s \in dismissed)
  BY <1>1 DEF SafeLedger
<1>3. \A s \in Sends : /\ Safe(Recovered(row)[s], lines[s], s \in acked, s \in dismissed)
                       /\ row[s].st # "none" => Recovered(row)[s].st # "none"
  BY <1>1, <1>2, RecoveredSafe
<1>4. Grows(row', lines')
  BY <1>1, <1>2, <1>3 DEF Grows
<1> QED BY <1>1, <1>4, KeepsWords

(* The end of start-up.                                                     *)
LEMMA ReadyWords == TypeInv /\ WordsInv /\ TypeInv' /\ Ready => WordsInv'
<1> SUFFICES ASSUME TypeInv, WordsInv, TypeInv', Ready PROVE WordsInv'
  OBVIOUS
<1>1. /\ row \in [Sends -> Row] /\ lateOpen \in SUBSET Nat /\ Desk \in Desks
      /\ LedgerOK /\ lines' \in [Sends -> Nat] /\ Grows(row, lines)
  BY DeskType, SameGrows DEF TypeInv, LedgerOK, WordsInv
<1>2. /\ UNCHANGED <<chain, pc, late, backup, acked, dismissed>> /\ server' = "up"
      /\ Drain(row, lateOpen, Desk)
  BY DEF Ready, BootFrame, admissionVars, historyVars
<1>3. Grows(row', lines')
  BY <1>1, <1>2, DrainGrows
<1> QED BY <1>1, <1>2, <1>3, KeepsWords

(* completeUnresolved finishes one row in doubt.                            *)
LEMMA CompleteOneWords ==
    ASSUME TypeInv, WordsInv, TypeInv', NEW s \in Sends, CompleteOne(s)
    PROVE  WordsInv'
<1>1. /\ row \in [Sends -> Row] /\ lines \in [Sends -> Nat] /\ lines' \in [Sends -> Nat]
      /\ row[s] \in Row /\ lines[s] \in Nat /\ SafeLedger(row, lines) /\ LedgerOK
      /\ Safe(row[s], lines[s], s \in acked, s \in dismissed)
      /\ UNCHANGED <<chain, pc, late, backup, acked, dismissed>> /\ server' = "recovering"
  BY DEF CompleteOne, BootFrame, TypeInv, LedgerOK, WordsInv, SafeLedger, admissionVars, historyVars
<1> DEFINE unsure == Scrubbed(Settled(row[s], "unconfirmed", TRUE))
<1>2. \/ row' = row /\ lines' = lines
      \/ /\ lines' = lines /\ lines[s] > 0 /\ row[s].st = "dispatched"
         /\ row' = [row EXCEPT ![s] = Settled(row[s], "started", TRUE)]
      \/ /\ lines' = lines
         /\ row' = [row EXCEPT ![s] = Scrubbed(row[s])]
      \/ /\ row' = [row EXCEPT ![s] = unsure]
         /\ lines' = [lines EXCEPT ![s] = @ + 1]
  BY Zenon DEF CompleteOne, SetRow, ledgerVars
<1>3. CASE row' = row /\ lines' = lines
  BY <1>1, <1>3, SameGrows, KeepsWords
<1>4. CASE /\ lines' = lines /\ lines[s] > 0
           /\ row' = [row EXCEPT ![s] = Settled(row[s], "started", TRUE)]
  <2>1. Settled(row[s], "started", TRUE) \in Row
    BY <1>1, RowOps DEF Status
  <2>2. Settled(row[s], "started", TRUE).st # "none"
    BY <1>1 DEF Settled, Row
  <2>3. Safe(Settled(row[s], "started", TRUE), lines[s], s \in acked, s \in dismissed)
    BY <1>1, <1>4, SafeLined
  <2>4. Grows(row', lines')
    BY <1>1, <1>4, <2>1, <2>2, <2>3, RowGrows
  <2> QED BY <1>1, <2>4, KeepsWords
<1>5. CASE lines' = lines /\ row' = [row EXCEPT ![s] = Scrubbed(row[s])]
  <2>1. Scrubbed(row[s]).st = row[s].st
    BY <1>1, StatusOps
  <2>2. Safe(Scrubbed(row[s]), lines[s], s \in acked, s \in dismissed)
    BY <1>1, SafeScrubbed
  <2>3. \A t \in Sends : row'[t] = (IF t = s THEN Scrubbed(row[s]) ELSE row[t])
    BY <1>1, <1>5
  <2>4. Grows(row', lines')
    BY <1>1, <1>5, <2>1, <2>2, <2>3 DEF Grows, SafeLedger
  <2> QED BY <1>1, <2>4, KeepsWords
<1>6. CASE row' = [row EXCEPT ![s] = unsure] /\ lines' = [lines EXCEPT ![s] = @ + 1]
  <2>1. unsure.st # "none"
    <3>1. Settled(row[s], "unconfirmed", TRUE) \in Row
      BY <1>1, RowOps DEF Status
    <3>2. Settled(row[s], "unconfirmed", TRUE).st = "unconfirmed"
      BY <1>1 DEF Settled, Row
    <3> QED BY <3>1, <3>2, StatusOps
  <2>2. lines'[s] \in Nat /\ lines'[s] > 0 /\ lines'[s] >= lines[s]
    BY <1>1, <1>6
  <2>3. Safe(unsure, lines'[s], s \in acked, s \in dismissed)
    BY <2>2, SafeLined
  <2> HIDE DEF unsure
  <2>4. \A t \in Sends : /\ row'[t] = (IF t = s THEN unsure ELSE row[t])
                         /\ t # s => lines'[t] = lines[t]
                         /\ lines[t] \in Nat
    BY <1>1, <1>6
  <2>5. Grows(row', lines')
    <3> SUFFICES ASSUME NEW t \in Sends
                 PROVE  /\ Safe(row'[t], lines'[t], t \in acked, t \in dismissed)
                        /\ row[t].st # "none" => row'[t].st # "none"
                        /\ lines'[t] >= lines[t]
      BY DEF Grows
    <3>1. CASE t = s
      BY <2>1, <2>2, <2>3, <2>4, <3>1
    <3>2. CASE t # s
      BY <1>1, <2>4, <3>2 DEF SafeLedger
    <3> QED BY <3>1, <3>2
  <2> QED BY <1>1, <2>5, KeepsWords
<1> QED BY <1>2, <1>3, <1>4, <1>5, <1>6

(* A crash, pruning and a backup keep every row's words.                    *)
LEMMA CrashWords == TypeInv /\ WordsInv /\ Crash => WordsInv'
BY DEF Crash, WordsInv, SafeLedger, ledgerVars

(* Only a row whose words are in a line, or dismissed, is dropped.          *)
LEMMA PruneWords ==
    ASSUME TypeInv, WordsInv, NEW s \in Sends, Prune(s)
    PROVE  WordsInv'
<1>1. /\ row \in [Sends -> Row] /\ row' = [row EXCEPT ![s] = NoRow] /\ Prunable(row[s])
      /\ ~InChain(s) /\ chain \in Seq(Job)
      /\ UNCHANGED <<lines, chain, pc, late, server, backup, acked, dismissed>> /\ server = "up"
  BY DEF Prune, SetRow, TypeInv, LedgerOK, AdmissionOK, admissionVars, bootVars, historyVars, Up
<1>2. Safe(NoRow, lines[s], s \in acked, s \in dismissed)
  <2>1. Safe(row[s], lines[s], s \in acked, s \in dismissed)
    BY DEF WordsInv, SafeLedger
  <2> QED BY <1>1, <2>1 DEF Prunable, Safe, NoRow
<1>3. \A t \in Sends : row'[t] = (IF t = s THEN NoRow ELSE row[t])
  BY <1>1
<1>4. SafeLedger(row, lines)'
  BY <1>1, <1>2, <1>3 DEF WordsInv, SafeLedger
<1>5. \A i \in DOMAIN chain' : row'[chain'[i].s].st # "none"
  <2>1. \A i \in DOMAIN chain : chain[i].s \in Sends /\ chain[i].s # s
    <3>1. \A i \in DOMAIN chain : chain[i] \in Job
      BY <1>1
    <3> QED BY <1>1, <3>1 DEF Job, InChain
  <2> QED BY <1>1, <1>3, <2>1 DEF WordsInv
<1> QED BY <1>1, <1>4, <1>5 DEF WordsInv

(* The snapshot is as safe as the database.                                 *)
LEMMA BackupWords == TypeInv /\ WordsInv /\ TakeBackup => WordsInv'
BY DEF TakeBackup, WordsInv, SafeLedger, ledgerVars, admissionVars, bootVars, historyVars

(* A restore brings back a safe ledger.                                     *)
LEMMA RestoreWords == TypeInv /\ WordsInv /\ Restore => WordsInv'
<1> SUFFICES ASSUME TypeInv, WordsInv, Restore PROVE WordsInv'
  OBVIOUS
<1>1. /\ backup \in Snapshot /\ server = "down" /\ chain' = <<>> /\ pc' = "idle" /\ late' = {}
      /\ backup' = NoBackup
      /\ \A s \in Sends : Safe(backup.row[s], backup.lines[s],
                               s \in backup.acked, s \in backup.dismissed)
  BY DEF Restore, TypeInv, RestOK, WordsInv, admissionVars
<1>2. backup.row \in [Sends -> Row] /\ backup.lines \in [Sends -> Nat]
  BY <1>1 DEF Snapshot
<1>3. /\ row' = Neutralized(backup.row, tokens.gen + 1) /\ lines' = backup.lines
      /\ acked' = backup.acked /\ dismissed' = backup.dismissed
  BY DEF Restore
<1>4. SafeLedger(row, lines)'
  <2> SUFFICES ASSUME NEW s \in Sends
               PROVE  Safe(row'[s], lines'[s], s \in acked', s \in dismissed')
    BY DEF SafeLedger
  <2> DEFINE n == Neutral(backup.row[s])
  <2>1. backup.row[s] \in Row /\ backup.lines[s] \in Nat
    BY <1>2
  <2>2. n \in Row
    BY <2>1, RowOps DEF Status
  <2>3. Safe(n, backup.lines[s], s \in backup.acked, s \in backup.dismissed)
    BY <1>1, <2>1, SafeNeutral
  <2>4. row'[s] = n \/ row'[s] = [n EXCEPT !.gen = tokens.gen + 1]
    BY <1>3 DEF Neutralized
  <2> HIDE DEF n
  <2> QED BY <1>3, <2>2, <2>3, <2>4 DEF Safe, Row
<1> QED BY <1>1, <1>4 DEF WordsInv
-----------------------------------------------------------------------------
(* WordsInv holds at first, is kept by every step, and is what WordsKept    *)
(* says of the accepted sends.                                              *)
LEMMA WordsInit == Init => WordsInv
<1> SUFFICES ASSUME Init PROVE WordsInv
  OBVIOUS
<1>1. SafeLedger(row, lines)
  BY DEF Init, SafeLedger, Safe, NoRow
<1> QED BY <1>1 DEF Init, WordsInv

(* Every handler preserves the invariant.                                   *)
LEMMA WordsStep == TypeInv /\ WordsInv /\ TypeInv' /\ [Next]_vars => WordsInv'
<1> SUFFICES ASSUME TypeInv, WordsInv, TypeInv', [Next]_vars PROVE WordsInv'
  OBVIOUS
<1>1. CASE Client
  BY <1>1, PressWords, CancelWords, AcceptWords, AcceptAgainWords, AcceptTypedStopWords, StopWords
     DEF Client, FirstSend, SendAgain
<1>2. CASE Admission
  BY <1>2, DecideWords, SteerAnsweredWords, RunWords DEF Admission
<1>3. CASE Queue
  BY <1>3, QueueStepsWords, LateAnswerWords DEF Queue
<1>4. CASE World
  BY <1>4, WorldWords
<1>5. CASE Lifecycle
  BY <1>5, CrashWords, RecoverWords, ReadyWords, BackupWords, RestoreWords, CompleteOneWords,
     PruneWords DEF Lifecycle
<1>6. CASE UNCHANGED vars
  BY <1>6 DEF vars, WordsInv, SafeLedger
<1> QED BY <1>1, <1>2, <1>3, <1>4, <1>5, <1>6 DEF Next

(* The invariant gives the property.                                        *)
LEMMA WordsSuffice == TypeInv /\ WordsInv => WordsKept
BY DEF TypeInv, RestOK, WordsInv, WordsKept, SafeLedger, Safe

(* No accepted send's words are ever lost: however many sends, crashes,     *)
(* failed writes, late answers and restores there are, they are in the row  *)
(* or in a transcript line until the owner drops them.                      *)
THEOREM NoWordsLost == Spec => []WordsKept
<1>1. Init => TypeInv /\ WordsInv
  BY TypeInit, WordsInit
<1>2. (TypeInv /\ WordsInv) /\ [Next]_vars => (TypeInv /\ WordsInv)'
  BY TypeStep, WordsStep
<1>3. TypeInv /\ WordsInv => WordsKept
  BY WordsSuffice
<1> QED BY <1>1, <1>2, <1>3, PTL DEF Spec
=============================================================================
