---------------------------- MODULE OwnerFlowProofs ----------------------------
(***************************************************************************)
(* Theorems about what OwnerSends starts: one start at a time, in order,   *)
(* and one line per send, for every set of sends and every bound.          *)
(***************************************************************************)
EXTENDS OwnerSendsProofs

(* A row: nothing, or a numbered one.  A row that adopts a line or has      *)
(* started has its line; one that decides has none; one that waits has none *)
(* or adopts it.                                                            *)
Shape(r) ==
    /\ IF r.st = "none" THEN r = NoRow ELSE r.seq > 0
    /\ r.ex \/ r.st = "started" => r.line
    /\ r.st = "sending" => ~r.line /\ ~r.disp /\ r.words
    /\ r.st = "queued" => ~r.disp /\ (r.line => r.ex)

Shaped(L) ==
    /\ \A s \in Sends : Shape(L[s])
    /\ \A s, t \in Sends : s # t /\ L[s].st # "none" => L[s].seq # L[t].seq

(* The admission line C: each of its sends once, its row still deciding, or *)
(* marked once the first awaits the engine (p), and without a line.         *)
InLine(L, C, p) ==
    /\ \A i \in DOMAIN C :
          LET j == C[i] IN
          /\ L[j.s].seq = j.q /\ L[j.s].act = j.a /\ ~L[j.s].line /\ ~L[j.s].ex
          /\ L[j.s].st = IF i = 1 /\ p # "idle" THEN "dispatched" ELSE "sending"
    /\ \A i, k \in DOMAIN C : C[i].s = C[k].s => i = k

(* While the first one awaits the engine no batch starts, and nothing       *)
(* before it is open.                                                       *)
Foremost(L, open, C, p, B) ==
    p # "idle" => B = {} /\ ~BlockedByEarlier(L, open, Head(C).q)

(* An outstanding late answer whose line was written finds its row.         *)
Asked(L, T) ==
    \A l \in T : l.line => /\ L[l.s].seq = l.q /\ L[l.s].act = l.a /\ L[l.s].line
                           /\ L[l.s].st = "unconfirmed"

(* A batch being started finds its rows, and (but for the second of two     *)
(* failed writes) nothing before one of them is open that is not in it.     *)
Starting(L, open, B) ==
    /\ \A b \in B : /\ L[b.s].seq = b.q /\ L[b.s].act = b.a
                    /\ L[b.s].st = "started" \/ (L[b.s].st = "dispatched" /\ L[b.s].ex)
    /\ MaxFail <= 1 =>
         \A b \in B, t \in Sends :
            L[t].seq < b.q /\ Blocks(L[t], open) => \E c \in B : c.s = t

Flow(L, open, C, p, T, B) ==
    /\ Shaped(L) /\ InLine(L, C, p) /\ Foremost(L, open, C, p, B)
    /\ Asked(L, T) /\ Starting(L, open, B)

(* The invariant behind OneStart, OrderKept and OneLine: that of the state, *)
(* with a backup as well shaped, the words of a turn being set up, and a    *)
(* server that is not up with nothing in memory.                            *)
FlowInv ==
    /\ Flow(row, lateOpen, chain, pc, late, batch)
    /\ backup # NoBackup =>
         Shaped(backup.row) /\ \A s \in Sends : backup.lines[s] <= lines[s]
    /\ carry # {} => turn = "setup"
    /\ server # "up" => /\ chain = <<>> /\ pc = "idle" /\ late = {} /\ batch = {}
                        /\ turn = "idle" /\ carry = {}

(* What one method makes of a shaped row is shaped.                         *)
LEMMA ShapeOps ==
    ASSUME NEW r \in Row, Shape(r), r.st # "none"
    PROVE  /\ Shape(Marked(r)) /\ Shape(Refused(r)) /\ Shape(Scrubbed(r))
           /\ r.st = "sending" \/ (r.st = "dispatched" /\ ~r.line) => Shape(Queued(r))
           /\ r.line => Shape(QueuedFromLine(r)) /\ Shape(RequeuedStart(r))
           /\ \A st \in {"started", "delivered", "unconfirmed", "failed"} :
                 Shape(Settled(r, st, TRUE))
           /\ Shape(Settled(r, "unconfirmed", FALSE))
           /\ Shape(Settled(r, "cancelled", FALSE))
<1>1. Shape(Marked(r)) /\ Shape(Refused(r))
  BY DEF Shape, Row, Marked, Refused, Settled
<1>2. Shape(Scrubbed(r))
  BY DEF Shape, Row, Scrubbed
<1>3. r.st = "sending" \/ (r.st = "dispatched" /\ ~r.line) => Shape(Queued(r))
  BY DEF Shape, Row, Queued
<1>4. r.line => Shape(QueuedFromLine(r)) /\ Shape(RequeuedStart(r))
  BY DEF Shape, Row, Queued, QueuedFromLine, RequeuedStart
<1>5. ASSUME NEW st \in {"started", "delivered", "unconfirmed", "failed"}
      PROVE  Shape(Settled(r, st, TRUE))
  BY <1>5 DEF Shape, Row, Settled
<1>6. Shape(Settled(r, "unconfirmed", FALSE)) /\ Shape(Settled(r, "cancelled", FALSE))
  BY DEF Shape, Row, Settled
<1> QED BY <1>1, <1>2, <1>3, <1>4, <1>5, <1>6

(* What the methods leave of a row's number, act and line.                  *)
LEMMA SameOps ==
    ASSUME NEW r \in Row, NEW st, NEW withLine \in BOOLEAN
    PROVE  /\ Marked(r).seq = r.seq /\ Marked(r).act = r.act /\ Marked(r).line = r.line
           /\ Marked(r).ex = r.ex
           /\ Queued(r).seq = r.seq /\ Queued(r).act = r.act /\ Queued(r).line = r.line
           /\ Queued(r).ex = r.ex
           /\ Refused(r).seq = r.seq /\ Refused(r).act = r.act /\ Refused(r).line = r.line
           /\ Refused(r).ex = r.ex
           /\ Scrubbed(r).seq = r.seq /\ Scrubbed(r).act = r.act
           /\ Scrubbed(r).line = r.line /\ Scrubbed(r).ex = r.ex
           /\ QueuedFromLine(r).seq = r.seq /\ QueuedFromLine(r).act = r.act
           /\ QueuedFromLine(r).line = r.line /\ QueuedFromLine(r).ex = TRUE
           /\ RequeuedStart(r).seq = r.seq /\ RequeuedStart(r).act = r.act
           /\ Settled(r, st, withLine).st = st /\ Settled(r, st, withLine).seq = r.seq
           /\ Settled(r, st, withLine).act = r.act
           /\ Settled(r, st, withLine).line = (r.line \/ withLine)
           /\ Settled(r, st, withLine).ex = r.ex
<1>1. /\ Marked(r).seq = r.seq /\ Marked(r).act = r.act /\ Marked(r).line = r.line
      /\ Marked(r).ex = r.ex
      /\ Queued(r).seq = r.seq /\ Queued(r).act = r.act /\ Queued(r).line = r.line
      /\ Queued(r).ex = r.ex
  BY DEF Row, Marked, Queued
<1>2. /\ Refused(r).seq = r.seq /\ Refused(r).act = r.act /\ Refused(r).line = r.line
      /\ Refused(r).ex = r.ex
  BY DEF Row, Refused, Settled
<1>3. /\ Scrubbed(r).seq = r.seq /\ Scrubbed(r).act = r.act
      /\ Scrubbed(r).line = r.line /\ Scrubbed(r).ex = r.ex
  BY DEF Row, Scrubbed
<1>4. /\ QueuedFromLine(r).seq = r.seq /\ QueuedFromLine(r).act = r.act
      /\ QueuedFromLine(r).line = r.line /\ QueuedFromLine(r).ex = TRUE
      /\ RequeuedStart(r).seq = r.seq /\ RequeuedStart(r).act = r.act
  BY DEF Row, Queued, QueuedFromLine, RequeuedStart
<1>5. /\ Settled(r, st, withLine).st = st /\ Settled(r, st, withLine).seq = r.seq
      /\ Settled(r, st, withLine).act = r.act
      /\ Settled(r, st, withLine).ex = r.ex
  BY DEF Row, Settled
<1>6. Settled(r, st, withLine).line = (r.line \/ withLine)
  BY DEF Row, Settled
<1> QED BY <1>1, <1>2, <1>3, <1>4, <1>5, <1>6
-----------------------------------------------------------------------------
(* A row changed so that nothing of the line notices: its number, act and   *)
(* line stay; only what waits, or is over already, may get another status.  *)
Tamer(r, m) ==
    /\ m.seq = r.seq /\ m.act = r.act /\ m.line = r.line /\ m.ex = r.ex
    /\ Shape(m)
    /\ \/ m.st = r.st
       \/ /\ r.st \notin {"none", "sending", "dispatched", "started", "unconfirmed"}
          /\ m.st \in {"refused", "cancelled"}

(* Tame changes, and late answers that came, keep the whole flow.           *)
LEMMA FlowTamer ==
    ASSUME NEW L \in [Sends -> Row], NEW open \in SUBSET Nat, NEW C \in Seq(Job), NEW p,
           NEW T \in SUBSET LateCall, NEW B \in SUBSET Job, Flow(L, open, C, p, T, B),
           NEW M \in [Sends -> Row], NEW less \in SUBSET open, NEW U \in SUBSET T,
           p # "idle" => C # <<>>,
           \A s \in Sends : Tamer(L[s], M[s])
    PROVE  Flow(M, less, C, p, U, B)
<1>1. \A s \in Sends : Blocks(M[s], less) => Blocks(L[s], open)
  BY DEF Tamer, Blocks, InFlight
<1>2. \A s \in Sends : M[s].seq = L[s].seq
  BY DEF Tamer
<1>3. Shaped(M)
  <2>1. \A s \in Sends : Shape(M[s])
    BY DEF Tamer
  <2>2. \A s \in Sends : M[s].st # "none" => L[s].st # "none"
    BY DEF Tamer
  <2> QED BY <1>2, <2>1, <2>2 DEF Flow, Shaped
<1>4. InLine(M, C, p)
  <2>1. ASSUME NEW i \in DOMAIN C
        PROVE  /\ C[i].s \in Sends
               /\ M[C[i].s].seq = C[i].q /\ M[C[i].s].act = C[i].a
               /\ ~M[C[i].s].line /\ ~M[C[i].s].ex
               /\ M[C[i].s].st = IF i = 1 /\ p # "idle" THEN "dispatched" ELSE "sending"
    <3>1. C[i].s \in Sends
      <4>1. C[i] \in Job
        OBVIOUS
      <4> QED BY <4>1 DEF Job
    <3>2. /\ L[C[i].s].seq = C[i].q /\ L[C[i].s].act = C[i].a
          /\ ~L[C[i].s].line /\ ~L[C[i].s].ex
          /\ L[C[i].s].st = IF i = 1 /\ p # "idle" THEN "dispatched" ELSE "sending"
      BY DEF Flow, InLine
    <3>3. Tamer(L[C[i].s], M[C[i].s])
      BY <3>1
    <3>4. L[C[i].s].st \in {"sending", "dispatched"}
      BY <3>2
    <3> QED BY <3>1, <3>2, <3>3, <3>4 DEF Tamer
  <2> QED BY <2>1 DEF Flow, InLine
<1>5. Foremost(M, less, C, p, B)
  BY <1>1, <1>2 DEF Flow, Foremost, BlockedByEarlier
<1>6. Asked(M, U)
  <2>1. ASSUME NEW l \in U, l.line
        PROVE  /\ M[l.s].seq = l.q /\ M[l.s].act = l.a /\ M[l.s].line
               /\ M[l.s].st = "unconfirmed"
    <3>1. l \in T /\ l.s \in Sends
      BY DEF LateCall
    <3>2. /\ L[l.s].seq = l.q /\ L[l.s].act = l.a /\ L[l.s].line
          /\ L[l.s].st = "unconfirmed"
      BY <2>1, <3>1 DEF Flow, Asked
    <3>3. Tamer(L[l.s], M[l.s])
      BY <3>1
    <3> QED BY <3>2, <3>3 DEF Tamer
  <2> QED BY <2>1 DEF Asked
<1>7. Starting(M, less, B)
  <2>1. ASSUME NEW b \in B
        PROVE  /\ M[b.s].seq = b.q /\ M[b.s].act = b.a
               /\ M[b.s].st = "started" \/ (M[b.s].st = "dispatched" /\ M[b.s].ex)
    <3>1. b.s \in Sends
      BY DEF Job
    <3>2. /\ L[b.s].seq = b.q /\ L[b.s].act = b.a
          /\ L[b.s].st = "started" \/ (L[b.s].st = "dispatched" /\ L[b.s].ex)
      BY DEF Flow, Starting
    <3>3. Tamer(L[b.s], M[b.s])
      BY <3>1
    <3> QED BY <3>2, <3>3 DEF Tamer
  <2>2. ASSUME MaxFail <= 1, NEW b \in B, NEW t \in Sends,
               M[t].seq < b.q, Blocks(M[t], less)
        PROVE  \E c \in B : c.s = t
    BY <1>1, <1>2, <2>2 DEF Flow, Starting
  <2> QED BY <2>1, <2>2 DEF Starting
<1> QED BY <1>3, <1>4, <1>5, <1>6, <1>7 DEF Flow

(* A row left alone, scrubbed, refused or cancelled while it waits or shows *)
(* as a chip, or marked by a Stop: all tame.                                *)
LEMMA TameOps ==
    ASSUME NEW r \in Row, Shape(r)
    PROVE  /\ Tamer(r, r) /\ Tamer(r, Scrubbed(r))
           /\ r.st = "queued" => Tamer(r, Refused(r))
           /\ Cancellable(r) => Tamer(r, Settled(r, "cancelled", FALSE))
           /\ \A k \in Nat : r.st \in Undecided =>
                 Tamer(r, [r EXCEPT !.stopped = TRUE, !.tok = k])
<1>1. Tamer(r, r)
  BY DEF Tamer
<1>2. Tamer(r, Scrubbed(r))
  <2>1. CASE r.st = "unconfirmed" /\ r.line
    BY <2>1, SameOps, StatusOps, ShapeOps DEF Tamer
  <2>2. CASE ~(r.st = "unconfirmed" /\ r.line)
    BY <1>1, <2>2 DEF Scrubbed
  <2> QED BY <2>1, <2>2
<1>3. r.st = "queued" => Tamer(r, Refused(r))
  BY SameOps, StatusOps, ShapeOps DEF Tamer
<1>4. Cancellable(r) => Tamer(r, Settled(r, "cancelled", FALSE))
  <2> SUFFICES ASSUME Cancellable(r) PROVE Tamer(r, Settled(r, "cancelled", FALSE))
    OBVIOUS
  <2>1. r.st \in {"queued", "refused", "failed"}
    BY DEF Cancellable, Chip
  <2>2. Settled(r, "cancelled", FALSE).line = r.line
    BY DEF Settled, Row
  <2>3. /\ Settled(r, "cancelled", FALSE).st = "cancelled"
        /\ Settled(r, "cancelled", FALSE).seq = r.seq
        /\ Settled(r, "cancelled", FALSE).act = r.act
        /\ Settled(r, "cancelled", FALSE).ex = r.ex
    BY DEF Settled, Row
  <2>4. Shape(Settled(r, "cancelled", FALSE))
    BY <2>1, ShapeOps
  <2> QED BY <2>1, <2>2, <2>3, <2>4 DEF Tamer
<1>5. \A k \in Nat : r.st \in Undecided =>
         Tamer(r, [r EXCEPT !.stopped = TRUE, !.tok = k])
  BY DEF Tamer, Shape, Row, Undecided
<1> QED BY <1>1, <1>2, <1>3, <1>4, <1>5

(* The types of what a drain finds.                                         *)
Found(L, open, C, p, T) ==
    /\ L \in [Sends -> Row] /\ open \in SUBSET Nat
    /\ C \in Seq(Job) /\ (p # "idle" => C # <<>>) /\ T \in SUBSET LateCall

(* The row of the head while it awaits the engine bars all that waits.      *)
LEMMA HeadBars ==
    ASSUME NEW L, NEW C, NEW p, NEW T, NEW B, Found(L, {}, C, p, T),
           Flow(L, {}, C, p, T, B), p # "idle"
    PROVE  Drainable(L, {}) = {}
<1>1. C # <<>> /\ Head(C) = C[1] /\ 1 \in DOMAIN C /\ C[1] \in Job
  BY DEF Found
<1>2. C[1].s \in Sends /\ C[1].q \in Nat
  BY <1>1 DEF Job
<1>3. L[C[1].s].st = "dispatched" /\ L[C[1].s].seq = C[1].q
  BY <1>1 DEF Flow, InLine
<1>4. SUFFICES ASSUME NEW s \in Drainable(L, {}) PROVE FALSE
  OBVIOUS
<1>5. /\ s \in Sends /\ L[s].st = "queued" /\ L[s].seq \in Nat
      /\ \A t \in Sends : L[t].seq < L[s].seq /\ Blocks(L[t], {}) => L[t].st = "queued"
  BY DEF Drainable, Found, Row
<1>6. Blocks(L[C[1].s], {}) /\ Blocks(L[s], {})
  BY <1>3, <1>5 DEF Blocks, InFlight
<1>7. ~(C[1].q < L[s].seq)
  BY <1>2, <1>3, <1>5, <1>6
<1>8. C[1].q # L[s].seq
  BY <1>2, <1>3, <1>5 DEF Flow, Shaped
<1>9. L[s].seq < C[1].q
  BY <1>2, <1>5, <1>7, <1>8
<1>10. ~BlockedByEarlier(L, {}, C[1].q)
  BY <1>1 DEF Flow, Foremost
<1> QED BY <1>5, <1>6, <1>9, <1>10 DEF BlockedByEarlier

(* What DrainStarts makes of the ledger L: the via rows passed over, the    *)
(* rows of the batch D and what became of each, and those that start.       *)
Drained(L, D, passed, fate) ==
    LET B == DrainBatch(L, D \ passed)
        runs == {s \in B : fate[s] = "ok" \/ L[s].ex}
    IN  /\ passed \subseteq D
        /\ \A v \in passed, t \in D : L[t].seq < L[v].seq => t \in passed
        /\ fate \in [B -> {"ok", "refused", "stuck"}]
        /\ \A s \in B : fate[s] = "refused" => ~L[s].ex
        /\ MaxFail <= 1 => \A s \in B : fate[s] = "stuck" => L[s].ex
        /\ row' = [s \in Sends |->
                     IF s \in passed THEN Refused(Marked(L[s]))
                     ELSE IF s \in B THEN DrainedRow(L[s], fate[s]) ELSE L[s]]
        /\ lines' = [s \in Sends |-> lines[s] +
                       IF s \in runs /\ ~L[s].ex THEN 1 ELSE 0]
        /\ batch' = {[s |-> s, q |-> L[s].seq, a |-> L[s].act] : s \in runs}

(* A drain that starts rows does that; with one failing write at most, it   *)
(* leaves no row marked that is not in the start.                           *)
LEMMA DrainIsDrained ==
    ASSUME LedgerOK, NEW L \in [Sends -> Row], NEW d, DrainStarts(L, d)
    PROVE  \E passed, fate : Drained(L, Drainable(L, {}), passed, fate)
<1> DEFINE D == Drainable(L, {})
<1>1. PICK passed \in SUBSET (D \cap Via) :
        LET B == DrainBatch(L, D \ passed)
        IN  /\ \A v \in passed, t \in D : L[t].seq < L[v].seq => t \in passed
            /\ \E fate \in [B -> {"ok", "refused", "stuck"}] :
                LET failed == {s \in B : fate[s] # "ok"}
                    runs == {s \in B : fate[s] = "ok" \/ L[s].ex}
                    twice == {s \in B : fate[s] = "stuck" /\ ~L[s].ex}
                IN  /\ \A s \in failed : fate[s] = "refused" => ~L[s].ex /\ s \notin Via
                    /\ Fails(Cardinality(failed) + Cardinality(twice) + Cardinality(passed))
                    /\ row' = [s \in Sends |->
                                 IF s \in passed THEN Refused(Marked(L[s]))
                                 ELSE IF s \in B THEN DrainedRow(L[s], fate[s]) ELSE L[s]]
                    /\ lines' = [s \in Sends |-> lines[s] +
                                   IF s \in runs /\ ~L[s].ex THEN 1 ELSE 0]
                    /\ batch' = {[s |-> s, q |-> L[s].seq, a |-> L[s].act] : s \in runs}
  BY Zenon DEF DrainStarts
<1> DEFINE B == DrainBatch(L, D \ passed)
           failed(f) == {s \in B : f[s] # "ok"}
           runs(f) == {s \in B : f[s] = "ok" \/ L[s].ex}
           twice(f) == {s \in B : f[s] = "stuck" /\ ~L[s].ex}
<1>2. PICK fate \in [B -> {"ok", "refused", "stuck"}] :
        /\ \A s \in failed(fate) : fate[s] = "refused" => ~L[s].ex /\ s \notin Via
        /\ Fails(Cardinality(failed(fate)) + Cardinality(twice(fate)) + Cardinality(passed))
        /\ row' = [s \in Sends |->
                     IF s \in passed THEN Refused(Marked(L[s]))
                     ELSE IF s \in B THEN DrainedRow(L[s], fate[s]) ELSE L[s]]
        /\ lines' = [s \in Sends |-> lines[s] +
                       IF s \in runs(fate) /\ ~L[s].ex THEN 1 ELSE 0]
        /\ batch' = {[s |-> s, q |-> L[s].seq, a |-> L[s].act] : s \in runs(fate)}
  BY <1>1, Zenon
<1>3. /\ passed \subseteq D
      /\ \A v \in passed, t \in D : L[t].seq < L[v].seq => t \in passed
  BY <1>1, Zenon
<1>4. \A s \in B : fate[s] = "refused" => ~L[s].ex
  BY <1>2
<1>5. ASSUME MaxFail <= 1, NEW b \in B, fate[b] = "stuck" PROVE L[b].ex
  <2>1. SUFFICES ASSUME ~L[b].ex PROVE FALSE
    OBVIOUS
  <2>2. b \in failed(fate) /\ b \in twice(fate)
    BY <1>5, <2>1
  <2>3. failed(fate) \in SUBSET Sends /\ twice(fate) \in SUBSET Sends /\ passed \in SUBSET Sends
    BY DEF DrainBatch, Drainable
  <2> DEFINE x == Cardinality(failed(fate))
             y == Cardinality(twice(fate))
             z == Cardinality(passed)
  <2>4. x + y + z + spent.fail <= MaxFail
    <3>1. spent["fail"] + (x + y + z) <= MaxFail
      BY <1>2 DEF Fails, Spend
    <3>2. x \in Nat /\ y \in Nat /\ z \in Nat
      BY <2>3, Counted
    <3>3. spent["fail"] = spent.fail /\ spent.fail \in Nat
      BY DEF LedgerOK
    <3> HIDE DEF x, y, z
    <3> QED BY <3>1, <3>2, <3>3, BoundsAssumption
  <2>5. x \in Nat /\ y \in Nat /\ z \in Nat
    BY <2>3, Counted
  <2>6. x # 0 /\ y # 0
    <3>1. IsFiniteSet(failed(fate)) /\ IsFiniteSet(twice(fate))
      BY <2>3, SendsAssumption, FS_Subset
    <3> HIDE DEF failed, twice
    <3> QED BY <2>2, <3>1, FS_EmptySet
  <2>7. spent.fail \in Nat /\ MaxFail \in Nat
    BY BoundsAssumption DEF LedgerOK
  <2> HIDE DEF x, y, z
  <2> QED BY <1>5, <2>4, <2>5, <2>6, <2>7
<1>6. Drained(L, D, passed, fate)
  <2> DEFINE R == runs(fate)
  <2>1. R = {s \in B : fate[s] = "ok" \/ L[s].ex}
    OBVIOUS
  <2> QED BY <1>2, <1>3, <1>4, <1>5, Zenon DEF Drained
<1> QED BY <1>6

(* A row of L after such a drain.                                           *)
LEMMA DrainedRows ==
    ASSUME NEW L \in [Sends -> Row], NEW D \in SUBSET Sends,
           \A s \in D : L[s].st = "queued",
           NEW passed, NEW fate, Drained(L, D, passed, fate), NEW s \in Sends
    PROVE  /\ row'[s] \in Row
           /\ \/ row'[s] = L[s]
              \/ /\ L[s].st = "queued"
                 /\ row'[s] \in {Refused(Marked(L[s])), Marked(L[s]),
                                 Settled(Marked(L[s]), "started", TRUE)}
<1> DEFINE B == DrainBatch(L, D \ passed)
<1>1. /\ passed \subseteq D
      /\ fate \in [B -> {"ok", "refused", "stuck"}]
      /\ row' = [x \in Sends |->
                   IF x \in passed THEN Refused(Marked(L[x]))
                   ELSE IF x \in B THEN DrainedRow(L[x], fate[x]) ELSE L[x]]
  BY Zenon DEF Drained
<1>2. B \subseteq D
  BY DEF DrainBatch
<1> HIDE DEF B
<1>3. CASE s \in passed
  <2>1. L[s].st = "queued" /\ row'[s] = Refused(Marked(L[s]))
    BY <1>1, <1>3
  <2> QED BY <2>1, RowOps DEF Status
<1>4. CASE s \notin passed /\ s \in B
  <2>1. L[s].st = "queued" /\ row'[s] = DrainedRow(L[s], fate[s])
    BY <1>1, <1>2, <1>4
  <2>2. fate[s] \in {"ok", "refused", "stuck"}
    BY <1>1, <1>4
  <2>3. row'[s] \in {Refused(Marked(L[s])), Marked(L[s]),
                     Settled(Marked(L[s]), "started", TRUE)}
    BY <2>1, <2>2 DEF DrainedRow
  <2>4. Marked(L[s]) \in Row
    BY RowOps DEF Status
  <2>5. /\ Refused(Marked(L[s])) \in Row
        /\ Settled(Marked(L[s]), "started", TRUE) \in Row
    BY <2>4, RowOps DEF Status
  <2> QED BY <2>1, <2>3, <2>4, <2>5
<1>5. CASE s \notin passed /\ s \notin B
  BY <1>1, <1>5
<1> QED BY <1>3, <1>4, <1>5

(* The parts of a row a drain leaves.                                       *)
LEMMA DrainedParts ==
    ASSUME NEW r \in Row, Shape(r), r.st = "queued",
           NEW m \in {Refused(Marked(r)), Marked(r), Settled(Marked(r), "started", TRUE)}
    PROVE  /\ Shape(m) /\ m.seq = r.seq /\ m.act = r.act /\ m.ex = r.ex
           /\ m.st \in {"refused", "dispatched", "started"}
<1>1. /\ Marked(r) \in Row /\ Shape(Marked(r)) /\ Marked(r).st = "dispatched"
      /\ Marked(r).seq = r.seq /\ Marked(r).act = r.act /\ Marked(r).ex = r.ex
  BY RowOps, ShapeOps, StatusOps, SameOps DEF Status
<1> DEFINE k == Marked(r)
<1>2. CASE m = Marked(r)
  <2>1. m = k
    BY <1>2
  <2>2. /\ Shape(k) /\ k.seq = r.seq /\ k.act = r.act /\ k.ex = r.ex
        /\ k.st = "dispatched"
    BY <1>1
  <2> HIDE DEF k
  <2> QED BY <2>1, <2>2
<1>3. k \in Row /\ Shape(k) /\ k.st # "none"
  BY <1>1
<1> HIDE DEF k
<1>4. /\ Shape(Refused(k)) /\ Refused(k).st = "refused" /\ Refused(k).seq = k.seq
      /\ Refused(k).act = k.act /\ Refused(k).ex = k.ex
  BY ZenonT(40), <1>3, ShapeOps, StatusOps, SameOps
<1>5. /\ Shape(Settled(k, "started", TRUE)) /\ Settled(k, "started", TRUE).st = "started"
      /\ Settled(k, "started", TRUE).seq = k.seq
      /\ Settled(k, "started", TRUE).act = k.act /\ Settled(k, "started", TRUE).ex = k.ex
  <2>1. Shape(Settled(k, "started", TRUE))
    BY <1>3, ShapeOps
  <2> QED BY <1>3, <2>1 DEF Settled, Row
<1>6. CASE m = Refused(k)
  BY <1>1, <1>4, <1>6 DEF k
<1>7. CASE m = Settled(k, "started", TRUE)
  BY <1>1, <1>5, <1>7 DEF k
<1> QED BY <1>2, <1>6, <1>7 DEF k

(* A drain that starts rows, at rest: the batch finds its rows, and passes  *)
(* over nothing that is open.                                               *)
LEMMA DrainedStarts ==
    ASSUME NEW L \in [Sends -> Row], Shaped(L),
           NEW passed, NEW fate, Drained(L, Drainable(L, {}), passed, fate)
    PROVE  batch' \subseteq Job /\ Starting(row', {}, batch')
<1> DEFINE D == Drainable(L, {})
           B == DrainBatch(L, D \ passed)
           runs == {s \in B : fate[s] = "ok" \/ L[s].ex}
<1>1. /\ passed \subseteq D
      /\ \A v \in passed, t \in D : L[t].seq < L[v].seq => t \in passed
      /\ fate \in [B -> {"ok", "refused", "stuck"}]
      /\ \A s \in B : fate[s] = "refused" => ~L[s].ex
      /\ MaxFail <= 1 => \A s \in B : fate[s] = "stuck" => L[s].ex
      /\ row' = [s \in Sends |->
                   IF s \in passed THEN Refused(Marked(L[s]))
                   ELSE IF s \in B THEN DrainedRow(L[s], fate[s]) ELSE L[s]]
      /\ batch' = {[s |-> s, q |-> L[s].seq, a |-> L[s].act] : s \in runs}
  BY Zenon DEF Drained
<1>2. /\ D \subseteq Sends /\ B \subseteq D \ passed
      /\ \A s \in D : L[s].st = "queued"
  BY DEF Drainable, DrainBatch
<1>3. \A s \in Sends : Shape(L[s]) /\ L[s].seq \in Nat
  BY DEF Shaped, Row
<1>4. ASSUME NEW s \in runs
      PROVE  /\ s \in Sends /\ row'[s].seq = L[s].seq /\ row'[s].act = L[s].act
             /\ row'[s].st = "started" \/ (row'[s].st = "dispatched" /\ row'[s].ex)
  <2>1. s \in B /\ s \in Sends /\ s \notin passed /\ L[s].st = "queued"
    BY <1>2
  <2>2. row'[s] = DrainedRow(L[s], fate[s]) /\ fate[s] \in {"ok", "stuck"}
    BY <1>1, <2>1
  <2>3. fate[s] = "stuck" => L[s].ex
    OBVIOUS
  <2> DEFINE m == row'[s]
  <2>4. m \in {Marked(L[s]), Settled(Marked(L[s]), "started", TRUE)}
    BY <2>2 DEF DrainedRow
  <2>5. /\ m.seq = L[s].seq /\ m.act = L[s].act /\ m.ex = L[s].ex
    <3> DEFINE r == L[s]
    <3>1. Shape(r) /\ r \in Row /\ r.st = "queued"
      BY <1>3, <2>1
    <3>2. m \in {Refused(Marked(r)), Marked(r), Settled(Marked(r), "started", TRUE)}
      BY <2>4
    <3> HIDE DEF m, r
    <3>3. m.seq = r.seq /\ m.act = r.act /\ m.ex = r.ex
      BY <3>1, <3>2, DrainedParts
    <3> QED BY <3>3 DEF r
  <2>6. fate[s] = "ok" => m.st = "started"
    <3>1. Marked(L[s]) \in Row
      BY <2>1, RowOps DEF Status
    <3> QED BY <2>2, <3>1 DEF DrainedRow, Settled, Row
  <2>7. fate[s] = "stuck" => m.st = "dispatched"
    BY <2>1, <2>2, StatusOps DEF DrainedRow
  <2> QED BY <2>1, <2>2, <2>3, <2>5, <2>6, <2>7
<1> HIDE DEF runs
<1>5. ASSUME NEW b \in batch'
      PROVE  /\ b \in Job /\ row'[b.s].seq = b.q /\ row'[b.s].act = b.a
             /\ row'[b.s].st = "started" \/ (row'[b.s].st = "dispatched" /\ row'[b.s].ex)
  <2>1. PICK s \in runs : b = [s |-> s, q |-> L[s].seq, a |-> L[s].act]
    BY <1>1
  <2>2. b.s = s /\ b.q = L[s].seq /\ b.a = L[s].act
    BY <2>1
  <2>3. b \in Job
    BY <1>4, <2>1 DEF Job, Row
  <2> QED BY <1>4, <2>2, <2>3
<1>6. ASSUME MaxFail <= 1, NEW b \in batch', NEW t \in Sends,
             row'[t].seq < b.q, Blocks(row'[t], {})
      PROVE  \E c \in batch' : c.s = t
  <2>1. PICK s \in runs : b = [s |-> s, q |-> L[s].seq, a |-> L[s].act]
    BY <1>1
  <2>2. b.q = L[s].seq
    BY <2>1
  <2>3. s \in B /\ s \in D /\ s \notin passed /\ s \in Sends
    BY <1>2 DEF runs
  <2>4. row'[t].seq = L[t].seq /\ (row'[t] = L[t] \/ L[t].st = "queued")
    <3>1. \/ row'[t] = L[t]
          \/ /\ L[t].st = "queued"
             /\ row'[t] \in {Refused(Marked(L[t])), Marked(L[t]),
                             Settled(Marked(L[t]), "started", TRUE)}
      <4> HIDE DEF D
      <4> QED BY <1>2, DrainedRows DEF D
    <3> QED BY <1>3, <3>1, DrainedParts
  <2>5. L[t].seq < L[s].seq
    BY <1>6, <2>2, <2>4
  <2>6. Blocks(L[t], {})
    BY <1>6, <2>4 DEF Blocks, InFlight
  <2>7. L[t].st = "queued"
    BY <2>3, <2>5, <2>6 DEF Drainable
  <2>8. t \in D
    <3>1. SUFFICES ASSUME NEW u \in Sends, L[u].seq < L[t].seq, Blocks(L[u], {})
                   PROVE  L[u].st = "queued"
      BY <2>7 DEF Drainable
    <3>2. L[u].seq < L[s].seq
      BY <1>3, <2>3, <2>5, <3>1
    <3> QED BY <2>3, <3>1, <3>2 DEF Drainable
  <2>9. t \notin passed
    <3>1. Refused(Marked(L[t])).st = "refused"
      BY RowOps, StatusOps DEF Status
    <3> QED BY <1>1, <1>6, <3>1 DEF Blocks, InFlight
  <2>10. t \in B
    <3>1. t \in D \ passed /\ s \in D \ passed
      BY <2>3, <2>8, <2>9
    <3>2. ~(\A u \in D \ passed : L[s].seq <= L[u].seq)
      BY <1>3, <2>3, <2>5, <3>1
    <3>3. s \notin Via /\ \A u \in D \ passed : L[u].seq < L[s].seq => u \notin Via
      BY <2>3, <3>2 DEF DrainBatch
    <3>4. t \notin Via /\ \A u \in D \ passed : L[u].seq < L[t].seq => u \notin Via
      <4>1. \A u \in D \ passed : L[u].seq < L[t].seq => L[u].seq < L[s].seq
        BY <1>2, <1>3, <2>3, <2>5
      <4> QED BY <2>5, <3>1, <3>3, <4>1
    <3> QED BY <3>1, <3>4 DEF DrainBatch
  <2>11. t \in runs
    <3>1. row'[t] = DrainedRow(L[t], fate[t])
      BY <1>1, <2>9, <2>10
    <3>2. fate[t] # "refused"
      <4>1. Refused(Marked(L[t])).st = "refused"
        BY RowOps, StatusOps DEF Status
      <4> QED BY <1>6, <3>1, <4>1 DEF Blocks, InFlight, DrainedRow
    <3>3. fate[t] = "ok" \/ L[t].ex
      BY <1>1, <1>6, <2>10, <3>2
    <3> QED BY <2>10, <3>3 DEF runs
  <2>12. [s |-> t, q |-> L[t].seq, a |-> L[t].act] \in batch'
    BY <1>1, <2>11
  <2> QED BY <2>12
<1> QED BY <1>5, <1>6 DEF Starting

(* A drain that starts rows keeps the whole flow.                           *)
LEMMA DrainStartsFlow ==
    ASSUME LedgerOK, NEW L, NEW C, NEW p, NEW T, Found(L, {}, C, p, T),
           Flow(L, {}, C, p, T, {}), NEW d, DrainStarts(L, d)
    PROVE  Flow(row', {}, C, p, T, batch')
<1> DEFINE D == Drainable(L, {})
<1>1. PICK passed, fate : Drained(L, D, passed, fate)
  BY DrainIsDrained DEF Found
<1>2. L \in [Sends -> Row] /\ Shaped(L) /\ \A s \in Sends : Shape(L[s])
  BY DEF Found, Flow, Shaped
<1>3. batch' \subseteq Job /\ Starting(row', {}, batch')
  BY <1>1, <1>2, DrainedStarts
<1>4. D \subseteq Sends /\ \A s \in D : L[s].st = "queued"
  BY DEF Drainable
<1>5. p # "idle" => row' = L /\ batch' = {}
  <2>1. SUFFICES ASSUME D = {} PROVE row' = L /\ batch' = {}
    BY HeadBars
  <2>2. DrainBatch(L, D \ passed) = {} /\ passed = {}
    BY <1>1, <2>1 DEF Drained, DrainBatch
  <2>3. row' = [s \in Sends |-> L[s]] /\ batch' = {}
    BY <1>1, <2>2 DEF Drained
  <2> QED BY <1>2, <2>3
<1> HIDE DEF D
<1>6. ASSUME NEW s \in Sends
      PROVE  /\ row'[s].seq = L[s].seq /\ Shape(row'[s])
             /\ row'[s] = L[s] \/ (L[s].st = "queued" /\ row'[s].st # "none")
  <2>1. \/ row'[s] = L[s]
        \/ /\ L[s].st = "queued"
           /\ row'[s] \in {Refused(Marked(L[s])), Marked(L[s]),
                           Settled(Marked(L[s]), "started", TRUE)}
    BY <1>1, <1>2, <1>4, DrainedRows
  <2>2. L[s] \in Row /\ Shape(L[s])
    BY <1>2
  <2>3. CASE row'[s] = L[s]
    BY <2>2, <2>3
  <2>4. CASE /\ L[s].st = "queued"
             /\ row'[s] \in {Refused(Marked(L[s])), Marked(L[s]),
                             Settled(Marked(L[s]), "started", TRUE)}
    <3>1. \A m \in {Refused(Marked(L[s])), Marked(L[s]),
                    Settled(Marked(L[s]), "started", TRUE)} :
            Shape(m) /\ m.seq = L[s].seq /\ m.st \in {"refused", "dispatched", "started"}
      BY <2>2, <2>4, DrainedParts
    <3> QED BY <2>4, <3>1
  <2> QED BY <2>1, <2>3, <2>4
<1>7. Shaped(row')
  BY <1>2, <1>6 DEF Shaped
<1>8. InLine(row', C, p)
  <2>1. ASSUME NEW i \in DOMAIN C PROVE row'[C[i].s] = L[C[i].s]
    <3>1. C[i] \in Job
      BY DEF Found
    <3>2. C[i].s \in Sends
      BY <3>1 DEF Job
    <3>3. L[C[i].s].st \in {"dispatched", "sending"}
      BY DEF Flow, InLine
    <3> QED BY <1>6, <3>2, <3>3
  <2> QED BY <2>1 DEF Flow, InLine
<1>9. Foremost(row', {}, C, p, batch')
  BY <1>5 DEF Flow, Foremost
<1>10. Asked(row', T)
  <2>1. ASSUME NEW l \in T, l.line PROVE row'[l.s] = L[l.s]
    <3>1. l.s \in Sends
      BY DEF Found, LateCall
    <3>2. L[l.s].st = "unconfirmed"
      BY <2>1 DEF Flow, Asked
    <3> QED BY <1>6, <3>1, <3>2
  <2> QED BY <2>1 DEF Flow, Asked
<1> QED BY <1>3, <1>7, <1>8, <1>9, <1>10 DEF Flow

(* drainSteeredMessages, whatever it finds, keeps the whole flow.           *)
LEMMA DrainFlow ==
    ASSUME LedgerOK, NEW L, NEW open, NEW C, NEW p, NEW T, Found(L, open, C, p, T),
           NEW d \in Desks, Flow(L, open, C, p, T, d.batch), Drain(L, open, d)
    PROVE  Flow(row', lateOpen', C, p, T, batch')
<1>1. d.batch \in SUBSET Job /\ Found(L, open, C, p, T)
  BY DEF Desks
<1>2. \A s \in Sends : L[s] \in Row /\ Shape(L[s])
  BY DEF Found, Flow, Shaped
<1>3. ASSUME NEW e, e.batch = d.batch, DrainNothing(L, open, e)
      PROVE  Flow(row', lateOpen', C, p, T, batch')
  BY <1>3 DEF DrainNothing
<1>4. ASSUME DrainGone(L, open, d)
      PROVE  Flow(row', lateOpen', C, p, T, batch')
  <2>1. PICK kept \in SUBSET Sends :
          row' = [s \in Sends |-> IF L[s].st = "queued" /\ s \notin kept
                                  THEN Refused(L[s]) ELSE L[s]]
    BY <1>4 DEF DrainGone
  <2>2. row' \in [Sends -> Row]
    BY <1>2, <2>1, RowOps DEF Status
  <2>3. \A s \in Sends : Tamer(L[s], row'[s])
    BY <1>2, <2>1, TameOps
  <2>4. lateOpen' = open /\ batch' = d.batch
    BY <1>4 DEF DrainGone
  <2> QED BY <1>1, <2>2, <2>3, <2>4, FlowTamer DEF Found
<1> DEFINE M == LateReleased(L, open)
<1>5. M \in [Sends -> Row] /\ \A s \in Sends : Tamer(L[s], M[s])
  <2>1. M \in [Sends -> Row]
    BY LedgerOps DEF Found
  <2>2. \A s \in Sends : M[s] = Scrubbed(L[s]) \/ M[s] = L[s]
    BY DEF LateReleased
  <2> QED BY <1>2, <2>1, <2>2, TameOps
<1> HIDE DEF M
<1>6. Flow(M, {}, C, p, T, d.batch) /\ Found(M, {}, C, p, T)
  <2>1. {} \in SUBSET open
    OBVIOUS
  <2> QED BY <1>1, <1>5, <2>1, FlowTamer DEF Found
<1>7. ASSUME DrainUnmarked(M, d)
      PROVE  Flow(row', lateOpen', C, p, T, batch')
  BY <1>6, <1>7 DEF DrainUnmarked
<1>8. ASSUME DrainStarts(M, d), d.batch = {}
      PROVE  Flow(row', lateOpen', C, p, T, batch')
  <2>1. lateOpen' = {}
    BY <1>8 DEF DrainStarts
  <2> QED BY <1>6, <1>8, <2>1, DrainStartsFlow
<1>9. [d EXCEPT !.watch = d.watch \/ d.retry = "none"].batch = d.batch
  BY DEF Desks
<1> QED BY <1>3, <1>4, <1>7, <1>8, <1>9 DEF Drain, M
-----------------------------------------------------------------------------
(* What the state is to a drain.                                            *)
LEMMA FoundHere ==
    ASSUME TypeInv
    PROVE  /\ LedgerOK /\ Found(row, lateOpen, chain, pc, late) /\ batch \in SUBSET Job
           /\ Desk \in Desks /\ Desk.batch = batch
BY DeskType DEF TypeInv, LedgerOK, AdmissionOK, RestOK, Found, Desk

(* The head of the line: its row, and that no other row has its number.     *)
LEMMA HeadRow ==
    ASSUME TypeInv, FlowInv, chain # <<>>
    PROVE  LET j == Head(chain) IN
           /\ j \in Job /\ j.s \in Sends /\ j.q \in Nat /\ j.a \in Nat
           /\ row[j.s] \in Row /\ Shape(row[j.s])
           /\ row[j.s].seq = j.q /\ row[j.s].act = j.a
           /\ ~row[j.s].line /\ ~row[j.s].ex
           /\ row[j.s].st = IF pc = "idle" THEN "sending" ELSE "dispatched"
           /\ \A s \in Sends : s # j.s => row[s].seq # j.q
<1> DEFINE j == Head(chain)
<1>1. j \in Job /\ j.s \in Sends /\ j.q \in Nat /\ j.a \in Nat
  BY HeadJob DEF TypeInv
<1>2. 1 \in DOMAIN chain /\ j = chain[1]
  BY DEF TypeInv, AdmissionOK
<1> HIDE DEF j
<1>3. /\ row[j.s].seq = j.q /\ row[j.s].act = j.a /\ ~row[j.s].line /\ ~row[j.s].ex
      /\ row[j.s].st = IF pc = "idle" THEN "sending" ELSE "dispatched"
  BY <1>2 DEF FlowInv, Flow, InLine
<1>4. row[j.s] \in Row /\ Shape(row[j.s])
  BY <1>1 DEF TypeInv, LedgerOK, FlowInv, Flow, Shaped
<1>5. \A s \in Sends : s # j.s => row[s].seq # j.q
  BY <1>1, <1>3 DEF FlowInv, Flow, Shaped
<1> QED BY <1>1, <1>3, <1>4, <1>5 DEF j

(* The head leaves the line with its row decided: q is where its number may *)
(* now be open, T the answers that are outstanding.                         *)
LEMMA HeadLeaves ==
    ASSUME TypeInv, FlowInv, chain # <<>>,
           NEW r \in Row, Shape(r), r.st # "none", r.seq = Head(chain).q,
           r.act = Head(chain).a,
           NEW open \in SUBSET (lateOpen \cup {Head(chain).q}), NEW T \in SUBSET LateCall,
           \A l \in T \ late : l.line =>
              /\ l.s = Head(chain).s /\ l.q = Head(chain).q /\ l.a = Head(chain).a
              /\ r.line /\ r.st = "unconfirmed"
    PROVE  Flow([row EXCEPT ![Head(chain).s] = r], open, Tail(chain), "idle", T, batch)
<1> DEFINE j == Head(chain)
           L == [row EXCEPT ![j.s] = r]
<1>1. /\ j \in Job /\ j.s \in Sends /\ j.q \in Nat /\ j.a \in Nat
      /\ row[j.s].seq = j.q /\ row[j.s].act = j.a /\ ~row[j.s].ex
      /\ row[j.s].st \in {"sending", "dispatched"}
      /\ \A s \in Sends : s # j.s => row[s].seq # j.q
  BY HeadRow
<1>2. /\ j = chain[1] /\ 1 \in DOMAIN chain /\ chain \in Seq(Job)
      /\ Tail(chain) \in Seq(Job) /\ DOMAIN Tail(chain) = 1 .. (Len(chain) - 1)
      /\ \A i \in DOMAIN Tail(chain) : Tail(chain)[i] = chain[i + 1] /\ i + 1 \in DOMAIN chain
  BY DEF TypeInv, AdmissionOK
<1>3. row \in [Sends -> Row] /\ late \subseteq LateCall /\ batch \subseteq Job
  BY DEF TypeInv, LedgerOK, RestOK
<1>4. Flow(row, lateOpen, chain, pc, late, batch)
  BY DEF FlowInv
<1> HIDE DEF j
<1>5. L[j.s] = r /\ \A s \in Sends : s # j.s => L[s] = row[s]
  BY <1>1, <1>3
<1>6. \A s \in Sends : L[s].seq = row[s].seq
  BY <1>1, <1>5 DEF j
<1>7. \A s \in Sends : Blocks(L[s], open) => Blocks(row[s], lateOpen)
  <2>1. Blocks(row[j.s], lateOpen)
    BY <1>1 DEF Blocks, InFlight
  <2>2. ASSUME NEW s \in Sends, s # j.s, Blocks(L[s], open) PROVE Blocks(row[s], lateOpen)
    <3>1. row[s].seq # j.q /\ L[s] = row[s]
      BY <1>1, <1>5, <2>2
    <3> QED BY <2>2, <3>1 DEF Blocks, j
  <2> QED BY <2>1, <2>2
<1>8. Shaped(L)
  <2>1. \A s \in Sends : Shape(L[s])
    BY <1>4, <1>5 DEF Flow, Shaped
  <2>2. \A s \in Sends : L[s].st # "none" => row[s].st # "none"
    BY <1>1, <1>5
  <2> QED BY <1>4, <1>6, <2>1, <2>2 DEF Flow, Shaped
<1>9. InLine(L, Tail(chain), "idle")
  <2>1. ASSUME NEW i \in DOMAIN Tail(chain)
        PROVE  /\ Tail(chain)[i] = chain[i + 1] /\ i + 1 \in DOMAIN chain /\ i + 1 # 1
               /\ chain[i + 1].s \in Sends /\ chain[i + 1].s # j.s
    <3>1. /\ Tail(chain)[i] = chain[i + 1] /\ i + 1 \in DOMAIN chain /\ i + 1 # 1
      BY <1>2
    <3>2. chain[i + 1] \in Job
      BY <1>2, <3>1
    <3>3. chain[i + 1].s # j.s
      BY <1>2, <1>4, <3>1 DEF Flow, InLine
    <3> QED BY <3>1, <3>2, <3>3 DEF Job
  <2>2. ASSUME NEW i \in DOMAIN Tail(chain)
        PROVE  LET k == Tail(chain)[i] IN
               /\ L[k.s].seq = k.q /\ L[k.s].act = k.a /\ ~L[k.s].line /\ ~L[k.s].ex
               /\ L[k.s].st = "sending"
    <3>1. L[Tail(chain)[i].s] = row[chain[i + 1].s]
      BY <1>5, <2>1
    <3>2. row[chain[i + 1].s].st = "sending"
      BY <1>4, <2>1 DEF Flow, InLine
    <3> QED BY <1>4, <2>1, <3>1, <3>2 DEF Flow, InLine
  <2>3. ASSUME NEW i \in DOMAIN Tail(chain), NEW k \in DOMAIN Tail(chain),
               Tail(chain)[i].s = Tail(chain)[k].s
        PROVE  i = k
    <3>1. i + 1 = k + 1
      BY <1>4, <2>1, <2>3 DEF Flow, InLine
    <3>2. i \in Int /\ k \in Int
      BY <1>2
    <3> QED BY <3>1, <3>2
  <2> QED BY <2>2, <2>3 DEF InLine
<1>10. Foremost(L, open, Tail(chain), "idle", batch)
  BY DEF Foremost
<1>11. Asked(L, T)
  <2>1. ASSUME NEW l \in T, l.line
        PROVE  /\ L[l.s].seq = l.q /\ L[l.s].act = l.a /\ L[l.s].line
               /\ L[l.s].st = "unconfirmed"
    <3>1. CASE l \in late
      <4>1. /\ row[l.s].seq = l.q /\ row[l.s].act = l.a /\ row[l.s].line
            /\ row[l.s].st = "unconfirmed" /\ l.s \in Sends
        BY <1>3, <1>4, <2>1, <3>1 DEF Flow, Asked, LateCall
      <4>2. l.s # j.s
        BY <1>1, <4>1
      <4> QED BY <1>5, <4>1, <4>2
    <3>2. CASE l \notin late
      <4>1. /\ l.s = j.s /\ l.q = j.q /\ l.a = j.a /\ r.line /\ r.st = "unconfirmed"
        BY <2>1, <3>2 DEF j
      <4> QED BY <1>5, <4>1 DEF j
    <3> QED BY <3>1, <3>2
  <2> QED BY <2>1 DEF Asked
<1>12. Starting(L, open, batch)
  <2>1. ASSUME NEW b \in batch
        PROVE  /\ L[b.s].seq = b.q /\ L[b.s].act = b.a
               /\ L[b.s].st = "started" \/ (L[b.s].st = "dispatched" /\ L[b.s].ex)
    <3>1. /\ row[b.s].seq = b.q /\ row[b.s].act = b.a
          /\ row[b.s].st = "started" \/ (row[b.s].st = "dispatched" /\ row[b.s].ex)
          /\ b.s \in Sends
      BY <1>3, <1>4 DEF Flow, Starting, Job
    <3>2. b.s # j.s
      BY <1>1, <3>1
    <3> QED BY <1>5, <3>1, <3>2
  <2>2. ASSUME MaxFail <= 1, NEW b \in batch, NEW t \in Sends,
               L[t].seq < b.q, Blocks(L[t], open)
        PROVE  \E c \in batch : c.s = t
    BY <1>4, <1>6, <1>7, <2>2 DEF Flow, Starting
  <2> QED BY <2>1, <2>2 DEF Starting
<1>13. Flow(L, open, Tail(chain), "idle", T, batch)
  BY <1>8, <1>9, <1>10, <1>11, <1>12 DEF Flow
<1> QED BY <1>13 DEF j

FlowNext == Flow(row', lateOpen', chain', pc', late', batch')

(* What the head's row may become.                                          *)
Outcome(r) ==
    /\ r \in Row /\ Shape(r) /\ r.st # "none"
    /\ r.seq = Head(chain).q /\ r.act = Head(chain).a

(* Every outcome of the admission is one.                                   *)
LEMMA Outcomes ==
    ASSUME TypeInv, FlowInv, chain # <<>>
    PROVE  LET j == Head(chain)
               r == row[j.s]
           IN  /\ Outcome(r) /\ Outcome(Queued(r)) /\ Outcome(CaughtRow(j))
               /\ \A st \in {"started", "delivered", "unconfirmed"} :
                     Outcome(Settled(r, st, TRUE)) /\ Settled(r, st, TRUE).st = st
                     /\ Settled(r, st, TRUE).line
               /\ Outcome(Settled(r, "unconfirmed", FALSE))
<1> DEFINE j == Head(chain)
           r == row[j.s]
<1>1. /\ r \in Row /\ Shape(r) /\ r.seq = j.q /\ r.act = j.a /\ ~r.line
      /\ r.st \in {"sending", "dispatched"}
  BY HeadRow
<1> HIDE DEF j, r
<1>2. Outcome(r)
  BY <1>1 DEF Outcome, j
<1>3. Outcome(Queued(r))
  <2>1. Queued(r) \in Row /\ Queued(r).st = "queued" /\ Shape(Queued(r))
    BY <1>1, RowOps, StatusOps, ShapeOps DEF Status
  <2>2. Queued(r).seq = r.seq /\ Queued(r).act = r.act
    BY <1>1, SameOps
  <2> QED BY <1>1, <2>1, <2>2 DEF Outcome, j
<1>4. ASSUME NEW st \in {"started", "delivered", "unconfirmed"}, NEW withLine \in BOOLEAN,
             withLine \/ st = "unconfirmed"
      PROVE  /\ Outcome(Settled(r, st, withLine)) /\ Settled(r, st, withLine).st = st
             /\ withLine => Settled(r, st, withLine).line
  <2> DEFINE m == Settled(r, st, withLine)
  <2>1. m \in Row
    BY <1>1, <1>4, RowOps DEF Status
  <2>2. m.st = st /\ m.seq = r.seq /\ m.act = r.act /\ (withLine => m.line)
    BY <1>1 DEF Settled, Row
  <2>3. Shape(m)
    <3>1. r.st # "none"
      BY <1>1
    <3>2. withLine = TRUE => Shape(m)
      BY <1>1, <1>4, <3>1, ShapeOps
    <3>3. withLine = FALSE => Shape(m)
      BY <1>1, <1>4, <3>1, ShapeOps
    <3> QED BY <3>2, <3>3
  <2> HIDE DEF m
  <2>4. Outcome(m)
    BY <1>1, <2>1, <2>2, <2>3 DEF Outcome, j
  <2> QED BY <2>2, <2>4 DEF m
<1>5. Outcome(Refused(r))
  <2>1. Refused(r) \in Row /\ Refused(r).st = "refused" /\ Shape(Refused(r))
    BY <1>1, RowOps, StatusOps, ShapeOps DEF Status
  <2>2. Refused(r).seq = r.seq /\ Refused(r).act = r.act
    BY <1>1, SameOps
  <2> QED BY <1>1, <2>1, <2>2 DEF Outcome, j
<1>6. Outcome(CaughtRow(j))
  <2>1. CaughtRow(j) \in {Settled(r, "started", TRUE), Refused(r), r}
    BY Zenon DEF CaughtRow, r
  <2>2. Outcome(Settled(r, "started", TRUE))
    BY <1>4
  <2> QED BY <1>2, <1>5, <2>1, <2>2
<1>7. \A st \in {"started", "delivered", "unconfirmed"} :
         Outcome(Settled(r, st, TRUE)) /\ Settled(r, st, TRUE).st = st
         /\ Settled(r, st, TRUE).line
  BY <1>4
<1>8. Outcome(Settled(r, "unconfirmed", FALSE))
  BY <1>4
<1> QED BY <1>2, <1>3, <1>6, <1>7, <1>8 DEF j, r

(* The head leaves with an outcome, or with its row as it is, and nothing   *)
(* else changes but the answer it may leave outstanding.                    *)
LEMMA LeavesFlow ==
    ASSUME TypeInv, FlowInv, chain # <<>>, Leave, UNCHANGED batch,
           NEW r, Outcome(r), row' = [row EXCEPT ![Head(chain).s] = r],
           lateOpen' \in SUBSET (lateOpen \cup {Head(chain).q}),
           late' \in SUBSET LateCall,
           \A l \in late' \ late : l.line =>
              /\ l.s = Head(chain).s /\ l.q = Head(chain).q /\ l.a = Head(chain).a
              /\ r.line /\ r.st = "unconfirmed"
    PROVE  FlowNext
<1>1. r \in Row /\ Shape(r) /\ r.st # "none" /\ r.seq = Head(chain).q /\ r.act = Head(chain).a
  BY DEF Outcome
<1>2. Flow([row EXCEPT ![Head(chain).s] = r], lateOpen', Tail(chain), "idle", late', batch)
  BY <1>1, HeadLeaves
<1> QED BY <1>2 DEF FlowNext, Leave

(* The row written back as it is.                                           *)
LEMMA RowSame ==
    ASSUME TypeInv, NEW s \in Sends
    PROVE  row = [row EXCEPT ![s] = row[s]]
BY DEF TypeInv, LedgerOK

(* The catch block keeps the flow.                                          *)
LEMMA CaughtFlow ==
    ASSUME TypeInv, FlowInv, chain # <<>>, NEW n, Caught(Head(chain), n)
    PROVE  FlowNext
<1>1. Head(chain).s \in Sends
  BY HeadRow
<1>2. row' = [row EXCEPT ![Head(chain).s] = CaughtRow(Head(chain))] \/ row' = row
  BY DEF Caught, SetRow
<1>3. \E r : Outcome(r) /\ row' = [row EXCEPT ![Head(chain).s] = r]
  BY <1>1, <1>2, Outcomes, RowSame
<1>4. lateOpen' = lateOpen /\ late' = late /\ Leave /\ UNCHANGED batch
  BY DEF Caught, NoDrain
<1>5. late \in SUBSET LateCall
  BY DEF TypeInv, RestOK
<1> QED BY <1>3, <1>4, <1>5, LeavesFlow

(* queueIt keeps the flow.                                                  *)
LEMMA QueueItFlow ==
    ASSUME TypeInv, FlowInv, chain # <<>>, NEW drains, QueueIt(Head(chain), drains)
    PROVE  FlowNext
<1> DEFINE j == Head(chain)
           L == [row EXCEPT ![j.s] = Queued(@)]
           open == lateOpen \ {j.q}
<1>1. /\ j.s \in Sends /\ late \in SUBSET LateCall /\ open \in SUBSET Nat
      /\ L = [row EXCEPT ![j.s] = Queued(row[j.s])]
  BY HeadRow DEF TypeInv, RestOK, LedgerOK
<1>2. L \in [Sends -> Row]
  <2>1. Queued(row[j.s]) \in Row
    BY Outcomes DEF Outcome
  <2> QED BY <1>1, <2>1 DEF TypeInv, LedgerOK
<1>3. Flow(L, open, Tail(chain), "idle", late, batch)
  <2>1. Outcome(Queued(row[j.s]))
    BY Outcomes
  <2>2. \A l \in late \ late : FALSE
    OBVIOUS
  <2>3. open \in SUBSET (lateOpen \cup {Head(chain).q})
    OBVIOUS
  <2>4. /\ Queued(row[j.s]) \in Row /\ Shape(Queued(row[j.s])) /\ Queued(row[j.s]).st # "none"
        /\ Queued(row[j.s]).seq = Head(chain).q /\ Queued(row[j.s]).act = Head(chain).a
    BY <2>1 DEF Outcome
  <2> HIDE DEF L, open
  <2> QED BY <1>1, <2>2, <2>3, <2>4, HeadLeaves DEF j
<1>4. Found(L, open, Tail(chain), "idle", late)
  BY <1>1, <1>2, HeadJob DEF Found, TypeInv
<1>5. Drain(L, open, Desk) \/ DrainNothing(L, open, Desk)
  BY Zenon DEF QueueIt
<1>6. chain' = Tail(chain) /\ pc' = "idle" /\ late' = late
  BY DEF QueueIt, Leave
<1> HIDE DEF L, open, j
<1>7. Flow(row', lateOpen', Tail(chain), "idle", late, batch')
  <2>1. Flow(L, open, Tail(chain), "idle", late, Desk.batch)
    BY <1>3, FoundHere
  <2>2. CASE DrainNothing(L, open, Desk)
    BY <2>1, <2>2 DEF DrainNothing
  <2>3. CASE Drain(L, open, Desk)
    BY <1>4, <2>1, <2>3, FoundHere, DrainFlow
  <2> QED BY <1>5, <2>2, <2>3
<1> QED BY <1>6, <1>7 DEF FlowNext

(* A marker goes up only when nothing before the head is open, and no batch *)
(* is starting.                                                             *)
LEMMA MarkFlow ==
    ASSUME TypeInv, FlowInv, chain # <<>>, batch = {},
           ~BlockedByEarlier(row, lateOpen, Head(chain).q),
           NEW next, next # "idle", MarkThen(Head(chain), next)
    PROVE  FlowNext
<1> DEFINE j == Head(chain)
           m == Marked(row[j.s])
<1>1. /\ j \in Job /\ j.s \in Sends /\ j.q \in Nat
      /\ row[j.s] \in Row /\ Shape(row[j.s])
      /\ row[j.s].seq = j.q /\ row[j.s].act = j.a /\ ~row[j.s].line /\ ~row[j.s].ex
      /\ row[j.s].st \in {"sending", "dispatched"}
      /\ \A s \in Sends : s # j.s => row[s].seq # j.q
  BY HeadRow
<1>2. /\ row' = [row EXCEPT ![j.s] = m] /\ chain' = chain /\ pc' = next /\ batch' = batch
      /\ lateOpen' = lateOpen /\ late' = late
  BY DEF MarkThen, SetRow, Stay, NoDrain
<1>3. /\ m \in Row /\ m.st = "dispatched" /\ m.seq = j.q /\ m.act = j.a /\ ~m.line /\ ~m.ex
      /\ Shape(m)
  <2>1. m \in Row /\ m.st = "dispatched"
    BY <1>1, RowOps, StatusOps DEF Status
  <2>2. m.seq = j.q /\ m.act = j.a /\ ~m.line /\ ~m.ex
    <3>1. /\ m.seq = row[j.s].seq /\ m.act = row[j.s].act /\ m.line = row[j.s].line
          /\ m.ex = row[j.s].ex
      BY <1>1, SameOps
    <3> QED BY <1>1, <3>1
  <2>3. Shape(m)
    BY <1>1, ShapeOps
  <2> QED BY <2>1, <2>2, <2>3
<1>4. row \in [Sends -> Row] /\ late \subseteq LateCall /\ chain \in Seq(Job)
  BY DEF TypeInv, LedgerOK, RestOK, AdmissionOK
<1>5. Flow(row, lateOpen, chain, pc, late, batch)
  BY DEF FlowInv
<1>6. 1 \in DOMAIN chain /\ j = chain[1]
  BY <1>4
<1> HIDE DEF j, m
<1>7. row'[j.s] = m /\ \A s \in Sends : s # j.s => row'[s] = row[s]
  BY <1>1, <1>2, <1>4
<1>8. \A s \in Sends : row'[s].seq = row[s].seq
  BY <1>1, <1>3, <1>7
<1>9. Shaped(row')
  <2>1. \A s \in Sends : Shape(row'[s])
    BY <1>3, <1>5, <1>7 DEF Flow, Shaped
  <2>2. \A s \in Sends : row'[s].st # "none" => row[s].st # "none"
    BY <1>1, <1>7
  <2> QED BY <1>5, <1>8, <2>1, <2>2 DEF Flow, Shaped
<1>10. InLine(row', chain, next)
  <2>1. ASSUME NEW i \in DOMAIN chain, i # 1
        PROVE  chain[i].s # j.s /\ row'[chain[i].s] = row[chain[i].s]
    <3>1. chain[i].s # j.s
      BY <1>5, <1>6, <2>1 DEF Flow, InLine
    <3>2. chain[i].s \in Sends
      <4>1. chain[i] \in Job
        BY <1>4
      <4> QED BY <4>1 DEF Job
    <3> QED BY <1>7, <3>1, <3>2
  <2>2. ASSUME NEW i \in DOMAIN chain
        PROVE  LET k == chain[i] IN
               /\ row'[k.s].seq = k.q /\ row'[k.s].act = k.a
               /\ ~row'[k.s].line /\ ~row'[k.s].ex
               /\ row'[k.s].st = IF i = 1 THEN "dispatched" ELSE "sending"
    <3>1. CASE i = 1
      BY <1>3, <1>6, <1>7, <3>1
    <3>2. CASE i # 1
      <4>1. row'[chain[i].s] = row[chain[i].s]
        BY <2>1, <3>2
      <4>2. row[chain[i].s].st = "sending"
        BY <1>5, <3>2 DEF Flow, InLine
      <4> QED BY <1>5, <3>2, <4>1, <4>2 DEF Flow, InLine
    <3> QED BY <3>1, <3>2
  <2> QED BY <1>5, <2>2 DEF Flow, InLine
<1>11. Foremost(row', lateOpen, chain, next, {})
  <2>1. ASSUME NEW s \in Sends, row'[s].seq < j.q, Blocks(row'[s], lateOpen)
        PROVE  FALSE
    <3>1. s # j.s
      BY <1>1, <1>8, <2>1
    <3> QED BY <1>7, <1>8, <2>1, <3>1 DEF BlockedByEarlier, j
  <2> QED BY <2>1 DEF Foremost, BlockedByEarlier, j
<1>12. Asked(row', late)
  <2>1. ASSUME NEW l \in late, l.line PROVE row'[l.s] = row[l.s]
    <3>1. row[l.s].st = "unconfirmed" /\ l.s \in Sends
      BY <1>4, <1>5, <2>1 DEF Flow, Asked, LateCall
    <3>2. l.s # j.s
      BY <1>1, <3>1
    <3> QED BY <1>7, <3>1, <3>2
  <2> QED BY <1>5, <2>1 DEF Flow, Asked
<1>13. Starting(row', lateOpen, {})
  BY DEF Starting
<1> QED BY <1>2, <1>9, <1>10, <1>11, <1>12, <1>13 DEF FlowNext, Flow

(* The engine did not take the words.                                       *)
LEMMA NotSteeredFlow ==
    ASSUME TypeInv, FlowInv, chain # <<>>, batch = {},
           ~BlockedByEarlier(row, lateOpen, Head(chain).q), NotSteered(Head(chain))
    PROVE  FlowNext
<1>1. \/ Caught(Head(chain), 0) \/ QueueIt(Head(chain), TRUE) \/ QueueIt(Head(chain), FALSE)
      \/ MarkThen(Head(chain), "starting")
  BY Zenon DEF NotSteered
<1> QED BY <1>1, CaughtFlow, QueueItFlow, MarkFlow

(* admitDirectSend decides: marks the head only with nothing before it.     *)
LEMMA DecideFlow ==
    ASSUME TypeInv, FlowInv, Decide
    PROVE  /\ FlowNext
           /\ pc' # "idle" => batch = {} /\ ~BlockedByEarlier(row, lateOpen, Head(chain).q)
                              /\ MarkThen(Head(chain), pc')
<1> DEFINE j == Head(chain)
           clear == batch = {} /\ ~BlockedByEarlier(row, lateOpen, j.q)
<1>1. chain # <<>>
  BY DEF Decide
<1>2. \/ Caught(j, 0) \/ Caught(j, 1) \/ QueueIt(j, TRUE) \/ QueueIt(j, FALSE)
      \/ clear /\ (MarkThen(j, "steering") \/ MarkThen(j, "starting") \/ NotSteered(j))
  <2>1. CASE j.s \in Via \/ BlockedByEarlier(row, lateOpen, j.q) \/ batch # {}
    BY <2>1, Zenon DEF Decide
  <2>2. CASE ~(j.s \in Via \/ BlockedByEarlier(row, lateOpen, j.q) \/ batch # {})
    BY <2>2, Zenon DEF Decide
  <2> QED BY <2>1, <2>2
<1>3. FlowNext
  BY <1>1, <1>2, CaughtFlow, QueueItFlow, MarkFlow, NotSteeredFlow
<1>4. Caught(j, 0) \/ Caught(j, 1) \/ QueueIt(j, TRUE) \/ QueueIt(j, FALSE) => pc' = "idle"
  BY DEF Caught, QueueIt, Leave
<1>5. NotSteered(j) => \/ Caught(j, 0) \/ QueueIt(j, TRUE) \/ QueueIt(j, FALSE)
                       \/ MarkThen(j, "starting")
  BY Zenon DEF NotSteered
<1>6. \A next : MarkThen(j, next) => pc' = next
  BY DEF MarkThen, Stay
<1> QED BY <1>2, <1>3, <1>4, <1>5, <1>6

(* The outcome of a steer: with a line of its own, or without one.          *)
LEMMA SteerOutcome ==
    ASSUME TypeInv, FlowInv, chain # <<>>, NEW st \in {"delivered", "unconfirmed"},
           SteerRecorded(Head(chain), st)
    PROVE  \E r : /\ Outcome(r) /\ row' = [row EXCEPT ![Head(chain).s] = r]
                  /\ \/ lines' = lines
                     \/ /\ lines' = [lines EXCEPT ![Head(chain).s] = @ + 1]
                        /\ r.line /\ r.st = st
<1> DEFINE j == Head(chain)
<1>1. \/ /\ row' = [row EXCEPT ![j.s] = Settled(row[j.s], st, TRUE)]
         /\ lines' = [lines EXCEPT ![j.s] = @ + 1]
      \/ /\ \/ row' = [row EXCEPT ![j.s] = Settled(row[j.s], "unconfirmed", FALSE)]
            \/ row' = [row EXCEPT ![j.s] = CaughtRow(j)]
            \/ row' = row
         /\ lines' = lines
  BY Zenon DEF SteerRecorded, SetRow
<1>2. /\ Outcome(Settled(row[j.s], st, TRUE)) /\ Settled(row[j.s], st, TRUE).line
      /\ Settled(row[j.s], st, TRUE).st = st
  BY Outcomes
<1>3. /\ Outcome(Settled(row[j.s], "unconfirmed", FALSE)) /\ Outcome(CaughtRow(j))
      /\ Outcome(row[j.s]) /\ row = [row EXCEPT ![j.s] = row[j.s]]
  BY HeadRow, Outcomes, RowSame
<1> QED BY <1>1, <1>2, <1>3

(* The engine's answer to a steer keeps the flow.                           *)
LEMMA SteerAnsweredFlow ==
    ASSUME TypeInv, FlowInv, SteerAnswered
    PROVE  FlowNext
<1> DEFINE j == Head(chain)
<1>1. chain # <<>> /\ batch = {} /\ ~BlockedByEarlier(row, lateOpen, Head(chain).q)
  BY DEF SteerAnswered, TypeInv, AdmissionOK, FlowInv, Flow, Foremost
<1>2. late \in SUBSET LateCall
  BY DEF TypeInv, RestOK
<1>3. Taken(j) \/ Uncertain(j) \/ NotSteered(j) \/ Caught(j, 1)
  BY Zenon DEF SteerAnswered
<1>4. ASSUME Taken(j) PROVE FlowNext
  <2>1. PICK r : Outcome(r) /\ row' = [row EXCEPT ![Head(chain).s] = r]
    BY <1>1, <1>4, SteerOutcome DEF Taken
  <2>2. lateOpen' \in SUBSET (lateOpen \cup {Head(chain).q}) /\ late' = late /\ Leave
        /\ UNCHANGED batch
    BY <1>4 DEF Taken, NoDrain
  <2> QED BY <1>1, <1>2, <2>1, <2>2, LeavesFlow
<1>5. ASSUME Uncertain(j) PROVE FlowNext
  <2>1. PICK r : /\ Outcome(r) /\ row' = [row EXCEPT ![Head(chain).s] = r]
                 /\ lines' = lines \/ (r.line /\ r.st = "unconfirmed")
    BY <1>1, <1>5, SteerOutcome DEF Uncertain
  <2> DEFINE l == [s |-> j.s, q |-> j.q, a |-> j.a, line |-> lines' # lines]
  <2>2. late' = late \cup {l} /\ Leave /\ UNCHANGED batch
    BY <1>5 DEF Uncertain, NoDrain
  <2>3. lateOpen' \in SUBSET (lateOpen \cup {Head(chain).q})
    BY <1>5 DEF Uncertain
  <2>4. l \in LateCall /\ l.s = j.s /\ l.q = j.q /\ l.a = j.a /\ (l.line <=> lines' # lines)
    BY <1>1, HeadRow DEF LateCall
  <2> HIDE DEF l
  <2>5. late' \in SUBSET LateCall
    BY <1>2, <2>2, <2>4
  <2>6. \A k \in late' \ late : k.line =>
              /\ k.s = Head(chain).s /\ k.q = Head(chain).q /\ k.a = Head(chain).a
              /\ r.line /\ r.st = "unconfirmed"
    BY <2>1, <2>2, <2>4
  <2> QED BY <1>1, <2>1, <2>2, <2>3, <2>5, <2>6, LeavesFlow
<1> QED BY <1>1, <1>3, <1>4, <1>5, CaughtFlow, NotSteeredFlow

(* The rest of a start keeps the flow.                                      *)
LEMMA RunFlow ==
    ASSUME TypeInv, FlowInv, RunRefused \/ RunAdmitted \/ RunRecorded
    PROVE  FlowNext
<1>1. chain # <<>> /\ pc # "idle"
  BY DEF RunRefused, RunAdmitted, RunRecorded, TypeInv, AdmissionOK
<1>2. CASE RunRefused
  BY <1>1, <1>2, CaughtFlow DEF RunRefused
<1>3. CASE RunAdmitted
  <2>1. /\ row' = row /\ lateOpen' = lateOpen /\ late' = late /\ batch' = batch
        /\ chain' = chain /\ pc' = "landed"
    BY <1>3 DEF RunAdmitted, Stay
  <2>2. Flow(row, lateOpen, chain, pc, late, batch)
    BY DEF FlowInv
  <2>3. InLine(row, chain, "landed") /\ Foremost(row, lateOpen, chain, "landed", batch)
    BY <1>1, <2>2 DEF Flow, InLine, Foremost
  <2> QED BY <2>1, <2>2, <2>3 DEF Flow, FlowNext
<1>4. CASE RunRecorded
  <2>1. \/ row' = [row EXCEPT ![Head(chain).s] = Settled(row[Head(chain).s], "started", TRUE)]
        \/ row' = row
    BY <1>4 DEF RunRecorded, SetRow
  <2>2. \E r : Outcome(r) /\ row' = [row EXCEPT ![Head(chain).s] = r]
    BY <1>1, <2>1, Outcomes, HeadRow, RowSame
  <2>3. /\ lateOpen' = lateOpen /\ late' = late /\ Leave /\ UNCHANGED batch
        /\ late \in SUBSET LateCall
    BY <1>4 DEF RunRecorded, TypeInv, RestOK
  <2> QED BY <1>1, <2>2, <2>3, LeavesFlow
<1> QED BY <1>2, <1>3, <1>4
-----------------------------------------------------------------------------
(* A send that decides, and is not in the line, joins it.                   *)
LEMMA JoinsFlow ==
    ASSUME NEW L, NEW open, NEW C, NEW p, NEW T, NEW B, Found(L, open, C, p, T),
           Flow(L, open, C, p, T, B),
           NEW s \in Sends, L[s].st = "sending", \A i \in DOMAIN C : C[i].s # s,
           NEW j, j = [s |-> s, q |-> L[s].seq, a |-> L[s].act]
    PROVE  Flow(L, open, Append(C, j), p, T, B)
<1> DEFINE E == Append(C, j)
<1>1. /\ C \in Seq(Job) /\ Len(E) = Len(C) + 1 /\ Len(C) \in Nat
      /\ E[Len(C) + 1] = j /\ \A i \in DOMAIN C : E[i] = C[i]
      /\ DOMAIN E = 1 .. (Len(C) + 1) /\ DOMAIN C = 1 .. Len(C)
  <2>1. j \in Job
    BY DEF Found, Job, Row
  <2> QED BY <2>1 DEF Found
<1>2. /\ L[s].line = FALSE /\ L[s].ex = FALSE
  BY DEF Flow, Shaped, Shape, Found, Row
<1>3. j.s = s /\ j.q = L[s].seq /\ j.a = L[s].act
  OBVIOUS
<1>4. p # "idle" => C # <<>>
  BY DEF Found
<1>5. Len(C) = 0 => p = "idle"
  BY <1>1, <1>4
<1> HIDE DEF E
<1>6. \A i \in DOMAIN E : i \in DOMAIN C \/ i = Len(C) + 1
  BY <1>1
<1>7. InLine(L, E, p)
  <2>1. ASSUME NEW i \in DOMAIN E
        PROVE  LET k == E[i] IN
               /\ L[k.s].seq = k.q /\ L[k.s].act = k.a /\ ~L[k.s].line /\ ~L[k.s].ex
               /\ L[k.s].st = IF i = 1 /\ p # "idle" THEN "dispatched" ELSE "sending"
    <3>1. CASE i \in DOMAIN C
      BY <1>1, <3>1 DEF Flow, InLine
    <3>2. CASE i = Len(C) + 1
      <4>1. i = 1 => p = "idle"
        BY <1>1, <1>5, <3>2
      <4> QED BY <1>1, <1>2, <1>3, <3>2, <4>1
    <3> QED BY <1>6, <3>1, <3>2
  <2>2. ASSUME NEW i \in DOMAIN E, NEW k \in DOMAIN E, E[i].s = E[k].s
        PROVE  i = k
    <3>1. CASE i \in DOMAIN C /\ k \in DOMAIN C
      BY <1>1, <2>2, <3>1 DEF Flow, InLine
    <3>2. CASE i = Len(C) + 1 /\ k \in DOMAIN C
      BY <1>1, <1>3, <2>2, <3>2
    <3>3. CASE i \in DOMAIN C /\ k = Len(C) + 1
      BY <1>1, <1>3, <2>2, <3>3
    <3> QED BY <1>6, <3>1, <3>2, <3>3
  <2> QED BY <2>1, <2>2 DEF InLine
<1>8. Foremost(L, open, E, p, B)
  <2>1. C # <<>> => Head(E) = Head(C)
    BY <1>1 DEF E
  <2> QED BY <1>4, <2>1 DEF Flow, Foremost
<1> QED BY <1>7, <1>8 DEF Flow, E

(* A new row, past every other one, in place of none or of a chip.          *)
LEMMA FreshFlow ==
    ASSUME TypeInv, FlowInv, NEW s \in Sends, row[s].st \in {"none", "failed", "refused"},
           NEW r \in Row, Shape(r), r.st # "none",
           \A t \in Sends : t # s => row[t].seq < r.seq
    PROVE  Flow([row EXCEPT ![s] = r], lateOpen, chain, pc, late, batch)
<1> DEFINE L == [row EXCEPT ![s] = r]
<1>1. /\ row \in [Sends -> Row] /\ late \subseteq LateCall /\ batch \subseteq Job
      /\ chain \in Seq(Job) /\ lateOpen \subseteq Nat
      /\ (pc # "idle" => chain # <<>>)
  BY DEF TypeInv, LedgerOK, RestOK, AdmissionOK
<1>2. Flow(row, lateOpen, chain, pc, late, batch)
  BY DEF FlowInv
<1>3. L[s] = r /\ \A t \in Sends : t # s => L[t] = row[t]
  BY <1>1
<1> HIDE DEF L
<1>4. \A t \in Sends : row[t].seq \in Nat /\ L[t].seq \in Nat
  BY <1>1, <1>3 DEF Row
<1>5. Shaped(L)
  BY <1>2, <1>3, <1>4 DEF Flow, Shaped
<1>6. ASSUME NEW i \in DOMAIN chain PROVE chain[i].s \in Sends /\ chain[i].s # s
  <2>1. chain[i] \in Job
    BY <1>1
  <2>2. row[chain[i].s].st \in {"sending", "dispatched"}
    BY <1>2 DEF Flow, InLine
  <2> QED BY <2>1, <2>2 DEF Job
<1>7. InLine(L, chain, pc)
  <2>1. \A i \in DOMAIN chain : L[chain[i].s] = row[chain[i].s]
    BY <1>3, <1>6
  <2> QED BY <1>2, <2>1 DEF Flow, InLine
<1>8. Foremost(L, lateOpen, chain, pc, batch)
  <2>1. SUFFICES ASSUME pc # "idle", NEW t \in Sends, L[t].seq < Head(chain).q,
                        Blocks(L[t], lateOpen)
                 PROVE  FALSE
    BY <1>2 DEF Flow, Foremost, BlockedByEarlier
  <2>2. 1 \in DOMAIN chain /\ Head(chain) = chain[1] /\ chain[1] \in Job
    BY <1>1, <2>1
  <2>3. row[chain[1].s].seq = chain[1].q /\ chain[1].s # s /\ chain[1].s \in Sends
    BY <1>2, <1>6, <2>2 DEF Flow, InLine
  <2>4. t # s
    <3>1. Head(chain).q < r.seq
      BY <2>2, <2>3
    <3> QED BY <1>3, <1>4, <2>1, <2>2, <2>3, <3>1
  <2> QED BY <1>2, <1>3, <2>1, <2>4 DEF Flow, Foremost, BlockedByEarlier
<1>9. Asked(L, late)
  <2>1. ASSUME NEW l \in late, l.line PROVE L[l.s] = row[l.s]
    <3>1. l.s \in Sends /\ row[l.s].st = "unconfirmed"
      BY <1>1, <1>2, <2>1 DEF Flow, Asked, LateCall
    <3> QED BY <1>3, <3>1
  <2> QED BY <1>2, <2>1 DEF Flow, Asked
<1>10. Starting(L, lateOpen, batch)
  <2>1. ASSUME NEW b \in batch PROVE b.s \in Sends /\ b.s # s /\ L[b.s] = row[b.s]
    <3>1. b.s \in Sends
      BY <1>1 DEF Job
    <3>2. row[b.s].st \in {"started", "dispatched"}
      BY <1>2 DEF Flow, Starting
    <3> QED BY <1>3, <3>1, <3>2
  <2>2. ASSUME MaxFail <= 1, NEW b \in batch, NEW t \in Sends, L[t].seq < b.q,
               Blocks(L[t], lateOpen)
        PROVE  \E c \in batch : c.s = t
    <3>1. row[b.s].seq = b.q
      BY <1>2 DEF Flow, Starting
    <3>2. b.q < r.seq
      BY <2>1, <3>1
    <3>3. t # s
      BY <1>3, <1>4, <2>1, <2>2, <3>1, <3>2
    <3> QED BY <1>2, <1>3, <2>2, <3>3 DEF Flow, Starting
  <2> QED BY <1>2, <2>1, <2>2 DEF Flow, Starting
<1> QED BY <1>5, <1>7, <1>8, <1>9, <1>10 DEF Flow, L

(* A request accepted: its row, and its number.                             *)
LEMMA NextRow ==
    ASSUME TypeInv, NEW p \in net, NEW q \in Seqs, IsNextSeq(Without(row, p.s), q),
           Accepts(row[p.s], p, tokens.gen)
    PROVE  /\ p \in Request /\ p.s \in Sends /\ q \in Nat /\ q > 0
           /\ row[p.s].st \in {"none", "failed", "refused"}
           /\ \A t \in Sends : t # p.s => row[t].seq < q
<1>1. p \in Request /\ p.s \in Sends /\ q \in Nat /\ q > 0
  BY SeqsAssumption DEF TypeInv, RestOK, Request
<1>2. row[p.s].st \in {"none", "failed", "refused"}
  BY DEF Accepts, Readmits
<1>3. ASSUME NEW t \in Sends, t # p.s PROVE row[t].seq < q
  <2>1. Without(row, p.s)[t] = row[t]
    BY <1>1, <1>3 DEF Without, TypeInv, LedgerOK
  <2> QED BY <2>1 DEF IsNextSeq
<1> QED BY <1>1, <1>2, <1>3

(* SendStore.accept, the first time and again, keeps the flow.              *)
LEMMA AcceptFlow ==
    ASSUME TypeInv, FlowInv, NEW p \in net, Accept(p) \/ AcceptAgain(p)
    PROVE  FlowNext
<1>1. p \in Request /\ p.s \in Sends /\ row \in [Sends -> Row]
  BY DEF TypeInv, RestOK, Request, LedgerOK
<1>2. CASE Accept(p)
  <2>1. PICK q \in Seqs :
          /\ IsNextSeq(Without(row, p.s), q)
          /\ row' = [row EXCEPT ![p.s] = NewRow(p, q)]
          /\ chain' = Append(chain, [s |-> p.s, q |-> q, a |-> NewRow(p, q).act])
    BY <1>2 DEF Accept, SetRow
  <2>2. /\ q \in Nat /\ q > 0 /\ row[p.s].st \in {"none", "failed", "refused"}
        /\ \A t \in Sends : t # p.s => row[t].seq < q
    BY <1>2, <2>1, NextRow DEF Accept
  <2> DEFINE r == NewRow(p, q)
  <2>3. r \in Row /\ r.st = "sending" /\ r.seq = q /\ Shape(r)
    <3>1. r \in Row
      BY <1>1, <2>2, NewRows
    <3>2. /\ r.st = "sending" /\ r.seq = q /\ r.line = FALSE /\ r.ex = FALSE
          /\ r.disp = FALSE /\ r.words = TRUE
      BY DEF NewRow, NoRow
    <3> HIDE DEF r
    <3> QED BY <2>2, <3>1, <3>2 DEF Shape
  <2> HIDE DEF r
  <2>4. Flow(row', lateOpen, chain, pc, late, batch)
    BY <1>1, <2>1, <2>2, <2>3, FreshFlow DEF r
  <2>5. row'[p.s] = r /\ row' \in [Sends -> Row]
    BY <1>1, <2>1, <2>3 DEF r
  <2>6. Found(row', lateOpen, chain, pc, late)
    BY <2>5, FoundHere DEF Found
  <2>7. \A i \in DOMAIN chain : chain[i].s # p.s
    BY <1>2 DEF Accept, InChain
  <2>8. Flow(row', lateOpen, chain', pc, late, batch)
    <3>1. chain' = Append(chain, [s |-> p.s, q |-> row'[p.s].seq, a |-> row'[p.s].act])
      BY <2>1, <2>3, <2>5 DEF r
    <3> QED BY <1>1, <2>3, <2>4, <2>5, <2>6, <2>7, <3>1, JoinsFlow
  <2> QED BY <1>2, <2>8 DEF Accept, FlowNext
<1>3. CASE AcceptAgain(p)
  <2>1. /\ row[p.s].st = "sending" /\ row' = row
        /\ chain' = Append(chain, [s |-> p.s, q |-> row[p.s].seq, a |-> row[p.s].act])
        /\ \A i \in DOMAIN chain : chain[i].s # p.s
        /\ UNCHANGED <<lateOpen, pc, late, batch>>
    BY <1>3 DEF AcceptAgain, InChain, ledgerVars
  <2>2. Flow(row, lateOpen, chain', pc, late, batch)
    BY <1>1, <2>1, FoundHere, JoinsFlow DEF FlowInv
  <2> QED BY <2>1, <2>2 DEF FlowNext
<1> QED BY <1>2, <1>3

(* A ledger tamely changed, with nothing else, keeps the flow.              *)
LEMMA TameStep ==
    ASSUME TypeInv, NEW L \in [Sends -> Row],
           Flow(L, lateOpen, chain, pc, late, batch), row' \in [Sends -> Row],
           \A s \in Sends : Tamer(L[s], row'[s]),
           chain' = chain /\ pc' = pc /\ batch' = batch,
           lateOpen' \subseteq lateOpen, late' \subseteq late
    PROVE  FlowNext
<1>1. /\ chain \in Seq(Job) /\ (pc # "idle" => chain # <<>>)
      /\ late \in SUBSET LateCall /\ batch \in SUBSET Job /\ lateOpen \in SUBSET Nat
      /\ lateOpen' \in SUBSET lateOpen /\ late' \in SUBSET late
  BY DEF TypeInv, LedgerOK, RestOK, AdmissionOK
<1>2. Flow(row', lateOpen', chain, pc, late', batch)
  BY <1>1, FlowTamer
<1> QED BY <1>2 DEF FlowNext

(* Nothing changed.                                                         *)
LEMMA SameFlow ==
    FlowInv /\ UNCHANGED <<row, lateOpen, chain, pc, late, batch>> => FlowNext
BY DEF FlowInv, FlowNext

(* What a Stop marks is tame.                                               *)
LEMMA StopIsTame ==
    ASSUME NEW L \in [Sends -> Row], \A s \in Sends : Shape(L[s]), NEW n \in Nat, NEW s \in Sends
    PROVE  Tamer(L[s], StopMarked(L, n)[s])
<1>1. L[s] \in Row /\ Shape(L[s])
  OBVIOUS
<1>2. \/ StopMarked(L, n)[s] = L[s]
      \/ /\ L[s].st \in Undecided
         /\ StopMarked(L, n)[s] = [L[s] EXCEPT !.stopped = TRUE, !.tok = n]
  BY DEF StopMarked
<1> QED BY <1>1, <1>2, TameOps

(* A typed stop, the Stop button, a cancelled row: the flow is kept.        *)
LEMMA StopsFlow ==
    ASSUME TypeInv, FlowInv,
           \/ \E p \in net : AcceptTypedStop(p)
           \/ StopPressed \/ \E s \in Sends : Cancel(s)
    PROVE  FlowNext
<1>1. /\ row \in [Sends -> Row] /\ row' \in [Sends -> Row] /\ tokens.stop + 1 \in Nat
  <2>1. TypeInv'
    BY AcceptTypedStopType, StopType, CancelType
  <2> QED BY <2>1 DEF TypeInv, LedgerOK, RestOK
<1>2. Flow(row, lateOpen, chain, pc, late, batch) /\ \A s \in Sends : Shape(row[s])
  BY DEF FlowInv, Flow, Shaped
<1>3. ASSUME NEW p \in net, AcceptTypedStop(p) PROVE FlowNext
  <2>1. PICK q \in Seqs :
          /\ IsNextSeq(Without(row, p.s), q)
          /\ row' = StopMarked([row EXCEPT ![p.s] = TypedStopRow(p, q)], tokens.stop + 1)
    BY <1>3 DEF AcceptTypedStop
  <2>2. /\ p \in Request /\ p.s \in Sends /\ q \in Nat /\ q > 0
        /\ row[p.s].st \in {"none", "failed", "refused"}
        /\ \A t \in Sends : t # p.s => row[t].seq < q
    BY <1>3, <2>1, NextRow DEF AcceptTypedStop
  <2> DEFINE r == TypedStopRow(p, q)
             L == [row EXCEPT ![p.s] = r]
  <2>3. r \in Row /\ r.st = "cancelled" /\ r.seq = q /\ Shape(r)
    <3>1. r \in Row
      BY <2>2, NewRows
    <3>2. /\ r.st = "cancelled" /\ r.seq = q /\ r.line = FALSE /\ r.ex = FALSE
      BY DEF TypedStopRow, NewRow, NoRow
    <3> HIDE DEF r
    <3> QED BY <2>2, <3>1, <3>2 DEF Shape
  <2> HIDE DEF r
  <2>4. Flow(L, lateOpen, chain, pc, late, batch) /\ L \in [Sends -> Row]
    BY <1>1, <2>2, <2>3, FreshFlow
  <2>5. row' = StopMarked(L, tokens.stop + 1)
    BY <2>1 DEF r
  <2> HIDE DEF L
  <2>6. \A s \in Sends : Shape(L[s])
    BY <2>4 DEF Flow, Shaped
  <2>7. \A s \in Sends : Tamer(L[s], row'[s])
    BY <1>1, <2>4, <2>5, <2>6, StopIsTame
  <2>8. UNCHANGED <<chain, pc, batch, lateOpen, late>>
    BY <1>3 DEF AcceptTypedStop, admissionVars
  <2> QED BY <1>1, <2>4, <2>7, <2>8, TameStep
<1>4. ASSUME StopPressed PROVE FlowNext
  <2>1. row' = StopMarked(row, tokens.stop + 1)
    BY <1>4 DEF StopPressed
  <2>2. \A s \in Sends : Tamer(row[s], row'[s])
    BY <1>1, <1>2, <2>1, StopIsTame
  <2>3. UNCHANGED <<chain, pc, batch, lateOpen, late>>
    BY <1>4 DEF StopPressed, admissionVars
  <2> QED BY <1>1, <1>2, <2>2, <2>3, TameStep
<1>5. ASSUME NEW c \in Sends, Cancel(c) PROVE FlowNext
  <2>1. row' = [row EXCEPT ![c] = Settled(row[c], "cancelled", FALSE)] /\ Cancellable(row[c])
    BY <1>5 DEF Cancel, SetRow
  <2>2. \A s \in Sends : row[s] \in Row /\ Shape(row[s])
    BY <1>1, <1>2
  <2>3. \A s \in Sends : Tamer(row[s], row'[s])
    <3>1. \A s \in Sends : s # c => row'[s] = row[s]
      BY <1>1, <2>1
    <3>2. row'[c] = Settled(row[c], "cancelled", FALSE)
      BY <1>1, <2>1
    <3> QED BY <2>1, <2>2, <3>1, <3>2, TameOps
  <2>4. UNCHANGED <<chain, pc, batch, lateOpen, late>>
    BY <1>5 DEF Cancel, admissionVars
  <2> QED BY <1>1, <1>2, <2>3, <2>4, TameStep
<1> QED BY <1>3, <1>4, <1>5
-----------------------------------------------------------------------------
(* With no batch there is less to keep.                                     *)
LEMMA FlowNoBatch ==
    ASSUME NEW L, NEW open, NEW C, NEW p, NEW T, NEW B, Flow(L, open, C, p, T, B)
    PROVE  Flow(L, open, C, p, T, {})
BY DEF Flow, Foremost, Starting

(* A drain of the ledger as it is.                                          *)
LEMMA DrainsFlow ==
    ASSUME TypeInv, FlowInv, NEW d \in Desks, d.batch = batch \/ d.batch = {},
           Drain(row, lateOpen, d) \/ DrainNothing(row, lateOpen, d),
           UNCHANGED <<chain, pc, late>>
    PROVE  FlowNext
<1>1. Flow(row, lateOpen, chain, pc, late, d.batch)
  BY FlowNoBatch DEF FlowInv
<1>2. Flow(row', lateOpen', chain, pc, late, batch')
  <2>1. CASE Drain(row, lateOpen, d)
    BY <1>1, <2>1, FoundHere, DrainFlow
  <2>2. CASE DrainNothing(row, lateOpen, d)
    BY <1>1, <2>2 DEF DrainNothing
  <2> QED BY <2>1, <2>2
<1> QED BY <1>2 DEF FlowNext

(* The batch's outcomes, the timers and other drains keep the flow.         *)
LEMMA QueueStepsFlow ==
    ASSUME TypeInv, FlowInv,
           BatchAdmitted \/ BatchRequeued \/ BatchFailed \/ RetryTimer \/ WatchTimer \/ OtherDrain
    PROVE  FlowNext
<1>1. /\ Desk \in Desks /\ Desk.batch = batch
      /\ row \in [Sends -> Row]
      /\ chain \in Seq(Job) /\ late \subseteq LateCall /\ batch \subseteq Job
  BY FoundHere DEF Found
<1>2. Flow(row, lateOpen, chain, pc, late, batch)
  BY DEF FlowInv
<1>3. CASE BatchAdmitted
  <2>1. batch' = {} /\ UNCHANGED <<row, lateOpen, chain, pc, late>>
    BY <1>3 DEF BatchAdmitted, ledgerVars, admissionVars
  <2> QED BY <1>2, <2>1, FlowNoBatch DEF FlowNext
<1>4. CASE BatchRequeued
  <2> DEFINE mine == {b.s : b \in {b \in batch : Mine(b) /\ row[b.s].st = "started"}}
  <2>1. PICK back \in SUBSET mine :
          /\ row' = [s \in Sends |-> IF s \in back THEN RequeuedStart(row[s]) ELSE row[s]]
          /\ lateOpen' = lateOpen \ {row[s].seq : s \in back}
    BY <1>4, Zenon DEF BatchRequeued
  <2>2. \A s \in back : row[s].st = "started" /\ s \in Sends
    BY <1>1 DEF Job
  <2>3. batch # {} /\ batch' = {} /\ UNCHANGED <<chain, pc, late>>
    BY <1>4 DEF BatchRequeued, admissionVars
  <2> HIDE DEF mine
  <2>4. ASSUME NEW s \in Sends
        PROVE  /\ row'[s].seq = row[s].seq /\ Shape(row'[s])
               /\ row'[s] = row[s] \/ (row[s].st = "started" /\ row'[s].st = "queued")
    <3>1. row[s] \in Row /\ Shape(row[s])
      BY <1>1, <1>2 DEF Flow, Shaped
    <3>2. CASE s \in back
      <4>1. row'[s] = RequeuedStart(row[s]) /\ row[s].st = "started"
        BY <2>1, <2>2, <3>2
      <4>2. row[s].line
        BY <3>1, <4>1 DEF Shape
      <4>3. Shape(RequeuedStart(row[s]))
        BY <3>1, <4>1, <4>2, ShapeOps
      <4>4. RequeuedStart(row[s]).seq = row[s].seq /\ RequeuedStart(row[s]).st = "queued"
        BY <3>1, SameOps, StatusOps
      <4> QED BY <4>1, <4>3, <4>4
    <3>3. CASE s \notin back
      BY <2>1, <3>1, <3>3
    <3> QED BY <3>2, <3>3
  <2>5. Shaped(row')
    <3>1. \A s \in Sends : row'[s].st # "none" => row[s].st # "none"
      BY <2>4
    <3> QED BY <1>2, <2>4, <3>1 DEF Flow, Shaped
  <2>6. InLine(row', chain, pc)
    <3>1. ASSUME NEW i \in DOMAIN chain PROVE row'[chain[i].s] = row[chain[i].s]
      <4>1. chain[i] \in Job
        BY <1>1
      <4>2. row[chain[i].s].st \in {"sending", "dispatched"} /\ chain[i].s \in Sends
        BY <1>2, <4>1 DEF Flow, InLine, Job
      <4> QED BY <2>4, <4>2
    <3> QED BY <1>2, <3>1 DEF Flow, InLine
  <2>7. Foremost(row', lateOpen', chain, pc, {})
    BY <1>2, <2>3 DEF Flow, Foremost
  <2>8. Asked(row', late)
    <3>1. ASSUME NEW l \in late, l.line PROVE row'[l.s] = row[l.s]
      <4>1. l.s \in Sends /\ row[l.s].st = "unconfirmed"
        BY <1>1, <1>2, <3>1 DEF Flow, Asked, LateCall
      <4> QED BY <2>4, <4>1
    <3> QED BY <1>2, <3>1 DEF Flow, Asked
  <2>9. Starting(row', lateOpen', {})
    BY DEF Starting
  <2> QED BY <2>3, <2>5, <2>6, <2>7, <2>8, <2>9 DEF FlowNext, Flow
<1>5. CASE BatchFailed
  <2> DEFINE d == [Desk EXCEPT !.batch = {}, !.retry = "none"]
  <2>1. d \in Desks /\ d.batch = {}
    BY <1>1 DEF Desks
  <2>2. DrainNothing(row, lateOpen, d) \/ Drain(row, lateOpen, d)
    BY <1>5, Zenon DEF BatchFailed
  <2>3. UNCHANGED <<chain, pc, late>>
    BY <1>5 DEF BatchFailed, admissionVars
  <2> HIDE DEF d
  <2> QED BY <2>1, <2>2, <2>3, DrainsFlow
<1>6. CASE RetryTimer
  <2> DEFINE d == [Desk EXCEPT !.retry = "open"]
  <2>1. d \in Desks /\ d.batch = batch
    BY <1>1 DEF Desks
  <2>2. Drain(row, lateOpen, d) /\ UNCHANGED <<chain, pc, late>>
    BY <1>6 DEF RetryTimer, admissionVars
  <2> HIDE DEF d
  <2> QED BY <2>1, <2>2, DrainsFlow
<1>7. CASE WatchTimer
  <2> DEFINE d == [Desk EXCEPT !.watch = FALSE]
  <2>1. d \in Desks /\ d.batch = batch
    BY <1>1 DEF Desks
  <2>2. Drain(row, lateOpen, d) /\ UNCHANGED <<chain, pc, late>>
    BY <1>7 DEF WatchTimer, admissionVars
  <2> HIDE DEF d
  <2> QED BY <2>1, <2>2, DrainsFlow
<1>8. CASE OtherDrain
  <2>1. Drain(row, lateOpen, Desk) /\ UNCHANGED <<chain, pc, late>>
    BY <1>8 DEF OtherDrain, admissionVars
  <2> QED BY <1>1, <2>1, DrainsFlow
<1> QED BY <1>3, <1>4, <1>5, <1>6, <1>7, <1>8
-----------------------------------------------------------------------------
(* A late answer lets go of its row: at most its words go.                  *)
LEMMA ReleaseIsTame ==
    ASSUME NEW L \in [Sends -> Row], \A s \in Sends : Shape(L[s]), NEW l \in LateCall
    PROVE  Release(L, l) \in [Sends -> Row] /\ \A s \in Sends : Tamer(L[s], Release(L, l)[s])
<1>1. l.s \in Sends
  BY DEF LateCall
<1>2. \A s \in Sends : L[s] \in Row /\ Scrubbed(L[s]) \in Row
  BY RowOps DEF Status
<1>3. Release(L, l) \in [Sends -> Row]
  BY <1>1, <1>2 DEF Release
<1>4. \A s \in Sends : Release(L, l)[s] \in {L[s], Scrubbed(L[s])}
  BY <1>1 DEF Release
<1> QED BY <1>2, <1>3, <1>4, TameOps

(* The row of an outstanding answer gets another status: every other        *)
(* outstanding one has its own row, and none of the line or of a batch is   *)
(* that one.  If it waits again, nothing has passed it.                     *)
LEMMA LateRowFlow ==
    ASSUME TypeInv, FlowInv, NEW l \in late, l.line,
           NEW r \in Row, Shape(r), r.seq = row[l.s].seq,
           r.st \in {"delivered", "failed"} \/ (r.st = "queued" /\ ~HasPassed(row, l.q))
    PROVE  Flow([row EXCEPT ![l.s] = r], lateOpen \ {l.q}, chain, pc, late \ {l}, batch)
<1> DEFINE L == [row EXCEPT ![l.s] = r]
           less == lateOpen \ {l.q}
<1>1. /\ row \in [Sends -> Row] /\ late \subseteq LateCall /\ batch \subseteq Job
      /\ chain \in Seq(Job) /\ (pc # "idle" => chain # <<>>)
      /\ l.s \in Sends /\ l.q \in Nat
  BY DEF TypeInv, LedgerOK, RestOK, AdmissionOK, LateCall
<1>2. Flow(row, lateOpen, chain, pc, late, batch)
  BY DEF FlowInv
<1>3. row[l.s].st = "unconfirmed" /\ row[l.s].seq = l.q
  BY <1>2 DEF Flow, Asked
<1>4. L[l.s] = r /\ \A t \in Sends : t # l.s => L[t] = row[t]
  BY <1>1
<1> HIDE DEF L, less
<1>5. \A t \in Sends : row[t].seq \in Nat /\ L[t].seq = row[t].seq
  BY <1>1, <1>3, <1>4 DEF Row
<1>6. ASSUME NEW t \in Sends, Blocks(L[t], less)
      PROVE  Blocks(row[t], lateOpen) \/ (t = l.s /\ ~HasPassed(row, l.q))
  BY <1>4, <1>6 DEF Blocks, InFlight, less
<1>7. Shaped(L)
  <2>1. \A s \in Sends : L[s].st # "none" => row[s].st # "none"
    BY <1>3, <1>4
  <2>2. \A s \in Sends : Shape(L[s])
    BY <1>2, <1>4 DEF Flow, Shaped
  <2> QED BY <1>2, <1>5, <2>1, <2>2 DEF Flow, Shaped
<1>8. InLine(L, chain, pc)
  <2>1. ASSUME NEW i \in DOMAIN chain PROVE L[chain[i].s] = row[chain[i].s]
    <3>1. chain[i] \in Job
      BY <1>1
    <3>2. row[chain[i].s].st \in {"sending", "dispatched"} /\ chain[i].s \in Sends
      BY <1>2, <3>1 DEF Flow, InLine, Job
    <3>3. chain[i].s # l.s
      BY <1>3, <3>2
    <3> QED BY <1>4, <3>2, <3>3
  <2> QED BY <1>2, <2>1 DEF Flow, InLine
<1>9. Foremost(L, less, chain, pc, batch)
  <2>1. SUFFICES ASSUME pc # "idle", NEW t \in Sends, L[t].seq < Head(chain).q,
                        Blocks(L[t], less)
                 PROVE  FALSE
    BY <1>2 DEF Flow, Foremost, BlockedByEarlier
  <2>2. 1 \in DOMAIN chain /\ Head(chain) = chain[1] /\ chain[1] \in Job
    BY <1>1, <2>1
  <2>3. /\ row[chain[1].s].seq = chain[1].q /\ row[chain[1].s].st = "dispatched"
        /\ chain[1].s \in Sends
    BY <1>2, <2>1, <2>2 DEF Flow, InLine, Job
  <2>4. ~Blocks(row[t], lateOpen)
    BY <1>2, <1>5, <2>1 DEF Flow, Foremost, BlockedByEarlier
  <2>5. t = l.s /\ ~HasPassed(row, l.q)
    BY <1>6, <2>1, <2>4
  <2> QED BY <1>1, <1>3, <1>5, <2>1, <2>2, <2>3, <2>5 DEF HasPassed
<1>10. Asked(L, late \ {l})
  <2>1. ASSUME NEW k \in late \ {l}, k.line PROVE L[k.s] = row[k.s]
    <3>1. /\ k \in LateCall /\ k.s \in Sends
          /\ row[k.s].seq = k.q /\ row[k.s].act = k.a
      BY <1>1, <1>2, <2>1 DEF Flow, Asked, LateCall
    <3>2. row[l.s].seq = l.q /\ row[l.s].act = l.a
      BY <1>2 DEF Flow, Asked
    <3>3. k.s # l.s
      <4>1. SUFFICES ASSUME k.s = l.s PROVE k = l
        BY <2>1
      <4>2. k.q = l.q /\ k.a = l.a /\ k \in LateCall /\ l \in LateCall
        BY <1>1, <3>1, <3>2, <4>1
      <4>3. k.line = TRUE /\ l.line = TRUE
        BY <2>1, <4>2 DEF LateCall
      <4> QED BY <4>1, <4>2, <4>3 DEF LateCall
    <3> QED BY <1>4, <3>1, <3>3
  <2>2. \A k \in late \ {l} : k \in late
    OBVIOUS
  <2> QED BY <1>2, <2>1, <2>2 DEF Flow, Asked
<1>11. Starting(L, less, batch)
  <2>1. ASSUME NEW b \in batch
        PROVE  /\ b.s \in Sends /\ L[b.s] = row[b.s] /\ row[b.s].seq = b.q
               /\ row[b.s].st \in {"dispatched", "started"}
    <3>1. b.s \in Sends
      BY <1>1 DEF Job
    <3>2. row[b.s].st \in {"started", "dispatched"} /\ row[b.s].seq = b.q
      BY <1>2 DEF Flow, Starting
    <3>3. b.s # l.s
      BY <1>3, <3>2
    <3> QED BY <1>4, <3>1, <3>2, <3>3
  <2>2. ASSUME MaxFail <= 1, NEW b \in batch, NEW t \in Sends, L[t].seq < b.q,
               Blocks(L[t], less)
        PROVE  \E c \in batch : c.s = t
    <3>1. CASE Blocks(row[t], lateOpen)
      BY <1>2, <1>5, <2>2, <3>1 DEF Flow, Starting
    <3>2. CASE t = l.s /\ ~HasPassed(row, l.q)
      BY <1>3, <1>5, <2>1, <2>2, <3>2 DEF HasPassed
    <3> QED BY <1>6, <2>2, <3>1, <3>2
  <2> QED BY <1>2, <2>1, <2>2 DEF Flow, Starting
<1> QED BY <1>7, <1>8, <1>9, <1>10, <1>11 DEF Flow, L, less

(* A late answer settles its row, or leaves it, and lets go of it.          *)
LEMMA LateSettledFlow ==
    ASSUME TypeInv, FlowInv, NEW l \in late, NEW st \in {"delivered", "failed"},
           LateSettled(l, st), late' = late \ {l}, UNCHANGED <<chain, pc>>
    PROVE  FlowNext
<1>1. /\ row \in [Sends -> Row] /\ l \in LateCall /\ l.s \in Sends
      /\ Flow(row, lateOpen, chain, pc, late, batch)
      /\ \A s \in Sends : row[s] \in Row /\ Shape(row[s])
  BY DEF TypeInv, LedgerOK, RestOK, LateCall, FlowInv, Flow, Shaped
<1>2. lateOpen' = lateOpen \ {l.q} /\ batch' = batch
  BY DEF LateSettled
<1>3. \/ l.line /\ row' = Release([row EXCEPT ![l.s] = Settled(row[l.s], st, TRUE)], l)
      \/ row' = Release(row, l)
  BY DEF LateSettled
<1>4. ASSUME row' = Release(row, l) PROVE FlowNext
  <2>1. row' \in [Sends -> Row] /\ \A s \in Sends : Tamer(row[s], row'[s])
    BY <1>1, <1>4, ReleaseIsTame
  <2>2. lateOpen' \subseteq lateOpen /\ late' \subseteq late
    BY <1>2
  <2> QED BY <1>1, <1>2, <2>1, <2>2, TameStep
<1>5. ASSUME l.line, row' = Release([row EXCEPT ![l.s] = Settled(row[l.s], st, TRUE)], l)
      PROVE  FlowNext
  <2> DEFINE r == Settled(row[l.s], st, TRUE)
             L == [row EXCEPT ![l.s] = r]
  <2>1. /\ r \in Row /\ r.st = st /\ r.seq = row[l.s].seq /\ Shape(r)
    <3>1. row[l.s].st # "none"
      BY <1>1, <1>5 DEF Flow, Asked
    <3>2. r \in Row /\ Shape(r)
      BY <1>1, <3>1, RowOps, ShapeOps DEF Status
    <3>3. r.st = st /\ r.seq = row[l.s].seq
      BY <1>1 DEF Settled, Row
    <3> QED BY <3>2, <3>3
  <2> HIDE DEF r
  <2>2. Flow(L, lateOpen', chain, pc, late', batch) /\ L \in [Sends -> Row]
    BY <1>1, <1>2, <1>5, <2>1, LateRowFlow
  <2>3. row' = Release(L, l)
    BY <1>5 DEF r
  <2> HIDE DEF L
  <2>4. row' \in [Sends -> Row] /\ \A s \in Sends : Tamer(L[s], row'[s])
    BY <1>1, <2>2, <2>3, ReleaseIsTame DEF Flow, Shaped
  <2>5. /\ chain \in Seq(Job) /\ (pc # "idle" => chain # <<>>)
        /\ late' \in SUBSET LateCall /\ batch \in SUBSET Job /\ lateOpen' \in SUBSET Nat
    BY <1>2 DEF TypeInv, LedgerOK, RestOK, AdmissionOK
  <2>6. Flow(row', lateOpen', chain, pc, late', batch)
    BY <2>2, <2>4, <2>5, FlowTamer
  <2> QED BY <1>2, <2>6 DEF FlowNext
<1> QED BY <1>3, <1>4, <1>5

(* reconcileLateSteer keeps the flow.                                       *)
LEMMA LateAnswerFlow ==
    ASSUME TypeInv, FlowInv, NEW l \in late, LateAnswer(l)
    PROVE  FlowNext
<1>1. /\ row \in [Sends -> Row] /\ l \in LateCall /\ l.s \in Sends /\ l.q \in Nat
      /\ Flow(row, lateOpen, chain, pc, late, batch)
      /\ \A s \in Sends : row[s] \in Row /\ Shape(row[s])
  BY DEF TypeInv, LedgerOK, RestOK, LateCall, FlowInv, Flow, Shaped
<1>2. late' = late \ {l} /\ UNCHANGED <<chain, pc>>
  BY DEF LateAnswer, admissionVars
<1>3. CASE LateDelivered(l)
  BY <1>2, <1>3, LateSettledFlow DEF LateDelivered
<1>4. CASE LateUncertain(l)
  <2>1. \A s \in Sends : Tamer(row[s], row'[s])
    BY <1>1, <1>4, TameOps DEF LateUncertain, drainVars
  <2>2. row' \in [Sends -> Row] /\ batch' = batch /\ lateOpen' = lateOpen
    BY <1>1, <1>4 DEF LateUncertain, drainVars
  <2> QED BY <1>1, <1>2, <2>1, <2>2, TameStep
<1>5. CASE LateRejected(l)
  <2> DEFINE L == [row EXCEPT ![l.s] = QueuedFromLine(@)]
             less == lateOpen \ {l.q}
  <2>1. \/ /\ row' = Release(row, l) /\ lateOpen' = less /\ batch' = batch
        \/ LateSettled(l, "failed")
        \/ l.line /\ ~HasPassed(row, l.q) /\ Drain(L, less, Desk)
    <3>1. Desk.batch = batch
      BY FoundHere
    <3>2. CASE ~l.line \/ row[l.s].seq # l.q
      BY <1>5, <3>1, <3>2 DEF LateRejected, DrainNothing
    <3>3. CASE ~(~l.line \/ row[l.s].seq # l.q)
      BY <1>5, <3>3, Zenon DEF LateRejected
    <3> QED BY <3>2, <3>3
  <2>2. ASSUME row' = Release(row, l), lateOpen' = less, batch' = batch PROVE FlowNext
    <3>1. row' \in [Sends -> Row] /\ \A s \in Sends : Tamer(row[s], row'[s])
      BY <1>1, <2>2, ReleaseIsTame
    <3>2. lateOpen' \subseteq lateOpen /\ late' \subseteq late
      BY <1>2, <2>2
    <3> QED BY <1>1, <1>2, <2>2, <3>1, <3>2, TameStep
  <2>3. ASSUME LateSettled(l, "failed") PROVE FlowNext
    BY <1>2, <2>3, LateSettledFlow
  <2>4. ASSUME l.line, ~HasPassed(row, l.q), Drain(L, less, Desk) PROVE FlowNext
    <3> DEFINE r == QueuedFromLine(row[l.s])
    <3>1. r \in Row /\ r.st = "queued" /\ r.seq = row[l.s].seq /\ Shape(r)
      <4>1. row[l.s].line /\ row[l.s].st # "none" /\ row[l.s] \in Row /\ Shape(row[l.s])
        BY <1>1, <2>4 DEF Flow, Asked
      <4>2. r \in Row /\ r.st = "queued"
        BY <4>1, RowOps, StatusOps DEF Status
      <4>3. Shape(r)
        BY <4>1, ShapeOps
      <4>4. r.seq = row[l.s].seq
        BY <4>1, SameOps
      <4> QED BY <4>2, <4>3, <4>4
    <3>2. L = [row EXCEPT ![l.s] = r] /\ L \in [Sends -> Row]
      BY <1>1, <3>1
    <3> HIDE DEF r, L
    <3>3. Flow(L, less, chain, pc, late', batch)
      BY <1>2, <2>4, <3>1, <3>2, LateRowFlow
    <3>4. Found(L, less, chain, pc, late')
      BY <1>2, <3>2, FoundHere DEF Found
    <3>5. Flow(row', lateOpen', chain, pc, late', batch')
      <4> HIDE DEF less
      <4> QED BY <2>4, <3>3, <3>4, FoundHere, DrainFlow
    <3> QED BY <1>2, <3>5 DEF FlowNext
  <2> QED BY <2>1, <2>2, <2>3, <2>4
<1> QED BY <1>3, <1>4, <1>5 DEF LateAnswer
-----------------------------------------------------------------------------
(* Turns, rooms and the selected task keep the flow.                        *)
LEMMA WorldFlow ==
    ASSUME TypeInv, FlowInv, World
    PROVE  FlowNext
<1>1. Desk \in Desks /\ Desk.batch = batch
  BY FoundHere
<1>2. CASE OtherTurnStarts \/ EngineGetsTurn \/ RoomTurnStarts \/ TargetMoves
  BY <1>2, SameFlow DEF OtherTurnStarts, EngineGetsTurn, RoomTurnStarts, TargetMoves, TurnFrame,
     ledgerVars, drainVars, admissionVars
<1>3. CASE TurnCompleted \/ TurnReleased \/ RoomTurnEnds
  <2>1. Drain(row, lateOpen, Desk) /\ UNCHANGED <<chain, pc, late>>
    BY <1>3 DEF TurnCompleted, TurnReleased, RoomTurnEnds, TurnFrame, admissionVars
  <2> QED BY <1>1, <2>1, DrainsFlow
<1> QED BY <1>2, <1>3 DEF World

(* With nothing in memory a shaped ledger is all there is to keep.          *)
LEMMA RestFlow ==
    ASSUME NEW L, NEW open, Shaped(L)
    PROVE  Flow(L, open, <<>>, "idle", {}, {})
<1>1. DOMAIN <<>> = {}
  OBVIOUS
<1> QED BY <1>1 DEF Flow, InLine, Foremost, Asked, Starting

(* Recovery and a restore shape the ledger anew, row by row.                *)
LEMMA ShapedAnew ==
    ASSUME NEW L \in [Sends -> Row], Shaped(L), NEW n \in Nat
    PROVE  Shaped(Recovered(L)) /\ Shaped(Neutralized(L, n))
<1>1. \A s \in Sends : L[s] \in Row /\ Shape(L[s])
  BY DEF Shaped
<1>2. ASSUME NEW s \in Sends
      PROVE  /\ Recovered(L)[s].seq = L[s].seq /\ Shape(Recovered(L)[s])
             /\ Recovered(L)[s].st # "none" => L[s].st # "none"
  <2> DEFINE r == L[s]
  <2>1. r \in Row /\ Shape(r)
    BY <1>1
  <2>2. \/ r.st \in Undecided /\ Recovered(L)[s] = [r EXCEPT !.st = "refused", !.ex = FALSE]
        \/ r.st = "sending" /\ Recovered(L)[s] = [r EXCEPT !.st = "queued"]
        \/ Recovered(L)[s] = r
    BY DEF Recovered
  <2> HIDE DEF r
  <2> QED BY <2>1, <2>2 DEF r, Shape, Row, Undecided
<1>3. ASSUME NEW s \in Sends
      PROVE  /\ Neutralized(L, n)[s].seq = L[s].seq /\ Shape(Neutralized(L, n)[s])
             /\ Neutralized(L, n)[s].st # "none" => L[s].st # "none"
  <2> DEFINE r == L[s]
             m == Neutral(r)
  <2>1. r \in Row /\ Shape(r)
    BY <1>1
  <2>2. Neutralized(L, n)[s] = IF m.held THEN [m EXCEPT !.gen = n] ELSE m
    BY DEF Neutralized
  <2>3. \/ r.st \in Undecided
           /\ m = [r EXCEPT !.st = "refused", !.disp = FALSE, !.ex = FALSE, !.held = TRUE]
        \/ r.st \in Undecided /\ m = [r EXCEPT !.st = "cancelled", !.disp = FALSE]
        \/ m = [r EXCEPT !.held = r.held \/ r.st \in {"failed", "refused"}]
    BY Zenon DEF Neutral
  <2> HIDE DEF r, m
  <2>4. m \in Row /\ m.seq = r.seq /\ (m.st # "none" => r.st # "none") /\ Shape(m)
    <3>1. CASE r.st \in Undecided
               /\ m = [r EXCEPT !.st = "refused", !.disp = FALSE, !.ex = FALSE, !.held = TRUE]
      BY <2>1, <3>1 DEF Shape, Row, Status, Undecided
    <3>2. CASE r.st \in Undecided /\ m = [r EXCEPT !.st = "cancelled", !.disp = FALSE]
      BY <2>1, <3>2 DEF Shape, Row, Status, Undecided
    <3>3. CASE m = [r EXCEPT !.held = r.held \/ r.st \in {"failed", "refused"}]
      <4>1. CASE r.st = "none"
        <5>1. r = NoRow
          BY <2>1, <4>1 DEF Shape
        <5>2. (r.held \/ r.st \in {"failed", "refused"}) = r.held
          BY <4>1, <5>1 DEF NoRow
        <5>3. m = r
          BY <2>1, <3>3, <5>2 DEF Row
        <5> QED BY <2>1, <5>3
      <4>2. CASE r.st # "none"
        <5> DEFINE h == r.held \/ r.st \in {"failed", "refused"}
        <5>1. m = [r EXCEPT !.held = h] /\ h \in BOOLEAN
          BY <3>3
        <5> HIDE DEF h
        <5> QED BY <2>1, <4>2, <5>1 DEF Shape, Row
      <4> QED BY <4>1, <4>2
    <3> QED BY <2>3, <3>1, <3>2, <3>3
  <2>5. m.st # "none" => Shape([m EXCEPT !.gen = n]) /\ [m EXCEPT !.gen = n].seq = m.seq
                         /\ [m EXCEPT !.gen = n].st = m.st
    BY <2>4 DEF Shape, Row
  <2>6. m.st = "none" => ~m.held
    BY <2>4 DEF Shape, NoRow
  <2> QED BY <2>2, <2>4, <2>5, <2>6 DEF r
<1>4. Shaped(Recovered(L))
  BY <1>2 DEF Shaped
<1>5. Shaped(Neutralized(L, n))
  BY <1>3 DEF Shaped
<1> QED BY <1>4, <1>5

(* Crash, start-up, completion, pruning and restores keep the flow.         *)
LEMMA LifecycleFlow ==
    ASSUME TypeInv, FlowInv, Lifecycle
    PROVE  FlowNext
<1>1. /\ row \in [Sends -> Row] /\ Desk \in Desks /\ Desk.batch = batch
      /\ late \subseteq LateCall /\ batch \subseteq Job /\ chain \in Seq(Job)
  BY FoundHere DEF Found
<1>2. /\ Flow(row, lateOpen, chain, pc, late, batch) /\ Shaped(row)
      /\ \A s \in Sends : row[s] \in Row /\ Shape(row[s])
  BY <1>1 DEF FlowInv, Flow, Shaped
<1>3. CASE Crash
  BY <1>2, <1>3, RestFlow DEF Crash, ledgerVars, FlowNext
<1>4. CASE Recover
  <2>1. Shaped(row')
    BY <1>1, <1>2, <1>4, ShapedAnew, 0 \in Nat DEF Recover
  <2>2. chain' = <<>> /\ pc' = "idle" /\ late' = {} /\ batch' = {}
    BY <1>4 DEF Recover, BootFrame, admissionVars, FlowInv
  <2> QED BY <2>1, <2>2, RestFlow DEF FlowNext
<1>5. CASE Ready
  <2>1. Drain(row, lateOpen, Desk) /\ UNCHANGED <<chain, pc, late>>
    BY <1>5 DEF Ready, BootFrame, admissionVars
  <2> QED BY <1>1, <2>1, DrainsFlow
<1>6. CASE TakeBackup
  BY <1>6, SameFlow DEF TakeBackup, ledgerVars, admissionVars
<1>7. CASE Restore
  <2>1. Shaped(backup.row) /\ backup.row \in [Sends -> Row] /\ tokens.gen + 1 \in Nat
    BY <1>7 DEF Restore, FlowInv, TypeInv, RestOK, Snapshot
  <2>2. Shaped(row')
    BY <1>7, <2>1, ShapedAnew DEF Restore
  <2>3. chain' = <<>> /\ pc' = "idle" /\ late' = {} /\ batch' = {}
    BY <1>7 DEF Restore, admissionVars, FlowInv
  <2> QED BY <2>2, <2>3, RestFlow DEF FlowNext
<1>8. ASSUME NEW s \in Sends, CompleteOne(s) PROVE FlowNext
  <2>1. chain' = <<>> /\ pc' = "idle" /\ late' = {} /\ batch' = {}
    BY <1>8 DEF CompleteOne, BootFrame, admissionVars, FlowInv
  <2>2. \/ row' = row
        \/ \E r : /\ row' = [row EXCEPT ![s] = r]
                  /\ \/ row[s].st # "none" /\ r = Settled(row[s], "started", TRUE)
                     \/ r = Scrubbed(row[s])
                     \/ row[s].words /\ r = Scrubbed(Settled(row[s], "unconfirmed", TRUE))
    <3>1. CASE Fails(0) /\ lines[s] > 0
      <4>1. \/ UNCHANGED ledgerVars
            \/ SetRow(s, IF row[s].st = "dispatched"
                         THEN Settled(row[s], "started", TRUE) ELSE Scrubbed(row[s]))
        BY <1>8, <3>1 DEF CompleteOne
      <4> QED BY <4>1 DEF SetRow, ledgerVars
    <3>2. CASE lines[s] > 0 /\ ~Fails(0)
      BY <1>8, <3>2 DEF CompleteOne, ledgerVars
    <3>3. CASE ~(lines[s] > 0)
      BY <1>8, <3>3 DEF CompleteOne, SetRow, ledgerVars
    <3> QED BY <3>1, <3>2, <3>3
  <2>3. ASSUME NEW r, row' = [row EXCEPT ![s] = r],
               \/ row[s].st # "none" /\ r = Settled(row[s], "started", TRUE)
               \/ r = Scrubbed(row[s])
               \/ row[s].words /\ r = Scrubbed(Settled(row[s], "unconfirmed", TRUE))
        PROVE  Shaped(row')
    <3>1. row[s] \in Row /\ Shape(row[s]) /\ (row[s].words => row[s].st # "none")
      BY <1>2 DEF Shape, NoRow
    <3>2. Shape(r) /\ r.seq = row[s].seq /\ (r.st # "none" => row[s].st # "none")
      <4>1. CASE row[s].st # "none" /\ r = Settled(row[s], "started", TRUE)
        <5>1. Shape(r)
          BY <3>1, <4>1, ShapeOps
        <5> QED BY <3>1, <4>1, <5>1 DEF Settled, Row
      <4>2. CASE r = Scrubbed(row[s])
        <5>1. Tamer(row[s], r)
          BY <3>1, <4>2, TameOps
        <5> QED BY <5>1 DEF Tamer
      <4>3. CASE row[s].words /\ r = Scrubbed(Settled(row[s], "unconfirmed", TRUE))
        <5> DEFINE m == Settled(row[s], "unconfirmed", TRUE)
        <5>1. Shape(m) /\ m \in Row /\ m.st # "none"
          <6>1. Shape(m)
            BY <3>1, <4>3, ShapeOps
          <6>2. m \in Row
            BY <3>1, RowOps DEF Status
          <6>3. m.st # "none"
            BY <3>1 DEF Settled, Row
          <6> QED BY <6>1, <6>2, <6>3
        <5>2. m.seq = row[s].seq
          BY <3>1 DEF Settled, Row
        <5> HIDE DEF m
        <5>3. Tamer(m, r)
          BY <4>3, <5>1, TameOps DEF m
        <5> QED BY <3>1, <4>3, <5>2, <5>3 DEF Tamer
      <4> QED BY <2>3, <4>1, <4>2, <4>3
    <3>3. \A t \in Sends : t # s => row'[t] = row[t]
      BY <1>1, <2>3
    <3>4. row'[s] = r
      BY <1>1, <2>3
    <3>5. \A t \in Sends : /\ Shape(row'[t]) /\ row'[t].seq = row[t].seq
                           /\ row'[t].st # "none" => row[t].st # "none"
      BY <1>2, <3>2, <3>3, <3>4
    <3> QED BY <1>2, <3>5 DEF Shaped
  <2>4. Shaped(row')
    BY <1>2, <2>2, <2>3
  <2> QED BY <2>1, <2>4, RestFlow DEF FlowNext
<1>9. ASSUME NEW s \in Sends, Prune(s) PROVE FlowNext
  <2>1. /\ row' = [row EXCEPT ![s] = NoRow] /\ late = {}
        /\ UNCHANGED <<lateOpen, chain, pc, late, batch>>
        /\ \A i \in DOMAIN chain : chain[i].s # s
        /\ s \notin {b.s : b \in batch}
    BY <1>9 DEF Prune, SetRow, InChain, admissionVars
  <2>2. row'[s] = NoRow /\ \A t \in Sends : t # s => row'[t] = row[t]
    BY <1>1, <2>1
  <2>3. /\ NoRow.st = "none" /\ NoRow.seq = 0 /\ Shape(NoRow)
    BY DEF NoRow, Shape
  <2>4. Shaped(row')
    <3>1. \A t \in Sends : Shape(row'[t])
      BY <1>2, <2>2, <2>3
    <3>2. ASSUME NEW t \in Sends, NEW u \in Sends, t # u, row'[t].st # "none"
          PROVE  row'[t].seq # row'[u].seq
      <4>1. t # s /\ row'[t] = row[t] /\ row[t].seq > 0
        BY <1>2, <2>2, <2>3, <3>2 DEF Shape
      <4>2. CASE u = s
        BY <2>2, <2>3, <4>1, <4>2
      <4>3. CASE u # s
        BY <1>2, <2>2, <3>2, <4>1, <4>3 DEF Shaped
      <4> QED BY <4>2, <4>3
    <3> QED BY <3>1, <3>2 DEF Shaped
  <2>5. InLine(row', chain, pc)
    <3>1. ASSUME NEW i \in DOMAIN chain PROVE row'[chain[i].s] = row[chain[i].s]
      <4>1. chain[i] \in Job
        BY <1>1
      <4> QED BY <2>1, <2>2, <4>1 DEF Job
    <3> QED BY <1>2, <3>1 DEF Flow, InLine
  <2>6. \A t \in Sends : Blocks(row'[t], lateOpen) => t # s
    BY <2>2, <2>3 DEF Blocks, InFlight
  <2>7. Foremost(row', lateOpen, chain, pc, batch)
    BY <1>2, <2>2, <2>6 DEF Flow, Foremost, BlockedByEarlier
  <2>8. Starting(row', lateOpen, batch)
    <3>1. ASSUME NEW b \in batch PROVE row'[b.s] = row[b.s]
      BY <1>1, <2>1, <2>2 DEF Job
    <3> QED BY <1>2, <2>2, <2>6, <3>1 DEF Flow, Starting
  <2>9. Asked(row', late)
    BY <2>1 DEF Asked
  <2> QED BY <2>1, <2>4, <2>5, <2>7, <2>8, <2>9 DEF FlowNext, Flow
<1> QED BY <1>3, <1>4, <1>5, <1>6, <1>7, <1>8, <1>9 DEF Lifecycle
-----------------------------------------------------------------------------
(* A transcript line added is one the row neither had nor adopts.           *)
LineAdded(L, s) ==
    \/ lines'[s] = lines[s]
    \/ lines'[s] = lines[s] + 1 /\ ~L[s].line /\ ~L[s].ex

LinesAdded == \A s \in Sends : LineAdded(row, s)

(* No action but these writes a line.                                       *)
LEMMA NoLines == LedgerOK /\ lines' = lines => \A L : \A s \in Sends : LineAdded(L, s)
BY DEF LineAdded

(* A drain adds a line only to a row that waits without one.                *)
LEMMA DrainLines ==
    ASSUME LedgerOK, NEW L \in [Sends -> Row], \A s \in Sends : Shape(L[s]),
           NEW open, NEW d, Drain(L, open, d)
    PROVE  \A s \in Sends : LineAdded(L, s)
<1> DEFINE M == LateReleased(L, open)
<1>1. ASSUME lines' = lines PROVE \A s \in Sends : LineAdded(L, s)
  BY <1>1, NoLines
<1>2. ASSUME DrainStarts(M, d) PROVE \A s \in Sends : LineAdded(L, s)
  <2>1. \A s \in Sends : /\ M[s] = L[s] \/ M[s] = Scrubbed(L[s])
                         /\ L[s] \in Row
    BY DEF LateReleased
  <2>2. \A s \in Sends : M[s].st = L[s].st /\ M[s].ex = L[s].ex
    <3>1. \A r \in Row : Scrubbed(r).st = r.st /\ Scrubbed(r).ex = r.ex
      BY DEF Scrubbed, Row
    <3> QED BY <2>1, <3>1
  <2>3. M \in [Sends -> Row]
    <3>1. \A s \in Sends : Scrubbed(L[s]) \in Row
      BY <2>1, RowOps DEF Status
    <3> QED BY <2>1, <3>1 DEF LateReleased
  <2> HIDE DEF M
  <2>4. PICK passed, fate : Drained(M, Drainable(M, {}), passed, fate)
    BY <1>2, <2>3, DrainIsDrained
  <2> DEFINE B == DrainBatch(M, Drainable(M, {}) \ passed)
             runs == {s \in B : fate[s] = "ok" \/ M[s].ex}
  <2>5. lines' = [s \in Sends |-> lines[s] + IF s \in runs /\ ~M[s].ex THEN 1 ELSE 0]
    BY <2>4 DEF Drained
  <2>6. \A s \in runs : M[s].st = "queued"
    BY DEF DrainBatch, Drainable
  <2> HIDE DEF runs
  <2>7. ASSUME NEW s \in Sends PROVE LineAdded(L, s)
    <3>1. CASE s \in runs /\ ~M[s].ex
      <4>1. lines'[s] = lines[s] + 1
        BY <2>5, <3>1
      <4>2. L[s].st = "queued" /\ ~L[s].ex
        BY <2>2, <2>6, <3>1
      <4>3. ~L[s].line
        BY <4>2 DEF Shape
      <4> QED BY <4>1, <4>2, <4>3 DEF LineAdded
    <3>2. CASE ~(s \in runs /\ ~M[s].ex)
      <4>1. lines'[s] = lines[s] + 0
        BY <2>5, <3>2
      <4> QED BY <4>1 DEF LineAdded, LedgerOK
    <3> QED BY <3>1, <3>2
  <2> QED BY <2>7
<1>3. DrainStarts(M, d) \/ lines' = lines
  BY DEF Drain, DrainNothing, DrainGone, DrainUnmarked
<1> QED BY <1>1, <1>2, <1>3

(* queueIt adds no other line than its drain's.                             *)
LEMMA QueueItLines ==
    ASSUME TypeInv, FlowInv, chain # <<>>, NEW drains, QueueIt(Head(chain), drains)
    PROVE  LinesAdded
<1> DEFINE j == Head(chain)
           L == [row EXCEPT ![j.s] = Queued(@)]
           open == lateOpen \ {j.q}
<1>1. /\ j.s \in Sends /\ row \in [Sends -> Row] /\ LedgerOK
      /\ \A s \in Sends : row[s] \in Row /\ Shape(row[s])
      /\ Outcome(Queued(row[j.s]))
  BY HeadRow, Outcomes DEF TypeInv, LedgerOK, FlowInv, Flow, Shaped
<1>2. L \in [Sends -> Row] /\ \A s \in Sends : Shape(L[s])
  BY <1>1 DEF Outcome
<1>3. \A s \in Sends : L[s].line = row[s].line /\ L[s].ex = row[s].ex
  <2>1. \A r \in Row : Queued(r).line = r.line /\ Queued(r).ex = r.ex
    BY DEF Queued, Row
  <2> QED BY <1>1, <2>1
<1>4. Drain(L, open, Desk) \/ DrainNothing(L, open, Desk)
  BY Zenon DEF QueueIt
<1> HIDE DEF L, open
<1>5. \A s \in Sends : LineAdded(L, s)
  <2>1. CASE Drain(L, open, Desk)
    BY <1>1, <1>2, <2>1, DrainLines
  <2>2. CASE DrainNothing(L, open, Desk)
    BY <1>1, <2>2, NoLines DEF DrainNothing
  <2> QED BY <1>4, <2>1, <2>2
<1> QED BY <1>3, <1>5 DEF LineAdded, LinesAdded

(* The admission adds a line only to the head's row, which has none.        *)
LEMMA AdmissionLines ==
    ASSUME TypeInv, FlowInv, Admission
    PROVE  LinesAdded
<1> DEFINE j == Head(chain)
<1>1. chain # <<>> /\ LedgerOK /\ lines \in [Sends -> Nat]
  BY DEF Admission, Decide, SteerAnswered, RunRefused, RunAdmitted, RunRecorded, TypeInv,
         AdmissionOK, LedgerOK
<1>2. ASSUME lines' = lines PROVE LinesAdded
  BY <1>1, <1>2, NoLines DEF LinesAdded
<1>3. ASSUME lines' = [lines EXCEPT ![j.s] = @ + 1] PROVE LinesAdded
  <2>1. j.s \in Sends /\ ~row[j.s].line /\ ~row[j.s].ex
    BY <1>1, HeadRow
  <2>2. lines'[j.s] = lines[j.s] + 1 /\ \A s \in Sends : s # j.s => lines'[s] = lines[s]
    BY <1>1, <1>3, <2>1
  <2> QED BY <2>1, <2>2 DEF LinesAdded, LineAdded
<1>4. ASSUME NEW drains, QueueIt(j, drains) PROVE LinesAdded
  BY <1>1, <1>4, QueueItLines
<1>5. \A n : Caught(j, n) => lines' = lines
  BY DEF Caught
<1>6. \A next : MarkThen(j, next) => lines' = lines
  BY DEF MarkThen
<1>7. NotSteered(j) => \/ Caught(j, 0) \/ QueueIt(j, TRUE) \/ QueueIt(j, FALSE)
                       \/ MarkThen(j, "starting")
  BY Zenon DEF NotSteered
<1>8. CASE Decide
  <2>1. \/ Caught(j, 0) \/ Caught(j, 1) \/ QueueIt(j, TRUE) \/ QueueIt(j, FALSE)
        \/ MarkThen(j, "steering") \/ MarkThen(j, "starting") \/ NotSteered(j)
    BY <1>8, Zenon DEF Decide
  <2> QED BY <1>2, <1>4, <1>5, <1>6, <1>7, <2>1
<1>9. CASE SteerAnswered
  <2>1. Taken(j) \/ Uncertain(j) \/ NotSteered(j) \/ Caught(j, 1)
    BY <1>9, Zenon DEF SteerAnswered
  <2>2. ASSUME NEW st \in {"delivered", "unconfirmed"}, SteerRecorded(j, st)
        PROVE  LinesAdded
    <3>1. lines' = lines \/ lines' = [lines EXCEPT ![j.s] = @ + 1]
      BY <2>2 DEF SteerRecorded
    <3> QED BY <1>2, <1>3, <3>1
  <2>3. Taken(j) \/ Uncertain(j) => LinesAdded
    BY <2>2 DEF Taken, Uncertain
  <2> QED BY <1>2, <1>4, <1>5, <1>6, <1>7, <2>1, <2>3
<1>10. CASE RunRefused
  BY <1>2, <1>5, <1>10 DEF RunRefused
<1>11. CASE RunAdmitted
  BY <1>3, <1>11 DEF RunAdmitted
<1>12. CASE RunRecorded
  BY <1>2, <1>12 DEF RunRecorded
<1> QED BY <1>8, <1>9, <1>10, <1>11, <1>12 DEF Admission

(* A late refusal puts its row back with the line it has.                   *)
LEMMA LateLines ==
    ASSUME TypeInv, FlowInv, NEW l \in late, LateAnswer(l)
    PROVE  LinesAdded
<1> DEFINE L == [row EXCEPT ![l.s] = QueuedFromLine(@)]
           less == lateOpen \ {l.q}
<1>1. /\ row \in [Sends -> Row] /\ LedgerOK /\ l.s \in Sends
      /\ Flow(row, lateOpen, chain, pc, late, batch)
      /\ \A s \in Sends : row[s] \in Row /\ Shape(row[s])
  BY DEF TypeInv, LedgerOK, RestOK, LateCall, FlowInv, Flow, Shaped
<1>2. ASSUME lines' = lines PROVE LinesAdded
  BY <1>1, <1>2, NoLines DEF LinesAdded
<1>3. lines' = lines \/ (l.line /\ Drain(L, less, Desk))
  <2>1. CASE LateDelivered(l)
    BY <2>1 DEF LateDelivered, LateSettled
  <2>2. CASE LateUncertain(l)
    BY <2>2 DEF LateUncertain, drainVars
  <2>3. CASE LateRejected(l)
    <3>1. \/ DrainNothing(Release(row, l), less, Desk) \/ LateSettled(l, "failed")
          \/ l.line /\ Drain(L, less, Desk)
          \/ UNCHANGED <<lines, batch, watch>>
      BY <2>3, Zenon DEF LateRejected
    <3> QED BY <3>1 DEF DrainNothing, LateSettled
  <2> QED BY <2>1, <2>2, <2>3 DEF LateAnswer
<1>4. ASSUME l.line, Drain(L, less, Desk) PROVE LinesAdded
  <2> DEFINE r == QueuedFromLine(row[l.s])
  <2>1. row[l.s].line /\ row[l.s].st # "none"
    BY <1>1, <1>4 DEF Flow, Asked
  <2>2. Shape(r)
    BY <1>1, <2>1, ShapeOps
  <2>3. r \in Row /\ r.ex
    <3>1. r \in Row
      BY <1>1, RowOps DEF Status
    <3>2. r.ex = TRUE
      BY <1>1 DEF QueuedFromLine, Queued, Row
    <3> QED BY <3>1, <3>2
  <2>4. L = [row EXCEPT ![l.s] = r]
    BY <1>1
  <2> HIDE DEF r, L, less
  <2>5. L \in [Sends -> Row] /\ \A s \in Sends : Shape(L[s])
    BY <1>1, <2>2, <2>3, <2>4
  <2>6. L[l.s].ex /\ \A s \in Sends : s # l.s => L[s] = row[s]
    BY <1>1, <2>3, <2>4
  <2>7. \A s \in Sends : LineAdded(L, s)
    BY <1>1, <1>4, <2>5, DrainLines
  <2> QED BY <2>6, <2>7 DEF LineAdded, LinesAdded
<1> QED BY <1>2, <1>3, <1>4

(* A drain of the ledger as it is.                                          *)
LEMMA DrainsLines ==
    ASSUME TypeInv, FlowInv, NEW d,
           Drain(row, lateOpen, d) \/ DrainNothing(row, lateOpen, d)
    PROVE  LinesAdded
<1>1. LedgerOK /\ row \in [Sends -> Row] /\ \A s \in Sends : Shape(row[s])
  BY DEF TypeInv, LedgerOK, FlowInv, Flow, Shaped
<1>2. CASE Drain(row, lateOpen, d)
  BY <1>1, <1>2, DrainLines DEF LinesAdded
<1>3. CASE DrainNothing(row, lateOpen, d)
  BY <1>1, <1>3, NoLines DEF LinesAdded, DrainNothing
<1> QED BY <1>2, <1>3

(* completeUnresolved writes a line only when it finds none.                *)
LEMMA CompleteLines ==
    ASSUME TypeInv, WordsInv, NEW s \in Sends, CompleteOne(s)
    PROVE  LinesAdded
<1>1. LedgerOK /\ lines \in [Sends -> Nat] /\ Safe(row[s], lines[s], s \in acked, s \in dismissed)
  BY DEF TypeInv, LedgerOK, WordsInv, SafeLedger
<1>2. lines' = lines \/ (~(lines[s] > 0) /\ lines' = [lines EXCEPT ![s] = @ + 1])
  BY DEF CompleteOne, ledgerVars
<1>3. CASE lines' = lines
  BY <1>1, <1>3, NoLines DEF LinesAdded
<1>4. CASE ~(lines[s] > 0) /\ lines' = [lines EXCEPT ![s] = @ + 1]
  <2>1. ~row[s].line /\ ~row[s].ex
    BY <1>1, <1>4 DEF Safe
  <2>2. lines'[s] = lines[s] + 1 /\ \A t \in Sends : t # s => lines'[t] = lines[t]
    BY <1>1, <1>4
  <2> QED BY <2>1, <2>2 DEF LinesAdded, LineAdded
<1> QED BY <1>2, <1>3, <1>4

(* No step but a restore takes a line back, and none adds a second one.     *)
LEMMA StepLines ==
    ASSUME TypeInv, WordsInv, FlowInv, [Next]_vars, ~Restore
    PROVE  LinesAdded
<1>1. LedgerOK
  BY DEF TypeInv
<1>2. ASSUME lines' = lines PROVE LinesAdded
  BY <1>1, <1>2, NoLines DEF LinesAdded
<1>3. CASE Client
  <2>1. \A p : Press(p) => lines' = lines
    BY DEF Press, ledgerVars
  <2>2. lines' = lines
    BY <1>3, <2>1 DEF Client, FirstSend, SendAgain, Cancel, Accept, AcceptAgain, AcceptTypedStop,
       StopPressed, ledgerVars
  <2> QED BY <1>2, <2>2
<1>4. CASE Admission
  BY <1>4, AdmissionLines
<1>5. CASE Queue
  <2>1. ASSUME NEW l \in late, LateAnswer(l) PROVE LinesAdded
    BY <2>1, LateLines
  <2>2. CASE BatchAdmitted \/ BatchRequeued
    BY <1>2, <2>2 DEF BatchAdmitted, BatchRequeued, ledgerVars
  <2>3. CASE BatchFailed
    <3>1. \E d : DrainNothing(row, lateOpen, d) \/ Drain(row, lateOpen, d)
      BY <2>3, Zenon DEF BatchFailed
    <3> QED BY <3>1, DrainsLines
  <2>4. CASE RetryTimer
    BY <2>4, DrainsLines DEF RetryTimer
  <2>5. CASE WatchTimer
    BY <2>5, DrainsLines DEF WatchTimer
  <2>6. CASE OtherDrain
    BY <2>6, DrainsLines DEF OtherDrain
  <2> QED BY <1>5, <2>1, <2>2, <2>3, <2>4, <2>5, <2>6 DEF Queue
<1>6. CASE World
  <2>1. lines' = lines \/ Drain(row, lateOpen, Desk)
    BY <1>6 DEF World, OtherTurnStarts, EngineGetsTurn, TurnCompleted, TurnReleased,
       RoomTurnStarts, RoomTurnEnds, TargetMoves, ledgerVars, drainVars
  <2> QED BY <1>2, <2>1, DrainsLines
<1>7. CASE Lifecycle
  <2>1. CASE Crash \/ Recover \/ TakeBackup
    BY <1>2, <2>1 DEF Crash, Recover, TakeBackup, ledgerVars
  <2>2. CASE Ready
    BY <2>2, DrainsLines DEF Ready
  <2>3. ASSUME NEW s \in Sends, CompleteOne(s) PROVE LinesAdded
    BY <2>3, CompleteLines
  <2>4. ASSUME NEW s \in Sends, Prune(s) PROVE LinesAdded
    BY <1>2, <2>4 DEF Prune
  <2> QED BY <1>7, <2>1, <2>2, <2>3, <2>4 DEF Lifecycle
<1>8. CASE UNCHANGED vars
  BY <1>2, <1>8 DEF vars
<1> QED BY <1>3, <1>4, <1>5, <1>6, <1>7, <1>8 DEF Next

(* OneLine of one step: a line taken back by a restore is not one added.    *)
LEMMA OneLineStep ==
    ASSUME TypeInv, WordsInv, FlowInv, [Next]_vars
    PROVE  \A s \in Sends : lines'[s] > lines[s] => ~row[s].line /\ ~row[s].ex
<1>1. lines \in [Sends -> Nat]
  BY DEF TypeInv, LedgerOK
<1>2. CASE ~Restore
  <2>1. LinesAdded
    BY <1>2, StepLines
  <2> QED BY <1>1, <2>1 DEF LinesAdded, LineAdded
<1>3. CASE Restore
  <2>1. lines' = backup.lines /\ backup # NoBackup
    BY <1>3 DEF Restore
  <2>2. \A s \in Sends : backup.lines[s] \in Nat /\ backup.lines[s] <= lines[s]
    BY <2>1 DEF FlowInv, TypeInv, RestOK, Snapshot
  <2> QED BY <1>1, <2>1, <2>2
<1> QED BY <1>2, <1>3
-----------------------------------------------------------------------------
(* The snapshot: shaped as the ledger was, with no line that is not there.  *)
SnapOK ==
    backup # NoBackup =>
      Shaped(backup.row) /\ \A s \in Sends : backup.lines[s] <= lines[s]

(* Lines only grow, and a restore uses its backup up.                       *)
LEMMA SnapStep ==
    ASSUME TypeInv, WordsInv, FlowInv, [Next]_vars
    PROVE  SnapOK'
<1>1. lines \in [Sends -> Nat] /\ Shaped(row) /\ SnapOK
      /\ (backup # NoBackup => backup.lines \in [Sends -> Nat])
  BY DEF TypeInv, LedgerOK, FlowInv, Flow, SnapOK, RestOK, Snapshot
<1>2. CASE Restore
  BY <1>2 DEF Restore, SnapOK
<1>3. CASE TakeBackup
  <2>1. backup'.row = row' /\ backup'.lines = lines' /\ row' = row /\ lines' = lines
    BY <1>3 DEF TakeBackup, ledgerVars
  <2> QED BY <1>1, <2>1 DEF SnapOK
<1>4. CASE ~Restore /\ ~TakeBackup
  <2>1. LinesAdded
    BY <1>4, StepLines
  <2>2. \A s \in Sends : lines'[s] >= lines[s]
    BY <1>1, <2>1 DEF LinesAdded, LineAdded
  <2>3. \A s \in Sends : lines'[s] \in Nat
    BY <1>1, <2>1 DEF LinesAdded, LineAdded
  <2>4. backup' = backup
    <3>1. CASE Client
      BY <3>1 DEF Client, FirstSend, SendAgain, Press, Cancel, Accept, AcceptAgain,
         AcceptTypedStop, StopPressed
    <3>2. CASE Admission
      BY <3>2 DEF Admission, Decide, SteerAnswered, RunRefused, RunAdmitted, RunRecorded
    <3>3. CASE Queue
      BY <3>3 DEF Queue, BatchAdmitted, BatchRequeued, BatchFailed, RetryTimer, WatchTimer,
         OtherDrain, LateAnswer
    <3>4. CASE World
      BY <3>4 DEF World, OtherTurnStarts, EngineGetsTurn, TurnCompleted, TurnReleased,
         RoomTurnStarts, RoomTurnEnds, TargetMoves, TurnFrame
    <3>5. CASE Lifecycle
      BY <1>4, <3>5 DEF Lifecycle, Crash, Recover, Ready, CompleteOne, Prune, BootFrame
    <3>6. CASE UNCHANGED vars
      BY <3>6 DEF vars
    <3> QED BY <3>1, <3>2, <3>3, <3>4, <3>5, <3>6 DEF Next
  <2>5. ASSUME backup # NoBackup, NEW s \in Sends PROVE backup.lines[s] <= lines'[s]
    <3>1. backup.lines[s] \in Nat /\ backup.lines[s] <= lines[s] /\ lines[s] \in Nat
      BY <1>1, <2>5 DEF SnapOK
    <3> QED BY <2>2, <2>3, <3>1
  <2> QED BY <1>1, <2>4, <2>5 DEF SnapOK
<1> QED BY <1>2, <1>3, <1>4

(* The words of a turn are carried while it is set up, and a server that is *)
(* not up has nothing in memory.                                            *)
DeskOK ==
    /\ carry # {} => turn = "setup"
    /\ server # "up" => /\ chain = <<>> /\ pc = "idle" /\ late = {} /\ batch = {}
                        /\ turn = "idle" /\ carry = {}

(* Only an admitted start carries words, and only a server that is up acts. *)
LEMMA DeskStep ==
    ASSUME FlowInv, [Next]_vars
    PROVE  DeskOK'
<1>1. DeskOK
  BY DEF FlowInv, DeskOK
<1>2. CASE Client
  <2>1. \/ Up /\ UNCHANGED <<server, turn, carry>>
        \/ UNCHANGED <<server, chain, pc, late, batch, turn, carry>>
    BY <1>2 DEF Client, FirstSend, SendAgain, Press, Cancel, Accept, AcceptAgain,
       AcceptTypedStop, StopPressed, turnVars, bootVars, admissionVars
  <2> QED BY <1>1, <2>1 DEF DeskOK, Up
<1>3. CASE Admission
  <2>1. Up /\ server' = server
    BY <1>3 DEF Admission, Decide, SteerAnswered, RunRefused, RunAdmitted, RunRecorded, bootVars
  <2>2. UNCHANGED <<turn, carry>> \/ turn' = "setup"
    <3>1. CASE RunAdmitted
      BY <3>1 DEF RunAdmitted
    <3>2. CASE RunRecorded
      BY <3>2 DEF RunRecorded, turnVars
    <3>3. \A j : /\ \A n : Caught(j, n) => UNCHANGED <<turn, carry>>
                 /\ \A drains : QueueIt(j, drains) => UNCHANGED <<turn, carry>>
                 /\ \A next : MarkThen(j, next) => UNCHANGED <<turn, carry>>
                 /\ Taken(j) \/ Uncertain(j) => UNCHANGED <<turn, carry>>
      BY DEF Caught, QueueIt, MarkThen, Taken, Uncertain, turnVars
    <3>4. \A j : NotSteered(j) => UNCHANGED <<turn, carry>>
      BY <3>3, Zenon DEF NotSteered
    <3>5. CASE Decide
      BY <3>3, <3>4, <3>5, Zenon DEF Decide
    <3>6. CASE SteerAnswered
      BY <3>3, <3>4, <3>6, Zenon DEF SteerAnswered
    <3>7. CASE RunRefused
      BY <3>3, <3>7, Zenon DEF RunRefused
    <3> QED BY <1>3, <3>1, <3>2, <3>5, <3>6, <3>7 DEF Admission
  <2> QED BY <1>1, <2>1, <2>2 DEF DeskOK, Up
<1>4. CASE Queue
  <2>1. Up /\ server' = server
    BY <1>4 DEF Queue, BatchAdmitted, BatchRequeued, BatchFailed, RetryTimer, WatchTimer,
       OtherDrain, LateAnswer, bootVars
  <2>2. UNCHANGED <<turn, carry>> \/ turn' = "setup"
    BY <1>4 DEF Queue, BatchAdmitted, BatchRequeued, BatchFailed, RetryTimer, WatchTimer,
       OtherDrain, LateAnswer, turnVars
  <2> QED BY <1>1, <2>1, <2>2 DEF DeskOK, Up
<1>5. CASE World
  <2>1. Up /\ server' = server
    BY <1>5 DEF World, OtherTurnStarts, EngineGetsTurn, TurnCompleted, TurnReleased,
       RoomTurnStarts, RoomTurnEnds, TargetMoves, TurnFrame, bootVars
  <2>2. carry' = {} \/ UNCHANGED <<turn, carry>> \/ (carry' = carry /\ turn # "setup")
    BY <1>5 DEF World, OtherTurnStarts, EngineGetsTurn, TurnCompleted, TurnReleased,
       RoomTurnStarts, RoomTurnEnds, TargetMoves, Occupied
  <2> QED BY <1>1, <2>1, <2>2 DEF DeskOK, Up
<1>6. CASE Lifecycle
  <2>1. CASE Crash
    BY <2>1 DEF Crash, DeskOK
  <2>2. CASE Recover
    BY <1>1, <2>2 DEF Recover, BootFrame, admissionVars, turnVars, DeskOK
  <2>3. CASE Ready
    BY <1>1, <2>3 DEF Ready, BootFrame, turnVars, DeskOK
  <2>4. CASE TakeBackup
    BY <1>1, <2>4 DEF TakeBackup, admissionVars, turnVars, bootVars, DeskOK
  <2>5. CASE Restore
    BY <1>1, <2>5 DEF Restore, admissionVars, turnVars, bootVars, DeskOK
  <2>6. ASSUME NEW s \in Sends, CompleteOne(s) PROVE DeskOK'
    BY <1>1, <2>6 DEF CompleteOne, BootFrame, admissionVars, turnVars, DeskOK
  <2>7. ASSUME NEW s \in Sends, Prune(s) PROVE DeskOK'
    BY <1>1, <2>7 DEF Prune, admissionVars, turnVars, bootVars, DeskOK
  <2> QED BY <1>6, <2>1, <2>2, <2>3, <2>4, <2>5, <2>6, <2>7 DEF Lifecycle
<1>7. CASE UNCHANGED vars
  BY <1>1, <1>7 DEF vars, DeskOK
<1> QED BY <1>2, <1>3, <1>4, <1>5, <1>6, <1>7 DEF Next
-----------------------------------------------------------------------------
(* The first state: nothing in the ledger, nothing in memory.               *)
LEMMA FlowInit == Init => FlowInv
<1> SUFFICES ASSUME Init PROVE FlowInv
  OBVIOUS
<1>1. Shaped(row)
  BY DEF Init, Shaped, Shape, NoRow
<1>2. Flow(row, lateOpen, chain, pc, late, batch)
  BY <1>1, RestFlow DEF Init
<1> QED BY <1>2 DEF Init, FlowInv

(* A client's step keeps the flow: presses touch nothing of it.             *)
LEMMA ClientFlow ==
    ASSUME TypeInv, FlowInv, Client
    PROVE  FlowNext
<1>1. \A p : Press(p) => UNCHANGED <<row, lateOpen, chain, pc, late, batch>>
  BY DEF Press, ledgerVars, admissionVars
<1>2. CASE \E s \in Sends : FirstSend(s) \/ SendAgain(s)
  BY <1>1, <1>2, SameFlow DEF FirstSend, SendAgain
<1> QED BY <1>2, AcceptFlow, StopsFlow DEF Client

(* Every step of the pipeline keeps the invariant.                          *)
LEMMA FlowStep == TypeInv /\ WordsInv /\ FlowInv /\ [Next]_vars => FlowInv'
<1> SUFFICES ASSUME TypeInv, WordsInv, FlowInv, [Next]_vars PROVE FlowInv'
  OBVIOUS
<1>1. FlowNext
  <2>1. CASE Client
    BY <2>1, ClientFlow
  <2>2. CASE Admission
    BY <2>2, DecideFlow, SteerAnsweredFlow, RunFlow DEF Admission
  <2>3. CASE Queue
    BY <2>3, QueueStepsFlow, LateAnswerFlow DEF Queue
  <2>4. CASE World
    BY <2>4, WorldFlow
  <2>5. CASE Lifecycle
    BY <2>5, LifecycleFlow
  <2>6. CASE UNCHANGED vars
    BY <2>6, SameFlow DEF vars
  <2> QED BY <2>1, <2>2, <2>3, <2>4, <2>5, <2>6 DEF Next
<1>2. SnapOK' /\ DeskOK'
  BY SnapStep, DeskStep
<1> QED BY <1>1, <1>2 DEF FlowInv, FlowNext, SnapOK, DeskOK

(* The invariant of every behaviour.                                        *)
LEMMA FlowHolds == Spec => [](TypeInv /\ WordsInv /\ FlowInv)
<1>1. Init => TypeInv /\ WordsInv /\ FlowInv
  BY TypeInit, WordsInit, FlowInit
<1>2. (TypeInv /\ WordsInv /\ FlowInv) /\ [Next]_vars => (TypeInv /\ WordsInv /\ FlowInv)'
  BY TypeStep, WordsStep, FlowStep
<1> QED BY <1>1, <1>2, PTL DEF Spec

(* For every set of sends and every bound, a drained batch and a send that  *)
(* decides for itself are never both starting a turn (queuedStartPending    *)
(* in admitDirectSend, drainable in drainSteeredMessages).                  *)
THEOREM OneStartHolds == Spec => []OneStart
<1>1. FlowInv => OneStart
  BY DEF FlowInv, Flow, Foremost, OneStart
<1> QED BY <1>1, FlowHolds, PTL

(* For every set of sends and every bound, a row whose words have a line in *)
(* the transcript never adds a second one, whatever requeues, drains and    *)
(* recoveries it goes through (requeueStarted, completeUnresolved).         *)
THEOREM OneLineHolds == Spec => OneLine
<1>1. TypeInv /\ WordsInv /\ FlowInv /\ [Next]_vars
        => [\A s \in Sends : lines'[s] > lines[s] => ~row[s].line /\ ~row[s].ex]_vars
  BY OneLineStep
<1> QED BY <1>1, FlowHolds, PTL DEF Spec, OneLine
-----------------------------------------------------------------------------
(* The words reach the engine by a steer, a start or a drained batch.       *)
LEMMA SubmittedBy ==
    ASSUME TypeInv, FlowInv, [Next]_vars, ~RunAdmitted, ~BatchAdmitted
    PROVE  /\ carry' \subseteq carry
           /\ pc # "steering" /\ pc' = "steering" => Decide
<1>1. CASE Client
  BY <1>1 DEF Client, FirstSend, SendAgain, Press, Cancel, Accept, AcceptAgain,
     AcceptTypedStop, StopPressed, turnVars, admissionVars
<1>2. CASE Admission
  <2>1. CASE RunRecorded
    BY <2>1 DEF RunRecorded, turnVars, Leave
  <2>2. \A j : /\ \A n : Caught(j, n) => carry' = carry /\ pc' = "idle"
               /\ \A drains : QueueIt(j, drains) => carry' = carry /\ pc' = "idle"
               /\ \A next : MarkThen(j, next) => carry' = carry /\ pc' = next
               /\ Taken(j) \/ Uncertain(j) => carry' = carry /\ pc' = "idle"
    BY DEF Caught, QueueIt, MarkThen, Taken, Uncertain, turnVars, Leave, Stay
  <2>3. \A j : NotSteered(j) => carry' = carry /\ pc' # "steering"
    <3>1. \A j : NotSteered(j) => \/ Caught(j, 0) \/ QueueIt(j, TRUE) \/ QueueIt(j, FALSE)
                                 \/ MarkThen(j, "starting")
      BY Zenon DEF NotSteered
    <3>2. ASSUME NEW j, NotSteered(j) PROVE carry' = carry /\ (pc' = "idle" \/ pc' = "starting")
      BY <2>2, <3>1, <3>2, Zenon
    <3>3. "idle" # "steering" /\ "starting" # "steering"
      OBVIOUS
    <3> QED BY <3>2, <3>3, Zenon
  <2>4. CASE Decide
    BY <2>2, <2>3, <2>4, Zenon DEF Decide
  <2>5. CASE SteerAnswered
    <3>1. carry' = carry
      BY <2>2, <2>3, <2>5, Zenon DEF SteerAnswered
    <3> QED BY <2>5, <3>1 DEF SteerAnswered
  <2>6. CASE RunRefused
    <3>1. carry' = carry /\ pc' = "idle"
      BY <2>2, <2>6 DEF RunRefused
    <3> QED BY <3>1
  <2> QED BY <1>2, <2>1, <2>4, <2>5, <2>6 DEF Admission
<1>3. CASE Queue
  BY <1>3 DEF Queue, BatchRequeued, BatchFailed, RetryTimer, WatchTimer, OtherDrain,
     LateAnswer, turnVars, admissionVars
<1>4. CASE World
  BY <1>4 DEF World, OtherTurnStarts, EngineGetsTurn, TurnCompleted, TurnReleased,
     RoomTurnStarts, RoomTurnEnds, TargetMoves, TurnFrame, admissionVars
<1>5. CASE Lifecycle
  BY <1>5 DEF Lifecycle, Crash, Recover, Ready, TakeBackup, Restore, CompleteOne, Prune,
     BootFrame, turnVars, admissionVars
<1>6. CASE UNCHANGED vars
  BY <1>6 DEF vars
<1> QED BY <1>1, <1>2, <1>3, <1>4, <1>5, <1>6 DEF Next

(* OrderKept of one step.                                                   *)
LEMMA OrderStep ==
    ASSUME MaxFail <= 1, TypeInv, FlowInv, [Next]_vars,
           NEW s \in Submitted, NEW t \in Sends,
           row[t].seq \in 1..(row[s].seq - 1), t \notin Submitted
    PROVE  ~Blocks(row'[t], lateOpen')
<1>1. /\ Flow(row, lateOpen, chain, pc, late, batch) /\ row \in [Sends -> Row]
      /\ row[t].seq \in Nat
  BY DEF FlowInv, TypeInv, LedgerOK, Row
<1>2. ASSUME chain # <<>>, s = Head(chain).s, ~BlockedByEarlier(row, lateOpen, Head(chain).q)
      PROVE  ~Blocks(row[t], lateOpen) /\ t # s
  <2>1. row[s].seq = Head(chain).q /\ Head(chain).q \in Nat
    BY <1>2, HeadRow
  <2>2. row[t].seq < Head(chain).q
    BY <1>1, <2>1
  <2> QED BY <1>2, <2>1, <2>2 DEF BlockedByEarlier
<1>3. CASE RunAdmitted
  <2>1. /\ chain # <<>> /\ pc = "starting" /\ pc' = "landed" /\ row' = row /\ lateOpen' = lateOpen
        /\ carry' = {<<Head(chain).s, Head(chain).a>>} \/ carry' = carry
    BY <1>3 DEF RunAdmitted, Stay, TypeInv, AdmissionOK
  <2>2. s = Head(chain).s
    BY <2>1 DEF Submitted
  <2>3. ~BlockedByEarlier(row, lateOpen, Head(chain).q)
    BY <1>1, <2>1 DEF Flow, Foremost
  <2> QED BY <1>2, <2>1, <2>2, <2>3
<1>4. CASE BatchAdmitted
  <2>1. /\ turn = "idle" /\ carry' = {<<b.s, b.a>> : b \in batch}
        /\ row' = row /\ lateOpen' = lateOpen /\ pc' = pc
    BY <1>4 DEF BatchAdmitted, Occupied, ledgerVars, admissionVars
  <2>2. carry = {}
    BY <2>1 DEF FlowInv
  <2>3. Submitted = {b.s : b \in batch}
    <3>1. Submitted = {w[1] : w \in carry'}
      <4>1. carry' \ carry = carry'
        BY <2>2
      <4>2. ~(pc # "steering" /\ pc' = "steering")
        BY <2>1
      <4> QED BY <4>1, <4>2 DEF Submitted
    <3>2. ASSUME NEW w \in carry' PROVE \E b \in batch : b.s = w[1]
      <4>1. PICK b \in batch : w = <<b.s, b.a>>
        BY <2>1, <3>2
      <4> QED BY <4>1
    <3>3. ASSUME NEW b \in batch PROVE \E w \in carry' : w[1] = b.s
      <4>1. <<b.s, b.a>> \in carry' /\ <<b.s, b.a>>[1] = b.s
        BY <2>1, <3>3
      <4> QED BY <4>1
    <3>4. {w[1] : w \in carry'} = {b.s : b \in batch}
      BY <3>2, <3>3
    <3> QED BY <3>1, <3>4
  <2>4. PICK b \in batch : b.s = s
    BY <2>3
  <2>5. row[s].seq = b.q /\ b.q \in Nat
    <3>1. row[b.s].seq = b.q /\ b \in Job
      BY <1>1 DEF Flow, Starting, TypeInv, LedgerOK
    <3> QED BY <2>4, <3>1 DEF Job
  <2>6. row[t].seq < b.q
    BY <1>1, <2>5
  <2>7. \A c \in batch : c.s # t
    BY <2>3
  <2>8. ~Blocks(row[t], lateOpen)
    BY <1>1, <2>6, <2>7 DEF Flow, Starting
  <2> QED BY <2>1, <2>8
<1>5. CASE ~RunAdmitted /\ ~BatchAdmitted
  <2>1. /\ carry' \subseteq carry
        /\ pc # "steering" /\ pc' = "steering" => Decide
    BY <1>5, SubmittedBy
  <2>2. Decide /\ pc' = "steering" /\ s = Head(chain).s
    BY <2>1 DEF Submitted
  <2>3. ~BlockedByEarlier(row, lateOpen, Head(chain).q) /\ MarkThen(Head(chain), pc')
    BY <2>2, DecideFlow
  <2>4. chain # <<>> /\ lateOpen' = lateOpen
        /\ row' = [row EXCEPT ![Head(chain).s] = Marked(row[Head(chain).s])]
    BY <2>2, <2>3 DEF Decide, MarkThen, SetRow
  <2>5. ~Blocks(row[t], lateOpen) /\ t # s
    BY <1>2, <2>2, <2>3, <2>4
  <2>6. row'[t] = row[t]
    BY <1>1, <2>2, <2>4, <2>5
  <2> QED BY <2>4, <2>5, <2>6
<1> QED BY <1>3, <1>4, <1>5

(* While at most one database write fails, for every set of sends and every *)
(* other bound, the words reach the engine in the order they were accepted: *)
(* nothing earlier is undecided, in flight or open to a late refusal when a *)
(* steer, a start or a drained batch submits (blockedByEarlier, drainable,  *)
(* hasPassed).  A second write that fails in one drain leaves a row of its  *)
(* batch marked beside the start: it does not go with the others.           *)
THEOREM OrderHolds == ASSUME MaxFail <= 1 PROVE Spec => OrderKept
<1>1. TypeInv /\ WordsInv /\ FlowInv /\ [Next]_vars
        => [\A s \in Submitted, t \in Sends :
              row[t].seq \in 1..(row[s].seq - 1) /\ t \notin Submitted
                => ~Blocks(row'[t], lateOpen')]_vars
  BY OrderStep
<1> QED BY <1>1, FlowHolds, PTL DEF Spec, OrderKept
================================================================================
