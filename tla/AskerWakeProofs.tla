--------------------------- MODULE AskerWakeProofs ---------------------------
(***************************************************************************)
(* Theorems about AskerWake, for every finite set of hand-offs, whoever    *)
(* asked for each, every cap and every bound on what goes wrong.           *)
(*                                                                         *)
(* What a thread owes is kept twice, in memory and on disk.  The proofs    *)
(* call either one a book, asks and records, and say once what is true of  *)
(* a book (Book) and what most steps do to it (Fades): they take from it,  *)
(* and what they take is over.                                             *)
(***************************************************************************)
EXTENDS AskerWake, FiniteSetTheorems, TLAPS

-----------------------------------------------------------------------------
(* Books *)

(* A record: no reply is carried by none, an owed one is neither held nor   *)
(* cut, and one that is not held has an attempt left.                       *)
RowOK(r) ==
    /\ r \in Record
    /\ r.st = "none" => r.res = {} /\ r.cut = FALSE
    /\ r.st # "none" => r.res # {}
    /\ r.st = "owed" => r.held = FALSE /\ r.cut = FALSE
    /\ r.held = FALSE => r.n < MaxAttempts

Rows(w) == w \in [Tasks -> Record] /\ \A id \in Tasks : RowOK(w[id])

(* A hand-off is asked for, or in one record, or neither; a record's name   *)
(* is asked for no more.  H are the receipts.                               *)
Book(H, I, w) ==
    /\ Rows(w)
    /\ I \subseteq Tasks
    /\ \A i, j \in Tasks : \A x \in w[i].res : x \in w[j].res => i = j
    /\ \A x \in I : w[x].st = "none" /\ H[x] \notin {"none", "refused"}
    /\ \A x \in I : \A id \in Tasks : x \notin w[id].res
    /\ \A id \in Tasks : w[id].st # "none" => H[id] \in {"owes", "told"}
    /\ \A id \in Tasks : \A x \in w[id].res : H[x] \in {"owes", "told"}

(* v is w with fewer replies, in records or whole.                          *)
Shrinks(w, v) == Rows(v) /\ \A id \in Tasks : v[id].res \subseteq w[id].res

(* From the book of I and w to that of J and v: what goes is over.          *)
Fades(I, w, J, v, O) ==
    /\ J \subseteq I /\ \A x \in I : x \in J \/ x \in O
    /\ Shrinks(w, v)
    /\ \A id \in Tasks : \A x \in w[id].res : x \in v[id].res \/ x \in O

(* A record is live when it carries a reply.                                *)
LEMMA LiveRow ==
    ASSUME NEW r, RowOK(r)
    PROVE  r.st = "none" <=> r.res = {}
BY DEF RowOK

(* A reply is in the records exactly when it is in one of them.             *)
LEMMA CarriedIn ==
    ASSUME NEW w, NEW x
    PROVE  x \in Carried(w) <=> \E id \in Tasks : x \in w[id].res
BY DEF Carried

(* Taking records away, or replies from one, keeps a book in order.         *)
LEMMA ShrunkBook ==
    ASSUME NEW H, NEW I, NEW w, NEW J, NEW v,
           Book(H, I, w), J \subseteq I, Shrinks(w, v)
    PROVE  Book(H, J, v)
<1>1. Rows(v) /\ J \subseteq Tasks
  BY DEF Book, Shrinks
<1>2. \A id \in Tasks : RowOK(w[id]) /\ RowOK(v[id]) /\ v[id].res \subseteq w[id].res
  BY DEF Book, Shrinks, Rows
<1>3. \A id \in Tasks : v[id].st # "none" => w[id].st # "none"
  <2> SUFFICES ASSUME NEW id \in Tasks, v[id].st # "none" PROVE w[id].st # "none"
    OBVIOUS
  <2>1. v[id].res # {}
    BY <1>2, LiveRow
  <2>2. w[id].res # {}
    BY <2>1, <1>2
  <2> QED BY <2>2, <1>2, LiveRow
<1>4. \A i, j \in Tasks : \A x \in v[i].res : x \in v[j].res => i = j
  BY <1>2 DEF Book
<1>5. \A x \in J : v[x].st = "none" /\ H[x] \notin {"none", "refused"}
  BY <1>1, <1>3 DEF Book
<1>6. \A x \in J : \A id \in Tasks : x \notin v[id].res
  BY <1>2 DEF Book
<1>7. \A id \in Tasks : v[id].st # "none" => H[id] \in {"owes", "told"}
  BY <1>3 DEF Book
<1>8. \A id \in Tasks : \A x \in v[id].res : H[x] \in {"owes", "told"}
  BY <1>2 DEF Book
<1> QED BY <1>1, <1>4, <1>5, <1>6, <1>7, <1>8 DEF Book

(* A receipt only moves on: a book stays in order when it does.             *)
Onward(H, K) ==
    \A x \in Tasks : /\ H[x] \in {"owes", "told"} => K[x] \in {"owes", "told"}
                     /\ H[x] = "out" => K[x] \in {"out", "owes", "told"}

(* A step of the receipts keeps a book in order.                            *)
LEMMA OnwardBook ==
    ASSUME NEW H, NEW K, NEW I, NEW w, Book(H, I, w), Onward(H, K),
           \A x \in Tasks : H[x] \in {"none", "out", "owes", "told", "refused"}
    PROVE  Book(K, I, w)
<1>1. \A x \in I : x \in Tasks
  BY DEF Book
<1>2. \A id \in Tasks : \A x \in w[id].res : x \in Tasks
  BY DEF Book, Rows, Record
<1>3. \A x \in I : K[x] \notin {"none", "refused"}
  BY <1>1 DEF Book, Onward
<1>4. \A id \in Tasks : w[id].st # "none" => K[id] \in {"owes", "told"}
  BY DEF Book, Onward
<1>5. \A id \in Tasks : \A x \in w[id].res : K[x] \in {"owes", "told"}
  BY <1>2 DEF Book, Onward
<1> QED BY <1>3, <1>4, <1>5 DEF Book

(* One record changed, with the replies it has.                             *)
LEMMA RowSet ==
    ASSUME NEW w, Rows(w), NEW id \in Tasks, NEW r, RowOK(r), r.res = w[id].res
    PROVE  /\ Shrinks(w, [w EXCEPT ![id] = r])
           /\ \A i \in Tasks : [w EXCEPT ![id] = r][i].res = w[i].res
<1> DEFINE v == [w EXCEPT ![id] = r]
<1>1. r \in Record
  BY DEF RowOK
<1>2. v \in [Tasks -> Record]
  BY <1>1 DEF Rows
<1>3. \A i \in Tasks : v[i] = IF i = id THEN r ELSE w[i]
  BY DEF Rows
<1>4. \A i \in Tasks : RowOK(v[i]) /\ v[i].res = w[i].res
  BY <1>3 DEF Rows
<1> QED BY <1>2, <1>4 DEF Shrinks, Rows

(* The records K alone are left.                                            *)
LEMMA KeptRows ==
    ASSUME NEW w, Rows(w), NEW K
    PROVE  /\ Shrinks(w, Kept(w, K))
           /\ \A id \in Tasks : id \in K =>
                 /\ Kept(w, K)[id].st = w[id].st /\ Kept(w, K)[id].held = w[id].held
                 /\ Kept(w, K)[id].n = w[id].n /\ Kept(w, K)[id].cut = w[id].cut
                 /\ Kept(w, K)[id].res = w[id].res
           /\ \A id \in Tasks : id \notin K => Kept(w, K)[id] = NoRecord
<1> DEFINE v == Kept(w, K)
<1>1. \A id \in Tasks : v[id] = IF id \in K THEN [w[id] EXCEPT !.ahead = @ \cap K] ELSE NoRecord
  BY DEF Kept
<1>2. RowOK(NoRecord)
  BY CapsAssumption DEF RowOK, Record, NoRecord
<1>3. ASSUME NEW id \in Tasks, id \in K
      PROVE  /\ v[id] \in Record
             /\ v[id].st = w[id].st /\ v[id].held = w[id].held
             /\ v[id].n = w[id].n /\ v[id].cut = w[id].cut
             /\ v[id].res = w[id].res
  <2>1. w[id] \in Record /\ v[id] = [w[id] EXCEPT !.ahead = @ \cap K]
    BY <1>1, <1>3 DEF Rows
  <2> HIDE DEF v
  <2> QED BY <2>1 DEF Record
<1>4. ASSUME NEW id \in Tasks
      PROVE  RowOK(v[id]) /\ v[id].res \subseteq w[id].res
  <2>1. CASE id \in K
    BY <2>1, <1>3 DEF Rows, RowOK
  <2>2. CASE id \notin K
    <3>1. v[id] = NoRecord /\ NoRecord.res = {}
      BY <2>2, <1>1 DEF NoRecord
    <3> QED BY <3>1, <1>2
  <2> QED BY <2>1, <2>2
<1>5. v \in [Tasks -> Record]
  <2>1. v = [id \in Tasks |-> v[id]]
    BY DEF Kept
  <2> QED BY <2>1, <1>4 DEF RowOK
<1>6. Shrinks(w, v)
  BY <1>4, <1>5 DEF Shrinks, Rows
<1> HIDE DEF v
<1> QED BY <1>1, <1>3, <1>6 DEF v

(* One record taken away: the others stay as they are, and no other place   *)
(* has one.                                                                 *)
LEMMA WithoutRows ==
    ASSUME NEW w, Rows(w), NEW id \in Tasks
    PROVE  /\ Shrinks(w, Without(w, id))
           /\ Without(w, id)[id] = NoRecord
           /\ \A i \in Tasks : w[i].st = "none" => Without(w, id)[i] = NoRecord
           /\ \A i \in Tasks : i # id /\ w[i].st # "none" =>
                 /\ Without(w, id)[i].st = w[i].st
                 /\ Without(w, id)[i].held = w[i].held
                 /\ Without(w, id)[i].n = w[i].n
                 /\ Without(w, id)[i].cut = w[i].cut
                 /\ Without(w, id)[i].res = w[i].res
<1> DEFINE K == Records(w) \ {id}
<1>1. Without(w, id) = Kept(w, K)
  BY DEF Without
<1>2. \A i \in Tasks : i \in K <=> i # id /\ w[i].st # "none"
  BY DEF Records, Owned
<1> HIDE DEF K
<1>3. Shrinks(w, Kept(w, K))
  BY KeptRows
<1>4. \A i \in Tasks : i \in K =>
         /\ Kept(w, K)[i].st = w[i].st /\ Kept(w, K)[i].held = w[i].held
         /\ Kept(w, K)[i].n = w[i].n /\ Kept(w, K)[i].cut = w[i].cut
         /\ Kept(w, K)[i].res = w[i].res
  BY KeptRows
<1>5. \A i \in Tasks : i \notin K => Kept(w, K)[i] = NoRecord
  BY KeptRows
<1> QED BY <1>1, <1>2, <1>3, <1>4, <1>5

(* A record taken away: its replies are over.                               *)
LEMMA WithoutFades ==
    ASSUME NEW w, Rows(w), NEW id \in Tasks, NEW I, NEW O, w[id].res \subseteq O
    PROVE  Fades(I, w, I, Without(w, id), O)
<1> DEFINE v == Without(w, id)
<1>1. Shrinks(w, v)
  BY WithoutRows
<1>2. ASSUME NEW i \in Tasks, NEW x \in w[i].res
      PROVE  x \in v[i].res \/ x \in O
  <2>1. CASE i = id
    BY <2>1, <1>2
  <2>2. CASE i # id
    <3>1. RowOK(w[i])
      BY DEF Rows
    <3>2. w[i].st # "none"
      BY <3>1, <1>2, LiveRow
    <3>3. v[i].res = w[i].res
      BY <2>2, <3>2, WithoutRows
    <3> QED BY <3>3, <1>2
  <2> QED BY <2>1, <2>2
<1> HIDE DEF v
<1>3. Fades(I, w, I, v, O)
  BY <1>1, <1>2 DEF Fades
<1> QED BY <1>3 DEF v

(* One record changed, with its replies.                                    *)
LEMMA SetFades ==
    ASSUME NEW w, Rows(w), NEW id \in Tasks, NEW r, RowOK(r), r.res = w[id].res,
           NEW I, NEW O
    PROVE  Fades(I, w, I, [w EXCEPT ![id] = r], O)
<1>1. /\ Shrinks(w, [w EXCEPT ![id] = r])
      /\ \A i \in Tasks : [w EXCEPT ![id] = r][i].res = w[i].res
  BY RowSet
<1> QED BY <1>1 DEF Fades

(* Nothing changed.                                                         *)
LEMMA SameFades ==
    ASSUME NEW w, Rows(w), NEW I, NEW O
    PROVE  Fades(I, w, I, w, O)
BY DEF Fades, Shrinks

(* Everything forgotten.                                                    *)
LEMMA EmptyFades ==
    ASSUME NEW w, Rows(w), NEW I, NEW O, I \cup Carried(w) \subseteq O
    PROVE  Fades(I, w, {}, NoRecords, O)
<1>1. \A id \in Tasks : NoRecords[id] = NoRecord /\ NoRecord.res = {}
  BY DEF NoRecords, NoRecord
<1>2. RowOK(NoRecord)
  BY CapsAssumption DEF RowOK, Record, NoRecord
<1>3. NoRecords \in [Tasks -> Record]
  BY <1>2 DEF NoRecords, RowOK
<1>4. Shrinks(w, NoRecords)
  BY <1>1, <1>2, <1>3 DEF Shrinks, Rows
<1>5. \A id \in Tasks : \A x \in w[id].res : x \in O
  BY CarriedIn
<1> QED BY <1>4, <1>5 DEF Fades

(* What requeue makes of a claim that was not cut: owed again, with one     *)
(* attempt more.                                                            *)
LEMMA GivenBackRow ==
    ASSUME NEW w, Rows(w), NEW id \in Tasks, w[id].st # "none", w[id].cut = FALSE
    PROVE  IF w[id].n + 1 >= MaxAttempts THEN GivenBack(w, id) = Without(w, id)
           ELSE \E r : /\ RowOK(r) /\ r.res = w[id].res /\ r.st = "owed"
                       /\ r.n = w[id].n + 1 /\ r.cut = FALSE /\ r.held = FALSE
                       /\ GivenBack(w, id) = [w EXCEPT ![id] = r]
<1>1. CASE w[id].n + 1 >= MaxAttempts
  BY <1>1 DEF GivenBack, Spent
<1>2. CASE ~(w[id].n + 1 >= MaxAttempts)
  <2> DEFINE r == [w[id] EXCEPT !.st = "owed", !.held = FALSE, !.n = @ + 1]
  <2>1. RowOK(w[id])
    BY DEF Rows
  <2>2. /\ r.res = w[id].res /\ r.st = "owed" /\ r.n = w[id].n + 1
        /\ r.cut = FALSE /\ r.held = FALSE
    BY <2>1 DEF RowOK, Record
  <2>3. w[id].n \in Nat /\ MaxAttempts \in Nat
    BY <2>1, CapsAssumption DEF RowOK, Record
  <2>4. r \in Record
    <3>1. w[id].n + 1 \in 0 .. MaxAttempts
      BY <2>3, <1>2
    <3>2. w[id] \in Record
      BY <2>1 DEF RowOK
    <3> QED BY <3>1, <3>2 DEF Record
  <2>5. RowOK(r)
    BY <2>1, <2>2, <2>3, <2>4, <1>2 DEF RowOK
  <2>6. GivenBack(w, id) = [w EXCEPT ![id] = r]
    <3>1. GivenBack(w, id) =
            [w EXCEPT ![id].st = "owed", ![id].held = FALSE, ![id].n = @ + 1]
      BY <1>2 DEF GivenBack, Spent
    <3>2. w \in [Tasks -> Record]
      BY DEF Rows
    <3> QED BY <3>1, <3>2 DEF Record
  <2> HIDE DEF r
  <2> QED BY <2>2, <2>5, <2>6, <1>2
<1> QED BY <1>1, <1>2

(* A claim given back keeps its replies, or they are over.                  *)
LEMMA GivenBackFades ==
    ASSUME NEW w, Rows(w), NEW id \in Tasks, w[id].st # "none", w[id].cut = FALSE,
           NEW I, NEW O, Owned(GivenBack(w, id), id) \/ w[id].res \subseteq O
    PROVE  Fades(I, w, I, GivenBack(w, id), O)
<1>1. CASE w[id].n + 1 >= MaxAttempts
  <2>1. GivenBack(w, id) = Without(w, id)
    BY <1>1, GivenBackRow
  <2>2. Without(w, id)[id].st = "none"
    BY WithoutRows DEF NoRecord
  <2>3. w[id].res \subseteq O
    BY <2>1, <2>2 DEF Owned
  <2> QED BY <2>1, <2>3, WithoutFades
<1>2. CASE ~(w[id].n + 1 >= MaxAttempts)
  <2>1. \E r : /\ RowOK(r) /\ r.res = w[id].res /\ r.st = "owed"
               /\ r.n = w[id].n + 1 /\ r.cut = FALSE /\ r.held = FALSE
               /\ GivenBack(w, id) = [w EXCEPT ![id] = r]
    BY <1>2, GivenBackRow
  <2>2. PICK r : /\ RowOK(r) /\ r.res = w[id].res
                 /\ GivenBack(w, id) = [w EXCEPT ![id] = r]
    BY <2>1
  <2>3. Fades(I, w, I, [w EXCEPT ![id] = r], O)
    BY <2>2, SetFades
  <2> QED BY <2>2, <2>3
<1> QED BY <1>1, <1>2

(* What a reply the asker read is taken from: the owed records alone, and   *)
(* one with nothing left goes.                                              *)
LEMMA ConsumedFades ==
    ASSUME Rows(wakes), NEW t \in Tasks, NEW O, t \in O
    PROVE  Fades(intents, wakes, intents \ {t}, Consumed(t), O)
<1> DEFINE w == [id \in Tasks |->
                    IF id \in Owing(wakes) THEN [wakes[id] EXCEPT !.res = @ \ {t}]
                    ELSE wakes[id]]
           K == {id \in Tasks : w[id].res # {}}
           v == Kept(w, K)
<1>1. Consumed(t) = v
  BY DEF Consumed
<1>2. ASSUME NEW id \in Tasks
      PROVE  /\ w[id] \in Record /\ w[id].st = wakes[id].st
             /\ w[id].held = wakes[id].held /\ w[id].n = wakes[id].n
             /\ w[id].cut = wakes[id].cut
             /\ w[id].res = IF wakes[id].st = "owed" THEN wakes[id].res \ {t}
                            ELSE wakes[id].res
  <2>1. wakes[id] \in Record
    BY DEF Rows
  <2>2. id \in Owing(wakes) <=> wakes[id].st = "owed"
    BY DEF Owing
  <2>3. w[id] = IF wakes[id].st = "owed" THEN [wakes[id] EXCEPT !.res = @ \ {t}]
                ELSE wakes[id]
    BY <2>2
  <2> HIDE DEF w
  <2> QED BY <2>1, <2>3 DEF Record
<1> HIDE DEF w
<1>3. ASSUME NEW id \in Tasks
      PROVE  /\ id \in K => v[id] = [w[id] EXCEPT !.ahead = @ \cap K]
             /\ id \notin K => v[id] = NoRecord
  BY DEF Kept
<1>4. \A id \in Tasks : id \in K <=> w[id].res # {}
  OBVIOUS
<1> HIDE DEF K, v
<1>5. ASSUME NEW id \in Tasks, id \in K
      PROVE  /\ v[id] \in Record /\ v[id].st = w[id].st
             /\ v[id].held = w[id].held /\ v[id].n = w[id].n
             /\ v[id].cut = w[id].cut /\ v[id].res = w[id].res
  <2>1. v[id] = [w[id] EXCEPT !.ahead = @ \cap K]
    BY <1>3, <1>5
  <2>2. w[id] \in Record
    BY <1>2
  <2> QED BY <2>1, <2>2 DEF Record
<1>6. RowOK(NoRecord) /\ NoRecord.res = {}
  BY CapsAssumption DEF RowOK, Record, NoRecord
<1>7. ASSUME NEW id \in Tasks
      PROVE  /\ RowOK(v[id]) /\ v[id].res \subseteq wakes[id].res
             /\ \A x \in wakes[id].res : x \in v[id].res \/ x = t
  <2>1. CASE id \in K
    <3>1. v[id].res # {} /\ v[id].res = w[id].res
      BY <2>1, <1>4, <1>5
    <3>2. v[id].res \subseteq wakes[id].res
      BY <3>1, <1>2
    <3>3. \A x \in wakes[id].res : x \in v[id].res \/ x = t
      BY <3>1, <1>2
    <3>4. RowOK(wakes[id])
      BY DEF Rows
    <3>5. /\ v[id].st = wakes[id].st /\ v[id].held = wakes[id].held
          /\ v[id].n = wakes[id].n /\ v[id].cut = wakes[id].cut
          /\ v[id] \in Record
      BY <2>1, <1>5, <1>2
    <3>6. RowOK(v[id])
      BY <3>1, <3>2, <3>4, <3>5 DEF RowOK
    <3> QED BY <3>2, <3>3, <3>6
  <2>2. CASE id \notin K
    <3>1. v[id] = NoRecord /\ w[id].res = {}
      BY <2>2, <1>3, <1>4
    <3>2. \A x \in wakes[id].res : x = t
      BY <3>1, <1>2
    <3> QED BY <3>1, <3>2, <1>6
  <2> QED BY <2>1, <2>2
<1>8. v \in [Tasks -> Record]
  <2>1. v = [id \in Tasks |-> v[id]]
    BY DEF v, Kept
  <2> QED BY <2>1, <1>7 DEF RowOK
<1>9. Shrinks(wakes, v)
  BY <1>7, <1>8 DEF Shrinks, Rows
<1>10. \A id \in Tasks : \A x \in wakes[id].res : x \in v[id].res \/ x \in O
  BY <1>7
<1>11. Fades(intents, wakes, intents \ {t}, v, O)
  BY <1>9, <1>10 DEF Fades
<1> QED BY <1>11, <1>1

(* What a close marks.                                                      *)
Marked(w) == [id \in Tasks |-> [w[id] EXCEPT !.cut = @ \/ w[id].st = "claimed"]]

(* A close marks the claims, and changes nothing else of a record.          *)
LEMMA MarkedRows ==
    ASSUME NEW w, Rows(w), NEW id \in Tasks
    PROVE  /\ Marked(w)[id] \in Record
           /\ Marked(w)[id].st = w[id].st /\ Marked(w)[id].held = w[id].held
           /\ Marked(w)[id].n = w[id].n /\ Marked(w)[id].res = w[id].res
           /\ Marked(w)[id].cut = (w[id].cut \/ w[id].st = "claimed")
<1>1. w[id] \in Record
  BY DEF Rows
<1>2. Marked(w)[id] = [w[id] EXCEPT !.cut = @ \/ w[id].st = "claimed"]
  BY DEF Marked
<1>3. (w[id].cut \/ w[id].st = "claimed") \in BOOLEAN
  OBVIOUS
<1> QED BY <1>1, <1>2, <1>3 DEF Record

(* A close takes no reply from any record.                                  *)
LEMMA MarkedFades ==
    ASSUME NEW w, Rows(w), NEW I, NEW O
    PROVE  Fades(I, w, I, Marked(w), O)
<1>1. ASSUME NEW id \in Tasks
      PROVE  RowOK(Marked(w)[id]) /\ Marked(w)[id].res = w[id].res
  <2>1. RowOK(w[id])
    BY DEF Rows
  <2>2. /\ Marked(w)[id] \in Record
        /\ Marked(w)[id].st = w[id].st /\ Marked(w)[id].held = w[id].held
        /\ Marked(w)[id].n = w[id].n /\ Marked(w)[id].res = w[id].res
        /\ Marked(w)[id].cut = (w[id].cut \/ w[id].st = "claimed")
    BY MarkedRows
  <2>3. w[id].st \in {"none", "owed"} => Marked(w)[id].cut = FALSE
    <3>1. w[id].st \in {"none", "owed"} => w[id].cut = FALSE /\ w[id].st # "claimed"
      BY <2>1 DEF RowOK
    <3>2. Marked(w)[id].cut = (w[id].cut \/ w[id].st = "claimed")
      BY <2>2
    <3> QED BY <3>1, <3>2
  <2> QED BY <2>1, <2>2, <2>3 DEF RowOK
<1>2. Marked(w) \in [Tasks -> Record]
  <2>1. Marked(w) = [id \in Tasks |-> Marked(w)[id]]
    BY DEF Marked
  <2> QED BY <2>1, <1>1 DEF RowOK
<1> QED BY <1>1, <1>2 DEF Fades, Shrinks, Rows

(* What an attempt comes to when the record is read back.                   *)
Recounted(r) == Capped(r) + (IF Charged(r) THEN 1 ELSE 0)

(* restore keeps what was owed or taken and may be tried again; the rest is *)
(* gone.                                                                    *)
LEMMA RestoredRows ==
    ASSUME NEW w, Rows(w), NEW id \in Tasks
    PROVE  /\ Survives(id, w[id]) =>
                 /\ Restored(w)[id] \in Record
                 /\ Restored(w)[id].st = IF w[id].held THEN "claimed" ELSE "owed"
                 /\ Restored(w)[id].held = w[id].held
                 /\ Restored(w)[id].cut = FALSE
                 /\ Restored(w)[id].n = Recounted(w[id])
                 /\ Restored(w)[id].res = w[id].res
           /\ ~Survives(id, w[id]) => Restored(w)[id] = NoRecord
<1> DEFINE K == {i \in Tasks : Survives(i, w[i])}
<1>1. Restored(w)[id] = IF id \in K THEN Reconciled(Kept(w, K)[id]) ELSE NoRecord
  BY DEF Restored
<1>2. id \in K <=> Survives(id, w[id])
  OBVIOUS
<1> HIDE DEF K
<1>3. CASE ~Survives(id, w[id])
  BY <1>3, <1>1, <1>2
<1>4. CASE Survives(id, w[id])
  <2> DEFINE r == Kept(w, K)[id]
  <2>1. /\ r.st = w[id].st /\ r.held = w[id].held /\ r.n = w[id].n
        /\ r.cut = w[id].cut /\ r.res = w[id].res
    BY <1>2, <1>4, KeptRows
  <2>2. Shrinks(w, Kept(w, K))
    BY KeptRows
  <2>3. r \in Record
    BY <2>2 DEF Shrinks, Rows
  <2> HIDE DEF r
  <2>4. Recounted(r) = Recounted(w[id])
    BY <2>1 DEF Recounted, Capped, Charged
  <2>5. RowOK(w[id])
    BY DEF Rows
  <2>6. Recounted(w[id]) \in 0 .. MaxAttempts
    <3>1. w[id].n \in 0 .. MaxAttempts /\ MaxAttempts \in Nat \ {0}
      BY <2>5, CapsAssumption DEF RowOK, Record
    <3>2. Capped(w[id]) \in 0 .. MaxAttempts
      BY <3>1 DEF Capped
    <3>3. w[id].st = "claimed" => Recounted(w[id]) < MaxAttempts
      BY <1>4 DEF Survives, Recounted
    <3>4. w[id].st # "claimed" => Recounted(w[id]) = Capped(w[id])
      BY <3>2 DEF Recounted, Charged
    <3>5. Recounted(w[id]) \in Nat
      BY <3>2 DEF Recounted
    <3>6. CASE w[id].st = "claimed"
      BY <3>6, <3>3, <3>5, <3>1
    <3>7. CASE w[id].st # "claimed"
      BY <3>7, <3>4, <3>2
    <3> QED BY <3>6, <3>7
  <2>7. Reconciled(r) =
          [r EXCEPT !.cut = FALSE, !.st = IF r.held THEN "claimed" ELSE "owed",
                    !.n = Recounted(r)]
    BY DEF Reconciled, Recounted
  <2>8. Restored(w)[id] = Reconciled(r)
    BY <1>1, <1>2, <1>4 DEF r
  <2>9. (IF r.held THEN "claimed" ELSE "owed") \in {"none", "owed", "claimed", "started"}
    OBVIOUS
  <2> DEFINE y == Reconciled(r)
  <2>10. /\ y \in Record /\ y.st = (IF r.held THEN "claimed" ELSE "owed")
         /\ y.held = r.held /\ y.cut = FALSE /\ y.n = Recounted(r) /\ y.res = r.res
    <3> DEFINE s == IF r.held THEN "claimed" ELSE "owed"
               c == Recounted(r)
    <3>1. y = [r EXCEPT !.cut = FALSE, !.st = s, !.n = c]
      BY <2>7
    <3>2. s \in {"none", "owed", "claimed", "started"} /\ c \in 0 .. MaxAttempts
      BY <2>4, <2>6, <2>9
    <3> HIDE DEF s, c, y
    <3>3. /\ y \in Record /\ y.st = s /\ y.held = r.held /\ y.cut = FALSE
          /\ y.n = c /\ y.res = r.res
      BY <2>3, <3>1, <3>2 DEF Record
    <3> QED BY <3>3 DEF s, c
  <2> HIDE DEF y
  <2>11. Restored(w)[id] = y
    BY <2>8 DEF y
  <2>12. /\ y.st = (IF w[id].held THEN "claimed" ELSE "owed")
         /\ y.held = w[id].held /\ y.n = Recounted(w[id]) /\ y.res = w[id].res
    BY <2>1, <2>4, <2>10
  <2> QED BY <1>4, <2>10, <2>11, <2>12
<1> QED BY <1>3, <1>4

(* What restore leaves is a book's records, and some of what was there.     *)
LEMMA RestoredShrinks ==
    ASSUME NEW w, Rows(w)
    PROVE  Shrinks(w, Restored(w))
<1> DEFINE v == Restored(w)
<1>1. RowOK(NoRecord) /\ NoRecord.res = {}
  BY CapsAssumption DEF RowOK, Record, NoRecord
<1>2. ASSUME NEW id \in Tasks
      PROVE  RowOK(v[id]) /\ v[id].res \subseteq w[id].res
  <2>1. CASE ~Survives(id, w[id])
    <3>1. v[id] = NoRecord
      BY <2>1, RestoredRows
    <3> QED BY <3>1, <1>1
  <2>2. CASE Survives(id, w[id])
    <3>1. /\ v[id] \in Record /\ v[id].st = (IF w[id].held THEN "claimed" ELSE "owed")
          /\ v[id].held = w[id].held /\ v[id].cut = FALSE
          /\ v[id].n = Recounted(w[id]) /\ v[id].res = w[id].res
      BY <2>2, RestoredRows
    <3>2. RowOK(w[id])
      BY DEF Rows
    <3>3. w[id].res # {}
      BY <2>2, <3>2 DEF Survives, RowOK
    <3>4. v[id].held = FALSE => v[id].n < MaxAttempts
      <4> SUFFICES ASSUME w[id].held = FALSE PROVE Recounted(w[id]) < MaxAttempts
        BY <3>1
      <4>1. CASE w[id].st = "claimed"
        BY <4>1, <2>2 DEF Survives, Recounted
      <4>2. CASE w[id].st = "owed"
        <5>1. w[id].n < MaxAttempts /\ w[id].cut = FALSE
          BY <4>2, <3>2 DEF RowOK
        <5>2. w[id].n \in Nat /\ MaxAttempts \in Nat
          BY <3>2, CapsAssumption DEF RowOK, Record
        <5>3. Recounted(w[id]) = w[id].n
          BY <4>2, <5>1, <5>2 DEF Recounted, Capped, Charged
        <5> QED BY <5>1, <5>3
      <4> QED BY <4>1, <4>2, <2>2 DEF Survives
    <3>5. v[id].st # "none" /\ v[id].st = "owed" => v[id].held = FALSE
      <4>1. w[id].held \in BOOLEAN
        BY <3>2 DEF RowOK, Record
      <4> QED BY <3>1, <4>1
    <3>6. v[id].st \in {"owed", "claimed"}
      BY <3>1
    <3>7. RowOK(v[id])
      BY <3>1, <3>3, <3>4, <3>5, <3>6 DEF RowOK
    <3> QED BY <3>1, <3>7
  <2> QED BY <2>1, <2>2
<1>3. v \in [Tasks -> Record]
  <2>1. v = [id \in Tasks |-> v[id]]
    BY DEF Restored
  <2>2. \A id \in Tasks : v[id] \in Record
    BY <1>2 DEF RowOK
  <2> QED BY <2>1, <2>2
<1> QED BY <1>2, <1>3 DEF Shrinks, Rows

-----------------------------------------------------------------------------
(* What a step does to both books *)

(* Both books, in memory and on disk, are in order; nothing that the disk   *)
(* ever had is in memory alone, and an ask it never had is still out; and,  *)
(* but for a write that failed, the records there are the same.  A server   *)
(* that is down remembers nothing.                                          *)
Lasts ==
    /\ Book(hand, intents, wakes) /\ Book(hand, disk.intents, disk.wakes)
    /\ \A x \in intents \cup Carried(wakes) : x \in kept => x \in Mentioned(disk)
    /\ \A x \in intents : x \in kept \/ x \in over \/ hand[x] = "out"
    /\ \A x \in kept : hand[x] \in {"out", "owes", "told"}
    /\ Mentioned(disk) \subseteq kept
    /\ Alive /\ ~unwritten => disk.wakes = wakes
    /\ Up => \A id \in Tasks : wakes[id].cut = FALSE
    /\ \A x \in told : hand[x] \in {"owes", "told"}
    /\ ~Alive => /\ intents = {} /\ wakes = NoRecords /\ doneIds = {}
                 /\ told = {} /\ starting = {} /\ turn = Idle /\ unwritten = FALSE

BookInv == TypeOK /\ Lasts /\ NothingLost

(* What the disk has after a step it has had.                               *)
Keeps == kept' = kept \cup Mentioned(disk')

(* Only hand-offs were ever on disk.                                        *)
LEMMA KeepsTyped ==
    ASSUME BookInv, Keeps, disk' \in [intents : SUBSET Tasks, wakes : [Tasks -> Record]]
    PROVE  kept' \subseteq Tasks /\ kept \subseteq Tasks
<1>1. kept \subseteq Tasks /\ disk'.intents \subseteq Tasks
  BY DEF BookInv, TypeOK
<1>2. \A id \in Tasks : disk'.wakes[id].res \subseteq Tasks
  BY DEF Record
<1>3. Carried(disk'.wakes) \subseteq Tasks
  BY <1>2, CarriedIn
<1> QED BY <1>1, <1>3 DEF Keeps, Mentioned

(* They were asked for, and are not refused.                                *)
LEMMA KeepsAsked ==
    ASSUME BookInv, Keeps, Onward(hand, hand'), Book(hand', disk'.intents, disk'.wakes),
           hand' \in [Tasks -> {"none", "out", "owes", "told", "refused"}]
    PROVE  \A x \in kept' : hand'[x] \in {"out", "owes", "told"}
<1> SUFFICES ASSUME NEW x \in kept' PROVE hand'[x] \in {"out", "owes", "told"}
  OBVIOUS
<1>1. CASE x \in kept
  BY <1>1 DEF Onward, BookInv, Lasts, TypeOK
<1>2. CASE x \in disk'.intents
  BY <1>2 DEF Book
<1>3. CASE x \in Carried(disk'.wakes)
  BY <1>3, CarriedIn DEF Book
<1> QED BY <1>1, <1>2, <1>3 DEF Keeps, Mentioned

(* A step that takes from the book in memory, if anything, and writes what  *)
(* is left, or a little more, or nothing.                                   *)
Wears ==
    /\ Fades(intents, wakes, intents', wakes', over')
    /\ disk' \in [intents : SUBSET Tasks, wakes : [Tasks -> Record]]
    /\ \/ disk' = disk
       \/ /\ Fades(intents, wakes, disk'.intents, disk'.wakes, over')
          /\ intents' \subseteq disk'.intents
          /\ \A id \in Tasks : wakes'[id].res \subseteq disk'.wakes[id].res
    /\ unwritten' \in BOOLEAN /\ Keeps
    /\ unwritten' = FALSE => disk'.wakes = wakes'
    /\ Up' => Up /\ \A id \in Tasks : wakes[id].cut = FALSE => wakes'[id].cut = FALSE

(* The rest of a step of a server that is alive before and after it.        *)
Goes ==
    /\ Alive /\ proc' \in {"up", "closing"}
    /\ doneIds' \subseteq Tasks
    /\ upd' \subseteq Tasks /\ item' \subseteq Item
    /\ starting' \subseteq Start /\ turn' \in Turn
    /\ woke' \in [Tasks -> Nat] /\ tries' \in [Tasks -> Nat]
    /\ over' \subseteq Tasks /\ over \subseteq over'
    /\ spent' \in [Odd -> Nat]
    /\ \A x \in Tasks : woke'[x] = 0 => woke[x] = 0

(* What its receipts do: a hand-off that is not over has the receipt it had,*)
(* or is refused.                                                           *)
Tells ==
    /\ hand' \in [Tasks -> {"none", "out", "owes", "told", "refused"}]
    /\ told' \subseteq Tasks
    /\ \A x \in told' : x \in told \/ hand'[x] \in {"owes", "told"}
    /\ Onward(hand, hand')
    /\ \A x \in Tasks : x \notin over' =>
          hand'[x] = "refused" \/ (hand'[x] = hand[x] /\ (x \in told' => x \in told))

(* A reply that is not over stays where it is.                              *)
LEMMA FadesKeeps ==
    ASSUME NEW I, NEW w, NEW J, NEW v, NEW O, Fades(I, w, J, v, O),
           NEW x, x \notin O
    PROVE  /\ x \in I => x \in J
           /\ x \in Carried(w) => x \in Carried(v)
<1>1. x \in I => x \in J
  BY DEF Fades
<1>2. x \in Carried(w) => x \in Carried(v)
  BY CarriedIn DEF Fades
<1> QED BY <1>1, <1>2

(* Such a step keeps both books in order.                                   *)
LEMMA WearsBooks ==
    ASSUME Book(hand, intents, wakes), Book(hand, disk.intents, disk.wakes), Wears
    PROVE  Book(hand, intents', wakes') /\ Book(hand, disk'.intents, disk'.wakes)
<1>1. Book(hand, intents', wakes')
  <2>1. intents' \subseteq intents /\ Shrinks(wakes, wakes')
    BY DEF Wears, Fades
  <2> QED BY <2>1, ShrunkBook
<1>2. Book(hand, disk'.intents, disk'.wakes)
  <2>1. CASE disk' = disk
    BY <2>1
  <2>2. CASE Fades(intents, wakes, disk'.intents, disk'.wakes, over')
    <3>1. disk'.intents \subseteq intents /\ Shrinks(wakes, disk'.wakes)
      BY <2>2 DEF Fades
    <3> QED BY <3>1, ShrunkBook
  <2> QED BY <2>1, <2>2 DEF Wears
<1> QED BY <1>1, <1>2

(* Nothing the disk ever had is in memory and not on disk.                  *)
LEMMA WearsMentions ==
    ASSUME \A x \in intents \cup Carried(wakes) : x \in kept => x \in Mentioned(disk),
           Wears
    PROVE  \A x \in intents' \cup Carried(wakes') : x \in kept' => x \in Mentioned(disk')
<1> SUFFICES ASSUME NEW x, x \in intents' \/ x \in Carried(wakes'), x \in kept'
             PROVE  x \in disk'.intents \/ x \in Carried(disk'.wakes)
  BY DEF Mentioned
<1>0. x \in kept \/ x \in disk'.intents \/ x \in Carried(disk'.wakes)
  BY DEF Wears, Keeps, Mentioned
<1>1. CASE disk' = disk
  <2>1. x \in intents' => x \in intents
    BY DEF Wears, Fades
  <2>2. x \in Carried(wakes') => x \in Carried(wakes)
    BY CarriedIn DEF Wears, Fades, Shrinks
  <2>3. x \in kept => x \in Mentioned(disk)
    BY <2>1, <2>2
  <2> QED BY <2>3, <1>0, <1>1 DEF Mentioned
<1>2. CASE /\ intents' \subseteq disk'.intents
           /\ \A id \in Tasks : wakes'[id].res \subseteq disk'.wakes[id].res
  <2>1. x \in Carried(wakes') => x \in Carried(disk'.wakes)
    BY <1>2, CarriedIn
  <2> QED BY <2>1, <1>2
<1> QED BY <1>1, <1>2 DEF Wears

(* Nothing that is not over is lost.                                        *)
LEMMA WearsLoses ==
    ASSUME BookInv, Wears, Goes, Tells
    PROVE  NothingLost'
<1> SUFFICES ASSUME NEW x \in kept', hand'[x] \in {"out", "owes", "told"},
                    woke'[x] = 0, x \notin over'
             PROVE  /\ x \in IF hand'[x] = "told" THEN Carried(disk'.wakes)
                             ELSE Mentioned(disk')
                    /\ x \in IF hand'[x] = "told" \/ x \in told' THEN Carried(wakes')
                             ELSE intents' \cup Carried(wakes')
  BY DEF NothingLost
<1>0. x \in Tasks
  BY KeepsTyped DEF Wears
<1>1. hand'[x] = hand[x] /\ (x \in told' => x \in told) /\ woke[x] = 0 /\ x \notin over /\ Alive
  BY <1>0 DEF Tells, Goes
<1>3. (x \in intents => x \in intents') /\ (x \in Carried(wakes) => x \in Carried(wakes'))
  BY FadesKeeps DEF Wears
<1>5. CASE x \in kept
  <2>1. /\ x \in IF hand[x] = "told" THEN Carried(disk.wakes) ELSE Mentioned(disk)
        /\ x \in IF hand[x] = "told" \/ x \in told THEN Carried(wakes)
                 ELSE intents \cup Carried(wakes)
    BY <1>1, <1>5 DEF BookInv, NothingLost
  <2>2. x \in IF hand'[x] = "told" \/ x \in told' THEN Carried(wakes')
              ELSE intents' \cup Carried(wakes')
    BY <1>1, <1>3, <2>1
  <2>3. CASE disk' = disk
    BY <1>1, <2>1, <2>2, <2>3
  <2>4. CASE Fades(intents, wakes, disk'.intents, disk'.wakes, over')
    <3>1. /\ x \in intents => x \in disk'.intents
          /\ x \in Carried(wakes) => x \in Carried(disk'.wakes)
      BY <2>4, FadesKeeps
    <3>2. x \in IF hand'[x] = "told" THEN Carried(disk'.wakes) ELSE Mentioned(disk')
      BY <3>1, <1>1, <2>1 DEF Mentioned
    <3> QED BY <3>2, <2>2
  <2> QED BY <2>3, <2>4 DEF Wears
<1>6. CASE x \notin kept
  <2>1. x \in Mentioned(disk') /\ x \notin Mentioned(disk)
    BY <1>6 DEF Wears, Keeps, BookInv, Lasts
  <2>2. Fades(intents, wakes, disk'.intents, disk'.wakes, over')
    BY <2>1 DEF Wears
  <2>3. x \in intents \/ x \in Carried(wakes)
    <3>1. x \in disk'.intents => x \in intents
      BY <2>2 DEF Fades
    <3>2. x \in Carried(disk'.wakes) => x \in Carried(wakes)
      BY <2>2, CarriedIn DEF Fades, Shrinks
    <3> QED BY <3>1, <3>2, <2>1 DEF Mentioned
  <2>4. x \in Carried(wakes) => x \in Carried(disk'.wakes)
    BY <2>2, FadesKeeps
  <2>5. x \in intents => hand[x] = "out" /\ x \notin told
    BY <1>1, <1>6 DEF BookInv, Lasts
  <2> QED BY <1>1, <1>3, <2>1, <2>3, <2>4, <2>5
<1> QED BY <1>5, <1>6

(* What is forgotten on disk is not written back, but for a new ask, or for *)
(* what only memory ever had.                                               *)
Gone ==
    \A x \in Mentioned(disk') :
        \/ x \in Mentioned(disk)
        \/ hand[x] \in {"none", "refused"}
        \/ x \notin kept /\ x \in intents \cup Carried(wakes)

(* A step keeps the invariant of the books, and what is gone stays gone.    *)
BookStep == BookInv' /\ Gone

(* A step that takes from a book brings nothing back.                       *)
LEMMA WearsGone ==
    ASSUME \A x \in intents \cup Carried(wakes) : x \in kept => x \in Mentioned(disk),
           Wears
    PROVE  Gone
<1>1. CASE disk' = disk
  BY <1>1 DEF Gone
<1>2. CASE Fades(intents, wakes, disk'.intents, disk'.wakes, over')
  <2> SUFFICES ASSUME NEW x, x \in disk'.intents \/ x \in Carried(disk'.wakes)
               PROVE  \/ x \in Mentioned(disk)
                      \/ x \notin kept /\ x \in intents \cup Carried(wakes)
    BY DEF Gone, Mentioned
  <2>1. x \in disk'.intents => x \in intents
    BY <1>2 DEF Fades
  <2>2. x \in Carried(disk'.wakes) => x \in Carried(wakes)
    BY <1>2, CarriedIn DEF Fades, Shrinks
  <2> QED BY <2>1, <2>2
<1> QED BY <1>1, <1>2 DEF Wears

(* Such a step keeps the invariant of the books.                            *)
LEMMA WearsLasts ==
    ASSUME BookInv, Wears, Goes, Tells
    PROVE  BookStep
<1>1. /\ Book(hand, intents, wakes) /\ Book(hand, disk.intents, disk.wakes)
      /\ hand \in [Tasks -> {"none", "out", "owes", "told", "refused"}]
  BY DEF BookInv, Lasts, TypeOK
<1>2. Book(hand, intents', wakes') /\ Book(hand, disk'.intents, disk'.wakes)
  BY <1>1, WearsBooks
<1>3. Onward(hand, hand') /\ \A x \in Tasks : hand[x] \in {"none", "out", "owes", "told", "refused"}
  BY <1>1 DEF Tells
<1>4. Book(hand', intents', wakes')
  BY <1>2, <1>3, OnwardBook
<1>5. Book(hand', disk'.intents, disk'.wakes)
  BY <1>2, <1>3, OnwardBook
<1>6. \A x \in intents' \cup Carried(wakes') : x \in kept' => x \in Mentioned(disk')
  BY WearsMentions DEF BookInv, Lasts
<1>7. Up' => \A id \in Tasks : wakes'[id].cut = FALSE
  BY DEF BookInv, Lasts, Wears
<1>8. Alive' /\ (Alive' /\ ~unwritten' => disk'.wakes = wakes')
  BY DEF Goes, Alive, Wears
<1>9. Lasts'
  <2>1. \A x \in told' : hand'[x] \in {"owes", "told"}
    <3>1. \A x \in told : x \in Tasks /\ hand[x] \in {"owes", "told"}
      BY DEF BookInv, Lasts, TypeOK
    <3> QED BY <3>1 DEF Tells, Onward
  <2>2. Mentioned(disk') \subseteq kept'
    BY DEF Wears, Keeps
  <2>3. \A x \in intents' : x \in kept' \/ x \in over' \/ hand'[x] = "out"
    <3> SUFFICES ASSUME NEW x \in intents', x \notin kept', x \notin over'
                 PROVE  hand'[x] = "out"
      OBVIOUS
    <3>1. x \in intents /\ x \in Tasks
      BY <1>1 DEF Wears, Fades, Book
    <3>2. x \notin kept /\ x \notin over
      BY DEF Wears, Keeps, Goes
    <3>3. hand[x] = "out"
      BY <3>1, <3>2 DEF BookInv, Lasts
    <3>4. hand'[x] # "refused"
      BY <3>1, <3>3, <1>3 DEF Onward
    <3> QED BY <3>1, <3>3, <3>4 DEF Tells
  <2>4. \A x \in kept' : hand'[x] \in {"out", "owes", "told"}
    BY <1>3, <1>5, KeepsAsked DEF Wears, Tells
  <2> QED BY <2>1, <2>2, <2>3, <2>4, <1>4, <1>5, <1>6, <1>7, <1>8 DEF Lasts
<1>10. NothingLost'
  BY WearsLoses
<1>11. TypeOK'
  <2>1. proc' \in {"up", "closing", "down"}
    BY DEF Goes
  <2>2. intents' \subseteq Tasks /\ wakes' \in [Tasks -> Record]
    BY <1>4 DEF Book, Rows
  <2>3. /\ disk' \in [intents : SUBSET Tasks, wakes : [Tasks -> Record]]
        /\ unwritten' \in BOOLEAN
    BY DEF Wears
  <2>4. hand' \in [Tasks -> {"none", "out", "owes", "told", "refused"}] /\ told' \subseteq Tasks
    BY DEF Tells
  <2>5. kept' \subseteq Tasks
    BY KeepsTyped DEF Wears
  <2> QED BY <2>1, <2>2, <2>3, <2>4, <2>5 DEF TypeOK, Goes
<1>12. Gone
  BY WearsGone DEF BookInv, Lasts
<1> QED BY <1>9, <1>10, <1>11, <1>12 DEF BookStep, BookInv

(* No mark of a close appears.                                              *)
Uncut(w, v) == \A id \in Tasks : w[id].cut = FALSE => v[id].cut = FALSE

(* What is spent is counted.                                                *)
LEMMA SpendsTyped ==
    ASSUME NEW O, NEW f \in Nat, spent \in [Odd -> Nat], Spends(O, f)
    PROVE  spent' \in [Odd -> Nat]
<1>1. CASE UNCHANGED spent
  BY <1>1
<1>2. CASE spent' = [o \in Odd |-> spent[o] + (IF o \in O THEN 1 ELSE 0)
                                            + (IF o = "fail" THEN f ELSE 0)
                                            + (IF o = "along" /\ f > 1 THEN f - 1 ELSE 0)]
  <2>1. \A o \in Odd : /\ (IF o \in O THEN 1 ELSE 0) \in Nat
                         /\ (IF o = "fail" THEN f ELSE 0) \in Nat
                         /\ (IF o = "along" /\ f > 1 THEN f - 1 ELSE 0) \in Nat
    OBVIOUS
  <2> QED BY <1>2, <2>1
<1> QED BY <1>1, <1>2 DEF Spends

(* A failed write is counted by a number.                                   *)
LEMMA FailedNat == ASSUME NEW ok \in BOOLEAN PROVE Failed(ok) \in 0 .. 1
BY DEF Failed

(* A write, that may fail, of less than there was.                          *)
LEMMA FlushWears ==
    ASSUME BookInv, NEW I, NEW w, NEW ok \in BOOLEAN, Flush(I, w, ok),
           Fades(intents, wakes, I, w, over'), Uncut(wakes, w), proc' = proc
    PROVE  Wears
<1>1. I \subseteq Tasks /\ w \in [Tasks -> Record]
  BY DEF BookInv, Lasts, Book, Fades, Shrinks, Rows
<1>2. disk \in [intents : SUBSET Tasks, wakes : [Tasks -> Record]]
  BY DEF BookInv, TypeOK
<1>3. /\ intents' = I /\ wakes' = w /\ unwritten' = ~ok /\ Keeps
      /\ disk' = IF ok THEN [intents |-> I, wakes |-> w] ELSE disk
  BY DEF Flush, Keeps
<1>4. Fades(intents, wakes, intents', wakes', over')
  BY <1>3
<1>5. Up' => Up /\ \A id \in Tasks : wakes[id].cut = FALSE => wakes'[id].cut = FALSE
  BY <1>3 DEF Uncut, Up
<1>6. CASE ok = TRUE
  <2>1. disk' = [intents |-> intents', wakes |-> wakes']
    BY <1>3, <1>6
  <2>2. disk'.intents = intents' /\ disk'.wakes = wakes'
    BY <2>1
  <2>3. disk' \in [intents : SUBSET Tasks, wakes : [Tasks -> Record]]
    BY <2>1, <1>1, <1>3
  <2>4. Fades(intents, wakes, disk'.intents, disk'.wakes, over')
    BY <1>4, <2>2
  <2>5. unwritten' \in BOOLEAN
    BY <1>3, <1>6
  <2> QED BY <1>3, <1>4, <1>5, <2>2, <2>3, <2>4, <2>5 DEF Wears
<1>7. CASE ok = FALSE
  <2>1. disk' = disk /\ unwritten' = TRUE
    BY <1>3, <1>7
  <2> QED BY <1>2, <1>3, <1>4, <1>5, <2>1 DEF Wears
<1> QED BY <1>6, <1>7

(* No write at all.                                                         *)
LEMMA NoWriteWears ==
    ASSUME BookInv, Alive, NoWrite, proc' = proc
    PROVE  Wears
<1>1. Rows(wakes) /\ (unwritten = FALSE => disk.wakes = wakes)
  BY DEF BookInv, Lasts, Book
<1>2. disk \in [intents : SUBSET Tasks, wakes : [Tasks -> Record]] /\ unwritten \in BOOLEAN
  BY DEF BookInv, TypeOK
<1>3. Fades(intents, wakes, intents, wakes, over')
  BY <1>1, SameFades
<1>4. intents' = intents /\ wakes' = wakes /\ disk' = disk /\ unwritten' = unwritten
  BY DEF NoWrite
<1>5. Keeps
  BY <1>4 DEF NoWrite, Keeps, BookInv, Lasts
<1> QED BY <1>1, <1>2, <1>3, <1>4, <1>5 DEF Wears, Up

(* Nor does a record that goes leave a mark.                                *)
LEMMA WithoutUncut ==
    ASSUME NEW w, Rows(w), NEW id \in Tasks
    PROVE  Uncut(w, Without(w, id))
<1>1. ASSUME NEW i \in Tasks, w[i].cut = FALSE
      PROVE  Without(w, id)[i].cut = FALSE
  <2>1. CASE i = id \/ w[i].st = "none"
    <3>1. Without(w, id)[i] = NoRecord
      BY <2>1, WithoutRows
    <3> QED BY <3>1 DEF NoRecord
  <2>2. CASE i # id /\ w[i].st # "none"
    <3>1. Without(w, id)[i].cut = w[i].cut
      BY <2>2, WithoutRows
    <3> QED BY <3>1, <1>1
  <2> QED BY <2>1, <2>2
<1> QED BY <1>1 DEF Uncut

(* Nor one that is given back.                                              *)
LEMMA GivenBackUncut ==
    ASSUME NEW w, Rows(w), NEW id \in Tasks, w[id].st # "none", w[id].cut = FALSE
    PROVE  Uncut(w, GivenBack(w, id))
<1>1. CASE w[id].n + 1 >= MaxAttempts
  <2>1. GivenBack(w, id) = Without(w, id)
    BY <1>1, GivenBackRow
  <2> QED BY <2>1, WithoutUncut
<1>2. CASE ~(w[id].n + 1 >= MaxAttempts)
  <2>1. \E r : /\ RowOK(r) /\ r.res = w[id].res /\ r.st = "owed"
               /\ r.n = w[id].n + 1 /\ r.cut = FALSE /\ r.held = FALSE
               /\ GivenBack(w, id) = [w EXCEPT ![id] = r]
    BY <1>2, GivenBackRow
  <2>2. PICK r : r.cut = FALSE /\ GivenBack(w, id) = [w EXCEPT ![id] = r]
    BY <2>1
  <2>3. \A i \in Tasks : [w EXCEPT ![id] = r][i] = IF i = id THEN r ELSE w[i]
    BY DEF Rows
  <2> QED BY <2>2, <2>3 DEF Uncut
<1> QED BY <1>1, <1>2

(* The parts of a step that a start's refusal decides.                      *)
Ends ==
    /\ Wears
    /\ item' \subseteq Item
    /\ over' \subseteq Tasks /\ over \subseteq over'
    /\ spent' \in [Odd -> Nat]

(* A start that does not go ahead.                                          *)
LEMMA RefusedEnds ==
    ASSUME BookInv, Alive, proc' = proc, NEW p, p.id \in Tasks, Owned(wakes, p.id),
           NEW again \in BOOLEAN, NEW f \in 0 .. 1, Refused(p, again, f)
    PROVE  Ends
<1> DEFINE w == IF again THEN GivenBack(wakes, p.id) ELSE Without(wakes, p.id)
<1>1. /\ Rows(wakes) /\ item \subseteq Item /\ over \subseteq Tasks
      /\ spent \in [Odd -> Nat] /\ wakes[p.id].res \subseteq Tasks
      /\ wakes[p.id].st # "none" /\ (Up => wakes[p.id].cut = FALSE)
  BY DEF BookInv, Lasts, Book, TypeOK, Rows, Record, Owned
<1>2. CASE Up /\ \E ok \in BOOLEAN :
                Flush(intents, w, ok) /\ Spends({}, f + Failed(ok))
           /\ over' = (IF Owned(w, p.id) THEN over ELSE over \cup wakes[p.id].res)
           /\ item' = item
  <2>1. PICK ok \in BOOLEAN : Flush(intents, w, ok) /\ Spends({}, f + Failed(ok))
    BY <1>2
  <2>2. over' = (IF Owned(w, p.id) THEN over ELSE over \cup wakes[p.id].res) /\ item' = item
    BY <1>2
  <2>3. Owned(w, p.id) \/ wakes[p.id].res \subseteq over'
    BY <2>2
  <2>4. Fades(intents, wakes, intents, w, over') /\ Uncut(wakes, w)
    <3>1. CASE again
      <4>1. w = GivenBack(wakes, p.id)
        BY <3>1
      <4> HIDE DEF w
      <4>2. Owned(GivenBack(wakes, p.id), p.id) \/ wakes[p.id].res \subseteq over'
        BY <4>1, <2>3
      <4>3. Fades(intents, wakes, intents, GivenBack(wakes, p.id), over')
        BY <4>2, <1>1, <1>2, GivenBackFades
      <4>4. Uncut(wakes, GivenBack(wakes, p.id))
        BY <1>1, <1>2, GivenBackUncut
      <4> QED BY <4>1, <4>3, <4>4
    <3>2. CASE ~again
      <4>1. w = Without(wakes, p.id)
        BY <3>2
      <4> HIDE DEF w
      <4>2. Without(wakes, p.id)[p.id] = NoRecord
        BY <1>1, WithoutRows
      <4>3. wakes[p.id].res \subseteq over'
        BY <4>1, <4>2, <2>3 DEF Owned, NoRecord
      <4>4. Fades(intents, wakes, intents, Without(wakes, p.id), over')
        BY <4>3, <1>1, WithoutFades
      <4>5. Uncut(wakes, Without(wakes, p.id))
        BY <1>1, WithoutUncut
      <4> QED BY <4>1, <4>4, <4>5
    <3> QED BY <3>1, <3>2
  <2> HIDE DEF w
  <2>5. Wears
    BY <2>1, <2>4, FlushWears
  <2>6. f + Failed(ok) \in Nat
    BY FailedNat
  <2>7. spent' \in [Odd -> Nat]
    BY <2>1, <2>6, <1>1, SpendsTyped
  <2>8. over' \subseteq Tasks /\ over \subseteq over'
    BY <2>2, <1>1
  <2> QED BY <2>2, <2>5, <2>7, <2>8, <1>1 DEF Ends
<1>3. CASE /\ IF f > 0 THEN Flush(intents, wakes, FALSE) ELSE NoWrite
           /\ Spends({}, f)
           /\ UNCHANGED <<item, over>>
  <2>1. Fades(intents, wakes, intents, wakes, over') /\ Uncut(wakes, wakes)
    BY <1>1, SameFades DEF Uncut
  <2>2. Wears
    <3>1. CASE Flush(intents, wakes, FALSE)
      BY <3>1, <2>1, FlushWears
    <3>2. CASE NoWrite
      BY <3>2, NoWriteWears
    <3> QED BY <3>1, <3>2, <1>3
  <2>3. spent' \in [Odd -> Nat]
    BY <1>3, <1>1, SpendsTyped
  <2> QED BY <2>2, <2>3, <1>1, <1>3 DEF Ends
<1>4. \/ /\ Up /\ \E ok \in BOOLEAN :
                Flush(intents, w, ok) /\ Spends({}, f + Failed(ok))
         /\ over' = (IF Owned(w, p.id) THEN over ELSE over \cup wakes[p.id].res)
         /\ item' = item
      \/ /\ IF f > 0 THEN Flush(intents, wakes, FALSE) ELSE NoWrite
         /\ Spends({}, f)
         /\ UNCHANGED <<item, over>>
  BY DEF Refused
<1> HIDE DEF w
<1> QED BY <1>2, <1>3, <1>4

(* A wake cancelled.                                                        *)
LEMMA CancelledEnds ==
    ASSUME BookInv, Alive, proc' = proc, NEW p, p.id \in Tasks, Cancelled(p)
    PROVE  Ends
<1>1. /\ Rows(wakes) /\ item \subseteq Item /\ over \subseteq Tasks
      /\ spent \in [Odd -> Nat] /\ wakes[p.id].res \subseteq Tasks
  BY DEF BookInv, Lasts, Book, TypeOK, Rows, Record
<1>2. PICK ok \in BOOLEAN : /\ Flush(intents, Without(wakes, p.id), ok)
                            /\ Spends({}, Failed(ok))
  BY DEF Cancelled
<1>3. over' = over \cup wakes[p.id].res
  BY DEF Cancelled
<1>4. item' \subseteq Item
  BY <1>1 DEF Cancelled, ItemGone
<1>5. Fades(intents, wakes, intents, Without(wakes, p.id), over')
  BY <1>1, <1>3, WithoutFades
<1>6. Uncut(wakes, Without(wakes, p.id))
  BY <1>1, WithoutUncut
<1>7. Wears
  BY <1>2, <1>5, <1>6, FlushWears
<1>8. spent' \in [Odd -> Nat]
  BY <1>1, <1>2, FailedNat, SpendsTyped
<1> QED BY <1>1, <1>3, <1>4, <1>7, <1>8 DEF Ends

(* Nor what is left when a reply is consumed.                               *)
LEMMA ConsumedUncut ==
    ASSUME Rows(wakes), NEW t \in Tasks
    PROVE  Uncut(wakes, Consumed(t))
<1> DEFINE w == [id \in Tasks |->
                    IF id \in Owing(wakes) THEN [wakes[id] EXCEPT !.res = @ \ {t}]
                    ELSE wakes[id]]
           K == {id \in Tasks : w[id].res # {}}
<1>1. Consumed(t) = Kept(w, K)
  BY DEF Consumed
<1>2. ASSUME NEW id \in Tasks
      PROVE  w[id] \in Record /\ w[id].cut = wakes[id].cut
  BY DEF Rows, Record
<1> HIDE DEF w, K
<1>3. ASSUME NEW id \in Tasks, wakes[id].cut = FALSE
      PROVE  Kept(w, K)[id].cut = FALSE
  <2>1. Kept(w, K)[id] = IF id \in K THEN [w[id] EXCEPT !.ahead = @ \cap K] ELSE NoRecord
    BY DEF Kept
  <2>2. w[id] \in Record /\ w[id].cut = FALSE
    BY <1>2, <1>3
  <2>3. [w[id] EXCEPT !.ahead = @ \cap K].cut = FALSE
    BY <2>2 DEF Record
  <2> QED BY <2>1, <2>3 DEF NoRecord
<1> QED BY <1>1, <1>3 DEF Uncut

(* Receipts that stay as they are.                                          *)
LEMMA StillTells ==
    ASSUME BookInv, hand' = hand, told' = told
    PROVE  Tells
BY DEF BookInv, TypeOK, Tells, Onward

(* Starts and turns that stay as they are, or one start fewer.              *)
LEMMA TypedParts ==
    ASSUME BookInv
    PROVE  /\ proc \in {"up", "closing", "down"} /\ doneIds \subseteq Tasks
           /\ upd \subseteq Tasks /\ item \subseteq Item /\ starting \subseteq Start
           /\ turn \in Turn /\ woke \in [Tasks -> Nat] /\ tries \in [Tasks -> Nat]
           /\ over \subseteq Tasks /\ spent \in [Odd -> Nat]
           /\ hand \in [Tasks -> {"none", "out", "owes", "told", "refused"}]
           /\ told \subseteq Tasks /\ Rows(wakes) /\ Rows(disk.wakes)
           /\ \A id \in Tasks : wakes[id] \in Record /\ wakes[id].res \subseteq Tasks
BY DEF BookInv, TypeOK, Lasts, Book, Rows, Record

(* A reply consumed.                                                        *)
LEMMA ConsumeWears ==
    ASSUME BookInv, Alive, proc' = proc, NEW t \in Tasks, t \in over',
           NEW ok \in BOOLEAN, Consume(t, ok)
    PROVE  Wears
<1>1. Rows(wakes)
  BY TypedParts
<1>2. CASE Flush(intents \ {t}, Consumed(t), ok)
  <2>1. Fades(intents, wakes, intents \ {t}, Consumed(t), over')
    BY <1>1, ConsumedFades
  <2>2. Uncut(wakes, Consumed(t))
    BY <1>1, ConsumedUncut
  <2> QED BY <1>2, <2>1, <2>2, FlushWears
<1>3. CASE NoWrite
  BY <1>3, NoWriteWears
<1> QED BY <1>2, <1>3 DEF Consume

(* A hand-off that was stopped is over.                                     *)
LEMMA ReturnStoppedBooks ==
    ASSUME BookInv, NEW t \in Tasks, ReturnStopped(t)
    PROVE  BookStep
<1>1. PICK ok \in BOOLEAN : Consume(t, ok) /\ Spends({}, Failed(ok))
  BY DEF ReturnStopped
<1>2. Alive /\ proc' = proc /\ over' = over \cup {t} /\ hand[t] = "out"
  BY DEF ReturnStopped
<1>3. Wears
  BY <1>1, <1>2, ConsumeWears
<1>4. spent' \in [Odd -> Nat]
  BY <1>1, FailedNat, SpendsTyped, TypedParts
<1>5. Goes
  BY <1>2, <1>4, TypedParts DEF ReturnStopped, Goes, Alive
<1>6. Tells
  <2>1. hand' = [hand EXCEPT ![t] = "told"] /\ told' = told
    BY DEF ReturnStopped
  <2>2. \A x \in Tasks : hand'[x] = IF x = t THEN "told" ELSE hand[x]
    BY <2>1, TypedParts
  <2>3. hand' \in [Tasks -> {"none", "out", "owes", "told", "refused"}]
    BY <2>1, TypedParts
  <2>4. Onward(hand, hand')
    BY <2>2, <1>2 DEF Onward
  <2> QED BY <2>1, <2>2, <2>3, <2>4, <1>2, TypedParts DEF Tells
<1> QED BY <1>3, <1>5, <1>6, WearsLasts

(* A reply the asker read itself is over.                                   *)
LEMMA CheckBooks ==
    ASSUME BookInv, NEW t \in Tasks, Check(t)
    PROVE  BookStep
<1>1. PICK ok \in BOOLEAN : Consume(t, ok) /\ Spends({}, Failed(ok))
  BY DEF Check
<1>2. Alive /\ proc' = proc /\ over' = over \cup {t} /\ hand' = hand /\ told' = told
  BY DEF Check, Up, Alive
<1>3. Wears
  BY <1>1, <1>2, ConsumeWears
<1>4. spent' \in [Odd -> Nat]
  BY <1>1, FailedNat, SpendsTyped, TypedParts
<1>5. Goes
  BY <1>2, <1>4, TypedParts DEF Check, Goes, Alive
<1>6. Tells
  BY <1>2, StillTells
<1> QED BY <1>3, <1>5, <1>6, WearsLasts

(* A claim keeps the record, and a claim with nothing left to carry is over.*)
LEMMA ClaimBooks ==
    ASSUME BookInv, Claim
    PROVE  BookStep
<1>1. Up /\ Alive /\ proc' = proc /\ hand' = hand /\ told' = told
  BY DEF Claim, Up, Alive
<1>2. PICK id \in Oldest(wakes, Owing(wakes)) :
        LET r == wakes[id]
            w == [wakes EXCEPT ![id].st = "claimed"]
        IN \/ /\ Flush(intents, wakes, FALSE)
              /\ Spends({}, 1)
              /\ UNCHANGED <<starting, tries, over>>
           \/ /\ Allowed(r)
              /\ Flush(intents, w, TRUE)
              /\ Tried(id)
              /\ starting' = starting \cup
                    {[id |-> id, replay |-> FALSE, res |-> r.res \cap upd]}
              /\ UNCHANGED <<over, spent>>
           \/ /\ ~Allowed(r)
              /\ over' = over \cup r.res
              /\ intents' = intents /\ wakes' = Without(wakes, id)
              /\ \E ok \in BOOLEAN :
                    /\ disk' = [intents |-> intents,
                                wakes |-> IF ok THEN wakes' ELSE w]
                    /\ unwritten' = ~ok /\ kept' = kept \cup Mentioned(disk')
                    /\ Spends({}, Failed(ok))
              /\ UNCHANGED <<starting, tries>>
  BY DEF Claim
<1>3. id \in Tasks /\ wakes[id].st = "owed"
  BY DEF Oldest, Owing
<1> DEFINE r == wakes[id]
           w == [wakes EXCEPT ![id].st = "claimed"]
<1>4. RowOK(r) /\ r.res \subseteq Tasks
  BY <1>3, TypedParts DEF Rows
<1>5. PICK c : /\ RowOK(c) /\ c.res = r.res /\ c.cut = r.cut
               /\ w = [wakes EXCEPT ![id] = c]
  <2> DEFINE c == [r EXCEPT !.st = "claimed"]
  <2>1. /\ c \in Record /\ c.st = "claimed" /\ c.res = r.res /\ c.cut = r.cut
        /\ c.n = r.n /\ c.held = r.held
    BY <1>4 DEF RowOK, Record
  <2>2. RowOK(c)
    BY <2>1, <1>3, <1>4 DEF RowOK
  <2>3. w = [wakes EXCEPT ![id] = c]
    BY DEF Rows
  <2> QED BY <2>1, <2>2, <2>3
<1>6. /\ \A O : Fades(intents, wakes, intents, w, O)
      /\ Uncut(wakes, w) /\ w \in [Tasks -> Record]
      /\ \A i \in Tasks : w[i].res = wakes[i].res
  <2>1. \A i \in Tasks : [wakes EXCEPT ![id] = c][i] = IF i = id THEN c ELSE wakes[i]
    BY TypedParts DEF Rows
  <2>2. \A O : Fades(intents, wakes, intents, [wakes EXCEPT ![id] = c], O)
    BY <1>3, <1>5, TypedParts, SetFades
  <2>3. Shrinks(wakes, [wakes EXCEPT ![id] = c])
    BY <1>3, <1>5, TypedParts, RowSet
  <2> QED BY <1>5, <2>1, <2>2, <2>3 DEF Uncut, Shrinks, Rows
<1> HIDE DEF w
<1>7. CASE /\ Flush(intents, wakes, FALSE)
           /\ Spends({}, 1)
           /\ UNCHANGED <<starting, tries, over>>
  <2>1. Fades(intents, wakes, intents, wakes, over') /\ Uncut(wakes, wakes)
    BY TypedParts, SameFades DEF Uncut
  <2>2. Wears
    BY <2>1, <1>7, <1>1, FlushWears
  <2>3. spent' \in [Odd -> Nat]
    BY <1>7, TypedParts, SpendsTyped
  <2>4. Goes
    BY <1>1, <1>7, <2>3, TypedParts DEF Claim, Goes, Alive
  <2> QED BY <2>2, <2>4, <1>1, StillTells, WearsLasts
<1>8. CASE /\ Flush(intents, w, TRUE)
           /\ Tried(id)
           /\ starting' = starting \cup
                 {[id |-> id, replay |-> FALSE, res |-> r.res \cap upd]}
           /\ UNCHANGED <<over, spent>>
  <2>1. Fades(intents, wakes, intents, w, over')
    BY <1>6
  <2>2. Wears
    BY <2>1, <1>6, <1>8, <1>1, FlushWears
  <2>3. [id |-> id, replay |-> FALSE, res |-> r.res \cap upd] \in Start
    BY <1>3, <1>4 DEF Start
  <2>4. starting' \subseteq Start
    BY <2>3, <1>8, TypedParts
  <2>5. tries' \in [Tasks -> Nat]
    BY <1>8, <1>3, TypedParts DEF Tried
  <2>6. Goes
    BY <1>1, <1>8, <2>4, <2>5, TypedParts DEF Claim, Goes, Alive
  <2> QED BY <2>2, <2>6, <1>1, StillTells, WearsLasts
<1>9. CASE /\ over' = over \cup r.res
           /\ intents' = intents /\ wakes' = Without(wakes, id)
           /\ \E ok \in BOOLEAN :
                 /\ disk' = [intents |-> intents,
                             wakes |-> IF ok THEN wakes' ELSE w]
                 /\ unwritten' = ~ok /\ kept' = kept \cup Mentioned(disk')
                 /\ Spends({}, Failed(ok))
           /\ UNCHANGED <<starting, tries>>
  <2>1. Fades(intents, wakes, intents, Without(wakes, id), over')
    BY <1>3, <1>9, TypedParts, WithoutFades
  <2>2. Uncut(wakes, Without(wakes, id))
    BY <1>3, TypedParts, WithoutUncut
  <2>3. PICK ok \in BOOLEAN :
          /\ disk' = [intents |-> intents, wakes |-> IF ok THEN wakes' ELSE w]
          /\ unwritten' = ~ok /\ kept' = kept \cup Mentioned(disk')
          /\ Spends({}, Failed(ok))
    BY <1>9
  <2>4. spent' \in [Odd -> Nat]
    BY <2>3, FailedNat, TypedParts, SpendsTyped
  <2>5. /\ Shrinks(wakes, wakes')
        /\ Fades(intents, wakes, intents', wakes', over')
    BY <2>1, <1>9 DEF Fades
  <2>6. disk'.intents = intents /\ disk'.wakes = IF ok THEN wakes' ELSE w
    BY <2>3
  <2>7. disk'.wakes \in [Tasks -> Record]
    BY <2>5, <2>6, <1>6 DEF Shrinks, Rows
  <2>8. disk' \in [intents : SUBSET Tasks, wakes : [Tasks -> Record]]
    <3>1. intents \subseteq Tasks
      BY DEF BookInv, TypeOK
    <3>2. disk' = [intents |-> disk'.intents, wakes |-> disk'.wakes]
      BY <2>3
    <3> QED BY <3>1, <3>2, <2>6, <2>7
  <2>9. Fades(intents, wakes, disk'.intents, disk'.wakes, over')
    BY <2>5, <2>6, <1>6, <1>9
  <2>10. \A i \in Tasks : wakes'[i].res \subseteq disk'.wakes[i].res
    BY <2>5, <2>6, <1>6 DEF Shrinks
  <2>11. unwritten' \in BOOLEAN /\ (unwritten' = FALSE => disk'.wakes = wakes')
    BY <2>3, <2>6
  <2>12. Up' => Up /\ \A i \in Tasks : wakes[i].cut = FALSE => wakes'[i].cut = FALSE
    BY <2>2, <1>1, <1>9 DEF Uncut
  <2>13. Wears
    BY <2>3, <2>5, <2>6, <2>8, <2>9, <2>10, <2>11, <2>12, <1>9 DEF Wears, Keeps
  <2>14. Goes
    BY <1>1, <1>4, <1>9, <2>4, TypedParts DEF Claim, Goes, Alive
  <2> QED BY <2>13, <2>14, <1>1, StillTells, WearsLasts
<1> QED BY <1>2, <1>7, <1>8, <1>9 DEF w

(* A step whose books end as a refused start's, or stay: with nothing told  *)
(* or heard.                                                                *)
LEMMA EndsBooks ==
    ASSUME BookInv, Ends, Alive, proc' = proc, hand' = hand, told' = told,
           doneIds' \subseteq Tasks, upd' \subseteq Tasks, starting' \subseteq Start,
           turn' \in Turn, woke' \in [Tasks -> Nat], tries' \in [Tasks -> Nat],
           \A x \in Tasks : woke'[x] = 0 => woke[x] = 0
    PROVE  BookStep
<1>1. Goes
  BY TypedParts DEF Goes, Ends, Alive
<1> QED BY <1>1, StillTells, WearsLasts DEF Ends

(* No write, and nothing over.                                              *)
LEMMA NoWriteEnds ==
    ASSUME BookInv, Alive, proc' = proc, NoWrite, over' = over, spent' = spent,
           item' \subseteq Item
    PROVE  Ends
BY NoWriteWears, TypedParts DEF Ends

(* What is left of the held items.                                          *)
LEMMA ItemsTyped ==
    ASSUME BookInv
    PROVE  /\ \A id : ItemGone(id) \subseteq Item
           /\ \A p \in Start : ItemKept(p) \subseteq Item
BY TypedParts DEF ItemGone, ItemKept, Start, Item

(* A record changed in memory, and on disk if the write is not refused.     *)
LEMMA SetEnds ==
    ASSUME BookInv, Alive, proc' = proc, NEW id \in Tasks, NEW r, RowOK(r),
           r.res = wakes[id].res, r.cut = wakes[id].cut,
           NEW ok \in BOOLEAN, Flush(intents, [wakes EXCEPT ![id] = r], ok),
           item' \subseteq Item, over' = over, spent' \in [Odd -> Nat]
    PROVE  Ends
<1>1. Fades(intents, wakes, intents, [wakes EXCEPT ![id] = r], over')
  BY TypedParts, SetFades
<1>2. \A i \in Tasks : [wakes EXCEPT ![id] = r][i] = IF i = id THEN r ELSE wakes[i]
  BY TypedParts DEF Rows
<1>3. Uncut(wakes, [wakes EXCEPT ![id] = r])
  BY <1>2 DEF Uncut
<1>4. Wears
  BY <1>1, <1>3, FlushWears
<1> QED BY <1>4, TypedParts DEF Ends

(* A record whose state, hold or attempts change, as a row.                 *)
LEMMA SetRow ==
    ASSUME Rows(wakes), NEW id \in Tasks, wakes[id].st # "none"
    PROVE  /\ wakes[id].st = "claimed" =>
                \E r : /\ RowOK(r) /\ r.res = wakes[id].res /\ r.cut = wakes[id].cut
                       /\ r.n = wakes[id].n /\ r.st = "claimed" /\ r.held = TRUE
                       /\ [wakes EXCEPT ![id].held = TRUE] = [wakes EXCEPT ![id] = r]
           /\ wakes[id].held = TRUE /\ wakes[id].n < MaxAttempts =>
                \E r : /\ RowOK(r) /\ r.res = wakes[id].res /\ r.cut = wakes[id].cut
                       /\ r.n = wakes[id].n + 1 /\ r.st = wakes[id].st /\ r.held = TRUE
                       /\ [wakes EXCEPT ![id].n = @ + 1] = [wakes EXCEPT ![id] = r]
           /\ \E r : /\ RowOK(r) /\ r.res = wakes[id].res /\ r.cut = wakes[id].cut
                     /\ r.n = wakes[id].n /\ r.st = "started" /\ r.held = wakes[id].held
                     /\ [wakes EXCEPT ![id].st = "started"] = [wakes EXCEPT ![id] = r]
<1>1. RowOK(wakes[id]) /\ wakes[id] \in Record /\ wakes \in [Tasks -> Record]
  BY DEF Rows, RowOK
<1>2. ASSUME wakes[id].st = "claimed"
      PROVE  \E r : /\ RowOK(r) /\ r.res = wakes[id].res /\ r.cut = wakes[id].cut
                    /\ r.n = wakes[id].n /\ r.st = "claimed" /\ r.held = TRUE
                    /\ [wakes EXCEPT ![id].held = TRUE] = [wakes EXCEPT ![id] = r]
  <2> DEFINE r == [wakes[id] EXCEPT !.held = TRUE]
  <2>1. /\ r \in Record /\ r.res = wakes[id].res /\ r.cut = wakes[id].cut
        /\ r.n = wakes[id].n /\ r.st = "claimed" /\ r.held = TRUE
    BY <1>1, <1>2 DEF Record
  <2>2. RowOK(r)
    BY <2>1, <1>1, <1>2 DEF RowOK
  <2>3. [wakes EXCEPT ![id].held = TRUE] = [wakes EXCEPT ![id] = r]
    BY <1>1
  <2> QED BY <2>1, <2>2, <2>3
<1>3. ASSUME wakes[id].held = TRUE, wakes[id].n < MaxAttempts
      PROVE  \E r : /\ RowOK(r) /\ r.res = wakes[id].res /\ r.cut = wakes[id].cut
                    /\ r.n = wakes[id].n + 1 /\ r.st = wakes[id].st /\ r.held = TRUE
                    /\ [wakes EXCEPT ![id].n = @ + 1] = [wakes EXCEPT ![id] = r]
  <2> DEFINE r == [wakes[id] EXCEPT !.n = @ + 1]
  <2>1. wakes[id].n + 1 \in 0 .. MaxAttempts
    BY <1>1, <1>3, CapsAssumption DEF Record
  <2>2. /\ r \in Record /\ r.res = wakes[id].res /\ r.cut = wakes[id].cut
        /\ r.n = wakes[id].n + 1 /\ r.st = wakes[id].st /\ r.held = TRUE
    BY <2>1, <1>1, <1>3 DEF Record
  <2>3. RowOK(r)
    BY <2>2, <1>1, <1>3 DEF RowOK
  <2>4. [wakes EXCEPT ![id].n = @ + 1] = [wakes EXCEPT ![id] = r]
    BY <1>1
  <2> QED BY <2>2, <2>3, <2>4
<1>4. \E r : /\ RowOK(r) /\ r.res = wakes[id].res /\ r.cut = wakes[id].cut
             /\ r.n = wakes[id].n /\ r.st = "started" /\ r.held = wakes[id].held
             /\ [wakes EXCEPT ![id].st = "started"] = [wakes EXCEPT ![id] = r]
  <2> DEFINE r == [wakes[id] EXCEPT !.st = "started"]
  <2>1. /\ r \in Record /\ r.res = wakes[id].res /\ r.cut = wakes[id].cut
        /\ r.n = wakes[id].n /\ r.st = "started" /\ r.held = wakes[id].held
    BY <1>1 DEF Record
  <2>2. RowOK(r)
    BY <2>1, <1>1 DEF RowOK
  <2>3. [wakes EXCEPT ![id].st = "started"] = [wakes EXCEPT ![id] = r]
    BY <1>1
  <2> QED BY <2>1, <2>2, <2>3
<1> QED BY <1>2, <1>3, <1>4

-----------------------------------------------------------------------------
(* Who carries a record *)

(* The start the turn came from, if it is of this record.                   *)
Wakings(id) == {p \in turn.start : p.id = id}

(* A name that was a record's is asked for no more, and is not opened again.*)
Fresh(id) == id \notin intents /\ hand[id] \in {"owes", "told"}

(* A live record is claimed by one start, or by the turn that start became, *)
(* which is marked once its prompt goes out, or carried by its item alone.  *)
TakenOnce(id) ==
    /\ Starts(id) # {} \/ Wakings(id) # {} \/ (Alive /\ HasItem(id)) => Fresh(id)
    /\ wakes[id].st # "none" =>
          /\ \A p, q \in Starts(id) : p = q
          /\ Starts(id) # {} => Wakings(id) = {}
          /\ \A p \in Starts(id) : wakes[id].st = "claimed" /\ wakes[id].held = p.replay
          /\ \A p \in Wakings(id) :
                \/ turn.at = "setup" /\ wakes[id].st = "claimed" /\ wakes[id].held = p.replay
                \/ turn.at = "sent" /\ wakes[id].st = "started"
          /\ Alive /\ HasItem(id) =>
                wakes[id].st # "owed" /\ (wakes[id].st = "claimed" => wakes[id].held = TRUE)
          /\ wakes[id].st = "started" => Wakings(id) # {}
          /\ Up /\ wakes[id].st = "claimed" =>
                IF wakes[id].held THEN HasItem(id) ELSE Starts(id) # {} \/ Wakings(id) # {}

(* A turn is one start's, or none's.                                        *)
TurnOK ==
    /\ \A p, q \in turn.start : p = q
    /\ turn.at \in {"idle", "run"} => turn.start = {}
    /\ turn.at \in {"sent", "early"} => turn.start # {}

Takers == TurnOK /\ \A id \in Tasks : TakenOnce(id)

WakeInv == BookInv /\ Takers

(* What a step leaves alone of a record: who carries it, and whether it is  *)
(* claimed or held; it may be opened, or go.                                *)
Untouched(id) ==
    /\ Starts(id)' = Starts(id) /\ Wakings(id)' = Wakings(id)
    /\ Wakings(id) # {} => turn'.at = turn.at
    /\ HasItem(id)' <=> HasItem(id)
    /\ \/ wakes'[id].st = "none"
       \/ wakes'[id].st = wakes[id].st /\ wakes'[id].held = wakes[id].held
       \/ wakes'[id].st = "owed" /\ id \in intents /\ Starts(id) = {} /\ Wakings(id) = {}
    /\ id \in intents' => id \in intents \/ hand[id] = "none"
    /\ hand[id] \in {"owes", "told"} => hand'[id] \in {"owes", "told"}

(* A record that is left alone has the carrier it had.                      *)
LEMMA UntouchedTaken ==
    ASSUME NEW id \in Tasks, TakenOnce(id), Untouched(id), Alive, Up' => Up
    PROVE  TakenOnce(id)'
<1>1. Fresh(id) => Fresh(id)'
  BY DEF Fresh, Untouched
<1>2. Starts(id)' # {} \/ Wakings(id)' # {} \/ (Alive' /\ HasItem(id)') => Fresh(id)'
  BY <1>1 DEF Untouched, TakenOnce
<1>3. CASE wakes'[id].st = "none"
  BY <1>2, <1>3 DEF TakenOnce
<1>4. CASE wakes'[id].st # "none" /\ wakes'[id].st = wakes[id].st /\ wakes'[id].held = wakes[id].held
  <2>1. /\ Starts(id)' = Starts(id) /\ Wakings(id)' = Wakings(id)
        /\ Wakings(id) # {} => turn'.at = turn.at
        /\ HasItem(id)' <=> HasItem(id)
    BY DEF Untouched
  <2>2. \A p \in Wakings(id) : turn'.at = turn.at
    BY <2>1
  <2> QED BY <1>2, <1>4, <2>1, <2>2 DEF TakenOnce
<1>5. CASE wakes'[id].st = "owed" /\ id \in intents /\ Starts(id) = {} /\ Wakings(id) = {}
  <2>1. ~HasItem(id)
    BY <1>5 DEF TakenOnce, Fresh
  <2>2. Starts(id)' = {} /\ Wakings(id)' = {} /\ ~HasItem(id)'
    BY <1>5, <2>1 DEF Untouched
  <2> QED BY <1>2, <1>5, <2>2 DEF TakenOnce
<1> QED BY <1>3, <1>4, <1>5 DEF Untouched

-----------------------------------------------------------------------------
(* The books, step by step *)

(* A start is of a hand-off, and what it took is of a record that is        *)
(* claimed.                                                                 *)
LEMMA StartTyped ==
    ASSUME WakeInv, NEW p, p \in starting \/ p \in turn.start
    PROVE  /\ p \in Start /\ p.id \in Tasks /\ p.replay \in BOOLEAN /\ p.res \subseteq Tasks
           /\ p \in starting => p \in Starts(p.id)
           /\ p \in turn.start => p \in Wakings(p.id)
<1>1. p \in Start
  BY TypedParts DEF WakeInv, Turn
<1> QED BY <1>1 DEF Start, Starts, Wakings

(* A turn has its own parts.                                                *)
LEMMA TurnTyped ==
    ASSUME BookInv
    PROVE  /\ turn.at \in {"idle", "setup", "sent", "early", "run"}
           /\ turn.carries \subseteq Tasks /\ turn.start \subseteq Start
           /\ Idle \in Turn /\ Running \in Turn
           /\ [turn EXCEPT !.at = "sent"] \in Turn
           /\ [turn EXCEPT !.at = "early"] \in Turn
           /\ \A S \in SUBSET Start :
                 [at |-> "setup", carries |-> upd, start |-> S] \in Turn
<1>1. turn \in Turn /\ upd \subseteq Tasks
  BY TypedParts
<1> QED BY <1>1 DEF Turn, Idle, Running

(* An admission, or a start that does not pass it.                          *)
LEMMA AdmitBooks ==
    ASSUME WakeInv, NEW p, Admit(p)
    PROVE  BookStep
<1>1. /\ Alive /\ p \in starting /\ proc' = proc /\ hand' = hand /\ told' = told
      /\ doneIds' = doneIds /\ upd' = upd /\ woke' = woke /\ tries' = tries
      /\ starting' = starting \ {p}
  BY DEF Admit
<1>2. BookInv /\ p \in Start /\ p.id \in Tasks /\ TakenOnce(p.id) /\ p \in Starts(p.id)
  BY <1>1, StartTyped DEF WakeInv, Takers
<1>3. SUFFICES Ends /\ turn' \in Turn
  <2>1. /\ doneIds' \subseteq Tasks /\ upd' \subseteq Tasks /\ starting' \subseteq Start
        /\ woke' \in [Tasks -> Nat] /\ tries' \in [Tasks -> Nat]
        /\ \A x \in Tasks : woke'[x] = 0 => woke[x] = 0
    BY <1>1, <1>2, TypedParts
  <2>2. ASSUME Ends, turn' \in Turn PROVE BookStep
    BY <1>1, <1>2, <2>1, <2>2, EndsBooks
  <2> QED BY <2>2
<1>4. CASE /\ ~Owned(wakes, p.id)
           /\ item' = (IF p.replay THEN ItemGone(p.id) ELSE item)
           /\ NoWrite /\ UNCHANGED <<turn, over, spent>>
  <2>1. item' \subseteq Item
    BY <1>4, <1>2, ItemsTyped, TypedParts
  <2>2. Ends
    BY <2>1, <1>1, <1>2, <1>4, NoWriteEnds
  <2> QED BY <2>2, <1>2, <1>4, TypedParts
<1>5. CASE Cancelled(p) /\ UNCHANGED turn
  BY <1>1, <1>2, <1>5, CancelledEnds, TypedParts
<1>6. CASE /\ Owned(wakes, p.id) /\ UNCHANGED turn
           /\ \/ Refused(p, TRUE, 0)
              \/ Refused(p, FALSE, 0)
  <2>1. /\ TRUE \in BOOLEAN /\ FALSE \in BOOLEAN /\ 0 \in 0 .. 1
    OBVIOUS
  <2>2. CASE Refused(p, TRUE, 0)
    <3>1. Ends
      BY <1>1, <1>2, <1>6, <2>1, <2>2, RefusedEnds
    <3> QED BY <3>1, <1>2, <1>6, TypedParts
  <2>3. CASE Refused(p, FALSE, 0)
    <3>1. Ends
      BY <1>1, <1>2, <1>6, <2>1, <2>3, RefusedEnds
    <3> QED BY <3>1, <1>2, <1>6, TypedParts
  <2> QED BY <1>6, <2>2, <2>3
<1>7. CASE /\ Owned(wakes, p.id)
           /\ item' = ItemKept(p)
           /\ \E ok \in BOOLEAN :
                 /\ Flush(intents, [wakes EXCEPT ![p.id].held = TRUE], ok)
                 /\ Spends({"hold"}, Failed(ok))
           /\ UNCHANGED <<turn, over>>
  <2>1. wakes[p.id].st = "claimed"
    BY <1>2, <1>7 DEF TakenOnce, Owned
  <2>2. PICK ok \in BOOLEAN :
          /\ Flush(intents, [wakes EXCEPT ![p.id].held = TRUE], ok)
          /\ Spends({"hold"}, Failed(ok))
    BY <1>7
  <2>3. PICK r : /\ RowOK(r) /\ r.res = wakes[p.id].res /\ r.cut = wakes[p.id].cut
                 /\ [wakes EXCEPT ![p.id].held = TRUE] = [wakes EXCEPT ![p.id] = r]
    <3>1. Rows(wakes) /\ p.id \in Tasks /\ wakes[p.id].st # "none"
      BY <2>1, <1>2, TypedParts
    <3>2. \E r : /\ RowOK(r) /\ r.res = wakes[p.id].res /\ r.cut = wakes[p.id].cut
                 /\ r.n = wakes[p.id].n /\ r.st = "claimed" /\ r.held = TRUE
                 /\ [wakes EXCEPT ![p.id].held = TRUE] = [wakes EXCEPT ![p.id] = r]
      BY <3>1, <2>1, SetRow
    <3> QED BY <3>2
  <2>4. item' \subseteq Item
    BY <1>2, <1>7, ItemsTyped
  <2>5. spent' \in [Odd -> Nat]
    BY <1>2, <2>2, FailedNat, SpendsTyped, TypedParts
  <2>6. Flush(intents, [wakes EXCEPT ![p.id] = r], ok)
    BY <2>2, <2>3
  <2>7. Ends
    BY <1>1, <1>2, <1>7, <2>3, <2>4, <2>5, <2>6, SetEnds
  <2> QED BY <2>7, <1>2, <1>7, TypedParts
<1>8. CASE /\ turn' = [at |-> "setup", carries |-> upd, start |-> {p}]
           /\ NoWrite /\ UNCHANGED <<item, over, spent>>
  <2>1. turn' \in Turn
    BY <1>2, <1>8, TurnTyped
  <2>2. item' \subseteq Item
    BY <1>2, <1>8, TypedParts
  <2>3. Ends
    BY <1>1, <1>2, <1>8, <2>2, NoWriteEnds
  <2> QED BY <2>1, <2>3
<1> QED BY <1>4, <1>5, <1>6, <1>7, <1>8 DEF Admit

(* A replay paid for, or an item nobody owns.                               *)
LEMMA DrainBooks ==
    ASSUME WakeInv, NEW x \in item, Drain(x)
    PROVE  BookStep
<1>1. /\ Alive /\ proc' = proc /\ hand' = hand /\ told' = told
      /\ doneIds' = doneIds /\ upd' = upd /\ woke' = woke /\ turn' = turn
  BY DEF Drain, Up, Alive
<1>2. BookInv /\ x \in Item /\ x.id \in Tasks /\ x.res \subseteq Tasks
  BY TypedParts DEF WakeInv, Item
<1>3. SUFFICES Ends /\ starting' \subseteq Start /\ tries' \in [Tasks -> Nat]
  <2>1. /\ doneIds' \subseteq Tasks /\ upd' \subseteq Tasks /\ turn' \in Turn
        /\ woke' \in [Tasks -> Nat]
        /\ \A y \in Tasks : woke'[y] = 0 => woke[y] = 0
    BY <1>1, <1>2, TypedParts
  <2>2. ASSUME Ends, starting' \subseteq Start, tries' \in [Tasks -> Nat] PROVE BookStep
    BY <1>1, <1>2, <2>1, <2>2, EndsBooks
  <2> QED BY <2>2
<1>4. CASE /\ item' = ItemGone(x.id)
           /\ NoWrite /\ UNCHANGED <<starting, tries, over, spent>>
  <2>1. item' \subseteq Item
    BY <1>2, <1>4, ItemsTyped
  <2>2. Ends
    BY <1>1, <1>2, <1>4, <2>1, NoWriteEnds
  <2> QED BY <2>2, <1>2, <1>4, TypedParts
<1>5. CASE /\ Cancelled([id |-> x.id, replay |-> TRUE, res |-> x.res])
           /\ UNCHANGED <<starting, tries>>
  <2> DEFINE p == [id |-> x.id, replay |-> TRUE, res |-> x.res]
  <2>1. p.id \in Tasks /\ Cancelled(p)
    BY <1>2, <1>5
  <2> HIDE DEF p
  <2>2. Ends
    BY <2>1, <1>1, <1>2, CancelledEnds
  <2> QED BY <2>2, <1>2, <1>5, TypedParts
<1>6. CASE /\ IsHeld(wakes, x.id) /\ wakes[x.id].n < MaxAttempts
           /\ Flush(intents, [wakes EXCEPT ![x.id].n = @ + 1], TRUE)
           /\ starting' = starting \cup
                 {[id |-> x.id, replay |-> TRUE, res |-> x.res]}
           /\ Tried(x.id)
           /\ UNCHANGED spent
           /\ UNCHANGED <<item, over>>
  <2>1. wakes[x.id].st # "none" /\ wakes[x.id].held = TRUE
    <3>1. wakes[x.id] \in Record
      BY <1>2, TypedParts
    <3> QED BY <3>1, <1>6 DEF IsHeld, Record
  <2>2. PICK r : /\ RowOK(r) /\ r.res = wakes[x.id].res /\ r.cut = wakes[x.id].cut
                 /\ [wakes EXCEPT ![x.id].n = @ + 1] = [wakes EXCEPT ![x.id] = r]
    <3>1. Rows(wakes) /\ x.id \in Tasks
      BY <1>2, TypedParts
    <3>2. wakes[x.id].n < MaxAttempts
      BY <1>6
    <3>3. \E r : /\ RowOK(r) /\ r.res = wakes[x.id].res /\ r.cut = wakes[x.id].cut
                 /\ r.n = wakes[x.id].n + 1 /\ r.st = wakes[x.id].st /\ r.held = TRUE
                 /\ [wakes EXCEPT ![x.id].n = @ + 1] = [wakes EXCEPT ![x.id] = r]
      BY <3>1, <3>2, <2>1, SetRow
    <3> QED BY <3>3
  <2>3. Flush(intents, [wakes EXCEPT ![x.id] = r], TRUE)
    BY <2>2, <1>6
  <2>4. item' \subseteq Item /\ over' = over /\ spent' \in [Odd -> Nat]
    BY <1>2, <1>6, TypedParts
  <2>5. Ends
    BY <1>1, <1>2, <2>2, <2>3, <2>4, SetEnds
  <2>6. [id |-> x.id, replay |-> TRUE, res |-> x.res] \in Start
    BY <1>2 DEF Start
  <2>7. starting' \subseteq Start
    BY <2>6, <1>2, <1>6, TypedParts
  <2>8. tries' \in [Tasks -> Nat]
    BY <1>2, <1>6, TypedParts DEF Tried
  <2> QED BY <2>5, <2>7, <2>8
<1>7. CASE /\ Flush(intents, wakes, FALSE)
           /\ Spends({}, 1)
           /\ UNCHANGED <<starting, tries>>
           /\ UNCHANGED <<item, over>>
  <2>1. Fades(intents, wakes, intents, wakes, over') /\ Uncut(wakes, wakes)
    BY <1>2, TypedParts, SameFades DEF Uncut
  <2>2. Wears
    BY <2>1, <1>1, <1>2, <1>7, FlushWears
  <2>3. spent' \in [Odd -> Nat]
    BY <1>2, <1>7, TypedParts, SpendsTyped
  <2>4. Ends
    BY <1>2, <1>7, <2>2, <2>3, TypedParts DEF Ends
  <2> QED BY <2>4, <1>2, <1>7, TypedParts
<1> QED BY <1>4, <1>5, <1>6, <1>7 DEF Drain

(* A turn of the owner's touches no book.                                   *)
LEMMA OwnTurnBooks ==
    ASSUME BookInv, OwnTurn
    PROVE  BookStep
<1>1. /\ Alive /\ proc' = proc /\ hand' = hand /\ told' = told /\ NoWrite
      /\ over' = over /\ spent' = spent /\ item' = item /\ doneIds' = doneIds
      /\ upd' = upd /\ woke' = woke /\ tries' = tries /\ starting' = starting
  BY DEF OwnTurn, Up, Alive, NoWrite, history
<1>2. turn' \in Turn
  BY TurnTyped DEF OwnTurn
<1>3. Ends
  BY <1>1, NoWriteEnds, TypedParts
<1> QED BY <1>1, <1>2, <1>3, EndsBooks, TypedParts

(* What goes out counts, for each of its replies.                           *)
LEMMA SentTyped ==
    ASSUME BookInv, NEW p, Sent(p)
    PROVE  /\ woke' \in [Tasks -> Nat]
           /\ \A x \in Tasks : woke'[x] = 0 => woke[x] = 0
BY TypedParts DEF Sent

(* The mark before the prompt, or a setup it ends.                          *)
LEMMA FenceBooks ==
    ASSUME WakeInv, Fence
    PROVE  BookStep
<1>1. /\ Alive /\ proc' = proc /\ hand' = hand /\ told' = told
      /\ doneIds' = doneIds /\ upd' = upd /\ tries' = tries /\ starting' = starting
  BY DEF Fence
<1>2. BookInv
  BY DEF WakeInv
<1>3. SUFFICES /\ Ends /\ turn' \in Turn /\ woke' \in [Tasks -> Nat]
               /\ \A x \in Tasks : woke'[x] = 0 => woke[x] = 0
  <2>1. /\ doneIds' \subseteq Tasks /\ upd' \subseteq Tasks /\ starting' \subseteq Start
        /\ tries' \in [Tasks -> Nat]
    BY <1>1, <1>2, TypedParts
  <2>2. ASSUME Ends, turn' \in Turn, woke' \in [Tasks -> Nat],
               \A x \in Tasks : woke'[x] = 0 => woke[x] = 0
        PROVE  BookStep
    BY <1>1, <1>2, <2>1, <2>2, EndsBooks
  <2> QED BY <2>2
<1>4. PICK p \in turn.start :
          \/ /\ ~Owned(wakes, p.id)
             /\ turn' = Idle
             /\ item' = IF p.replay THEN ItemGone(p.id) ELSE item
             /\ NoWrite /\ UNCHANGED <<woke, over, spent>>
          \/ /\ Owned(wakes, p.id) /\ Up
             /\ turn' = [turn EXCEPT !.at = "sent"] /\ Sent(p)
             /\ Flush(intents, [wakes EXCEPT ![p.id].st = "started"], TRUE)
             /\ UNCHANGED <<item, over, spent>>
          \/ /\ Owned(wakes, p.id)
             /\ turn' = Idle
             /\ Refused(p, TRUE, IF Up THEN 1 ELSE 0)
             /\ UNCHANGED woke
  BY DEF Fence
<1>5. p.id \in Tasks
  BY StartTyped
<1>6. CASE /\ turn' = Idle
           /\ item' = (IF p.replay THEN ItemGone(p.id) ELSE item)
           /\ NoWrite /\ UNCHANGED <<woke, over, spent>>
  <2>1. item' \subseteq Item
    BY <1>6, <1>2, ItemsTyped, TypedParts
  <2>2. Ends
    BY <2>1, <1>1, <1>2, <1>6, NoWriteEnds
  <2> QED BY <2>2, <1>2, <1>6, TypedParts, TurnTyped
<1>7. CASE /\ Owned(wakes, p.id) /\ Up
           /\ turn' = [turn EXCEPT !.at = "sent"] /\ Sent(p)
           /\ Flush(intents, [wakes EXCEPT ![p.id].st = "started"], TRUE)
           /\ UNCHANGED <<item, over, spent>>
  <2>1. \E r : /\ RowOK(r) /\ r.res = wakes[p.id].res /\ r.cut = wakes[p.id].cut
               /\ r.n = wakes[p.id].n /\ r.st = "started" /\ r.held = wakes[p.id].held
               /\ [wakes EXCEPT ![p.id].st = "started"] = [wakes EXCEPT ![p.id] = r]
    BY <1>2, <1>5, <1>7, SetRow, TypedParts DEF Owned
  <2>2. PICK r : /\ RowOK(r) /\ r.res = wakes[p.id].res /\ r.cut = wakes[p.id].cut
                 /\ [wakes EXCEPT ![p.id].st = "started"] = [wakes EXCEPT ![p.id] = r]
    BY <2>1
  <2>3. Flush(intents, [wakes EXCEPT ![p.id] = r], TRUE)
    BY <2>2, <1>7
  <2>4. item' \subseteq Item /\ over' = over /\ spent' \in [Odd -> Nat]
    BY <1>2, <1>7, TypedParts
  <2>5. Ends
    BY <1>1, <1>2, <1>5, <2>2, <2>3, <2>4, SetEnds
  <2> QED BY <2>5, <1>2, <1>7, TurnTyped, SentTyped
<1>8. CASE /\ Owned(wakes, p.id)
           /\ turn' = Idle
           /\ Refused(p, TRUE, IF Up THEN 1 ELSE 0)
           /\ UNCHANGED woke
  <2>1. (IF Up THEN 1 ELSE 0) \in 0 .. 1 /\ TRUE \in BOOLEAN
    OBVIOUS
  <2>2. Ends
    BY <2>1, <1>1, <1>2, <1>5, <1>8, RefusedEnds
  <2> QED BY <2>2, <1>2, <1>8, TypedParts, TurnTyped
<1> QED BY <1>4, <1>6, <1>7, <1>8

(* A prompt that was accepted before it was marked.                         *)
LEMMA FenceDoneBooks ==
    ASSUME WakeInv, FenceDone
    PROVE  BookStep
<1>1. /\ Alive /\ proc' = proc /\ hand' = hand /\ told' = told /\ NoWrite
      /\ over' = over /\ spent' = spent /\ item' = item /\ doneIds' = {}
      /\ upd' = upd /\ tries' = tries /\ starting' = starting
  BY DEF FenceDone, NoWrite
<1>2. BookInv
  BY DEF WakeInv
<1>3. PICK p \in turn.start :
          IF p.id \in doneIds THEN turn' = Running /\ Sent(p)
          ELSE turn' = Idle /\ UNCHANGED woke
  BY DEF FenceDone
<1>4. turn' \in Turn
  BY <1>2, <1>3, TurnTyped
<1>5. woke' \in [Tasks -> Nat] /\ \A x \in Tasks : woke'[x] = 0 => woke[x] = 0
  BY <1>2, <1>3, SentTyped, TypedParts
<1>6. Ends
  BY <1>1, <1>2, NoWriteEnds, TypedParts
<1> QED BY <1>1, <1>2, <1>4, <1>5, <1>6, EndsBooks, TypedParts

(* An owner's turn accepted.                                                *)
LEMMA AcceptOwnBooks ==
    ASSUME BookInv, AcceptOwn
    PROVE  BookStep
<1>1. /\ Alive /\ proc' = proc /\ hand' = hand /\ told' = told /\ NoWrite
      /\ over' = over /\ spent' = spent /\ item' = item /\ doneIds' = doneIds
      /\ upd' \subseteq upd /\ woke' = woke /\ tries' = tries /\ starting' = starting
  BY DEF AcceptOwn, NoWrite, history
<1>2. turn' \in Turn
  BY TurnTyped DEF AcceptOwn
<1>3. Ends
  BY <1>1, NoWriteEnds, TypedParts
<1>4. upd' \subseteq Tasks
  BY <1>1, TypedParts
<1> QED BY <1>1, <1>2, <1>3, <1>4, EndsBooks, TypedParts

(* A wake accepted is done, and over.                                       *)
LEMMA AcceptBooks ==
    ASSUME WakeInv, NEW p \in turn.start, Accept(p)
    PROVE  BookStep
<1>1. /\ Alive /\ proc' = proc /\ hand' = hand /\ told' = told
      /\ woke' = woke /\ tries' = tries /\ starting' = starting
      /\ upd' \subseteq upd
      /\ item' = IF p.replay THEN ItemGone(p.id) ELSE item
  BY DEF Accept
<1>2. BookInv /\ p.id \in Tasks
  BY StartTyped DEF WakeInv
<1>3. turn' \in Turn
  BY <1>2, TurnTyped DEF Accept
<1>4. item' \subseteq Item /\ upd' \subseteq Tasks
  BY <1>1, <1>2, ItemsTyped, TypedParts
<1>5. SUFFICES Ends /\ doneIds' \subseteq Tasks
  <2>1. /\ starting' \subseteq Start /\ woke' \in [Tasks -> Nat] /\ tries' \in [Tasks -> Nat]
        /\ \A x \in Tasks : woke'[x] = 0 => woke[x] = 0
    BY <1>1, <1>2, TypedParts
  <2>2. ASSUME Ends, doneIds' \subseteq Tasks PROVE BookStep
    BY <1>1, <1>2, <1>3, <1>4, <2>1, <2>2, EndsBooks
  <2> QED BY <2>2
<1>6. CASE /\ doneIds' = (IF turn.at = "setup" THEN {p.id} ELSE doneIds)
           /\ over' = over \cup wakes[p.id].res
           /\ \E ok \in BOOLEAN :
                 Flush(intents, Without(wakes, p.id), ok) /\ Spends({}, Failed(ok))
  <2>1. PICK ok \in BOOLEAN :
          Flush(intents, Without(wakes, p.id), ok) /\ Spends({}, Failed(ok))
    BY <1>6
  <2>2. Rows(wakes) /\ wakes[p.id].res \subseteq over'
    BY <1>2, <1>6, TypedParts
  <2>3. Fades(intents, wakes, intents, Without(wakes, p.id), over')
    BY <1>2, <2>2, WithoutFades
  <2>4. Uncut(wakes, Without(wakes, p.id))
    BY <1>2, <2>2, WithoutUncut
  <2>5. Wears
    BY <1>1, <1>2, <2>1, <2>3, <2>4, FlushWears
  <2>6. spent' \in [Odd -> Nat]
    BY <1>2, <2>1, FailedNat, SpendsTyped, TypedParts
  <2>7. over' \subseteq Tasks /\ over \subseteq over'
    BY <1>2, <1>6, TypedParts
  <2>8. doneIds' \subseteq Tasks
    BY <1>2, <1>6, TypedParts
  <2> QED BY <1>4, <2>5, <2>6, <2>7, <2>8 DEF Ends
<1>7. CASE NoWrite /\ UNCHANGED <<doneIds, over, spent>>
  <2>1. Ends
    BY <1>1, <1>2, <1>4, <1>7, NoWriteEnds
  <2> QED BY <2>1, <1>2, <1>7, TypedParts
<1> QED BY <1>6, <1>7 DEF Accept

(* A setup that fails.                                                      *)
LEMMA SetupFailsBooks ==
    ASSUME WakeInv, SetupFails
    PROVE  BookStep
<1>1. /\ Alive /\ proc' = proc /\ hand' = hand /\ told' = told
      /\ doneIds' = doneIds /\ upd' = upd /\ tries' = tries /\ starting' = starting
      /\ woke' = woke /\ turn' = Idle
  BY DEF SetupFails
<1>2. BookInv
  BY DEF WakeInv
<1>3. SUFFICES Ends
  <2>1. /\ doneIds' \subseteq Tasks /\ upd' \subseteq Tasks /\ starting' \subseteq Start
        /\ tries' \in [Tasks -> Nat] /\ woke' \in [Tasks -> Nat]
        /\ \A x \in Tasks : woke'[x] = 0 => woke[x] = 0
        /\ turn' \in Turn
    BY <1>1, <1>2, TypedParts, TurnTyped
  <2>2. ASSUME Ends PROVE BookStep
    BY <1>1, <1>2, <2>1, <2>2, EndsBooks
  <2> QED BY <2>2
<1>4. ASSUME NEW p \in turn.start, Cancelled(p)
      PROVE  Ends
  <2>1. p.id \in Tasks
    BY StartTyped
  <2> QED BY <2>1, <1>1, <1>2, <1>4, CancelledEnds
<1>5. ASSUME NEW p \in turn.start, wakes[p.id].st \in {"owed", "claimed"}, Refused(p, TRUE, 0)
      PROVE  Ends
  <2>1. p.id \in Tasks /\ Owned(wakes, p.id) /\ TRUE \in BOOLEAN /\ 0 \in 0 .. 1
    BY <1>5, StartTyped DEF Owned
  <2> QED BY <2>1, <1>1, <1>2, <1>5, RefusedEnds
<1>6. ASSUME NEW p \in turn.start, NoWrite, UNCHANGED <<over, spent>>,
             item' = IF p.replay THEN ItemGone(p.id) ELSE item
      PROVE  Ends
  <2>1. item' \subseteq Item
    BY <1>2, <1>6, ItemsTyped, TypedParts
  <2> QED BY <2>1, <1>1, <1>2, <1>6, NoWriteEnds
<1>7. CASE NoWrite /\ UNCHANGED <<item, over, spent>>
  <2>1. item' \subseteq Item
    BY <1>2, <1>7, TypedParts
  <2> QED BY <2>1, <1>1, <1>2, <1>7, NoWriteEnds
<1> QED BY <1>4, <1>5, <1>6, <1>7 DEF SetupFails

(* What failed or was stopped forgets is over.                              *)
LEMMA ForgetEnds ==
    ASSUME BookInv, Alive, proc' = proc, NEW O, Forget(O), item' \subseteq Item
    PROVE  Ends
<1>1. Rows(wakes) /\ over' = over \cup intents \cup Carried(wakes)
  BY TypedParts DEF Forget
<1>2. PICK ok \in BOOLEAN : Flush({}, NoRecords, ok) /\ Spends(O, Failed(ok))
  BY DEF Forget
<1>3. Fades(intents, wakes, {}, NoRecords, over')
  BY <1>1, EmptyFades
<1>4. Uncut(wakes, NoRecords)
  BY DEF Uncut, NoRecords, NoRecord
<1>5. Wears
  BY <1>2, <1>3, <1>4, FlushWears
<1>6. spent' \in [Odd -> Nat]
  BY <1>2, FailedNat, SpendsTyped, TypedParts
<1>7. Carried(wakes) \subseteq Tasks
  BY CarriedIn, TypedParts
<1>8. over' \subseteq Tasks
  BY <1>1, <1>7, TypedParts DEF BookInv, TypeOK
<1> QED BY <1>1, <1>5, <1>6, <1>8 DEF Ends

(* A turn that ends, well or not.                                           *)
LEMMA TurnEndsBooks ==
    ASSUME BookInv, TurnEnds
    PROVE  BookStep
<1>1. /\ Alive /\ proc' = proc /\ hand' = hand /\ told' = told
      /\ doneIds' = doneIds /\ upd' = upd /\ tries' = tries /\ starting' = starting
      /\ woke' = woke /\ item' = item /\ turn' = Idle
  BY DEF TurnEnds
<1>2. item' \subseteq Item /\ turn' \in Turn
  BY <1>1, TypedParts, TurnTyped
<1>3. CASE NoWrite /\ UNCHANGED <<over, spent>>
  <2>1. Ends
    BY <1>1, <1>2, <1>3, NoWriteEnds
  <2> QED BY <2>1, <1>1, <1>2, EndsBooks, TypedParts
<1>4. CASE Forget({})
  <2>1. Ends
    BY <1>1, <1>2, <1>4, ForgetEnds
  <2> QED BY <2>1, <1>1, <1>2, EndsBooks, TypedParts
<1> QED BY <1>3, <1>4 DEF TurnEnds

(* Stop: everything is over.                                                *)
LEMMA StopBooks ==
    ASSUME BookInv, Stop
    PROVE  BookStep
<1>1. /\ Alive /\ proc' = proc /\ hand' = hand /\ told' = told
      /\ doneIds' = {} /\ upd' = upd /\ tries' = tries /\ starting' = starting
      /\ woke' = woke /\ item' = {} /\ turn' = turn /\ Forget({"stop"})
  BY DEF Stop, Up, Alive
<1>2. Ends
  BY <1>1, ForgetEnds
<1> QED BY <1>1, <1>2, EndsBooks, TypedParts

(* The sweep writes what memory has.                                        *)
LEMMA SweepBooks ==
    ASSUME BookInv, Sweep
    PROVE  BookStep
<1>1. /\ Alive /\ proc' = proc /\ hand' = hand /\ told' = told
      /\ doneIds' = doneIds /\ upd' = upd /\ tries' = tries /\ starting' = starting
      /\ woke' = woke /\ item' = item /\ turn' = turn /\ over' = over
  BY DEF Sweep, Up, Alive, history
<1>2. PICK ok \in BOOLEAN : Flush(intents, wakes, ok) /\ Spends({}, Failed(ok))
  BY DEF Sweep
<1>3. Fades(intents, wakes, intents, wakes, over') /\ Uncut(wakes, wakes)
  BY TypedParts, SameFades DEF Uncut
<1>4. Wears
  BY <1>1, <1>2, <1>3, FlushWears
<1>5. spent' \in [Odd -> Nat]
  BY <1>2, FailedNat, SpendsTyped, TypedParts
<1>6. Ends
  BY <1>1, <1>4, <1>5, TypedParts DEF Ends
<1> QED BY <1>1, <1>6, EndsBooks, TypedParts

(* A write, that may fail, by a server that is closing.                     *)
LEMMA ClosingWears ==
    ASSUME BookInv, NEW w, NEW ok \in BOOLEAN, Flush(intents, w, ok),
           Fades(intents, wakes, intents, w, over'), ~Up'
    PROVE  Wears
<1>1. intents \subseteq Tasks /\ w \in [Tasks -> Record]
  BY DEF BookInv, Lasts, Book, Fades, Shrinks, Rows
<1>2. disk \in [intents : SUBSET Tasks, wakes : [Tasks -> Record]]
  BY DEF BookInv, TypeOK
<1>3. /\ intents' = intents /\ wakes' = w /\ unwritten' = ~ok /\ Keeps
      /\ disk' = IF ok THEN [intents |-> intents, wakes |-> w] ELSE disk
  BY DEF Flush, Keeps
<1>4. Fades(intents, wakes, intents', wakes', over')
  BY <1>3
<1>5. CASE ok = TRUE
  <2>1. disk' = [intents |-> intents', wakes |-> wakes']
    BY <1>3, <1>5
  <2>2. disk'.intents = intents' /\ disk'.wakes = wakes'
    BY <2>1
  <2>3. disk' \in [intents : SUBSET Tasks, wakes : [Tasks -> Record]]
    BY <2>1, <1>1, <1>3
  <2>4. Fades(intents, wakes, disk'.intents, disk'.wakes, over')
    BY <1>4, <2>2
  <2>5. unwritten' \in BOOLEAN
    BY <1>3, <1>5
  <2> QED BY <1>3, <1>4, <2>2, <2>3, <2>4, <2>5 DEF Wears
<1>6. CASE ok = FALSE
  <2>1. disk' = disk /\ unwritten' = TRUE
    BY <1>3, <1>6
  <2> QED BY <1>2, <1>3, <1>4, <2>1 DEF Wears
<1> QED BY <1>5, <1>6

(* A close keeps every record.                                              *)
LEMMA CloseBooks ==
    ASSUME BookInv, Close
    PROVE  BookStep
<1>1. /\ Up /\ Alive /\ proc' = "closing" /\ hand' = hand /\ told' = told
      /\ doneIds' = doneIds /\ upd' = upd /\ tries' = tries /\ starting' = starting
      /\ woke' = woke /\ item' = item /\ turn' = turn /\ over' = over
  BY DEF Close, Up, Alive, history
<1>2. IF Marked(wakes) # wakes
      THEN \E ok \in BOOLEAN :
              Flush(intents, Marked(wakes), ok) /\ Spends({"close"}, Failed(ok))
      ELSE NoWrite /\ Spends({"close"}, 0)
  BY DEF Close, Marked
<1>3. CASE \E ok \in BOOLEAN :
              Flush(intents, Marked(wakes), ok) /\ Spends({"close"}, Failed(ok))
  <2>1. PICK ok \in BOOLEAN :
          Flush(intents, Marked(wakes), ok) /\ Spends({"close"}, Failed(ok))
    BY <1>3
  <2>2. Fades(intents, wakes, intents, Marked(wakes), over')
    BY TypedParts, MarkedFades
  <2>3. Wears
    BY <1>1, <2>1, <2>2, ClosingWears DEF Up
  <2>4. spent' \in [Odd -> Nat]
    BY <2>1, FailedNat, SpendsTyped, TypedParts
  <2>5. Goes
    BY <1>1, <2>4, TypedParts DEF Goes
  <2> QED BY <1>1, <2>3, <2>5, StillTells, WearsLasts
<1>4. CASE NoWrite /\ Spends({"close"}, 0)
  <2>1. Rows(wakes) /\ (unwritten = FALSE => disk.wakes = wakes)
    BY <1>1 DEF BookInv, Lasts, Book
  <2>2. disk \in [intents : SUBSET Tasks, wakes : [Tasks -> Record]] /\ unwritten \in BOOLEAN
    BY DEF BookInv, TypeOK
  <2>3. Fades(intents, wakes, intents, wakes, over')
    BY <2>1, SameFades
  <2>4. intents' = intents /\ wakes' = wakes /\ disk' = disk /\ unwritten' = unwritten
    BY <1>4 DEF NoWrite
  <2>5. Wears
    <3>1. Keeps
      BY <1>4, <2>4 DEF NoWrite, Keeps, BookInv, Lasts
    <3> QED BY <3>1, <1>1, <2>1, <2>2, <2>3, <2>4 DEF Wears, Up
  <2>6. spent' \in [Odd -> Nat]
    BY <1>4, SpendsTyped, TypedParts
  <2>7. Goes
    BY <1>1, <2>6, TypedParts DEF Goes
  <2> QED BY <1>1, <2>5, <2>7, StillTells, WearsLasts
<1> QED BY <1>2, <1>3, <1>4

(* The record id is opened by the reply t, or joined by it, and no other    *)
(* changes.                                                                 *)
Adds(t, w, id) ==
    /\ \/ id = t /\ wakes[id].st = "none"
       \/ wakes[id].st = "owed"
    /\ w[id].st = "owed" /\ w[id].res = wakes[id].res \cup {t}
    /\ w[id].held = FALSE /\ w[id].cut = FALSE
    /\ w[id].n = IF wakes[id].st = "none" THEN 0 ELSE wakes[id].n
    /\ \A i \in Tasks : i # id => w[i] = wakes[i]

(* The reply opens a record, or joins one that is owed.                     *)
LEMMA DeliveredRows ==
    ASSUME Book(hand, intents, wakes), NEW t \in intents, NEW w, w \in Delivered(t)
    PROVE  /\ Rows(w) /\ Uncut(wakes, w)
           /\ \E id \in Tasks : Adds(t, w, id)
<1>1. Rows(wakes) /\ t \in Tasks /\ wakes[t].st = "none"
  BY DEF Book
<1>2. RowOK(wakes[t]) /\ wakes[t].res = {}
  BY <1>1, LiveRow DEF Rows
<1>3. CASE w = [wakes EXCEPT ![t] = Opened(t)]
  <2>1. Records(wakes) \subseteq Tasks
    BY DEF Records
  <2>2. /\ Opened(t) \in Record /\ Opened(t).st = "owed" /\ Opened(t).res = {t}
        /\ Opened(t).held = FALSE /\ Opened(t).n = 0 /\ Opened(t).cut = FALSE
    <3>1. /\ NoRecord \in Record /\ NoRecord.held = FALSE
          /\ NoRecord.n = 0 /\ NoRecord.cut = FALSE
      BY CapsAssumption DEF NoRecord, Record
    <3>2. {t} \subseteq Tasks
      BY <1>1
    <3> QED BY <3>1, <3>2, <2>1 DEF Opened, Record
  <2>3. RowOK(Opened(t))
    BY <2>2, CapsAssumption DEF RowOK
  <2>4. \A i \in Tasks : w[i] = IF i = t THEN Opened(t) ELSE wakes[i]
    BY <1>3, <1>1 DEF Rows
  <2>5. w \in [Tasks -> Record]
    BY <1>3, <1>1, <2>2 DEF Rows
  <2>6. Rows(w)
    BY <2>3, <2>4, <2>5, <1>1 DEF Rows
  <2>7. Uncut(wakes, w)
    BY <2>2, <2>4 DEF Uncut
  <2>8. Adds(t, w, t)
    BY <2>2, <2>4, <1>1, <1>2 DEF Adds
  <2> QED BY <2>6, <2>7, <2>8, <1>1
<1>4. CASE \E id \in Newest(wakes, Joins(t)) : w = [wakes EXCEPT ![id].res = @ \cup {t}]
  <2>1. PICK id \in Newest(wakes, Joins(t)) : w = [wakes EXCEPT ![id].res = @ \cup {t}]
    BY <1>4
  <2>2. id \in Tasks /\ wakes[id].st = "owed"
    BY DEF Newest, Joins, Owing
  <2>3. RowOK(wakes[id])
    BY <1>1, <2>2 DEF Rows
  <2> DEFINE r == [wakes[id] EXCEPT !.res = @ \cup {t}]
  <2>4. /\ r \in Record /\ r.st = wakes[id].st /\ r.res = wakes[id].res \cup {t}
        /\ r.held = wakes[id].held /\ r.n = wakes[id].n /\ r.cut = wakes[id].cut
    BY <2>3, <1>1 DEF RowOK, Record
  <2>5. RowOK(r)
    BY <2>2, <2>3, <2>4 DEF RowOK
  <2>6. \A i \in Tasks : w[i] = IF i = id THEN r ELSE wakes[i]
    BY <2>1, <1>1 DEF Rows
  <2>7. w \in [Tasks -> Record]
    BY <2>1, <2>2, <2>4, <1>1 DEF Rows
  <2> HIDE DEF r
  <2>8. Rows(w)
    BY <2>5, <2>6, <2>7, <1>1 DEF Rows
  <2>9. r.held = FALSE /\ r.cut = FALSE
    BY <2>2, <2>3, <2>4 DEF RowOK
  <2>10. Uncut(wakes, w)
    BY <2>6, <2>9 DEF Uncut
  <2>11. Adds(t, w, id)
    BY <2>2, <2>4, <2>6, <2>9 DEF Adds
  <2> QED BY <2>2, <2>8, <2>10, <2>11
<1> QED BY <1>3, <1>4 DEF Delivered

(* A book stays in order when the reply is delivered, and keeps what it had.*)
LEMMA DeliveredBook ==
    ASSUME Book(hand, intents, wakes), NEW t \in intents, NEW w, w \in Delivered(t),
           NEW K, Onward(hand, K), K[t] \in {"owes", "told"},
           \A x \in Tasks : hand[x] \in {"none", "out", "owes", "told", "refused"}
    PROVE  /\ Book(K, intents \ {t}, w)
           /\ \A x : x \in Carried(w) <=> x \in Carried(wakes) \/ x = t
<1>1. Rows(w)
  BY DeliveredRows
<1>2. PICK id \in Tasks : Adds(t, w, id)
  BY DeliveredRows
<1>3. Book(K, intents, wakes)
  BY OnwardBook
<1>4. t \in Tasks /\ \A i \in Tasks : t \notin wakes[i].res
  BY DEF Book
<1>5. \A i \in Tasks : \A x : x \in w[i].res <=> x \in wakes[i].res \/ (i = id /\ x = t)
  BY <1>2 DEF Adds
<1>6. \A i, j \in Tasks : \A x \in w[i].res : x \in w[j].res => i = j
  <2> SUFFICES ASSUME NEW i \in Tasks, NEW j \in Tasks, NEW x \in w[i].res, x \in w[j].res
               PROVE  i = j
    OBVIOUS
  <2>1. CASE x = t
    BY <2>1, <1>4, <1>5
  <2>2. CASE x # t
    <3>1. x \in wakes[i].res /\ x \in wakes[j].res
      BY <2>2, <1>5
    <3> QED BY <3>1, <1>3 DEF Book
  <2> QED BY <2>1, <2>2
<1>7. \A x \in intents \ {t} : w[x].st = "none" /\ K[x] \notin {"none", "refused"}
  <2> SUFFICES ASSUME NEW x \in intents, x # t
               PROVE  w[x].st = "none" /\ K[x] \notin {"none", "refused"}
    OBVIOUS
  <2>1. wakes[x].st = "none" /\ K[x] \notin {"none", "refused"} /\ x \in Tasks
    BY <1>3 DEF Book
  <2>2. x # id
    BY <2>1, <1>2 DEF Adds
  <2> QED BY <2>1, <2>2, <1>2 DEF Adds
<1>8. \A x \in intents \ {t} : \A i \in Tasks : x \notin w[i].res
  <2> SUFFICES ASSUME NEW x \in intents, x # t, NEW i \in Tasks PROVE x \notin w[i].res
    OBVIOUS
  <2>1. x \notin wakes[i].res
    BY <1>3 DEF Book
  <2> QED BY <2>1, <1>5
<1>9. \A i \in Tasks : w[i].st # "none" => K[i] \in {"owes", "told"}
  <2> SUFFICES ASSUME NEW i \in Tasks, w[i].st # "none" PROVE K[i] \in {"owes", "told"}
    OBVIOUS
  <2>1. \A j \in Tasks : wakes[j].st # "none" => K[j] \in {"owes", "told"}
    BY <1>3 DEF Book
  <2>2. CASE i = id
    BY <2>1, <2>2, <1>2 DEF Adds
  <2>3. CASE i # id
    BY <2>1, <2>3, <1>2 DEF Adds
  <2> QED BY <2>2, <2>3
<1>10. \A i \in Tasks : \A x \in w[i].res : K[x] \in {"owes", "told"}
  <2> SUFFICES ASSUME NEW i \in Tasks, NEW x \in w[i].res PROVE K[x] \in {"owes", "told"}
    OBVIOUS
  <2>1. x \in wakes[i].res => K[x] \in {"owes", "told"}
    BY <1>3 DEF Book
  <2> QED BY <2>1, <1>5
<1>11. intents \ {t} \subseteq Tasks
  BY DEF Book
<1>12. Book(K, intents \ {t}, w)
  BY <1>1, <1>6, <1>7, <1>8, <1>9, <1>10, <1>11 DEF Book
<1>13. \A x : x \in Carried(w) <=> x \in Carried(wakes) \/ x = t
  <2> TAKE x
  <2>1. x \in Carried(w) <=> \E i \in Tasks : x \in w[i].res
    BY CarriedIn
  <2>2. x \in Carried(wakes) <=> \E i \in Tasks : x \in wakes[i].res
    BY CarriedIn
  <2> QED BY <2>1, <2>2, <1>5
<1> QED BY <1>12, <1>13

(* A step of a live server whose receipts, books and losses are known.      *)
LEMMA AliveBooks ==
    ASSUME BookInv, Goes, Book(hand', intents', wakes'),
           Book(hand', disk'.intents, disk'.wakes),
           disk' \in [intents : SUBSET Tasks, wakes : [Tasks -> Record]],
           unwritten' \in BOOLEAN, told' \subseteq Tasks, Keeps, Onward(hand, hand'),
           \A x \in told' : hand'[x] \in {"owes", "told"},
           hand' \in [Tasks -> {"none", "out", "owes", "told", "refused"}],
           \A x \in intents' \cup Carried(wakes') : x \in kept' => x \in Mentioned(disk'),
           \A x \in intents' : x \in kept' \/ x \in over' \/ hand'[x] = "out",
           unwritten' = FALSE => disk'.wakes = wakes',
           Up' => \A id \in Tasks : wakes'[id].cut = FALSE,
           NothingLost', Gone
    PROVE  BookStep
<1>1. Alive'
  BY DEF Goes, Alive
<1>2. Lasts'
  BY <1>1, KeepsAsked DEF Lasts, Keeps
<1>3. intents' \subseteq Tasks /\ wakes' \in [Tasks -> Record] /\ kept' \subseteq Tasks
  BY KeepsTyped DEF Book, Rows
<1>4. TypeOK'
  BY <1>3 DEF TypeOK, Goes
<1> QED BY <1>2, <1>4 DEF BookStep, BookInv

(* A hand-off acknowledged, its ask written or not.                         *)
LEMMA AcknowledgedBooks ==
    ASSUME BookInv, Alive, proc' = proc, NEW t \in Tasks, hand[t] = "none",
           NEW f \in 0 .. 2, Acknowledged(t, f),
           UNCHANGED <<doneIds, told, upd, item, starting, turn, history>>
    PROVE  BookStep
<1>1. /\ doneIds' = doneIds /\ told' = told /\ upd' = upd /\ item' = item
      /\ starting' = starting /\ turn' = turn
      /\ woke' = woke /\ tries' = tries /\ over' = over
  BY DEF history
<1>2. /\ intents' = intents \cup {t} /\ wakes' = wakes /\ unwritten' = ~(f < 2) /\ Keeps
      /\ disk' = IF f < 2 THEN [intents |-> intents \cup {t}, wakes |-> wakes] ELSE disk
      /\ hand' = [hand EXCEPT ![t] = "out"]
  BY DEF Acknowledged, Flush, Keeps
<1>3. f \in Nat
  OBVIOUS
<1>4. spent' \in [Odd -> Nat]
  BY <1>3, SpendsTyped, TypedParts DEF Acknowledged
<1>5. Goes
  BY <1>1, <1>4, TypedParts DEF Goes, Alive
<1>6. hand' \in [Tasks -> {"none", "out", "owes", "told", "refused"}]
  BY <1>2, TypedParts
<1>7. \A x \in Tasks : hand'[x] = IF x = t THEN "out" ELSE hand[x]
  BY <1>2, TypedParts
<1>8. Book(hand, intents, wakes) /\ Book(hand, disk.intents, disk.wakes)
  BY DEF BookInv, Lasts
<1>9. wakes[t].st = "none" /\ \A id \in Tasks : t \notin wakes[id].res
  BY <1>8 DEF Book
<1>10. Onward(hand, hand')
  BY <1>7 DEF Onward
<1>11. Book(hand', intents', wakes')
  <2>1. Book(hand', intents, wakes)
    BY <1>8, <1>10, TypedParts, OnwardBook
  <2> QED BY <2>1, <1>2, <1>7, <1>9 DEF Book
<1>12. Book(hand', disk.intents, disk.wakes)
  BY <1>8, <1>10, TypedParts, OnwardBook
<1>13. t \notin Mentioned(disk)
  <2>1. t \notin disk.intents /\ \A id \in Tasks : t \notin disk.wakes[id].res
    BY <1>8 DEF Book
  <2> QED BY <2>1, CarriedIn DEF Mentioned
<1>14. Up' => \A id \in Tasks : wakes'[id].cut = FALSE
  BY <1>2 DEF BookInv, Lasts, Up
<1>15. \A x \in told' : hand'[x] \in {"owes", "told"}
  <2>1. \A x \in told : hand[x] \in {"owes", "told"} /\ x \in Tasks
    BY TypedParts DEF BookInv, Lasts
  <2> QED BY <2>1, <1>1, <1>7
<1>16. t \notin told
  BY DEF BookInv, Lasts
<1>17. \A x \in intents' : x \in kept' \/ x \in over' \/ hand'[x] = "out"
  <2> SUFFICES ASSUME NEW x \in intents', x \notin kept', x \notin over'
               PROVE  hand'[x] = "out"
    OBVIOUS
  <2>1. x = t \/ (x \in intents /\ x \in Tasks)
    BY <1>2, <1>8 DEF Book
  <2>2. x \notin kept /\ x \notin over
    BY <1>1, <1>2 DEF Keeps
  <2> QED BY <2>1, <2>2, <1>7 DEF BookInv, Lasts
<1>18. CASE f < 2
  <2>1. disk' = [intents |-> intents', wakes |-> wakes'] /\ unwritten' = FALSE
    BY <1>2, <1>18
  <2>2. disk'.intents = intents' /\ disk'.wakes = wakes'
    BY <2>1
  <2>3. disk' \in [intents : SUBSET Tasks, wakes : [Tasks -> Record]]
    BY <2>1, <1>11 DEF Book, Rows
  <2>4. \A x \in intents' \cup Carried(wakes') : x \in Mentioned(disk')
    BY <2>2 DEF Mentioned
  <2>5. NothingLost'
    <3> SUFFICES ASSUME NEW x \in kept', hand'[x] \in {"out", "owes", "told"},
                        woke'[x] = 0, x \notin over'
                 PROVE  /\ x \in IF hand'[x] = "told" THEN Carried(disk'.wakes)
                                 ELSE Mentioned(disk')
                        /\ x \in IF hand'[x] = "told" \/ x \in told' THEN Carried(wakes')
                                 ELSE intents' \cup Carried(wakes')
      BY DEF NothingLost
    <3>1. x \in Tasks
      BY <1>2, <2>3, KeepsTyped
    <3>2. x \in IF hand'[x] = "told" \/ x \in told' THEN Carried(wakes')
                    ELSE intents' \cup Carried(wakes')
      <4>1. CASE x = t
        BY <4>1, <1>1, <1>2, <1>7, <1>16
      <4>2. CASE x # t /\ x \in kept
        <5>1. x \in IF hand[x] = "told" \/ x \in told THEN Carried(wakes)
                    ELSE intents \cup Carried(wakes)
          BY <4>2, <3>1, <1>1, <1>7 DEF BookInv, NothingLost
        <5> QED BY <5>1, <3>1, <4>2, <1>1, <1>2, <1>7
      <4>3. CASE x # t /\ x \notin kept
        <5>1. x \in intents' \/ x \in Carried(wakes')
          BY <4>3, <1>2, <2>2 DEF Keeps, Mentioned
        <5>2. x \in intents => hand[x] = "out" /\ x \notin told
          BY <4>3, <1>1 DEF BookInv, Lasts
        <5> QED BY <5>1, <5>2, <3>1, <4>3, <1>1, <1>2, <1>7
      <4> QED BY <4>1, <4>2, <4>3
    <3> QED BY <3>2, <2>2 DEF Mentioned
  <2>6. Gone
    <3> SUFFICES ASSUME NEW x, x \in intents' \/ x \in Carried(wakes')
                 PROVE  \/ x \in Mentioned(disk) \/ hand[x] = "none"
                        \/ x \notin kept /\ x \in intents \cup Carried(wakes)
      BY <2>2 DEF Gone, Mentioned
    <3> QED BY <1>2 DEF BookInv, Lasts
  <2> QED BY <2>1, <2>2, <2>3, <2>4, <2>5, <2>6, <1>1, <1>2, <1>5, <1>6, <1>10, <1>11,
             <1>14, <1>15, <1>17, AliveBooks, TypedParts
<1>19. CASE ~(f < 2)
  <2>1. disk' = disk /\ unwritten' = TRUE
    BY <1>2, <1>19
  <2>2. disk' \in [intents : SUBSET Tasks, wakes : [Tasks -> Record]]
    BY <2>1 DEF BookInv, TypeOK
  <2>3. kept' = kept
    BY <1>2, <2>1 DEF Keeps, BookInv, Lasts
  <2>4. \A x \in intents' \cup Carried(wakes') : x \in kept' => x \in Mentioned(disk')
    <3> SUFFICES ASSUME NEW x \in intents' \cup Carried(wakes'), x \in kept
                 PROVE  x \in Mentioned(disk)
      BY <2>1, <2>3
    <3>1. CASE x \in intents \cup Carried(wakes)
      BY <3>1 DEF BookInv, Lasts
    <3>2. t \notin kept
      BY DEF BookInv, Lasts
    <3> QED BY <3>1, <3>2, <1>2
  <2>5. NothingLost'
    <3> SUFFICES ASSUME NEW x \in kept, hand'[x] \in {"out", "owes", "told"},
                        woke'[x] = 0, x \notin over'
                 PROVE  /\ x \in IF hand'[x] = "told" THEN Carried(disk'.wakes)
                                 ELSE Mentioned(disk')
                        /\ x \in IF hand'[x] = "told" \/ x \in told' THEN Carried(wakes')
                                 ELSE intents' \cup Carried(wakes')
      BY <2>3 DEF NothingLost
    <3>1. x \in Tasks /\ x # t
      BY DEF BookInv, Lasts, TypeOK
    <3>2. /\ x \in IF hand[x] = "told" THEN Carried(disk.wakes) ELSE Mentioned(disk)
          /\ x \in IF hand[x] = "told" \/ x \in told THEN Carried(wakes)
                   ELSE intents \cup Carried(wakes)
      BY <3>1, <1>1, <1>7 DEF BookInv, NothingLost
    <3> QED BY <3>1, <3>2, <1>1, <1>2, <1>7, <2>1
  <2>6. Gone
    BY <2>1 DEF Gone
  <2>7. Book(hand', disk'.intents, disk'.wakes)
    BY <2>1, <1>12
  <2> QED BY <2>1, <2>2, <2>4, <2>5, <2>6, <2>7, <1>1, <1>2, <1>5, <1>6, <1>10, <1>11,
             <1>14, <1>15, <1>17, AliveBooks, TypedParts
<1> QED BY <1>18, <1>19

(* A ticket is a hand-off acknowledged.                                     *)
LEMMA TicketBooks ==
    ASSUME BookInv, NEW t \in Tasks, Ticket(t)
    PROVE  BookStep
<1>1. PICK f \in 0 .. 2 : Acknowledged(t, f)
  BY DEF Ticket
<1> QED BY <1>1, AcknowledgedBooks DEF Ticket

(* So is an ask, or it is refused and not kept.                             *)
LEMMA AskBooks ==
    ASSUME BookInv, NEW t \in Tasks, Ask(t)
    PROVE  BookStep
<1>1. /\ Up /\ Alive /\ proc' = proc /\ told' = told /\ hand[t] = "none"
      /\ doneIds' = doneIds /\ upd' = upd /\ tries' = tries /\ starting' = starting
      /\ woke' = woke /\ item' = item /\ turn' = turn /\ over' = over
  BY DEF Ask, Up, Alive, history
<1>2. CASE \E f \in 0 .. 2 : Acknowledged(t, f)
  <2>1. PICK f \in 0 .. 2 : Acknowledged(t, f)
    BY <1>2
  <2> QED BY <2>1, <1>1, AcknowledgedBooks DEF Ask
<1>3. CASE \E ok \in BOOLEAN :
              /\ Flush(intents, wakes, ok)
              /\ hand' = [hand EXCEPT ![t] = "refused"]
              /\ Spends({}, 2 + Failed(ok))
  <2>1. PICK ok \in BOOLEAN : Flush(intents, wakes, ok) /\ Spends({}, 2 + Failed(ok))
    BY <1>3
  <2>2. hand' = [hand EXCEPT ![t] = "refused"]
    BY <1>3
  <2>3. Fades(intents, wakes, intents, wakes, over') /\ Uncut(wakes, wakes)
    BY TypedParts, SameFades DEF Uncut
  <2>4. Wears
    BY <1>1, <2>1, <2>3, FlushWears
  <2>5. 2 + Failed(ok) \in Nat
    BY FailedNat
  <2>6. spent' \in [Odd -> Nat]
    BY <2>1, <2>5, SpendsTyped, TypedParts
  <2>7. Goes
    BY <1>1, <2>6, TypedParts DEF Goes, Up
  <2>8. \A x \in Tasks : hand'[x] = IF x = t THEN "refused" ELSE hand[x]
    BY <2>2, TypedParts
  <2>9. hand' \in [Tasks -> {"none", "out", "owes", "told", "refused"}]
    BY <2>2, TypedParts
  <2>10. Tells
    BY <1>1, <2>8, <2>9, TypedParts DEF Tells, Onward
  <2> QED BY <2>4, <2>7, <2>10, WearsLasts
<1> QED BY <1>2, <1>3 DEF Ask

(* A reply told: what its receipt becomes.                                  *)
LEMMA ReturnTold ==
    ASSUME BookInv, NEW t \in Tasks, Return(t)
    PROVE  /\ hand' \in [Tasks -> {"none", "out", "owes", "told", "refused"}]
           /\ \A x \in Tasks : x # t => hand'[x] = hand[x]
           /\ unwritten' = FALSE => hand'[t] = "told" /\ told' = told
           /\ unwritten' # FALSE => hand'[t] = "owes" /\ told' = told \cup {t}
           /\ Onward(hand, hand')
           /\ told' \subseteq Tasks
           /\ \A x \in told' : hand'[x] \in {"owes", "told"}
           /\ unwritten' \in BOOLEAN /\ t \notin told /\ hand[t] \in {"out", "owes"}
<1>1. t \notin told /\ hand[t] \in {"out", "owes"}
  BY DEF Return
<1>2. IF unwritten' = FALSE
      THEN hand' = [hand EXCEPT ![t] = "told"] /\ told' = told
      ELSE hand' = [hand EXCEPT ![t] = "owes"] /\ told' = told \cup {t}
  <2>1. unwritten' \in BOOLEAN
    BY DEF Return, Flush, NoWrite, BookInv, TypeOK
  <2> QED BY <2>1 DEF Return, Durable
<1>3. unwritten' \in BOOLEAN
  BY DEF Return, Flush, NoWrite, BookInv, TypeOK
<1>4. /\ hand' \in [Tasks -> {"none", "out", "owes", "told", "refused"}]
      /\ \A x \in Tasks : x # t => hand'[x] = hand[x]
      /\ unwritten' = FALSE => hand'[t] = "told" /\ told' = told
      /\ unwritten' # FALSE => hand'[t] = "owes" /\ told' = told \cup {t}
  BY <1>2, TypedParts
<1>5. Onward(hand, hand')
  BY <1>1, <1>4 DEF Onward
<1>6. told' \subseteq Tasks
  BY <1>4, TypedParts
<1>7. \A x \in told : x \in Tasks /\ hand[x] \in {"owes", "told"}
  BY TypedParts DEF BookInv, Lasts
<1>8. \A x \in told' : hand'[x] \in {"owes", "told"}
  BY <1>1, <1>4, <1>7
<1> QED BY <1>1, <1>3, <1>4, <1>5, <1>6, <1>8

(* A reply that was asked for is in a record now; until that is on disk,    *)
(* its receipt owes it.                                                     *)
LEMMA ReturnDelivers ==
    ASSUME BookInv, NEW t \in Tasks, Return(t), Goes, Intends(t),
           NEW w \in Delivered(t), NEW ok \in BOOLEAN, Flush(intents \ {t}, w, ok),
           over' = over, proc' = proc, woke' = woke
    PROVE  BookStep
<1>1. t \in intents /\ Book(hand, intents, wakes) /\ Book(hand, disk.intents, disk.wakes)
  BY DEF BookInv, Lasts, Intends
<1>2. /\ intents' = intents \ {t} /\ wakes' = w /\ unwritten' = ~ok /\ Keeps
      /\ disk' = IF ok THEN [intents |-> intents \ {t}, wakes |-> w] ELSE disk
  BY DEF Flush, Keeps
<1>3. /\ hand' \in [Tasks -> {"none", "out", "owes", "told", "refused"}]
      /\ \A x \in Tasks : x # t => hand'[x] = hand[x]
      /\ unwritten' = FALSE => hand'[t] = "told" /\ told' = told
      /\ unwritten' # FALSE => hand'[t] = "owes" /\ told' = told \cup {t}
      /\ Onward(hand, hand') /\ told' \subseteq Tasks
      /\ \A x \in told' : hand'[x] \in {"owes", "told"}
  BY ReturnTold
<1>4. hand'[t] \in {"owes", "told"}
  BY <1>2, <1>3
<1>5. \A x \in Tasks : hand[x] \in {"none", "out", "owes", "told", "refused"}
  BY TypedParts
<1>6. /\ Book(hand', intents \ {t}, w)
      /\ \A x : x \in Carried(w) <=> x \in Carried(wakes) \/ x = t
  BY <1>1, <1>3, <1>4, <1>5, DeliveredBook
<1>7. Uncut(wakes, w)
  BY <1>1, DeliveredRows
<1>8. Book(hand', disk.intents, disk.wakes)
  BY <1>1, <1>3, <1>5, OnwardBook
<1>9. \A x \in intents' : x \in kept' \/ x \in over' \/ hand'[x] = "out"
  <2> SUFFICES ASSUME NEW x \in intents', x \notin kept', x \notin over'
               PROVE  hand'[x] = "out"
    OBVIOUS
  <2>1. x \in intents /\ x # t /\ x \in Tasks
    BY <1>1, <1>2 DEF Book
  <2>2. x \notin kept
    BY <1>2 DEF Keeps
  <2> QED BY <2>1, <2>2, <1>3 DEF BookInv, Lasts
<1>10. CASE ok = TRUE
  <2>1. disk' = [intents |-> intents', wakes |-> wakes'] /\ unwritten' = FALSE
    BY <1>2, <1>10
  <2>2. disk'.intents = intents' /\ disk'.wakes = wakes'
    BY <2>1
  <2>3. Book(hand', disk'.intents, disk'.wakes) /\ Book(hand', intents', wakes')
    BY <2>2, <1>2, <1>6
  <2>4. disk' \in [intents : SUBSET Tasks, wakes : [Tasks -> Record]]
    BY <2>1, <2>3 DEF Book, Rows
  <2>5. \A x \in intents' \cup Carried(wakes') : x \in Mentioned(disk')
    BY <2>2 DEF Mentioned
  <2>6. Up' => \A id \in Tasks : wakes'[id].cut = FALSE
    BY <1>2, <1>7 DEF BookInv, Lasts, Uncut, Up
  <2>7. NothingLost'
    <3> SUFFICES ASSUME NEW x \in kept', hand'[x] \in {"out", "owes", "told"},
                        woke'[x] = 0, x \notin over'
                 PROVE  /\ x \in IF hand'[x] = "told" THEN Carried(disk'.wakes)
                                 ELSE Mentioned(disk')
                        /\ x \in IF hand'[x] = "told" \/ x \in told' THEN Carried(wakes')
                                 ELSE intents' \cup Carried(wakes')
      BY DEF NothingLost
    <3>0. x \in Tasks
      BY <1>2, <2>4, KeepsTyped
    <3>1. x \in IF hand'[x] = "told" \/ x \in told' THEN Carried(wakes')
                ELSE intents' \cup Carried(wakes')
      <4>1. CASE x = t
        <5>1. x \in Carried(wakes')
          BY <4>1, <1>2, <1>6
        <5> QED BY <5>1
      <4>2. x # t => hand'[x] = hand[x] /\ told' = told
        BY <3>0, <1>3, <2>1
      <4>3. CASE x # t /\ x \in kept
        <5>1. x \in IF hand[x] = "told" \/ x \in told THEN Carried(wakes)
                    ELSE intents \cup Carried(wakes)
          BY <4>3, <4>2 DEF BookInv, NothingLost, Goes
        <5>3. (x \in Carried(wakes) => x \in Carried(wakes')) /\ (x \in intents => x \in intents')
          BY <4>3, <1>2, <1>6
        <5> QED BY <5>1, <5>3, <4>3, <4>2
      <4>4. CASE x # t /\ x \notin kept
        <5>1. x \in intents' \/ x \in Carried(wakes')
          BY <4>4, <1>2, <2>2 DEF Keeps, Mentioned
        <5>2. x \in intents => hand[x] = "out" /\ x \notin told
          BY <4>4 DEF BookInv, Lasts
        <5>3. x \in intents' => x \in intents
          BY <1>2
        <5> QED BY <5>1, <5>2, <5>3, <4>2, <4>4
      <4> QED BY <4>1, <4>3, <4>4
    <3>2. Carried(disk'.wakes) = Carried(wakes') /\ Mentioned(disk') = intents' \cup Carried(wakes')
      BY <2>2 DEF Mentioned
    <3>3. hand'[x] = "told" => x \in Carried(wakes')
      BY <3>1
    <3>4. x \in intents' \cup Carried(wakes')
      BY <3>1
    <3> QED BY <3>1, <3>2, <3>3, <3>4
  <2>8. disk'.wakes = wakes' /\ unwritten' \in BOOLEAN
    BY <2>1, <2>2
  <2>9. Gone
    <3> SUFFICES ASSUME NEW x, x \in intents' \/ x \in Carried(wakes')
                 PROVE  \/ x \in Mentioned(disk)
                        \/ x \notin kept /\ x \in intents \cup Carried(wakes)
      BY <2>2 DEF Gone, Mentioned
    <3>1. x \in intents \/ x \in Carried(wakes)
      BY <1>1, <1>2, <1>6
    <3> QED BY <3>1 DEF BookInv, Lasts
  <2> QED BY <2>3, <2>4, <2>5, <2>6, <2>7, <2>8, <2>9, <1>2, <1>3, <1>9, AliveBooks
<1>11. CASE ok = FALSE
  <2>1. disk' = disk /\ unwritten' = TRUE /\ hand'[t] = "owes" /\ told' = told \cup {t}
    BY <1>2, <1>3, <1>11
  <2>2. Book(hand', disk'.intents, disk'.wakes) /\ Book(hand', intents', wakes')
    BY <2>1, <1>2, <1>6, <1>8
  <2>3. disk' \in [intents : SUBSET Tasks, wakes : [Tasks -> Record]]
    BY <2>1 DEF BookInv, TypeOK
  <2>4. kept' = kept
    BY <1>2, <2>1 DEF Keeps, BookInv, Lasts
  <2>5. \A x \in intents' \cup Carried(wakes') : x \in kept' => x \in Mentioned(disk')
    <3>1. \A x \in intents' \cup Carried(wakes') : x \in intents \cup Carried(wakes)
      BY <1>1, <1>2, <1>6
    <3> QED BY <3>1, <2>1, <2>4 DEF BookInv, Lasts
  <2>6. Up' => \A id \in Tasks : wakes'[id].cut = FALSE
    BY <1>2, <1>7 DEF BookInv, Lasts, Uncut, Up
  <2>7. NothingLost'
    <3> SUFFICES ASSUME NEW x \in kept', hand'[x] \in {"out", "owes", "told"},
                        woke'[x] = 0, x \notin over'
                 PROVE  /\ x \in IF hand'[x] = "told" THEN Carried(disk'.wakes)
                                 ELSE Mentioned(disk')
                        /\ x \in IF hand'[x] = "told" \/ x \in told' THEN Carried(wakes')
                                 ELSE intents' \cup Carried(wakes')
      BY DEF NothingLost
    <3>0. x \in Tasks /\ x \in kept
      BY <2>4 DEF BookInv, TypeOK
    <3>1. CASE x = t
      <4>1. x \in Carried(wakes')
        BY <3>1, <1>2, <1>6
      <4>2. x \in Mentioned(disk)
        BY <3>0, <3>1, <1>1 DEF BookInv, Lasts
      <4>3. hand'[x] # "told"
        BY <3>1, <2>1
      <4> QED BY <4>1, <4>2, <4>3, <2>1
    <3>2. CASE x # t
      <4>1. /\ x \in IF hand[x] = "told" THEN Carried(disk.wakes) ELSE Mentioned(disk)
            /\ x \in IF hand[x] = "told" \/ x \in told THEN Carried(wakes)
                     ELSE intents \cup Carried(wakes)
        BY <3>0, <3>2, <1>3 DEF BookInv, NothingLost, Goes
      <4>2. hand'[x] = hand[x] /\ (x \in told' <=> x \in told)
        BY <3>0, <3>2, <1>3, <2>1
      <4>3. (x \in Carried(wakes) => x \in Carried(wakes')) /\ (x \in intents => x \in intents')
        BY <3>2, <1>2, <1>6
      <4> QED BY <4>1, <4>2, <4>3, <2>1
    <3> QED BY <3>1, <3>2
  <2>8. unwritten' \in BOOLEAN /\ unwritten' # FALSE
    BY <2>1
  <2>9. Gone
    BY <2>1 DEF Gone
  <2> QED BY <2>2, <2>3, <2>5, <2>6, <2>7, <2>8, <2>9, <1>2, <1>3, <1>9, AliveBooks
<1> QED BY <1>10, <1>11

(* A return, with a wake that is owed, one too many, or none.               *)
LEMMA ReturnBooks ==
    ASSUME BookInv, NEW t \in Tasks, Return(t)
    PROVE  BookStep
<1>1. /\ Alive /\ proc' = proc /\ doneIds' = doneIds /\ upd' = upd \cup {t}
      /\ item' = item /\ starting' = starting /\ turn' = turn /\ woke' = woke
      /\ tries' = tries
  BY DEF Return
<1>2. ASSUME over' \subseteq Tasks, over \subseteq over', spent' \in [Odd -> Nat]
      PROVE  Goes
  BY <1>1, <1>2, TypedParts DEF Goes, Alive
<1>3. CASE /\ Intends(t)
           /\ \E w \in Delivered(t), ok \in BOOLEAN :
                 Flush(intents \ {t}, w, ok) /\ Spends({}, Failed(ok))
           /\ UNCHANGED over
  <2>1. PICK w \in Delivered(t), ok \in BOOLEAN :
          Flush(intents \ {t}, w, ok) /\ Spends({}, Failed(ok))
    BY <1>3
  <2>2. spent' \in [Odd -> Nat]
    BY <2>1, FailedNat, SpendsTyped, TypedParts
  <2>3. Goes
    BY <1>2, <1>3, <2>2, TypedParts
  <2> QED BY <1>1, <1>3, <2>1, <2>3, ReturnDelivers
<1>4. CASE /\ intents' = intents \ {t}
           /\ over' = over \cup {t}
           /\ UNCHANGED <<wakes, disk, unwritten, kept, spent>>
  <2>1. Goes
    BY <1>2, <1>4, TypedParts
  <2>2. Fades(intents, wakes, intents', wakes', over')
    <3>1. intents' \subseteq intents /\ \A x \in intents : x \in intents' \/ x \in over'
      BY <1>4
    <3>2. Shrinks(wakes, wakes') /\ \A id \in Tasks : wakes'[id].res = wakes[id].res
      BY <1>4, TypedParts DEF Shrinks
    <3> QED BY <3>1, <3>2 DEF Fades
  <2>3. disk \in [intents : SUBSET Tasks, wakes : [Tasks -> Record]] /\ unwritten \in BOOLEAN
    BY DEF BookInv, TypeOK
  <2>4. unwritten' = FALSE => disk'.wakes = wakes'
    BY <1>1, <1>4 DEF BookInv, Lasts
  <2>5. Wears
    <3>1. Keeps
      BY <1>4 DEF Keeps, BookInv, Lasts
    <3> QED BY <3>1, <1>1, <1>4, <2>2, <2>3, <2>4 DEF Wears, Up
  <2>6. Tells
    BY <1>4, ReturnTold DEF Tells
  <2> QED BY <2>1, <2>5, <2>6, WearsLasts
<1>5. CASE ~Intends(t) /\ NoWrite /\ UNCHANGED <<over, spent>>
  <2>1. Goes
    BY <1>2, <1>5, TypedParts
  <2>2. /\ intents' = intents /\ wakes' = wakes /\ disk' = disk /\ unwritten' = unwritten
        /\ kept' = kept /\ Keeps
    BY <1>5 DEF NoWrite, Keeps, BookInv, Lasts
  <2>3. /\ hand' \in [Tasks -> {"none", "out", "owes", "told", "refused"}]
        /\ \A x \in Tasks : x # t => hand'[x] = hand[x]
        /\ unwritten' = FALSE => hand'[t] = "told" /\ told' = told
        /\ unwritten' # FALSE => hand'[t] = "owes" /\ told' = told \cup {t}
        /\ Onward(hand, hand') /\ told' \subseteq Tasks
        /\ \A x \in told' : hand'[x] \in {"owes", "told"}
        /\ unwritten' \in BOOLEAN /\ t \notin told /\ hand[t] \in {"out", "owes"}
    BY ReturnTold
  <2>4. \A x \in Tasks : hand[x] \in {"none", "out", "owes", "told", "refused"}
    BY TypedParts
  <2>5. Book(hand', intents', wakes') /\ Book(hand', disk'.intents, disk'.wakes)
    <3>1. Book(hand', intents, wakes)
      BY <2>3, <2>4, OnwardBook DEF BookInv, Lasts
    <3>2. Book(hand', disk.intents, disk.wakes)
      BY <2>3, <2>4, OnwardBook DEF BookInv, Lasts
    <3> QED BY <3>1, <3>2, <2>2
  <2>6. disk' \in [intents : SUBSET Tasks, wakes : [Tasks -> Record]]
    BY <2>2 DEF BookInv, TypeOK
  <2>7. /\ \A x \in intents' \cup Carried(wakes') : x \in kept' => x \in Mentioned(disk')
        /\ unwritten' = FALSE => disk'.wakes = wakes'
        /\ Up' => \A id \in Tasks : wakes'[id].cut = FALSE
    BY <1>1, <2>2 DEF BookInv, Lasts, Up
  <2>8. \A x \in intents' : x \in kept' \/ x \in over' \/ hand'[x] = "out"
    <3>1. \A x \in intents : x \in Tasks /\ x # t
      BY <1>5 DEF Intends, BookInv, TypeOK
    <3> QED BY <3>1, <1>5, <2>2, <2>3 DEF BookInv, Lasts
  <2>9. NothingLost'
    <3> SUFFICES ASSUME NEW x \in kept, hand'[x] \in {"out", "owes", "told"},
                        woke'[x] = 0, x \notin over'
                 PROVE  /\ x \in IF hand'[x] = "told" THEN Carried(disk.wakes)
                                 ELSE Mentioned(disk)
                        /\ x \in IF hand'[x] = "told" \/ x \in told' THEN Carried(wakes)
                                 ELSE intents \cup Carried(wakes)
      BY <2>2 DEF NothingLost
    <3>1. hand[x] \in {"out", "owes", "told"} /\ x \in Tasks
      BY DEF BookInv, Lasts, TypeOK
    <3>2. /\ x \in IF hand[x] = "told" THEN Carried(disk.wakes) ELSE Mentioned(disk)
          /\ x \in IF hand[x] = "told" \/ x \in told THEN Carried(wakes)
                   ELSE intents \cup Carried(wakes)
      BY <3>1, <1>1, <1>5 DEF BookInv, NothingLost
    <3>3. CASE x # t
      BY <3>1, <3>2, <3>3, <2>3
    <3>4. CASE x = t
      <4>1. x \in Carried(wakes)
        BY <3>2, <3>4, <2>3, <1>5 DEF Intends
      <4>2. hand'[x] = "told" => x \in Carried(disk.wakes)
        <5>1. hand'[x] = "told" => unwritten = FALSE
          BY <2>2, <2>3, <3>4
        <5>2. unwritten = FALSE => disk.wakes = wakes
          BY <1>1 DEF BookInv, Lasts
        <5> QED BY <4>1, <5>1, <5>2
      <4>3. x \in Mentioned(disk)
        BY <3>2, <4>1 DEF Mentioned, BookInv, Lasts
      <4> QED BY <4>1, <4>2, <4>3
    <3> QED BY <3>3, <3>4
  <2>10. Gone
    BY <2>2 DEF Gone
  <2> QED BY <2>1, <2>3, <2>2, <2>5, <2>6, <2>7, <2>9, <2>10, <2>8, AliveBooks
<1> QED BY <1>3, <1>4, <1>5 DEF Return

(* A server that dies remembers nothing; what is on disk stays.             *)
LEMMA DownBooks ==
    ASSUME BookInv, Alive, Lost, proc' = "down", disk' = disk, kept' = kept, woke' = woke, over' = over,
           tries' = tries, upd' = upd, item' \subseteq Item, spent' \in [Odd -> Nat],
           hand' \in [Tasks -> {"none", "out", "owes", "told", "refused"}],
           \A x \in Tasks : hand'[x] = hand[x] \/ (hand[x] = "out" /\ hand'[x] = "owes")
    PROVE  BookStep
<1>1. /\ intents' = {} /\ wakes' = NoRecords /\ doneIds' = {} /\ unwritten' = FALSE
      /\ told' = {} /\ starting' = {} /\ turn' = Idle
  BY DEF Lost
<1>2. \A id \in Tasks : NoRecords[id] = NoRecord /\ NoRecord.res = {} /\ NoRecord.st = "none"
  BY DEF NoRecords, NoRecord
<1>3. Rows(NoRecords)
  <2>1. RowOK(NoRecord)
    BY CapsAssumption DEF RowOK, Record, NoRecord
  <2>2. NoRecords \in [Tasks -> Record]
    BY <2>1 DEF NoRecords, RowOK
  <2> QED BY <1>2, <2>1, <2>2 DEF Rows
<1>4. Book(hand', intents', wakes')
  BY <1>1, <1>2, <1>3 DEF Book
<1>5. Book(hand', disk'.intents, disk'.wakes)
  <2>1. Onward(hand, hand')
    BY DEF Onward
  <2>2. Book(hand', disk.intents, disk.wakes)
    BY <2>1, OnwardBook, TypedParts DEF BookInv, Lasts
  <2> QED BY <2>2
<1>6. \A x \in intents' \cup Carried(wakes') : x \in kept' => x \in Mentioned(disk')
  BY <1>1, <1>2, CarriedIn
<1>7. ~Alive' /\ ~Up'
  BY DEF Alive, Up
<1>8. Lasts'
  <2>1. Mentioned(disk') \subseteq kept' /\ Keeps
    BY DEF BookInv, Lasts, Keeps
  <2>2. \A x \in kept' : hand'[x] \in {"out", "owes", "told"}
    <3>1. Onward(hand, hand')
      BY DEF Onward
    <3> QED BY <3>1, <2>1, <1>5, KeepsAsked
  <2> QED BY <2>1, <2>2, <1>1, <1>4, <1>5, <1>6, <1>7 DEF Lasts
<1>9. TypeOK'
  <2>1. turn' \in Turn
    BY <1>1, TurnTyped
  <2>2. disk' \in [intents : SUBSET Tasks, wakes : [Tasks -> Record]]
    BY DEF BookInv, TypeOK
  <2>3. wakes' \in [Tasks -> Record]
    BY <1>1, <1>3 DEF Rows
  <2>4. kept' \subseteq Tasks
    BY DEF BookInv, TypeOK
  <2> QED BY <1>1, <2>1, <2>2, <2>3, <2>4, TypedParts DEF TypeOK
<1>10. NothingLost'
  <2> SUFFICES ASSUME NEW x \in kept, hand'[x] \in {"out", "owes", "told"},
                      woke'[x] = 0, x \notin over'
               PROVE  x \in IF hand'[x] = "told" THEN Carried(disk'.wakes)
                            ELSE Mentioned(disk')
    BY <1>7 DEF NothingLost
  <2>1. hand[x] \in {"out", "owes", "told"} /\ x \in Tasks
    BY DEF BookInv, Lasts, TypeOK
  <2>2. x \in IF hand[x] = "told" THEN Carried(disk.wakes) ELSE Mentioned(disk)
    BY <2>1 DEF BookInv, NothingLost
  <2> QED BY <2>1, <2>2
<1>11. Gone
  BY DEF Gone
<1> QED BY <1>8, <1>9, <1>10, <1>11 DEF BookStep, BookInv

(* A crash.                                                                 *)
LEMMA CrashBooks ==
    ASSUME BookInv, Crash
    PROVE  BookStep
<1>1. spent' \in [Odd -> Nat]
  BY SpendsTyped, TypedParts DEF Crash
<1>2. /\ Alive /\ Lost /\ proc' = "down" /\ disk' = disk /\ kept' = kept /\ woke' = woke /\ over' = over
      /\ tries' = tries /\ upd' = upd /\ item' = item /\ hand' = hand
  BY DEF Crash, history
<1> QED BY <1>1, <1>2, TypedParts, DownBooks

(* A crash between a receipt and its follow-up.                             *)
LEMMA CutReturnBooks ==
    ASSUME BookInv, NEW t \in Tasks, CutReturn(t)
    PROVE  BookStep
<1>1. spent' \in [Odd -> Nat]
  BY SpendsTyped, TypedParts DEF CutReturn
<1>2. /\ Alive /\ Lost /\ proc' = "down" /\ disk' = disk /\ kept' = kept /\ woke' = woke /\ over' = over
      /\ tries' = tries /\ upd' = upd /\ item' = item
      /\ hand' = [hand EXCEPT ![t] = "owes"] /\ hand[t] = "out"
  BY DEF CutReturn, history
<1>3. /\ hand' \in [Tasks -> {"none", "out", "owes", "told", "refused"}]
      /\ \A x \in Tasks : hand'[x] = hand[x] \/ (hand[x] = "out" /\ hand'[x] = "owes")
  BY <1>2, TypedParts
<1> QED BY <1>1, <1>2, <1>3, TypedParts, DownBooks

(* A crash between the two writes of a hold.                                *)
LEMMA TornHoldBooks ==
    ASSUME BookInv, NEW p \in starting, TornHold(p)
    PROVE  BookStep
<1>1. spent' \in [Odd -> Nat]
  BY SpendsTyped, TypedParts DEF TornHold
<1>2. /\ Alive /\ Lost /\ proc' = "down" /\ disk' = disk /\ kept' = kept /\ woke' = woke /\ over' = over
      /\ tries' = tries /\ upd' = upd /\ item' = ItemKept(p) /\ hand' = hand
  BY DEF TornHold, history
<1>3. item' \subseteq Item
  BY <1>2, ItemsTyped, TypedParts
<1> QED BY <1>1, <1>2, <1>3, TypedParts, DownBooks

(* A close that ends.                                                       *)
LEMMA ExitBooks ==
    ASSUME BookInv, Exit
    PROVE  BookStep
<1>1. /\ Alive /\ Lost /\ proc' = "down" /\ disk' = disk /\ kept' = kept /\ woke' = woke /\ over' = over
      /\ tries' = tries /\ upd' = upd /\ item' = item /\ hand' = hand /\ spent' = spent
  BY DEF Exit, history, Alive
<1> QED BY <1>1, TypedParts, DownBooks

(* A boot reads the disk back, and what it drops is over.                   *)
LEMMA BootBooks ==
    ASSUME BookInv, Boot
    PROVE  BookStep
<1> DEFINE w == Restored(disk.wakes)
<1>1. /\ proc = "down" /\ proc' = "up"
      /\ doneIds' = doneIds /\ hand' = hand /\ told' = told /\ upd' = upd
      /\ starting' = starting /\ turn' = turn /\ woke' = woke /\ tries' = tries
      /\ item' = {x \in item : IsHeld(w, x.id)}
      /\ over' = over \cup (Carried(disk.wakes) \ Carried(w))
      /\ IF disk = Nothing
         THEN intents' = {} /\ wakes' = w /\ UNCHANGED <<disk, unwritten, kept, spent>>
         ELSE \E ok \in BOOLEAN :
                 Flush(disk.intents, w, ok) /\ Spends({}, Failed(ok))
  BY DEF Boot
<1>2. Shrinks(disk.wakes, w)
  BY TypedParts, RestoredShrinks
<1>3. Book(hand, disk.intents, disk.wakes) /\ told = {} /\ unwritten = FALSE
  BY <1>1 DEF BookInv, Lasts, Alive
<1>4. Book(hand, disk.intents, w)
  BY <1>2, <1>3, ShrunkBook
<1>5. \A id \in Tasks : w[id].cut = FALSE
  <2> TAKE id \in Tasks
  <2>1. CASE Survives(id, disk.wakes[id])
    BY <2>1, TypedParts, RestoredRows
  <2>2. CASE ~Survives(id, disk.wakes[id])
    <3>1. w[id] = NoRecord
      BY <2>2, TypedParts, RestoredRows
    <3> QED BY <3>1 DEF NoRecord
  <2> QED BY <2>1, <2>2
<1>6. \A x : x \in Carried(w) => x \in Carried(disk.wakes)
  BY <1>2, CarriedIn DEF Shrinks
<1> HIDE DEF w
<1>7. /\ intents' = disk.intents /\ wakes' = w
      /\ spent' \in [Odd -> Nat] /\ unwritten' \in BOOLEAN
      /\ disk' \in [intents : SUBSET Tasks, wakes : [Tasks -> Record]]
      /\ \/ disk' = disk
         \/ disk'.intents = disk.intents /\ disk'.wakes = w
      /\ unwritten' = FALSE => disk'.wakes = w
      /\ Keeps
  <2>1. disk \in [intents : SUBSET Tasks, wakes : [Tasks -> Record]]
    BY DEF BookInv, TypeOK
  <2>2. CASE disk = Nothing
    <3>1. disk.intents = {} /\ disk.wakes = NoRecords
      BY <2>2 DEF Nothing
    <3>2. w = NoRecords
      <4>1. \A id \in Tasks : w[id] = NoRecord
        <5> TAKE id \in Tasks
        <5>1. NoRecords[id].st = "none"
          BY DEF NoRecords, NoRecord
        <5>2. ~Survives(id, disk.wakes[id])
          BY <3>1, <5>1 DEF Survives
        <5> QED BY <5>2, TypedParts, RestoredRows DEF w
      <4>2. w = [id \in Tasks |-> w[id]]
        BY <1>2 DEF Shrinks, Rows
      <4> QED BY <4>1, <4>2 DEF NoRecords
    <3>3. /\ intents' = {} /\ wakes' = w /\ disk' = disk /\ unwritten' = unwritten
          /\ spent' = spent /\ kept' = kept
      BY <1>1, <2>2
    <3>4. Keeps
      BY <3>3 DEF Keeps, BookInv, Lasts
    <3> QED BY <2>1, <3>1, <3>2, <3>3, <3>4, <1>3, TypedParts
  <2>3. CASE disk # Nothing
    <3>1. PICK ok \in BOOLEAN : Flush(disk.intents, w, ok) /\ Spends({}, Failed(ok))
      BY <1>1, <2>3
    <3>2. spent' \in [Odd -> Nat]
      BY <3>1, FailedNat, SpendsTyped, TypedParts
    <3>3. /\ intents' = disk.intents /\ wakes' = w /\ unwritten' = ~ok /\ Keeps
          /\ disk' = IF ok THEN [intents |-> disk.intents, wakes |-> w] ELSE disk
      BY <3>1 DEF Flush, Keeps
    <3>4. disk.intents \subseteq Tasks /\ w \in [Tasks -> Record]
      BY <1>4 DEF Book, Rows
    <3>5. CASE ok = TRUE
      BY <3>2, <3>3, <3>4, <3>5
    <3>6. CASE ok = FALSE
      BY <3>2, <3>3, <3>6, <2>1
    <3> QED BY <3>5, <3>6
  <2> QED BY <2>2, <2>3
<1>8. Book(hand', intents', wakes') /\ Book(hand', disk'.intents, disk'.wakes)
  <2>1. Book(hand', intents', wakes')
    BY <1>1, <1>4, <1>7
  <2>2. CASE disk' = disk
    BY <2>1, <2>2, <1>1, <1>3
  <2>3. CASE disk'.intents = disk.intents /\ disk'.wakes = w
    BY <2>1, <2>3, <1>1, <1>4
  <2> QED BY <2>2, <2>3, <1>7
<1>9. /\ \A x \in intents' \cup Carried(wakes') : x \in Mentioned(disk')
      /\ \A x \in Mentioned(disk') : x \in Mentioned(disk)
  BY <1>6, <1>7 DEF Mentioned
<1>10. kept' = kept
  BY <1>7, <1>9 DEF Keeps, BookInv, Lasts
<1>11. Alive' /\ Up'
  BY <1>1 DEF Alive, Up
<1>12. Lasts'
  <2>1. \A x \in told' : hand'[x] \in {"owes", "told"}
    BY <1>1, <1>3
  <2>2. \A id \in Tasks : wakes'[id].cut = FALSE
    BY <1>5, <1>7
  <2>3. ~unwritten' => disk'.wakes = wakes'
    BY <1>7
  <2>4. Mentioned(disk') \subseteq kept'
    BY <1>7 DEF Keeps
  <2>5. \A x \in kept' : hand'[x] \in {"out", "owes", "told"}
    BY <1>1, <1>10 DEF BookInv, Lasts
  <2>6. \A x \in intents' : x \in kept'
    BY <1>7, <1>10 DEF Mentioned, BookInv, Lasts
  <2> QED BY <2>1, <2>2, <2>3, <2>4, <2>5, <2>6, <1>8, <1>9, <1>11 DEF Lasts
<1>13. NothingLost'
  <2> SUFFICES ASSUME NEW x \in kept', hand'[x] \in {"out", "owes", "told"},
                      woke'[x] = 0, x \notin over'
               PROVE  /\ x \in IF hand'[x] = "told" THEN Carried(disk'.wakes)
                               ELSE Mentioned(disk')
                      /\ x \in IF hand'[x] = "told" \/ x \in told' THEN Carried(wakes')
                               ELSE intents' \cup Carried(wakes')
    BY DEF NothingLost
  <2>1. x \in IF hand[x] = "told" THEN Carried(disk.wakes) ELSE Mentioned(disk)
    BY <1>1, <1>10 DEF BookInv, NothingLost
  <2>2. x \in Carried(disk.wakes) => x \in Carried(w)
    BY <1>1
  <2>3. x \notin told'
    BY <1>1, <1>3
  <2>4. x \in IF hand[x] = "told" THEN Carried(w) ELSE disk.intents \cup Carried(w)
    BY <2>1, <2>2 DEF Mentioned
  <2>5. CASE disk' = disk
    BY <2>1, <2>3, <2>4, <2>5, <1>1, <1>7
  <2>6. CASE disk'.intents = disk.intents /\ disk'.wakes = w
    BY <2>3, <2>4, <2>6, <1>1, <1>7 DEF Mentioned
  <2> QED BY <2>5, <2>6, <1>7
<1>14. TypeOK'
  <2>1. proc' \in {"up", "closing", "down"}
    BY <1>1
  <2>2. intents' \subseteq Tasks /\ wakes' \in [Tasks -> Record]
    BY <1>8 DEF Book, Rows
  <2>3. item' \subseteq Item
    BY <1>1, TypedParts
  <2>4. over' \subseteq Tasks
    <3>1. Carried(disk.wakes) \subseteq Tasks
      BY CarriedIn DEF BookInv, TypeOK, Record
    <3> QED BY <3>1, <1>1, TypedParts
  <2>5. /\ doneIds' \subseteq Tasks /\ told' \subseteq Tasks /\ upd' \subseteq Tasks
        /\ starting' \subseteq Start /\ turn' \in Turn
        /\ woke' \in [Tasks -> Nat] /\ tries' \in [Tasks -> Nat]
        /\ hand' \in [Tasks -> {"none", "out", "owes", "told", "refused"}]
    BY <1>1, TypedParts
  <2>6. kept' \subseteq Tasks
    BY <1>10 DEF BookInv, TypeOK
  <2> QED BY <2>1, <2>2, <2>3, <2>4, <2>5, <2>6, <1>7 DEF TypeOK
<1> QED BY <1>9, <1>12, <1>13, <1>14 DEF BookStep, BookInv, Gone

(* At the start nothing is out.                                             *)
LEMMA InitBooks == Init => BookInv
<1> SUFFICES ASSUME Init PROVE BookInv
  OBVIOUS
<1>1. /\ proc = "up" /\ intents = {} /\ wakes = NoRecords /\ doneIds = {}
      /\ disk = Nothing /\ unwritten = FALSE /\ kept = {}
      /\ hand = [t \in Tasks |-> "none"] /\ told = {} /\ upd = {} /\ item = {}
      /\ starting = {} /\ turn = Idle
      /\ woke = [t \in Tasks |-> 0] /\ tries = [t \in Tasks |-> 0] /\ over = {}
      /\ spent = [o \in Odd |-> 0]
  BY DEF Init
<1>2. disk.intents = {} /\ disk.wakes = NoRecords
  BY <1>1 DEF Nothing
<1>3. \A id \in Tasks : /\ NoRecords[id] = NoRecord /\ NoRecord.res = {}
                        /\ NoRecord.st = "none" /\ NoRecord.cut = FALSE
  BY DEF NoRecords, NoRecord
<1>4. RowOK(NoRecord)
  BY CapsAssumption DEF RowOK, Record, NoRecord
<1>5. NoRecords \in [Tasks -> Record]
  BY <1>4 DEF NoRecords, RowOK
<1>6. Book(hand, {}, NoRecords)
  BY <1>3, <1>4, <1>5 DEF Book, Rows
<1>7. disk \in [intents : SUBSET Tasks, wakes : [Tasks -> Record]]
  BY <1>1, <1>5 DEF Nothing
<1>8. Idle \in Turn
  BY DEF Idle, Turn
<1>9. TypeOK
  BY <1>1, <1>5, <1>7, <1>8 DEF TypeOK
<1>10. Lasts
  <2>1. /\ \A x \in intents \cup Carried(wakes) : x \in Mentioned(disk)
        /\ Mentioned(disk) \subseteq kept
    BY <1>1, <1>2, <1>3, CarriedIn DEF Mentioned
  <2> QED BY <2>1, <1>1, <1>2, <1>3, <1>6 DEF Lasts, Alive, Up
<1>11. NothingLost
  BY <1>1 DEF NothingLost
<1> QED BY <1>9, <1>10, <1>11 DEF BookInv

-----------------------------------------------------------------------------
(* Who carries a record, step by step *)

(* A record of w goes, or is as it was.                                     *)
Stays(w, v, id) ==
    v[id].st = "none" \/ (v[id].st = w[id].st /\ v[id].held = w[id].held)

(* The starts, the turn and the items are as they were, but for those of    *)
(* the record k; what is asked for and the receipts only go on.             *)
OnlyTouches(k) ==
    /\ \A p : p.id # k => /\ p \in starting' <=> p \in starting
                          /\ p \in turn'.start <=> p \in turn.start
    /\ \A p \in turn.start : p.id # k => turn'.at = turn.at
    /\ \A x : x.id # k => (x \in item' <=> x \in item)
    /\ \A id \in Tasks : id # k => Stays(wakes, wakes', id)
    /\ intents' \subseteq intents /\ hand' = hand

(* What a step does to one record leaves the others with who carries them.  *)
LEMMA OthersTaken ==
    ASSUME WakeInv, Alive, Up' => Up, NEW k, OnlyTouches(k),
           NEW id \in Tasks, id # k
    PROVE  TakenOnce(id)'
<1>1. TakenOnce(id)
  BY DEF WakeInv, Takers
<1>2. Starts(id)' = Starts(id)
  BY DEF Starts, OnlyTouches
<1>3. Wakings(id)' = Wakings(id)
  BY DEF Wakings, OnlyTouches
<1>4. Wakings(id) # {} => turn'.at = turn.at
  BY DEF Wakings, OnlyTouches
<1>5. HasItem(id)' <=> HasItem(id)
  BY DEF HasItem, OnlyTouches
<1>6. Stays(wakes, wakes', id) /\ intents' \subseteq intents /\ hand' = hand
  BY DEF OnlyTouches
<1>7. Untouched(id)
  BY <1>2, <1>3, <1>4, <1>5, <1>6 DEF Untouched, Stays
<1> QED BY <1>1, <1>7, UntouchedTaken

(* A record that is gone, whose name is asked for no more.                  *)
LEMMA GoneTaken ==
    ASSUME NEW id, wakes'[id].st = "none", Fresh(id), intents' \subseteq intents, hand' = hand
    PROVE  TakenOnce(id)'
<1>1. Fresh(id)'
  BY DEF Fresh
<1> QED BY <1>1 DEF TakenOnce

(* One record that goes, and one that changes.                              *)
LEMMA WithoutStays ==
    ASSUME NEW w, Rows(w), NEW id \in Tasks
    PROVE  /\ Without(w, id)[id].st = "none"
           /\ \A i \in Tasks : Stays(w, Without(w, id), i)
<1>1. Without(w, id)[id] = NoRecord
  BY WithoutRows
<1>2. \A i \in Tasks : w[i].st = "none" => Without(w, id)[i] = NoRecord
  BY WithoutRows
<1>3. \A i \in Tasks : i # id /\ w[i].st # "none" =>
         Without(w, id)[i].st = w[i].st /\ Without(w, id)[i].held = w[i].held
  BY WithoutRows
<1>4. NoRecord.st = "none"
  BY DEF NoRecord
<1> QED BY <1>1, <1>2, <1>3, <1>4 DEF Stays

(* A record that changes alone.                                             *)
LEMMA SetStays ==
    ASSUME NEW w, Rows(w), NEW id \in Tasks, NEW r
    PROVE  /\ [w EXCEPT ![id] = r][id] = r
           /\ \A i \in Tasks : i # id => Stays(w, [w EXCEPT ![id] = r], i)
BY DEF Rows, Stays

(* A record given back: owed again, or gone.                                *)
LEMMA GivenBackStays ==
    ASSUME NEW w, Rows(w), NEW id \in Tasks, w[id].st # "none", w[id].cut = FALSE
    PROVE  /\ GivenBack(w, id)[id].st \in {"none", "owed"}
           /\ \A i \in Tasks : i # id => Stays(w, GivenBack(w, id), i)
<1>1. CASE w[id].n + 1 >= MaxAttempts
  <2>1. GivenBack(w, id) = Without(w, id)
    BY <1>1, GivenBackRow
  <2> QED BY <2>1, WithoutStays
<1>2. CASE ~(w[id].n + 1 >= MaxAttempts)
  <2>1. \E r : /\ RowOK(r) /\ r.res = w[id].res /\ r.st = "owed"
               /\ r.n = w[id].n + 1 /\ r.cut = FALSE /\ r.held = FALSE
               /\ GivenBack(w, id) = [w EXCEPT ![id] = r]
    BY <1>2, GivenBackRow
  <2>2. PICK r : r.st = "owed" /\ GivenBack(w, id) = [w EXCEPT ![id] = r]
    BY <2>1
  <2>3. /\ [w EXCEPT ![id] = r][id] = r
        /\ \A i \in Tasks : i # id => Stays(w, [w EXCEPT ![id] = r], i)
    BY SetStays
  <2> QED BY <2>2, <2>3
<1> QED BY <1>1, <1>2

(* What becomes of the record of a start that does not go ahead: given      *)
(* back or gone, unless its item carries it or the server is closing.       *)
LEMMA RefusedStays ==
    ASSUME WakeInv, NEW p, p.id \in Tasks, Owned(wakes, p.id),
           NEW again \in BOOLEAN, NEW f \in 0 .. 1, Refused(p, again, f)
    PROVE  /\ intents' = intents /\ item' = item
           /\ \A i \in Tasks : i # p.id => Stays(wakes, wakes', i)
           /\ \/ ~p.replay /\ Up /\ wakes'[p.id].st \in {"none", "owed"}
              \/ (p.replay \/ ~Up) /\ wakes' = wakes
<1> DEFINE w == IF again THEN GivenBack(wakes, p.id) ELSE Without(wakes, p.id)
<1>1. Rows(wakes) /\ wakes[p.id].st # "none" /\ (Up => wakes[p.id].cut = FALSE)
  BY DEF WakeInv, BookInv, Lasts, Book, Owned
<1>2. CASE ~p.replay /\ Up /\ item' = item /\ \E ok \in BOOLEAN : Flush(intents, w, ok)
  <2>1. wakes' = w /\ intents' = intents
    BY <1>2 DEF Flush
  <2>2. CASE again
    <3>1. wakes' = GivenBack(wakes, p.id)
      BY <2>1, <2>2
    <3> HIDE DEF w
    <3>2. /\ GivenBack(wakes, p.id)[p.id].st \in {"none", "owed"}
          /\ \A i \in Tasks : i # p.id => Stays(wakes, GivenBack(wakes, p.id), i)
      BY <1>1, <1>2, GivenBackStays
    <3> QED BY <1>2, <2>1, <3>1, <3>2
  <2>3. CASE ~again
    <3>1. wakes' = Without(wakes, p.id)
      BY <2>1, <2>3
    <3> HIDE DEF w
    <3>2. /\ Without(wakes, p.id)[p.id].st = "none"
          /\ \A i \in Tasks : Stays(wakes, Without(wakes, p.id), i)
      BY <1>1, WithoutStays
    <3> QED BY <1>2, <2>1, <3>1, <3>2
  <2> QED BY <2>2, <2>3
<1>3. CASE /\ p.replay \/ ~Up
           /\ IF f > 0 THEN Flush(intents, wakes, FALSE) ELSE NoWrite
           /\ item' = item
  <2>1. wakes' = wakes /\ intents' = intents
    BY <1>3 DEF Flush, NoWrite
  <2> QED BY <1>3, <2>1 DEF Stays
<1>4. \/ ~p.replay /\ Up /\ item' = item /\ \E ok \in BOOLEAN : Flush(intents, w, ok)
      \/ /\ p.replay \/ ~Up
         /\ IF f > 0 THEN Flush(intents, wakes, FALSE) ELSE NoWrite
         /\ item' = item
  BY DEF Refused
<1> HIDE DEF w
<1> QED BY <1>2, <1>3, <1>4

(* The record of a start that does not go ahead: owed with nobody to carry  *)
(* it, or carried by its item, or gone.                                     *)
LEMMA RefusedTaken ==
    ASSUME WakeInv, Alive, proc' = proc, hand' = hand, NEW p, p.id \in Tasks,
           wakes[p.id].st = "claimed", wakes[p.id].held = p.replay, Fresh(p.id),
           NEW again \in BOOLEAN, NEW f \in 0 .. 1, Refused(p, again, f),
           Starts(p.id)' = {}, Wakings(p.id)' = {}
    PROVE  TakenOnce(p.id)'
<1>1. /\ TakenOnce(p.id) /\ Owned(wakes, p.id)
  BY DEF WakeInv, Takers, Owned
<1>2. /\ intents' = intents /\ item' = item
      /\ \/ ~p.replay /\ Up /\ wakes'[p.id].st \in {"none", "owed"}
         \/ (p.replay \/ ~Up) /\ wakes' = wakes
  BY <1>1, RefusedStays
<1>3. Fresh(p.id)' /\ (HasItem(p.id)' <=> HasItem(p.id))
  BY <1>2 DEF Fresh, HasItem
<1>4. CASE ~p.replay /\ wakes'[p.id].st \in {"none", "owed"}
  <2>1. ~HasItem(p.id)
    BY <1>1, <1>4 DEF TakenOnce
  <2> QED BY <2>1, <1>3, <1>4 DEF TakenOnce
<1>5. CASE (p.replay \/ ~Up) /\ wakes' = wakes
  <2>1. Up' => HasItem(p.id)
    BY <1>1, <1>5 DEF TakenOnce, Up
  <2>2. wakes'[p.id].st = "claimed" /\ wakes'[p.id].held = p.replay
    BY <1>5
  <2>3. Alive' /\ HasItem(p.id)' => wakes'[p.id].held = TRUE
    BY <1>1, <1>3, <1>5 DEF TakenOnce
  <2>4. Up' => wakes'[p.id].held = TRUE
    BY <2>1, <2>3, <1>3 DEF Up, Alive
  <2> QED BY <2>1, <2>2, <2>3, <2>4, <1>3 DEF TakenOnce
<1> QED BY <1>2, <1>4, <1>5

(* What no start, turn or item is changed by leaves every carrier.          *)
LEMMA RestTaken ==
    ASSUME WakeInv, Alive, Up' => Up, starting' = starting, turn' = turn, item' = item,
           \A id \in Tasks : \/ Stays(wakes, wakes', id)
                             \/ wakes'[id].st = "owed" /\ id \in intents,
           \A id \in Tasks : id \in intents' => id \in intents \/ hand[id] = "none",
           \A id \in Tasks : hand[id] \in {"owes", "told"} => hand'[id] \in {"owes", "told"}
    PROVE  Takers'
<1>1. ASSUME NEW id \in Tasks PROVE TakenOnce(id)'
  <2>1. TakenOnce(id)
    BY DEF WakeInv, Takers
  <2>2. Starts(id)' = Starts(id) /\ Wakings(id)' = Wakings(id) /\ (HasItem(id)' <=> HasItem(id))
    BY DEF Starts, Wakings, HasItem
  <2>3. id \in intents => Starts(id) = {} /\ Wakings(id) = {}
    BY <2>1 DEF TakenOnce, Fresh
  <2>4. Untouched(id)
    BY <2>2, <2>3 DEF Untouched, Stays
  <2> QED BY <2>1, <2>4, UntouchedTaken
<1>2. TurnOK'
  BY DEF WakeInv, Takers, TurnOK
<1> QED BY <1>1, <1>2 DEF Takers

(* A reply consumed leaves the records as they were, or takes them away.    *)
LEMMA ConsumedStays ==
    ASSUME Rows(wakes), NEW t, NEW id \in Tasks
    PROVE  Stays(wakes, Consumed(t), id)
<1> DEFINE w == [i \in Tasks |->
                    IF i \in Owing(wakes) THEN [wakes[i] EXCEPT !.res = @ \ {t}]
                    ELSE wakes[i]]
           K == {i \in Tasks : w[i].res # {}}
<1>1. Consumed(t)[id] = IF id \in K THEN [w[id] EXCEPT !.ahead = @ \cap K] ELSE NoRecord
  BY DEF Consumed, Kept
<1>2. wakes[id] \in Record
  BY DEF Rows
<1>3. w[id] \in Record /\ w[id].st = wakes[id].st /\ w[id].held = wakes[id].held
  <2>1. w[id] = IF id \in Owing(wakes) THEN [wakes[id] EXCEPT !.res = @ \ {t}] ELSE wakes[id]
    OBVIOUS
  <2> HIDE DEF w
  <2> QED BY <2>1, <1>2 DEF Record
<1>4. NoRecord.st = "none"
  BY DEF NoRecord
<1> HIDE DEF w, K
<1>5. CASE id \in K
  <2>1. /\ [w[id] EXCEPT !.ahead = @ \cap K].st = w[id].st
        /\ [w[id] EXCEPT !.ahead = @ \cap K].held = w[id].held
    BY <1>3 DEF Record
  <2> QED BY <2>1, <1>1, <1>3, <1>5 DEF Stays
<1>6. CASE id \notin K
  BY <1>6, <1>1, <1>4 DEF Stays
<1> QED BY <1>5, <1>6

(* The same, with its write.                                                *)
LEMMA ConsumeStays ==
    ASSUME WakeInv, NEW t, NEW ok \in BOOLEAN, Consume(t, ok)
    PROVE  /\ \A id \in Tasks : Stays(wakes, wakes', id)
           /\ intents' \subseteq intents
<1>1. Rows(wakes)
  BY TypedParts DEF WakeInv
<1>2. CASE Flush(intents \ {t}, Consumed(t), ok)
  BY <1>1, <1>2, ConsumedStays DEF Flush
<1>3. CASE NoWrite
  BY <1>3 DEF NoWrite, Stays
<1> QED BY <1>2, <1>3 DEF Consume

(* Nobody carries a hand-off that has just been asked, or refused.          *)
LEMMA AskTakers ==
    ASSUME WakeInv, NEW t \in Tasks, Ask(t) \/ Ticket(t)
    PROVE  Takers'
<1>1. /\ Alive /\ (Up' => Up) /\ starting' = starting /\ turn' = turn /\ item' = item
      /\ hand[t] = "none"
  BY DEF Ask, Ticket, Up, Alive
<1>2. wakes' = wakes /\ intents' \subseteq intents \cup {t}
  BY DEF Ask, Ticket, Acknowledged, Flush
<1>3. hand \in [Tasks -> {"none", "out", "owes", "told", "refused"}]
  BY TypedParts DEF WakeInv
<1>4. \A id \in Tasks : id # t => hand'[id] = hand[id]
  BY <1>3 DEF Ask, Ticket, Acknowledged
<1> QED BY <1>1, <1>2, <1>4, RestTaken DEF Stays

(* A reply opens a record nobody carries, or joins one nobody carries.      *)
LEMMA ReturnTakers ==
    ASSUME WakeInv, NEW t \in Tasks, Return(t)
    PROVE  Takers'
<1>1. /\ Alive /\ (Up' => Up) /\ starting' = starting /\ turn' = turn /\ item' = item
  BY DEF Return, Up, Alive
<1>2. hand \in [Tasks -> {"none", "out", "owes", "told", "refused"}]
  BY TypedParts DEF WakeInv
<1>3. \A id \in Tasks : hand'[id] = hand[id] \/ hand'[id] \in {"owes", "told"}
  BY <1>2 DEF Return
<1>4. Book(hand, intents, wakes) /\ Rows(wakes)
  BY DEF WakeInv, BookInv, Lasts, Book
<1>5. CASE Intends(t) /\ \E w \in Delivered(t), ok \in BOOLEAN : Flush(intents \ {t}, w, ok)
  <2>1. PICK w \in Delivered(t), ok \in BOOLEAN : Flush(intents \ {t}, w, ok)
    BY <1>5
  <2>2. wakes' = w /\ intents' \subseteq intents /\ t \in intents
    BY <1>5, <2>1 DEF Flush, Intends
  <2>3. \E id \in Tasks : Adds(t, w, id)
    BY <1>4, <2>2, DeliveredRows
  <2>4. PICK id \in Tasks : Adds(t, w, id)
    BY <2>3
  <2>5. wakes[id].st = "owed" => wakes[id].held = FALSE
    BY <1>4 DEF Rows, RowOK
  <2>6. \/ Stays(wakes, w, id)
        \/ w[id].st = "owed" /\ id \in intents
    BY <2>2, <2>4, <2>5 DEF Adds, Stays
  <2>7. \A i \in Tasks : i # id => Stays(wakes, w, i)
    BY <2>4 DEF Adds, Stays
  <2> QED BY <1>1, <1>3, <2>2, <2>6, <2>7, RestTaken
<1>6. CASE wakes' = wakes /\ intents' \subseteq intents
  BY <1>1, <1>3, <1>6, RestTaken DEF Stays
<1> QED BY <1>5, <1>6 DEF Return, NoWrite

(* A hand-off that was stopped.                                             *)
LEMMA ReturnStoppedTakers ==
    ASSUME WakeInv, NEW t \in Tasks, ReturnStopped(t)
    PROVE  Takers'
<1>1. /\ Alive /\ (Up' => Up) /\ starting' = starting /\ turn' = turn /\ item' = item
      /\ \E ok \in BOOLEAN : Consume(t, ok)
  BY DEF ReturnStopped, Up, Alive
<1>2. hand \in [Tasks -> {"none", "out", "owes", "told", "refused"}]
  BY TypedParts DEF WakeInv
<1>3. \A id \in Tasks : hand'[id] = hand[id] \/ hand'[id] = "told"
  BY <1>2 DEF ReturnStopped
<1>4. PICK ok \in BOOLEAN : Consume(t, ok)
  BY <1>1
<1>5. (\A id \in Tasks : Stays(wakes, wakes', id)) /\ intents' \subseteq intents
  BY <1>4, ConsumeStays
<1> QED BY <1>1, <1>3, <1>5, RestTaken

(* A receipt the asker reads itself.                                        *)
LEMMA CheckTakers ==
    ASSUME WakeInv, NEW t \in Tasks, Check(t)
    PROVE  Takers'
<1>1. /\ Alive /\ (Up' => Up) /\ starting' = starting /\ turn' = turn /\ item' = item
      /\ hand' = hand /\ \E ok \in BOOLEAN : Consume(t, ok)
  BY DEF Check, Up, Alive
<1>2. PICK ok \in BOOLEAN : Consume(t, ok)
  BY <1>1
<1>3. (\A id \in Tasks : Stays(wakes, wakes', id)) /\ intents' \subseteq intents
  BY <1>2, ConsumeStays
<1> QED BY <1>1, <1>3, RestTaken

(* A write again changes no record; a close marks claims, and nobody else's *)
(* carrier.                                                                 *)
LEMMA SweepTakers ==
    ASSUME WakeInv, Sweep
    PROVE  Takers'
BY RestTaken DEF Sweep, Flush, Stays, Alive, Up

(* A close.                                                                 *)
LEMMA CloseTakers ==
    ASSUME WakeInv, Close
    PROVE  Takers'
<1>1. /\ Alive /\ (Up' => Up) /\ starting' = starting /\ turn' = turn /\ item' = item
      /\ hand' = hand
  BY DEF Close, Up, Alive
<1>2. Rows(wakes)
  BY TypedParts DEF WakeInv
<1>3. intents' = intents /\ (wakes' = wakes \/ wakes' = Marked(wakes))
  BY DEF Close, Flush, NoWrite, Marked
<1>4. \A id \in Tasks : Stays(wakes, wakes', id)
  <2>1. \A id \in Tasks : /\ Marked(wakes)[id].st = wakes[id].st
                          /\ Marked(wakes)[id].held = wakes[id].held
    BY <1>2, MarkedRows
  <2> QED BY <2>1, <1>3 DEF Stays
<1> QED BY <1>1, <1>3, <1>4, RestTaken

(* The oldest record owed is claimed, by a start of its own.                *)
LEMMA ClaimTakers ==
    ASSUME WakeInv, Claim
    PROVE  Takers'
<1>1. /\ Alive /\ (Up' => Up) /\ turn' = turn /\ item' = item /\ hand' = hand
      /\ turn = Idle
  BY DEF Claim, Up, Alive
<1>2. Rows(wakes) /\ Book(hand, intents, wakes)
  BY DEF WakeInv, BookInv, Lasts, Book
<1>3. PICK id \in Oldest(wakes, Owing(wakes)) :
         LET r == wakes[id]
             w == [wakes EXCEPT ![id].st = "claimed"]
         IN \/ Flush(intents, wakes, FALSE) /\ UNCHANGED <<starting, tries, over>>
            \/ /\ Flush(intents, w, TRUE)
               /\ starting' = starting \cup
                      {[id |-> id, replay |-> FALSE, res |-> r.res \cap upd]}
            \/ /\ intents' = intents /\ wakes' = Without(wakes, id)
               /\ UNCHANGED <<starting, tries>>
  BY DEF Claim
<1>4. id \in Tasks /\ wakes[id].st = "owed" /\ TakenOnce(id)
  BY DEF Oldest, Owing, WakeInv, Takers
<1>5. CASE Flush(intents, wakes, FALSE) /\ UNCHANGED <<starting, tries, over>>
  BY <1>1, <1>5, RestTaken DEF Flush, Stays
<1>6. CASE /\ Flush(intents, [wakes EXCEPT ![id].st = "claimed"], TRUE)
           /\ starting' = starting \cup
                  {[id |-> id, replay |-> FALSE, res |-> wakes[id].res \cap upd]}
  <2> DEFINE q == [id |-> id, replay |-> FALSE, res |-> wakes[id].res \cap upd]
  <2>1. intents' = intents /\ wakes' = [wakes EXCEPT ![id].st = "claimed"]
    BY <1>6 DEF Flush
  <2>2. /\ \A i \in Tasks : i # id => wakes'[i] = wakes[i]
        /\ wakes'[id].st = "claimed" /\ wakes'[id].held = FALSE
    <3>1. wakes \in [Tasks -> Record] /\ wakes[id] \in Record /\ wakes[id].held = FALSE
      BY <1>2, <1>4 DEF Rows, RowOK
    <3> QED BY <2>1, <3>1, <1>4 DEF Record
  <2>3. Starts(id) = {} /\ Wakings(id) = {} /\ ~HasItem(id) /\ Fresh(id)
    <3>1. Starts(id) = {}
      BY <1>4 DEF TakenOnce
    <3>2. Wakings(id) = {}
      BY <1>4 DEF TakenOnce
    <3>3. ~HasItem(id)
      BY <1>1, <1>4 DEF TakenOnce
    <3>4. Fresh(id)
      BY <1>2, <1>4 DEF Book, Fresh
    <3> QED BY <3>1, <3>2, <3>3, <3>4
  <2>4. starting' = starting \cup {q} /\ q.id = id /\ q.replay = FALSE
    BY <1>6
  <2> HIDE DEF q
  <2>5. Starts(id)' = {q} /\ Wakings(id)' = {} /\ ~HasItem(id)'
    <3>1. Starts(id)' = {q}
      BY <2>3, <2>4 DEF Starts
    <3>2. Wakings(id)' = {}
      BY <2>3, <1>1 DEF Wakings
    <3>3. ~HasItem(id)'
      BY <2>3, <1>1 DEF HasItem
    <3> QED BY <3>1, <3>2, <3>3
  <2>6. Fresh(id)'
    BY <2>1, <2>3, <1>1 DEF Fresh
  <2>7. TakenOnce(id)'
    BY <2>2, <2>4, <2>5, <2>6 DEF TakenOnce
  <2>8. OnlyTouches(id)
    BY <1>1, <2>1, <2>2, <2>4 DEF OnlyTouches, Stays
  <2>9. \A i \in Tasks : i # id => TakenOnce(i)'
    BY <1>1, <2>8, OthersTaken
  <2>10. TurnOK'
    BY <1>1 DEF WakeInv, Takers, TurnOK
  <2> QED BY <2>7, <2>9, <2>10 DEF Takers
<1>7. CASE intents' = intents /\ wakes' = Without(wakes, id) /\ UNCHANGED <<starting, tries>>
  <2>1. \A i \in Tasks : Stays(wakes, Without(wakes, id), i)
    BY <1>2, <1>4, WithoutStays
  <2> QED BY <1>1, <1>7, <2>1, RestTaken
<1> QED BY <1>3, <1>5, <1>6, <1>7

(* A start that is admitted becomes the turn, or leaves its record to its   *)
(* item, or to the next claim.                                              *)
LEMMA AdmitTakers ==
    ASSUME WakeInv, NEW p, Admit(p)
    PROVE  Takers'
<1>1. /\ Alive /\ proc' = proc /\ (Up' => Up) /\ hand' = hand /\ p \in starting
      /\ starting' = starting \ {p}
  BY DEF Admit, Up
<1>2. /\ p \in Start /\ p.id \in Tasks /\ p.replay \in BOOLEAN /\ p \in Starts(p.id)
      /\ TakenOnce(p.id) /\ TurnOK
  BY <1>1, StartTyped DEF WakeInv, Takers
<1>3. Rows(wakes) /\ Fresh(p.id)
  BY <1>2, TypedParts DEF WakeInv, TakenOnce
<1>4. Owned(wakes, p.id) =>
        /\ wakes[p.id].st = "claimed" /\ wakes[p.id].held = p.replay
        /\ Wakings(p.id) = {} /\ \A q \in Starts(p.id) : q = p
  BY <1>2 DEF TakenOnce, Owned
<1>5. Owned(wakes, p.id) => Starts(p.id)' = {}
  BY <1>1, <1>4 DEF Starts
<1>6. \A q : q.id # p.id => (q \in starting' <=> q \in starting)
  BY <1>1
<1>7. \A x : x.id # p.id => /\ x \in ItemGone(p.id) <=> x \in item
                            /\ x \in ItemKept(p) <=> x \in item
  BY DEF ItemGone, ItemKept
<1>8. ASSUME TurnOK', OnlyTouches(p.id), TakenOnce(p.id)' PROVE Takers'
  BY <1>1, <1>2, <1>8, OthersTaken DEF Takers
<1>9. CASE /\ ~Owned(wakes, p.id)
           /\ item' = (IF p.replay THEN ItemGone(p.id) ELSE item)
           /\ NoWrite /\ turn' = turn
  <2>1. wakes' = wakes /\ intents' = intents /\ wakes[p.id].st = "none"
    BY <1>9 DEF NoWrite, Owned
  <2>2. TakenOnce(p.id)'
    BY <2>1, <1>1, <1>3, GoneTaken
  <2>3. OnlyTouches(p.id)
    BY <2>1, <1>1, <1>6, <1>7, <1>9 DEF OnlyTouches, Stays
  <2>4. TurnOK'
    BY <1>2, <1>9 DEF TurnOK
  <2> QED BY <2>2, <2>3, <2>4, <1>8
<1>10. CASE Cancelled(p) /\ turn' = turn
  <2>1. /\ wakes' = Without(wakes, p.id) /\ intents' = intents
        /\ item' = IF p.replay THEN ItemGone(p.id) ELSE item
    BY <1>10 DEF Cancelled, Flush
  <2>2. /\ Without(wakes, p.id)[p.id].st = "none"
        /\ \A i \in Tasks : Stays(wakes, Without(wakes, p.id), i)
    BY <1>2, <1>3, WithoutStays
  <2>3. TakenOnce(p.id)'
    BY <2>1, <2>2, <1>1, <1>3, GoneTaken
  <2>4. OnlyTouches(p.id)
    BY <2>1, <2>2, <1>1, <1>6, <1>7, <1>10 DEF OnlyTouches
  <2>5. TurnOK'
    BY <1>2, <1>10 DEF TurnOK
  <2> QED BY <2>3, <2>4, <2>5, <1>8
<1>11. ASSUME Owned(wakes, p.id), NEW again \in BOOLEAN, Refused(p, again, 0), turn' = turn
       PROVE  Takers'
  <2>0. 0 \in 0 .. 1
    OBVIOUS
  <2>1. /\ intents' = intents /\ item' = item
        /\ \A i \in Tasks : i # p.id => Stays(wakes, wakes', i)
    BY <2>0, <1>2, <1>11, RefusedStays
  <2>2. Starts(p.id)' = {} /\ Wakings(p.id)' = {}
    BY <1>4, <1>5, <1>11 DEF Wakings
  <2>3. TakenOnce(p.id)'
    BY <2>0, <2>2, <1>1, <1>2, <1>3, <1>4, <1>11, RefusedTaken
  <2>4. OnlyTouches(p.id)
    BY <2>1, <1>1, <1>6, <1>11 DEF OnlyTouches
  <2>5. TurnOK'
    BY <1>2, <1>11 DEF TurnOK
  <2> QED BY <2>3, <2>4, <2>5, <1>8
<1>12. CASE /\ Owned(wakes, p.id) /\ item' = ItemKept(p)
            /\ \E ok \in BOOLEAN : Flush(intents, [wakes EXCEPT ![p.id].held = TRUE], ok)
            /\ turn' = turn
  <2>1. intents' = intents /\ wakes' = [wakes EXCEPT ![p.id].held = TRUE]
    BY <1>12 DEF Flush
  <2>2. /\ \A i \in Tasks : i # p.id => wakes'[i] = wakes[i]
        /\ wakes'[p.id].st = "claimed" /\ wakes'[p.id].held = TRUE
    <3>1. wakes \in [Tasks -> Record] /\ wakes[p.id] \in Record
      BY <1>2, <1>3 DEF Rows
    <3> QED BY <2>1, <3>1, <1>2, <1>4, <1>12 DEF Record
  <2>3. Starts(p.id)' = {} /\ Wakings(p.id)' = {}
    BY <1>4, <1>5, <1>12 DEF Wakings
  <2>4. HasItem(p.id)'
    <3>1. [id |-> p.id, res |-> p.res] \in item'
      BY <1>12 DEF ItemKept
    <3>2. [id |-> p.id, res |-> p.res].id = p.id
      OBVIOUS
    <3> QED BY <3>1, <3>2 DEF HasItem
  <2>5. Fresh(p.id)'
    BY <1>1, <1>3, <2>1 DEF Fresh
  <2>6. TakenOnce(p.id)'
    BY <2>2, <2>3, <2>4, <2>5 DEF TakenOnce
  <2>7. OnlyTouches(p.id)
    BY <2>1, <2>2, <1>1, <1>6, <1>7, <1>12 DEF OnlyTouches, Stays
  <2>8. TurnOK'
    BY <1>2, <1>12 DEF TurnOK
  <2> QED BY <2>6, <2>7, <2>8, <1>8
<1>13. CASE /\ Owned(wakes, p.id) /\ turn = Idle
            /\ turn' = [at |-> "setup", carries |-> upd, start |-> {p}]
            /\ NoWrite /\ item' = item
  <2>1. /\ wakes' = wakes /\ intents' = intents /\ turn'.at = "setup" /\ turn'.start = {p}
        /\ turn.start = {}
    BY <1>13 DEF NoWrite, Idle
  <2>2. Starts(p.id)' = {} /\ Wakings(p.id)' = {p}
    BY <1>5, <1>13, <2>1 DEF Wakings
  <2>3. HasItem(p.id)' <=> HasItem(p.id)
    BY <1>13 DEF HasItem
  <2>4. Fresh(p.id)' /\ (Alive' <=> Alive)
    BY <1>1, <1>3, <2>1 DEF Fresh, Alive
  <2>5. /\ Alive' /\ HasItem(p.id)' => wakes'[p.id].held = TRUE
        /\ wakes'[p.id].st = "claimed" /\ wakes'[p.id].held = p.replay
    BY <1>2, <1>4, <1>13, <2>1, <2>3, <2>4 DEF TakenOnce
  <2>6. Up' /\ wakes'[p.id].held => HasItem(p.id)'
    BY <1>1, <1>2, <1>4, <1>13, <2>1, <2>3 DEF TakenOnce
  <2>7. TakenOnce(p.id)'
    BY <2>1, <2>2, <2>4, <2>5, <2>6 DEF TakenOnce
  <2>8. OnlyTouches(p.id)
    BY <1>1, <1>6, <1>13, <2>1 DEF OnlyTouches, Stays
  <2>9. TurnOK'
    BY <2>1 DEF TurnOK
  <2> QED BY <2>7, <2>8, <2>9, <1>8
<1>14. ASSUME Owned(wakes, p.id), UNCHANGED turn,
              Refused(p, TRUE, 0) \/ Refused(p, FALSE, 0)
       PROVE  Takers'
  <2>1. CASE Refused(p, TRUE, 0)
    BY <1>11, <1>14, <2>1
  <2>2. CASE Refused(p, FALSE, 0)
    BY <1>11, <1>14, <2>2
  <2> QED BY <1>14, <2>1, <2>2
<1> QED BY <1>9, <1>10, <1>12, <1>13, <1>14 DEF Admit

(* A replay takes its item's record, or the item goes with its record.      *)
LEMMA DrainTakers ==
    ASSUME WakeInv, NEW x \in item, Drain(x)
    PROVE  Takers'
<1>1. /\ Up /\ Alive /\ proc' = proc /\ (Up' => Up) /\ hand' = hand /\ turn' = turn
      /\ turn = Idle /\ \A p \in starting : ~p.replay
  BY DEF Drain, Up, Alive
<1>2. /\ x.id \in Tasks /\ TakenOnce(x.id) /\ TurnOK /\ HasItem(x.id)
  BY TypedParts DEF WakeInv, Takers, Item, HasItem
<1>3. Rows(wakes) /\ Fresh(x.id)
  BY <1>1, <1>2, TypedParts DEF WakeInv, TakenOnce
<1>4. \A y : y.id # x.id => (y \in ItemGone(x.id) <=> y \in item)
  BY DEF ItemGone
<1>5. ~HasItem(x.id)' \/ item' = item
  BY DEF Drain, Cancelled, ItemGone, HasItem
<1>6. TurnOK'
  BY <1>1, <1>2 DEF TurnOK
<1>7. ASSUME OnlyTouches(x.id), TakenOnce(x.id)' PROVE Takers'
  BY <1>1, <1>2, <1>6, <1>7, OthersTaken DEF Takers
<1>8. turn.start = {}
  BY <1>1 DEF Idle
<1>9. CASE ~IsHeld(wakes, x.id) /\ item' = ItemGone(x.id) /\ NoWrite /\ starting' = starting
  <2>1. wakes' = wakes /\ intents' = intents
    BY <1>9 DEF NoWrite
  <2>2. /\ Starts(x.id)' = Starts(x.id) /\ Wakings(x.id)' = Wakings(x.id) /\ ~HasItem(x.id)'
        /\ (Up' <=> Up)
    BY <1>1, <1>9 DEF Starts, Wakings, HasItem, ItemGone, Up
  <2>3. wakes[x.id].st # "owed" /\ (wakes[x.id].st = "claimed" => wakes[x.id].held)
    BY <1>1, <1>2 DEF TakenOnce
  <2>4. wakes[x.id].st \in {"none", "started"}
    <3>1. wakes[x.id] \in Record
      BY <1>2, <1>3 DEF Rows
    <3> QED BY <2>3, <3>1, <1>9 DEF IsHeld, Record
  <2>5. wakes[x.id].st = "none"
    <3>1. wakes[x.id].st = "started" => Wakings(x.id) # {}
      BY <2>4, <1>2 DEF TakenOnce
    <3> QED BY <2>4, <3>1, <1>8 DEF Wakings
  <2>6. TakenOnce(x.id)'
    BY <2>1, <2>5, <1>1, <1>3, GoneTaken
  <2>7. OnlyTouches(x.id)
    BY <2>1, <1>1, <1>4, <1>9 DEF OnlyTouches, Stays
  <2> QED BY <2>6, <2>7, <1>7
<1>10. CASE Cancelled([id |-> x.id, replay |-> TRUE, res |-> x.res]) /\ starting' = starting
  <2> DEFINE p == [id |-> x.id, replay |-> TRUE, res |-> x.res]
  <2>1. /\ wakes' = Without(wakes, x.id) /\ intents' = intents
        /\ item' = ItemGone(x.id)
    <3>1. p.id = x.id /\ p.replay = TRUE
      OBVIOUS
    <3> HIDE DEF p
    <3>2. Cancelled(p)
      BY <1>10 DEF p
    <3> QED BY <3>1, <3>2 DEF Cancelled, Flush
  <2>2. /\ Without(wakes, x.id)[x.id].st = "none"
        /\ \A i \in Tasks : Stays(wakes, Without(wakes, x.id), i)
    BY <1>2, <1>3, WithoutStays
  <2>3. TakenOnce(x.id)'
    BY <2>1, <2>2, <1>1, <1>3, GoneTaken
  <2>4. OnlyTouches(x.id)
    BY <2>1, <2>2, <1>1, <1>4, <1>10 DEF OnlyTouches
  <2> QED BY <2>3, <2>4, <1>7
<1>11. CASE /\ IsHeld(wakes, x.id)
            /\ Flush(intents, [wakes EXCEPT ![x.id].n = @ + 1], TRUE)
            /\ starting' = starting \cup {[id |-> x.id, replay |-> TRUE, res |-> x.res]}
            /\ item' = item
  <2> DEFINE p == [id |-> x.id, replay |-> TRUE, res |-> x.res]
  <2>1. intents' = intents /\ wakes' = [wakes EXCEPT ![x.id].n = @ + 1]
    BY <1>11 DEF Flush
  <2>2. wakes[x.id].st = "claimed" /\ wakes[x.id].held = TRUE
    BY <1>2, <1>3, <1>11 DEF IsHeld, Rows, Record
  <2>3. /\ \A i \in Tasks : i # x.id => wakes'[i] = wakes[i]
        /\ wakes'[x.id].st = "claimed" /\ wakes'[x.id].held = TRUE
    <3>1. wakes \in [Tasks -> Record] /\ wakes[x.id] \in Record
      BY <1>2, <1>3 DEF Rows
    <3> QED BY <2>1, <2>2, <3>1, <1>2 DEF Record
  <2>4. p.id = x.id /\ p.replay = TRUE /\ starting' = starting \cup {p}
    BY <1>11
  <2> HIDE DEF p
  <2>5. Starts(x.id) = {}
    <3>1. \A q \in Starts(x.id) : q.replay
      BY <1>2, <2>2 DEF TakenOnce
    <3> QED BY <3>1, <1>1 DEF Starts
  <2>6. Starts(x.id)' = {p} /\ Wakings(x.id)' = {} /\ HasItem(x.id)'
    <3>1. Starts(x.id)' = {p}
      BY <2>4, <2>5 DEF Starts
    <3>2. Wakings(x.id)' = {}
      BY <1>1, <1>8 DEF Wakings
    <3>3. HasItem(x.id)'
      BY <1>2, <1>11 DEF HasItem
    <3> QED BY <3>1, <3>2, <3>3
  <2>7. Fresh(x.id)'
    BY <2>1, <1>1, <1>3 DEF Fresh
  <2>8. TakenOnce(x.id)'
    BY <2>3, <2>4, <2>6, <2>7 DEF TakenOnce
  <2>9. OnlyTouches(x.id)
    BY <2>1, <2>3, <2>4, <1>1, <1>11 DEF OnlyTouches, Stays
  <2> QED BY <2>8, <2>9, <1>7
<1>12. CASE Flush(intents, wakes, FALSE) /\ starting' = starting /\ item' = item
  BY <1>1, <1>12, RestTaken DEF Flush, Stays
<1> QED BY <1>9, <1>10, <1>11, <1>12 DEF Drain

(* A turn of the owner's carries no record, and takes none's place.         *)
LEMMA TurnTaken ==
    ASSUME WakeInv, Alive, Up' => Up, starting' = starting, item' = item, hand' = hand,
           intents' \subseteq intents, turn.start = {}, turn'.start = {},
           turn'.at \in {"idle", "setup", "run"},
           \A id \in Tasks : Stays(wakes, wakes', id)
    PROVE  Takers'
<1>1. ASSUME NEW id \in Tasks PROVE TakenOnce(id)'
  <2>1. TakenOnce(id)
    BY DEF WakeInv, Takers
  <2>2. Starts(id)' = Starts(id) /\ (HasItem(id)' <=> HasItem(id))
    BY DEF Starts, HasItem
  <2>3. Wakings(id) = {} /\ Wakings(id)' = {}
    BY DEF Wakings
  <2>4. Untouched(id)
    BY <2>2, <2>3 DEF Untouched, Stays
  <2> QED BY <2>1, <2>4, UntouchedTaken
<1>2. TurnOK'
  BY DEF TurnOK
<1> QED BY <1>1, <1>2 DEF Takers

(* A turn of the owner's, set up, accepted or ended.                        *)
LEMMA OwnTurnTakers ==
    ASSUME WakeInv, OwnTurn
    PROVE  Takers'
<1>1. /\ Alive /\ (Up' => Up) /\ starting' = starting /\ item' = item /\ hand' = hand
      /\ intents' = intents /\ wakes' = wakes /\ turn = Idle
      /\ turn' = [at |-> "setup", carries |-> upd, start |-> {}]
  BY DEF OwnTurn, Alive, Up
<1>2. turn.start = {} /\ turn'.start = {} /\ turn'.at = "setup"
  BY <1>1 DEF Idle
<1> QED BY <1>1, <1>2, TurnTaken DEF Stays

(* Accepted by its engine.                                                  *)
LEMMA AcceptOwnTakers ==
    ASSUME WakeInv, AcceptOwn
    PROVE  Takers'
<1>1. /\ Alive /\ (Up' => Up) /\ starting' = starting /\ item' = item /\ hand' = hand
      /\ intents' = intents /\ wakes' = wakes /\ turn' = Running
  BY DEF AcceptOwn, Alive, Up
<1>2. turn.start = {} /\ turn'.start = {} /\ turn'.at = "run"
  BY <1>1 DEF Running, AcceptOwn, Waking
<1> QED BY <1>1, <1>2, TurnTaken DEF Stays

(* Ended, whatever the thread then forgets.                                 *)
LEMMA TurnEndsTakers ==
    ASSUME WakeInv, TurnEnds
    PROVE  Takers'
<1>1. /\ Alive /\ (Up' => Up) /\ starting' = starting /\ item' = item /\ hand' = hand
      /\ turn' = Idle /\ turn.at = "run"
  BY DEF TurnEnds, Alive, Up
<1>2. turn.start = {} /\ turn'.start = {} /\ turn'.at = "idle"
  BY <1>1 DEF Idle, WakeInv, Takers, TurnOK
<1>3. /\ intents' \subseteq intents
      /\ wakes' = wakes \/ wakes' = NoRecords
  BY DEF TurnEnds, NoWrite, Forget, Flush
<1>4. \A id \in Tasks : Stays(wakes, wakes', id)
  BY <1>3 DEF Stays, NoRecords, NoRecord
<1> QED BY <1>1, <1>2, <1>3, <1>4, TurnTaken

(* A Stop leaves no record, and no item.                                    *)
LEMMA StopTakers ==
    ASSUME WakeInv, Stop
    PROVE  Takers'
<1>1. /\ Alive /\ starting' = starting /\ item' = {} /\ hand' = hand /\ turn' = turn
      /\ intents' = {} /\ wakes' = NoRecords
  BY DEF Stop, Forget, Flush, Alive, Up
<1>2. ASSUME NEW id \in Tasks PROVE TakenOnce(id)'
  <2>1. TakenOnce(id)
    BY DEF WakeInv, Takers
  <2>2. Starts(id)' = Starts(id) /\ Wakings(id)' = Wakings(id) /\ ~HasItem(id)'
    BY <1>1 DEF Starts, Wakings, HasItem
  <2>3. Fresh(id) => Fresh(id)'
    BY <1>1 DEF Fresh
  <2>4. wakes'[id].st = "none"
    BY <1>1 DEF NoRecords, NoRecord
  <2> QED BY <2>1, <2>2, <2>3, <2>4 DEF TakenOnce
<1>3. TurnOK'
  BY <1>1 DEF WakeInv, Takers, TurnOK
<1> QED BY <1>2, <1>3 DEF Takers

(* A server that is down carries nothing.                                   *)
LEMMA LostTakers ==
    ASSUME Lost, proc' = "down"
    PROVE  Takers'
<1>1. starting' = {} /\ turn'.start = {} /\ turn'.at = "idle" /\ ~Alive'
  BY DEF Lost, Idle, Alive
<1>2. \A id \in Tasks : Starts(id)' = {} /\ Wakings(id)' = {} /\ wakes'[id].st = "none"
  BY <1>1 DEF Starts, Wakings, Lost, NoRecords, NoRecord
<1>3. \A id \in Tasks : TakenOnce(id)'
  BY <1>1, <1>2 DEF TakenOnce
<1>4. TurnOK'
  BY <1>1 DEF TurnOK
<1> QED BY <1>3, <1>4 DEF Takers

(* The turn of a start, and the record it is of.                            *)
LEMMA TurnParts ==
    ASSUME WakeInv, Alive, NEW p, p \in turn.start
    PROVE  /\ p \in Start /\ p.id \in Tasks /\ p.replay \in BOOLEAN /\ turn.start = {p}
           /\ Fresh(p.id) /\ TakenOnce(p.id) /\ Wakings(p.id) = {p} /\ Rows(wakes)
           /\ Owned(wakes, p.id) =>
                 /\ Starts(p.id) = {}
                 /\ \/ turn.at = "setup" /\ wakes[p.id].st = "claimed"
                                         /\ wakes[p.id].held = p.replay
                    \/ turn.at = "sent" /\ wakes[p.id].st = "started"
<1>1. p \in Start /\ p.id \in Tasks /\ p.replay \in BOOLEAN
  BY StartTyped
<1>2. turn.start = {p}
  BY DEF WakeInv, Takers, TurnOK
<1>3. TakenOnce(p.id) /\ Wakings(p.id) = {p} /\ Rows(wakes)
  BY <1>1, <1>2, TypedParts DEF WakeInv, Takers, Wakings
<1>4. Fresh(p.id)
  BY <1>3 DEF TakenOnce
<1>5. Owned(wakes, p.id) =>
        /\ Starts(p.id) = {}
        /\ \/ turn.at = "setup" /\ wakes[p.id].st = "claimed"
                                /\ wakes[p.id].held = p.replay
           \/ turn.at = "sent" /\ wakes[p.id].st = "started"
  BY <1>3 DEF TakenOnce, Owned
<1> QED BY <1>1, <1>2, <1>3, <1>4, <1>5

(* A turn that goes on without its record, or leaves it behind.             *)
LEMMA TurnLeaves ==
    ASSUME WakeInv, Alive, Up' => Up, NEW p, p \in turn.start, hand' = hand,
           starting' = starting, intents' \subseteq intents, turn'.start \subseteq {p},
           turn'.at \in {"idle", "run"} => turn'.start = {},
           turn'.at \in {"sent", "early"} => turn'.start # {},
           item' = item \/ item' = ItemGone(p.id),
           \A i \in Tasks : i # p.id => Stays(wakes, wakes', i),
           TakenOnce(p.id)'
    PROVE  Takers'
<1>1. p.id \in Tasks /\ turn.start = {p}
  BY TurnParts
<1>2. OnlyTouches(p.id)
  BY <1>1 DEF OnlyTouches, ItemGone
<1>3. \A i \in Tasks : i # p.id => TakenOnce(i)'
  BY <1>2, OthersTaken
<1>4. TurnOK'
  BY DEF TurnOK
<1> QED BY <1>1, <1>3, <1>4 DEF Takers

(* Its record gone.                                                         *)
LEMMA TurnLeavesNone ==
    ASSUME WakeInv, Alive, Up' => Up, NEW p, p \in turn.start, hand' = hand,
           starting' = starting, intents' \subseteq intents, turn'.start \subseteq {p},
           turn'.at \in {"idle", "run"} => turn'.start = {},
           turn'.at \in {"sent", "early"} => turn'.start # {},
           item' = item \/ item' = ItemGone(p.id),
           wakes' = Without(wakes, p.id) \/ (wakes' = wakes /\ ~Owned(wakes, p.id))
    PROVE  Takers'
<1>1. p.id \in Tasks /\ Fresh(p.id) /\ Rows(wakes)
  BY TurnParts
<1>2. /\ Without(wakes, p.id)[p.id].st = "none"
      /\ \A i \in Tasks : Stays(wakes, Without(wakes, p.id), i)
  BY <1>1, WithoutStays
<1>3. wakes'[p.id].st = "none" /\ \A i \in Tasks : Stays(wakes, wakes', i)
  BY <1>2 DEF Owned, Stays
<1>4. TakenOnce(p.id)'
  BY <1>1, <1>3, GoneTaken
<1> QED BY <1>3, <1>4, TurnLeaves

(* A start refused while its turn is set up.                                *)
LEMMA TurnRefused ==
    ASSUME WakeInv, Alive, proc' = proc, NEW p, p \in turn.start, hand' = hand,
           starting' = starting, turn' = Idle, Owned(wakes, p.id), turn.at = "setup",
           NEW f \in 0 .. 1, Refused(p, TRUE, f)
    PROVE  Takers'
<1>1. /\ p.id \in Tasks /\ Fresh(p.id) /\ Starts(p.id) = {}
      /\ wakes[p.id].st = "claimed" /\ wakes[p.id].held = p.replay
  BY TurnParts
<1>2. TRUE \in BOOLEAN
  OBVIOUS
<1>3. /\ intents' = intents /\ item' = item
      /\ \A i \in Tasks : i # p.id => Stays(wakes, wakes', i)
  BY <1>1, <1>2, RefusedStays
<1>4. turn'.start = {} /\ turn'.at = "idle"
  BY DEF Idle
<1>5. Starts(p.id)' = {} /\ Wakings(p.id)' = {}
  BY <1>1, <1>4 DEF Starts, Wakings
<1>6. TakenOnce(p.id)'
  BY <1>1, <1>2, <1>5, RefusedTaken
<1>7. Up' => Up
  BY DEF Up
<1> QED BY <1>3, <1>4, <1>6, <1>7, TurnLeaves

(* The fence: the record is marked started, by the turn that carries it, or *)
(* it is not the turn's any more.                                           *)
LEMMA FenceTakers ==
    ASSUME WakeInv, Fence
    PROVE  Takers'
<1>1. /\ Alive /\ proc' = proc /\ (Up' => Up) /\ hand' = hand /\ starting' = starting
      /\ turn.at = "setup"
  BY DEF Fence, Up
<1>2. PICK p \in turn.start :
          \/ /\ ~Owned(wakes, p.id)
             /\ turn' = Idle
             /\ item' = IF p.replay THEN ItemGone(p.id) ELSE item
             /\ NoWrite
          \/ /\ Owned(wakes, p.id) /\ Up
             /\ turn' = [turn EXCEPT !.at = "sent"]
             /\ Flush(intents, [wakes EXCEPT ![p.id].st = "started"], TRUE)
             /\ item' = item
          \/ /\ Owned(wakes, p.id)
             /\ turn' = Idle
             /\ Refused(p, TRUE, IF Up THEN 1 ELSE 0)
  BY DEF Fence
<1>3. /\ p.id \in Tasks /\ turn.start = {p} /\ Fresh(p.id) /\ TakenOnce(p.id)
      /\ Wakings(p.id) = {p} /\ Rows(wakes)
      /\ Owned(wakes, p.id) => /\ Starts(p.id) = {} /\ wakes[p.id].st = "claimed"
                               /\ wakes[p.id].held = p.replay
  BY <1>1, TurnParts
<1>4. CASE /\ ~Owned(wakes, p.id) /\ turn' = Idle /\ NoWrite
           /\ item' = IF p.replay THEN ItemGone(p.id) ELSE item
  <2>1. turn'.start = {} /\ turn'.at = "idle" /\ wakes' = wakes /\ intents' = intents
    BY <1>4 DEF Idle, NoWrite
  <2>2. item' = item \/ item' = ItemGone(p.id)
    BY <1>4
  <2> QED BY <2>1, <2>2, <1>1, <1>4, TurnLeavesNone
<1>5. CASE /\ Owned(wakes, p.id) /\ Up /\ turn' = [turn EXCEPT !.at = "sent"]
           /\ Flush(intents, [wakes EXCEPT ![p.id].st = "started"], TRUE)
           /\ item' = item
  <2>1. intents' = intents /\ wakes' = [wakes EXCEPT ![p.id].st = "started"]
    BY <1>5 DEF Flush
  <2>2. /\ \A i \in Tasks : i # p.id => wakes'[i] = wakes[i]
        /\ wakes'[p.id].st = "started" /\ wakes'[p.id].held = wakes[p.id].held
    <3>1. wakes \in [Tasks -> Record] /\ wakes[p.id] \in Record
      BY <1>3 DEF Rows
    <3> QED BY <2>1, <3>1, <1>3 DEF Record
  <2>3. turn'.at = "sent" /\ turn'.start = {p}
    <3>1. turn \in Turn
      BY TypedParts DEF WakeInv
    <3> QED BY <3>1, <1>3, <1>5 DEF Turn
  <2>4. Starts(p.id)' = {} /\ Wakings(p.id)' = {p} /\ Fresh(p.id)'
    <3>1. Starts(p.id)' = {}
      BY <1>1, <1>3, <1>5 DEF Starts
    <3>2. Wakings(p.id)' = {p}
      BY <2>3 DEF Wakings
    <3>3. Fresh(p.id)'
      BY <1>1, <1>3, <2>1 DEF Fresh
    <3> QED BY <3>1, <3>2, <3>3
  <2>5. TakenOnce(p.id)'
    BY <2>2, <2>3, <2>4 DEF TakenOnce
  <2>6. \A i \in Tasks : i # p.id => Stays(wakes, wakes', i)
    BY <2>2 DEF Stays
  <2> QED BY <2>1, <2>3, <2>5, <2>6, <1>1, <1>5, TurnLeaves
<1>6. CASE /\ Owned(wakes, p.id) /\ turn' = Idle
           /\ Refused(p, TRUE, IF Up THEN 1 ELSE 0)
  <2>1. (IF Up THEN 1 ELSE 0) \in 0 .. 1
    OBVIOUS
  <2> QED BY <2>1, <1>1, <1>6, TurnRefused
<1> QED BY <1>2, <1>4, <1>5, <1>6

(* A turn accepted before its fence has no record any more.                 *)
LEMMA FenceDoneTakers ==
    ASSUME WakeInv, FenceDone
    PROVE  Takers'
<1>1. /\ Alive /\ (Up' => Up) /\ hand' = hand /\ starting' = starting /\ item' = item
      /\ turn.at = "early" /\ intents' = intents /\ wakes' = wakes
  BY DEF FenceDone, Up
<1>2. PICK p \in turn.start : turn' = Running \/ turn' = Idle
  BY DEF FenceDone
<1>3. ~Owned(wakes, p.id)
  BY <1>1, TurnParts
<1>4. turn'.start = {} /\ turn'.at \in {"idle", "run"}
  BY <1>2 DEF Running, Idle
<1> QED BY <1>1, <1>3, <1>4, TurnLeavesNone

(* An engine that accepts a wake is done with its record.                   *)
LEMMA AcceptTakers ==
    ASSUME WakeInv, NEW p \in turn.start, Accept(p)
    PROVE  Takers'
<1>1. /\ Alive /\ (Up' => Up) /\ hand' = hand /\ starting' = starting
      /\ item' = item \/ item' = ItemGone(p.id)
  BY DEF Accept, Up
<1>2. turn \in Turn /\ turn.start = {p}
  BY <1>1, TypedParts, TurnParts DEF WakeInv
<1>3. \/ turn'.at = "early" /\ turn'.start = {p}
      \/ turn'.at = "run" /\ turn'.start = {}
  <2>1. turn' = [turn EXCEPT !.at = "early"] \/ turn' = Running
    BY DEF Accept
  <2> QED BY <2>1, <1>2 DEF Turn, Running
<1>4. /\ intents' = intents
      /\ wakes' = Without(wakes, p.id) \/ (wakes' = wakes /\ ~Owned(wakes, p.id))
  BY DEF Accept, Flush, NoWrite
<1> QED BY <1>1, <1>3, <1>4, TurnLeavesNone

(* A setup that fails leaves its record to its item, or to the next claim.  *)
LEMMA SetupFailsTakers ==
    ASSUME WakeInv, SetupFails
    PROVE  Takers'
<1>1. /\ Alive /\ proc' = proc /\ (Up' => Up) /\ hand' = hand /\ starting' = starting
      /\ turn' = Idle /\ turn'.start = {} /\ turn'.at = "idle"
  BY DEF SetupFails, Up, Idle
<1>2. ASSUME NEW p \in turn.start, Cancelled(p)
      PROVE  Takers'
  <2>1. /\ wakes' = Without(wakes, p.id) /\ intents' = intents
        /\ item' = item \/ item' = ItemGone(p.id)
    BY <1>2 DEF Cancelled, Flush
  <2> QED BY <2>1, <1>1, <1>2, TurnLeavesNone
<1>3. ASSUME NEW p \in turn.start, wakes[p.id].st \in {"owed", "claimed"},
             Refused(p, TRUE, 0)
      PROVE  Takers'
  <2>1. 0 \in 0 .. 1
    OBVIOUS
  <2>2. Owned(wakes, p.id)
    BY <1>3 DEF Owned
  <2>3. turn.at = "setup"
    BY <2>2, <1>1, <1>3, TurnParts
  <2> QED BY <2>1, <2>2, <2>3, <1>1, <1>3, TurnRefused
<1>4. ASSUME NEW p \in turn.start, ~Owned(wakes, p.id), NoWrite,
             item' = IF p.replay THEN ItemGone(p.id) ELSE item
      PROVE  Takers'
  <2>1. wakes' = wakes /\ intents' = intents /\ (item' = item \/ item' = ItemGone(p.id))
    BY <1>4 DEF NoWrite
  <2> QED BY <2>1, <1>1, <1>4, TurnLeavesNone
<1>5. CASE ~Waking /\ NoWrite /\ item' = item
  <2>1. turn.start = {} /\ wakes' = wakes /\ intents' = intents
    BY <1>5 DEF Waking, NoWrite
  <2> QED BY <2>1, <1>1, <1>5, TurnTaken DEF Stays
<1> QED BY <1>2, <1>3, <1>4, <1>5 DEF SetupFails

(* A server that boots has nothing in flight: what is held has its item,    *)
(* and an item its record.                                                  *)
LEMMA BootTakers ==
    ASSUME WakeInv, Boot
    PROVE  Takers'
<1>1. /\ hand' = hand /\ starting' = starting /\ turn' = turn
      /\ item' = {x \in item : IsHeld(Restored(disk.wakes), x.id)}
      /\ wakes' = Restored(disk.wakes) /\ proc = "down"
  BY DEF Boot, Flush
<1>2. starting' = {} /\ turn'.start = {} /\ turn'.at = "idle"
  BY <1>1 DEF WakeInv, BookInv, Lasts, Alive, Idle
<1>3. Book(hand', intents', wakes')
  BY BootBooks DEF WakeInv, BookStep, BookInv, Lasts
<1>4. Rows(disk.wakes)
  BY TypedParts DEF WakeInv
<1>5. ASSUME NEW id \in Tasks PROVE TakenOnce(id)'
  <2>1. Starts(id)' = {} /\ Wakings(id)' = {}
    BY <1>2 DEF Starts, Wakings
  <2>2. HasItem(id)' <=> HasItem(id) /\ IsHeld(wakes', id)
    BY <1>1 DEF HasItem
  <2>3. Survives(id, disk.wakes[id]) =>
           /\ wakes'[id].st = IF disk.wakes[id].held THEN "claimed" ELSE "owed"
           /\ wakes'[id].held = disk.wakes[id].held
    BY <1>1, <1>4, RestoredRows
  <2>4. ~Survives(id, disk.wakes[id]) => wakes'[id].st = "none"
    <3>1. ~Survives(id, disk.wakes[id]) => wakes'[id] = NoRecord
      BY <1>1, <1>4, RestoredRows
    <3> QED BY <3>1 DEF NoRecord
  <2>5. HasItem(id)' => Fresh(id)'
    <3>1. HasItem(id)' => wakes'[id].st # "none"
      BY <2>2 DEF IsHeld
    <3> QED BY <3>1, <1>3 DEF Book, Fresh
  <2>6. disk.wakes[id].held \in BOOLEAN /\ (disk.wakes[id].st = "owed" => disk.wakes[id].held = FALSE)
    BY <1>4 DEF Rows, RowOK, Record
  <2>7. wakes'[id].st # "none" /\ disk.wakes[id].held => HasItem(id)
    BY <2>4, <2>6 DEF Survives
  <2>8. wakes'[id].st # "started"
    BY <2>3, <2>4
  <2>9. wakes'[id].st = "claimed" => wakes'[id].held = TRUE /\ HasItem(id)'
    BY <2>2, <2>3, <2>4, <2>6, <2>7 DEF IsHeld
  <2>10. HasItem(id)' => wakes'[id].st = "claimed"
    BY <2>2 DEF IsHeld
  <2> QED BY <2>1, <2>5, <2>8, <2>9, <2>10 DEF TakenOnce
<1>6. TurnOK'
  BY <1>2 DEF TurnOK
<1> QED BY <1>5, <1>6 DEF Takers

(* Nothing is carried at first.                                             *)
LEMMA InitTakers == Init => Takers
<1> SUFFICES ASSUME Init PROVE Takers
  OBVIOUS
<1>1. starting = {} /\ item = {} /\ turn.start = {} /\ turn.at = "idle" /\ wakes = NoRecords
  BY DEF Init, Idle
<1>2. ASSUME NEW id \in Tasks PROVE TakenOnce(id)
  BY <1>1 DEF TakenOnce, Starts, Wakings, HasItem, NoRecords, NoRecord
<1>3. TurnOK
  BY <1>1 DEF TurnOK
<1> QED BY <1>2, <1>3 DEF Takers

-----------------------------------------------------------------------------
(* Theorems *)

(* Every step keeps the books, and who carries a record; and what is        *)
(* forgotten on disk stays forgotten.                                       *)
LEMMA WakeStep ==
    ASSUME WakeInv, Next
    PROVE  BookStep /\ Takers'
<1>0. BookInv
  BY DEF WakeInv
<1>1. ASSUME NEW t \in Tasks, Ask(t) PROVE BookStep /\ Takers'
  BY <1>0, <1>1, AskBooks, AskTakers
<1>2. ASSUME NEW t \in Tasks, Return(t) PROVE BookStep /\ Takers'
  BY <1>0, <1>2, ReturnBooks, ReturnTakers
<1>3. ASSUME NEW t \in Tasks, ReturnStopped(t) PROVE BookStep /\ Takers'
  BY <1>0, <1>3, ReturnStoppedBooks, ReturnStoppedTakers
<1>4. ASSUME NEW t \in Tasks, Check(t) PROVE BookStep /\ Takers'
  BY <1>0, <1>4, CheckBooks, CheckTakers
<1>5. CASE Claim
  BY <1>0, <1>5, ClaimBooks, ClaimTakers
<1>6. ASSUME NEW p, Admit(p) PROVE BookStep /\ Takers'
  BY <1>6, AdmitBooks, AdmitTakers
<1>7. ASSUME NEW x \in item, Drain(x) PROVE BookStep /\ Takers'
  BY <1>7, DrainBooks, DrainTakers
<1>8. CASE OwnTurn
  BY <1>0, <1>8, OwnTurnBooks, OwnTurnTakers
<1>9. CASE Fence
  BY <1>9, FenceBooks, FenceTakers
<1>10. CASE FenceDone
  BY <1>10, FenceDoneBooks, FenceDoneTakers
<1>11. CASE AcceptOwn
  BY <1>0, <1>11, AcceptOwnBooks, AcceptOwnTakers
<1>12. ASSUME NEW p \in turn.start, Accept(p) PROVE BookStep /\ Takers'
  BY <1>12, AcceptBooks, AcceptTakers
<1>13. CASE SetupFails
  BY <1>13, SetupFailsBooks, SetupFailsTakers
<1>14. CASE TurnEnds
  BY <1>0, <1>14, TurnEndsBooks, TurnEndsTakers
<1>15. CASE Stop
  BY <1>0, <1>15, StopBooks, StopTakers
<1>16. CASE Sweep
  BY <1>0, <1>16, SweepBooks, SweepTakers
<1>17. CASE Crash
  <2>1. Takers'
    BY <1>17, LostTakers DEF Crash
  <2> QED BY <1>0, <1>17, <2>1, CrashBooks
<1>18. ASSUME NEW t \in Tasks, CutReturn(t) PROVE BookStep /\ Takers'
  <2>1. Takers'
    BY <1>18, LostTakers DEF CutReturn
  <2> QED BY <1>0, <1>18, <2>1, CutReturnBooks
<1>19. ASSUME NEW p \in starting, TornHold(p) PROVE BookStep /\ Takers'
  <2>1. Takers'
    BY <1>19, LostTakers DEF TornHold
  <2> QED BY <1>0, <1>19, <2>1, TornHoldBooks
<1>20. CASE Close
  BY <1>0, <1>20, CloseBooks, CloseTakers
<1>21. CASE Exit
  <2>1. Takers'
    BY <1>21, LostTakers DEF Exit
  <2> QED BY <1>0, <1>21, <2>1, ExitBooks
<1>22. CASE Boot
  BY <1>0, <1>22, BootBooks, BootTakers
<1>23. ASSUME NEW t \in Tasks, Ticket(t) PROVE BookStep /\ Takers'
  BY <1>0, <1>23, TicketBooks, AskTakers
<1> QED BY <1>1, <1>2, <1>3, <1>4, <1>5, <1>6, <1>7, <1>8, <1>9, <1>10, <1>11, <1>12,
           <1>13, <1>14, <1>15, <1>16, <1>17, <1>18, <1>19, <1>20, <1>21, <1>22, <1>23 DEF Next

(* What does not move is where it was.                                      *)
LEMMA WakeStutter ==
    ASSUME WakeInv, UNCHANGED vars
    PROVE  WakeInv'
<1>1. /\ proc' = proc /\ intents' = intents /\ wakes' = wakes /\ doneIds' = doneIds
      /\ disk' = disk /\ unwritten' = unwritten /\ hand' = hand /\ told' = told
      /\ upd' = upd /\ item' = item /\ starting' = starting /\ turn' = turn
      /\ woke' = woke /\ tries' = tries /\ over' = over /\ spent' = spent
      /\ kept' = kept
  BY DEF vars
<1>2. TypeOK'
  BY <1>1 DEF WakeInv, BookInv, TypeOK
<1>3. Lasts'
  BY <1>1 DEF WakeInv, BookInv, Lasts, Alive, Up, Mentioned, Carried
<1>4. NothingLost'
  BY <1>1 DEF WakeInv, BookInv, NothingLost, Alive, Mentioned, Carried
<1>5. Takers'
  <2>1. TurnOK'
    BY <1>1 DEF WakeInv, Takers, TurnOK
  <2>2. ASSUME NEW id \in Tasks PROVE TakenOnce(id)'
    <3>1. TakenOnce(id)
      BY DEF WakeInv, Takers
    <3> QED BY <3>1, <1>1 DEF TakenOnce, Starts, Wakings, HasItem, Fresh, Alive, Up
  <2> QED BY <2>1, <2>2 DEF Takers
<1> QED BY <1>2, <1>3, <1>4, <1>5 DEF WakeInv, BookInv

(* The invariant the theorems rest on: both books in order, nothing owed    *)
(* lost between them, and every record that is taken with its one carrier.  *)
THEOREM WakeInvHolds == Spec => []WakeInv
<1>1. Init => WakeInv
  BY InitBooks, InitTakers DEF WakeInv
<1>2. WakeInv /\ [Next]_vars => WakeInv'
  BY WakeStep, WakeStutter DEF WakeInv, BookStep
<1> QED BY <1>1, <1>2, PTL DEF Spec

(* Every variable keeps its type: no record runs over its attempts.         *)
THEOREM WakeTypesHold == Spec => []TypeOK
<1>1. WakeInv => TypeOK
  BY DEF WakeInv, BookInv
<1> QED BY <1>1, WakeInvHolds, PTL

(* A hand-off once on disk stays there until its wake went out or it is     *)
(* over: as its ask until the reply's record is written, and as that record *)
(* once Return lets go of the receipt; and memory has it while the server   *)
(* is up.  (One that Ask or Ticket acknowledged with both writes failed is  *)
(* in memory alone until a later write lands, and says nothing till then.)  *)
THEOREM NoHandOffLost == Spec => []NothingLost
<1>1. WakeInv => NothingLost
  BY DEF WakeInv, BookInv
<1> QED BY <1>1, WakeInvHolds, PTL

(* What a flush forgot on disk (Stop, Consume, a wake done) comes back by   *)
(* no restart: Boot restores from the disk alone, and no later write        *)
(* mentions what memory does not hold.  (What Ask or Ticket left in memory  *)
(* alone, both writes having failed, is put on disk late.)                  *)
THEOREM WhatIsGoneStaysGone == Spec => GoneStaysGone
<1>1. WakeInv /\ Next => Gone
  BY WakeStep DEF BookStep
<1>2. WakeInv /\ [Next]_vars =>
        [\A t \in Tasks :
            /\ hand[t] \notin {"none", "refused"} /\ t \notin Mentioned(disk)
            /\ t \in kept \/ t \notin intents \cup Carried(wakes)
            => t \notin Mentioned(disk')]_vars
  BY <1>1 DEF Gone
<1> QED BY <1>2, WakeInvHolds, PTL DEF Spec, GoneStaysGone

(* One start at most has a record, or the turn does.                        *)
LEMMA CarriersCount ==
    ASSUME WakeInv, NEW id \in Tasks, wakes[id].st # "none"
    PROVE  /\ Starts(id) = {} /\ ~Setting(id) => Carriers(id) = 0
           /\ Carriers(id) <= 1
           /\ Starts(id) # {} \/ Setting(id) => Carriers(id) = 1
<1>1. /\ \A p, q \in Starts(id) : p = q
      /\ Starts(id) # {} => Wakings(id) = {}
  BY DEF WakeInv, Takers, TakenOnce
<1>2. Setting(id) => Wakings(id) # {}
  BY DEF Setting, Wakings
<1>3. Starts(id) = {} => Cardinality(Starts(id)) = 0
  BY FS_EmptySet
<1>4. Starts(id) # {} => Cardinality(Starts(id)) = 1
  <2> SUFFICES ASSUME Starts(id) # {} PROVE Cardinality(Starts(id)) = 1
    OBVIOUS
  <2>1. PICK p : Starts(id) = {p}
    BY <1>1
  <2> QED BY <2>1, FS_Singleton
<1> QED BY <1>1, <1>2, <1>3, <1>4 DEF Carriers

(* A record that is owed waits for a claim alone; one that is claimed is    *)
(* carried by one start, the turn it became, or its item; and one that is   *)
(* marked started by the turn whose prompt went out (Claim, Admit, Drain,   *)
(* Fence, and the ways each may fail).                                      *)
THEOREM CarriedByOne == Spec => []OneCarrier
<1>1. WakeInv => OneCarrier
  <2> SUFFICES ASSUME WakeInv, Up, NEW id \in Tasks
               PROVE  LET r == wakes[id]
                      IN /\ r.st = "owed" => Carriers(id) = 0 /\ ~HasItem(id)
                         /\ r.st = "claimed" =>
                               IF r.held THEN Carriers(id) <= 1 /\ HasItem(id)
                               ELSE Carriers(id) = 1 /\ ~HasItem(id)
                         /\ r.st = "started" => /\ Setting(id) /\ turn.at = "sent"
                                                /\ Carriers(id) = 1
    BY DEF OneCarrier
  <2>1. TakenOnce(id) /\ Alive /\ wakes[id].held \in BOOLEAN
    BY TypedParts DEF WakeInv, Takers, Up, Alive, Record
  <2>2. Wakings(id) # {} /\ wakes[id].st # "none" => Setting(id)
    BY <2>1 DEF TakenOnce, Setting, Wakings
  <2>3. Setting(id) => Wakings(id) # {}
    BY DEF Setting, Wakings
  <2>4. CASE wakes[id].st = "owed"
    <3>1. Starts(id) = {} /\ Wakings(id) = {} /\ ~HasItem(id)
      BY <2>1, <2>4 DEF TakenOnce
    <3>2. Carriers(id) = 0
      BY <3>1, <2>3, <2>4, CarriersCount
    <3> QED BY <3>1, <3>2, <2>4
  <2>5. CASE wakes[id].st = "claimed"
    <3>1. Carriers(id) <= 1
      BY <2>5, CarriersCount
    <3>2. wakes[id].held => HasItem(id)
      BY <2>1, <2>5 DEF TakenOnce
    <3>3. ~wakes[id].held => Starts(id) # {} \/ Setting(id)
      BY <2>1, <2>2, <2>5 DEF TakenOnce
    <3>4. ~wakes[id].held => Carriers(id) = 1
      BY <3>3, <2>5, CarriersCount
    <3>5. ~wakes[id].held => ~HasItem(id)
      BY <2>1, <2>5 DEF TakenOnce
    <3> QED BY <3>1, <3>2, <3>4, <3>5, <2>5
  <2>6. CASE wakes[id].st = "started"
    <3>1. Wakings(id) # {} /\ turn.at = "sent"
      BY <2>1, <2>6 DEF TakenOnce
    <3>2. Setting(id) /\ Carriers(id) = 1
      BY <3>1, <2>2, <2>6, CarriersCount
    <3> QED BY <3>1, <3>2, <2>6
  <2> QED BY <2>4, <2>5, <2>6
<1> QED BY <1>1, WakeInvHolds, PTL

-----------------------------------------------------------------------------
(* What a start costs *)

(* The starts a record has paid for: its attempts, the one it is on, and    *)
(* one fewer when a close cut that one.                                     *)
Worth(r) == r.n + (IF r.st = "owed" THEN 0 ELSE 1) - (IF r.cut THEN 1 ELSE 0)

Paid(w, T, c) == \A id \in Tasks : w[id].st # "none" => T[id] <= Worth(w[id]) + c

(* What is not delivered yet has not been started.                          *)
Untried == \A x \in Tasks : hand[x] = "none" \/ x \in intents \/ x \in disk.intents => tries[x] = 0

(* Every start of a record is paid for, in memory and on disk, or a close   *)
(* was.                                                                     *)
TriesInv ==
    /\ Paid(wakes, tries, spent["close"]) /\ Paid(disk.wakes, tries, spent["close"])
    /\ Untried /\ TriesBounded

(* A record goes, is opened, or has paid for no less than it had.           *)
Costs(w, v, id) ==
    \/ v[id].st = "none"
    \/ w[id].st # "none" /\ Worth(v[id]) >= Worth(w[id])
    \/ id \in intents /\ Worth(v[id]) >= 0

(* A step that starts nothing, and gives no payment back.                   *)
Free ==
    /\ tries' = tries /\ spent'["close"] >= spent["close"]
    /\ \A id \in Tasks : Costs(wakes, wakes', id)
    /\ \A x \in Tasks : hand'[x] = "none" => hand[x] = "none"
    /\ \A x \in intents' : x \in intents \/ hand[x] = "none"
    /\ \/ disk'.intents = intents' /\ disk'.wakes = wakes'
       \/ disk' = disk

(* What a record has paid for is a number.                                  *)
LEMMA WorthInt ==
    ASSUME NEW r \in Record
    PROVE  Worth(r) \in Int /\ r.n \in Nat /\ r.n <= MaxAttempts /\ MaxAttempts \in Nat \ {0}
<1>1. r.n \in 0 .. MaxAttempts /\ MaxAttempts \in Nat \ {0}
  BY CapsAssumption DEF Record
<1> QED BY <1>1 DEF Worth

(* The numbers of a state.                                                  *)
LEMMA Numbers ==
    ASSUME WakeInv
    PROVE  /\ spent["close"] \in Nat /\ tries \in [Tasks -> Nat]
           /\ \A id \in Tasks : wakes[id] \in Record /\ disk.wakes[id] \in Record
BY TypedParts DEF WakeInv, Odd, Rows

(* A step that costs nothing keeps every start paid for.                    *)
LEMMA FreeTries ==
    ASSUME WakeInv, WakeInv', TriesInv, Free
    PROVE  TriesInv'
<1>1. /\ spent["close"] \in Nat /\ tries \in [Tasks -> Nat]
      /\ \A id \in Tasks : wakes[id] \in Record /\ disk.wakes[id] \in Record
  BY Numbers
<1>2. spent'["close"] \in Nat /\ \A id \in Tasks : wakes'[id] \in Record
  BY DEF WakeInv, BookInv, TypeOK, Odd
<1>3. tries' = tries /\ spent'["close"] >= spent["close"]
  BY DEF Free
<1>4. Paid(wakes', tries', spent'["close"])
  <2> SUFFICES ASSUME NEW id \in Tasks, wakes'[id].st # "none"
               PROVE  tries[id] <= Worth(wakes'[id]) + spent'["close"]
    BY <1>3 DEF Paid
  <2>1. Worth(wakes'[id]) \in Int /\ Worth(wakes[id]) \in Int /\ tries[id] \in Nat
    BY <1>1, <1>2, WorthInt
  <2>2. CASE wakes[id].st # "none" /\ Worth(wakes'[id]) >= Worth(wakes[id])
    <3>1. tries[id] <= Worth(wakes[id]) + spent["close"]
      BY <2>2 DEF TriesInv, Paid
    <3> QED BY <3>1, <2>1, <2>2, <1>1, <1>2, <1>3
  <2>3. CASE id \in intents /\ Worth(wakes'[id]) >= 0
    <3>1. tries[id] = 0
      BY <2>3 DEF TriesInv, Untried
    <3> QED BY <3>1, <2>1, <2>3, <1>2
  <2> QED BY <2>2, <2>3 DEF Free, Costs
<1>5. Paid(disk'.wakes, tries', spent'["close"])
  <2>1. CASE disk'.wakes = wakes'
    BY <2>1, <1>4
  <2>2. CASE disk' = disk
    <3> SUFFICES ASSUME NEW id \in Tasks, disk.wakes[id].st # "none"
                 PROVE  tries[id] <= Worth(disk.wakes[id]) + spent'["close"]
      BY <1>3, <2>2 DEF Paid
    <3>1. tries[id] <= Worth(disk.wakes[id]) + spent["close"]
      BY DEF TriesInv, Paid
    <3>2. Worth(disk.wakes[id]) \in Int /\ tries[id] \in Nat
      BY <1>1, WorthInt
    <3> QED BY <3>1, <3>2, <1>1, <1>2, <1>3
  <2> QED BY <2>1, <2>2 DEF Free
<1>6. Untried'
  BY <1>3 DEF Free, Untried, TriesInv
<1>7. TriesBounded'
  <2> SUFFICES ASSUME NEW t \in Tasks
               PROVE  tries[t] <= MaxAttempts + 1 + spent'["close"]
    BY <1>3 DEF TriesBounded
  <2>1. tries[t] <= MaxAttempts + 1 + spent["close"] /\ tries[t] \in Nat
    BY <1>1 DEF TriesInv, TriesBounded
  <2>2. MaxAttempts \in Nat
    BY CapsAssumption
  <2> QED BY <2>1, <2>2, <1>1, <1>2, <1>3
<1> QED BY <1>4, <1>5, <1>6, <1>7 DEF TriesInv

(* A clean close is counted, and nothing that happens is uncounted.         *)
LEMMA SpendsMore ==
    ASSUME NEW O, NEW f \in Nat, spent \in [Odd -> Nat], Spends(O, f)
    PROVE  /\ \A o \in Odd : spent'[o] >= spent[o] /\ spent'[o] \in Nat
           /\ \A o \in O : o \in Odd => spent'[o] >= spent[o] + 1
           /\ spent'["fail"] >= spent["fail"] + f
<1>1. CASE O = {} /\ f = 0 /\ UNCHANGED spent
  BY <1>1 DEF Odd
<1>2. CASE spent' = [o \in Odd |-> spent[o] + (IF o \in O THEN 1 ELSE 0)
                                            + (IF o = "fail" THEN f ELSE 0)
                                            + (IF o = "along" /\ f > 1 THEN f - 1 ELSE 0)]
  <2>1. ASSUME NEW o \in Odd
        PROVE  /\ spent'[o] \in Nat
               /\ spent'[o] >= spent[o] + (IF o \in O THEN 1 ELSE 0)
                                        + (IF o = "fail" THEN f ELSE 0)
    <3>1. (IF o = "along" /\ f > 1 THEN f - 1 ELSE 0) \in Nat
      OBVIOUS
    <3>2. /\ (IF o \in O THEN 1 ELSE 0) \in Nat
          /\ (IF o = "fail" THEN f ELSE 0) \in Nat
          /\ spent[o] \in Nat
      OBVIOUS
    <3>3. spent'[o] = spent[o] + (IF o \in O THEN 1 ELSE 0)
                               + (IF o = "fail" THEN f ELSE 0)
                               + (IF o = "along" /\ f > 1 THEN f - 1 ELSE 0)
      BY <1>2
    <3> QED BY <3>1, <3>2, <3>3
  <2>2. "fail" \in Odd
    BY DEF Odd
  <2>3. \A o \in Odd : /\ spent[o] \in Nat /\ spent'[o] \in Nat /\ spent'[o] >= spent[o]
                       /\ o \in O => spent'[o] >= spent[o] + 1
    <3> TAKE o \in Odd
    <3>1. (IF o = "fail" THEN f ELSE 0) \in Nat
      OBVIOUS
    <3> QED BY <2>1, <3>1
  <2>4. spent'["fail"] >= spent["fail"] + f
    <3>1. spent'["fail"] \in Nat /\ spent["fail"] \in Nat
      BY <2>1, <2>2
    <3>2. spent'["fail"] >= spent["fail"] + (IF "fail" \in O THEN 1 ELSE 0) + f
      BY <2>1, <2>2
    <3> QED BY <3>1, <3>2
  <2> QED BY <2>3, <2>4
<1> QED BY <1>1, <1>2 DEF Spends

(* The same, of a write that may fail.                                      *)
LEMMA SpendsOne ==
    ASSUME WakeInv, NEW O, NEW f \in 0 .. 2, NEW ok \in BOOLEAN, Spends(O, f + Failed(ok))
    PROVE  spent'["close"] >= spent["close"]
<1>1. f + Failed(ok) \in Nat
  BY DEF Failed
<1>2. spent \in [Odd -> Nat]
  BY TypedParts DEF WakeInv
<1> QED BY <1>1, <1>2, SpendsMore DEF Odd

(* A record that is as it was, but for its replies, has paid as much.       *)
LEMMA SameCosts ==
    ASSUME NEW w, Rows(w), NEW v, NEW id \in Tasks,
           v[id].st = "none" \/ /\ v[id].st = w[id].st /\ v[id].n = w[id].n
                                /\ v[id].cut = w[id].cut
    PROVE  Costs(w, v, id)
<1>1. CASE v[id].st = "none"
  BY <1>1 DEF Costs
<1>2. CASE v[id].st # "none" /\ v[id].st = w[id].st /\ v[id].n = w[id].n /\ v[id].cut = w[id].cut
  <2>1. Worth(v[id]) = Worth(w[id])
    BY <1>2 DEF Worth
  <2>2. Worth(w[id]) \in Int
    BY WorthInt DEF Rows
  <2> QED BY <1>2, <2>1, <2>2 DEF Costs
<1> QED BY <1>1, <1>2

(* Records as they were, or one of them gone.                               *)
LEMMA WithoutCosts ==
    ASSUME NEW w, Rows(w), NEW k \in Tasks, NEW id \in Tasks
    PROVE  Costs(w, Without(w, k), id) /\ Costs(w, w, id)
<1>1. CASE id = k \/ w[id].st = "none"
  <2>1. Without(w, k)[id] = NoRecord
    BY <1>1, WithoutRows
  <2>2. Without(w, k)[id].st = "none"
    BY <2>1 DEF NoRecord
  <2> QED BY <2>2, SameCosts
<1>2. CASE id # k /\ w[id].st # "none"
  <2>1. /\ Without(w, k)[id].st = w[id].st /\ Without(w, k)[id].n = w[id].n
        /\ Without(w, k)[id].cut = w[id].cut
    BY <1>2, WithoutRows
  <2> QED BY <2>1, SameCosts
<1> QED BY <1>1, <1>2

(* A record changed alone, for no less.                                     *)
LEMMA SetCosts ==
    ASSUME NEW w, Rows(w), NEW k \in Tasks, w[k].st # "none", NEW r, Worth(r) >= Worth(w[k]),
           NEW id \in Tasks
    PROVE  Costs(w, [w EXCEPT ![k] = r], id)
<1>1. [w EXCEPT ![k] = r][id] = IF id = k THEN r ELSE w[id]
  BY DEF Rows
<1>2. CASE id = k
  BY <1>1, <1>2 DEF Costs
<1>3. CASE id # k
  BY <1>1, <1>3, SameCosts
<1> QED BY <1>2, <1>3

(* A claim given back has its attempt counted.                              *)
LEMMA GivenBackCosts ==
    ASSUME NEW w, Rows(w), NEW k \in Tasks, w[k].st # "none", w[k].cut = FALSE,
           NEW id \in Tasks
    PROVE  Costs(w, GivenBack(w, k), id)
<1>1. CASE w[k].n + 1 >= MaxAttempts
  <2>1. GivenBack(w, k) = Without(w, k)
    BY <1>1, GivenBackRow
  <2> QED BY <2>1, WithoutCosts
<1>2. CASE ~(w[k].n + 1 >= MaxAttempts)
  <2>1. \E r : /\ RowOK(r) /\ r.res = w[k].res /\ r.st = "owed"
               /\ r.n = w[k].n + 1 /\ r.cut = FALSE /\ r.held = FALSE
               /\ GivenBack(w, k) = [w EXCEPT ![k] = r]
    BY <1>2, GivenBackRow
  <2>2. PICK r : /\ r.st = "owed" /\ r.n = w[k].n + 1 /\ r.cut = FALSE
                 /\ GivenBack(w, k) = [w EXCEPT ![k] = r]
    BY <2>1
  <2>3. Worth(r) >= Worth(w[k])
    <3>1. w[k].n \in Nat
      BY WorthInt DEF Rows
    <3> QED BY <3>1, <2>2 DEF Worth
  <2>4. Costs(w, [w EXCEPT ![k] = r], id)
    BY <2>3, SetCosts
  <2> QED BY <2>2, <2>4
<1> QED BY <1>1, <1>2

(* A write, that may fail, of records that have paid for no less.           *)
LEMMA FlushFree ==
    ASSUME WakeInv, NEW I, NEW w, NEW ok \in BOOLEAN, Flush(I, w, ok), I \subseteq intents,
           \A id \in Tasks : Costs(wakes, w, id),
           tries' = tries, spent'["close"] >= spent["close"],
           \A x \in Tasks : hand'[x] = "none" => hand[x] = "none"
    PROVE  Free
<1>1. intents' = I /\ wakes' = w /\ disk' = IF ok THEN [intents |-> I, wakes |-> w] ELSE disk
  BY DEF Flush
<1>2. \/ disk'.intents = intents' /\ disk'.wakes = wakes'
      \/ disk' = disk
  BY <1>1
<1> QED BY <1>1, <1>2 DEF Free

(* No write.                                                                *)
LEMMA NoWriteFree ==
    ASSUME WakeInv, NoWrite, tries' = tries, spent'["close"] >= spent["close"],
           \A x \in Tasks : hand'[x] = "none" => hand[x] = "none"
    PROVE  Free
<1>1. Rows(wakes)
  BY TypedParts DEF WakeInv
<1>2. \A id \in Tasks : Costs(wakes, wakes, id)
  BY <1>1, WithoutCosts
<1> QED BY <1>2 DEF Free, NoWrite

(* A start refused.                                                         *)
LEMMA RefusedFree ==
    ASSUME WakeInv, NEW p, p.id \in Tasks, Owned(wakes, p.id),
           NEW again \in BOOLEAN, NEW f \in 0 .. 1, Refused(p, again, f),
           tries' = tries, hand' = hand
    PROVE  Free
<1> DEFINE w == IF again THEN GivenBack(wakes, p.id) ELSE Without(wakes, p.id)
<1>1. /\ Rows(wakes) /\ wakes[p.id].st # "none" /\ (Up => wakes[p.id].cut = FALSE)
      /\ spent \in [Odd -> Nat]
  BY TypedParts DEF WakeInv, BookInv, Lasts, Owned
<1>2. CASE Up /\ \E ok \in BOOLEAN : Flush(intents, w, ok) /\ Spends({}, f + Failed(ok))
  <2>1. PICK ok \in BOOLEAN : Flush(intents, w, ok) /\ Spends({}, f + Failed(ok))
    BY <1>2
  <2>2. \A id \in Tasks : Costs(wakes, w, id)
    <3>1. again => w = GivenBack(wakes, p.id)
      OBVIOUS
    <3>2. ~again => w = Without(wakes, p.id)
      OBVIOUS
    <3> HIDE DEF w
    <3>3. \A id \in Tasks : Costs(wakes, GivenBack(wakes, p.id), id)
      BY <1>1, <1>2, GivenBackCosts
    <3>4. \A id \in Tasks : Costs(wakes, Without(wakes, p.id), id)
      BY <1>1, WithoutCosts
    <3> QED BY <3>1, <3>2, <3>3, <3>4
  <2> HIDE DEF w
  <2>3. spent'["close"] >= spent["close"]
    <3>1. f \in 0 .. 2
      OBVIOUS
    <3> QED BY <3>1, <2>1, SpendsOne
  <2> QED BY <2>1, <2>2, <2>3, FlushFree
<1>3. CASE /\ IF f > 0 THEN Flush(intents, wakes, FALSE) ELSE NoWrite
           /\ Spends({}, f)
  <2>1. spent'["close"] >= spent["close"]
    BY <1>1, <1>3, SpendsMore DEF Odd
  <2>2. \A id \in Tasks : Costs(wakes, wakes, id)
    BY <1>1, WithoutCosts
  <2>3. CASE Flush(intents, wakes, FALSE)
    BY <2>1, <2>2, <2>3, FlushFree
  <2>4. CASE NoWrite
    BY <2>1, <2>4, NoWriteFree
  <2> QED BY <1>3, <2>3, <2>4
<1>4. \/ Up /\ \E ok \in BOOLEAN : Flush(intents, w, ok) /\ Spends({}, f + Failed(ok))
      \/ /\ IF f > 0 THEN Flush(intents, wakes, FALSE) ELSE NoWrite
         /\ Spends({}, f)
  BY DEF Refused
<1> HIDE DEF w
<1> QED BY <1>2, <1>3, <1>4

(* Writes that count one failure more when they fail.                       *)
LEMMA SpendsWrite ==
    ASSUME WakeInv, NEW O, NEW ok \in BOOLEAN, Spends(O, Failed(ok))
    PROVE  spent'["close"] >= spent["close"]
<1>1. Failed(ok) \in Nat
  BY DEF Failed
<1>2. spent \in [Odd -> Nat]
  BY TypedParts DEF WakeInv
<1> QED BY <1>1, <1>2, SpendsMore DEF Odd

(* A wake cancelled.                                                        *)
LEMMA CancelledFree ==
    ASSUME WakeInv, NEW p, p.id \in Tasks, Cancelled(p), tries' = tries, hand' = hand
    PROVE  Free
<1>1. PICK ok \in BOOLEAN : /\ Flush(intents, Without(wakes, p.id), ok)
                            /\ Spends({}, Failed(ok))
  BY DEF Cancelled
<1>2. Rows(wakes)
  BY TypedParts DEF WakeInv
<1>3. \A id \in Tasks : Costs(wakes, Without(wakes, p.id), id)
  BY <1>2, WithoutCosts
<1>4. spent'["close"] >= spent["close"]
  BY <1>1, SpendsWrite
<1> QED BY <1>1, <1>3, <1>4, FlushFree

(* What is forgotten costs nothing.                                         *)
LEMMA ForgetFree ==
    ASSUME WakeInv, NEW O, Forget(O), tries' = tries, hand' = hand
    PROVE  Free
<1>1. PICK ok \in BOOLEAN : Flush({}, NoRecords, ok) /\ Spends(O, Failed(ok))
  BY DEF Forget
<1>2. \A id \in Tasks : Costs(wakes, NoRecords, id)
  BY DEF Costs, NoRecords, NoRecord
<1>3. spent'["close"] >= spent["close"]
  BY <1>1, SpendsWrite
<1> QED BY <1>1, <1>2, <1>3, FlushFree

(* Nor does a reply consumed.                                               *)
LEMMA ConsumedCosts ==
    ASSUME Rows(wakes), NEW t, NEW id \in Tasks
    PROVE  Costs(wakes, Consumed(t), id)
<1> DEFINE w == [i \in Tasks |->
                    IF i \in Owing(wakes) THEN [wakes[i] EXCEPT !.res = @ \ {t}]
                    ELSE wakes[i]]
           K == {i \in Tasks : w[i].res # {}}
<1>1. Consumed(t)[id] = IF id \in K THEN [w[id] EXCEPT !.ahead = @ \cap K] ELSE NoRecord
  BY DEF Consumed, Kept
<1>2. wakes[id] \in Record
  BY DEF Rows
<1>3. /\ w[id] \in Record /\ w[id].st = wakes[id].st /\ w[id].n = wakes[id].n
      /\ w[id].cut = wakes[id].cut
  <2>1. w[id] = IF id \in Owing(wakes) THEN [wakes[id] EXCEPT !.res = @ \ {t}] ELSE wakes[id]
    OBVIOUS
  <2> HIDE DEF w
  <2> QED BY <2>1, <1>2 DEF Record
<1> HIDE DEF w, K
<1>4. CASE id \in K
  <2>1. /\ Consumed(t)[id].st = w[id].st /\ Consumed(t)[id].n = w[id].n
        /\ Consumed(t)[id].cut = w[id].cut
    BY <1>1, <1>3, <1>4 DEF Record
  <2> QED BY <2>1, <1>3, SameCosts
<1>5. CASE id \notin K
  <2>1. Consumed(t)[id].st = "none"
    BY <1>1, <1>5 DEF NoRecord
  <2> QED BY <2>1, SameCosts
<1> QED BY <1>4, <1>5

(* With its write.                                                          *)
LEMMA ConsumeFree ==
    ASSUME WakeInv, NEW t, NEW ok \in BOOLEAN, Consume(t, ok), Spends({}, Failed(ok)),
           tries' = tries, \A x \in Tasks : hand'[x] = "none" => hand[x] = "none"
    PROVE  Free
<1>1. Rows(wakes)
  BY TypedParts DEF WakeInv
<1>2. spent'["close"] >= spent["close"]
  BY SpendsWrite
<1>3. CASE Flush(intents \ {t}, Consumed(t), ok)
  <2>1. \A id \in Tasks : Costs(wakes, Consumed(t), id)
    BY <1>1, ConsumedCosts
  <2>2. intents \ {t} \subseteq intents
    OBVIOUS
  <2> QED BY <1>2, <1>3, <2>1, <2>2, FlushFree
<1>4. CASE NoWrite
  BY <1>2, <1>4, NoWriteFree
<1> QED BY <1>3, <1>4 DEF Consume

(* A hand-off asked has cost nothing yet.                                   *)
LEMMA AskFree ==
    ASSUME WakeInv, NEW t \in Tasks, Ask(t) \/ Ticket(t)
    PROVE  Free
<1>1. /\ tries' = tries /\ hand[t] = "none" /\ wakes' = wakes
      /\ intents' \subseteq intents \cup {t}
      /\ \/ disk' = [intents |-> intents', wakes |-> wakes'] \/ disk' = disk
  BY DEF Ask, Ticket, Acknowledged, Flush, history
<1>2. \A x \in Tasks : hand'[x] = "none" => hand[x] = "none"
  BY TypedParts DEF WakeInv, Ask, Ticket, Acknowledged
<1>3. \A id \in Tasks : Costs(wakes, wakes, id)
  BY TypedParts, WithoutCosts DEF WakeInv
<1>4. spent'["close"] >= spent["close"]
  <2>1. PICK f \in 0 .. 3 : Spends({}, f)
    <3>1. \A ok \in BOOLEAN : 2 + Failed(ok) \in 0 .. 3
      BY DEF Failed
    <3>2. \A f \in 0 .. 2 : f \in 0 .. 3
      OBVIOUS
    <3> QED BY <3>1, <3>2 DEF Ask, Ticket, Acknowledged
  <2>2. spent \in [Odd -> Nat] /\ f \in Nat
    BY TypedParts DEF WakeInv
  <2> QED BY <2>1, <2>2, SpendsMore DEF Odd
<1>5. \/ disk'.intents = intents' /\ disk'.wakes = wakes'
      \/ disk' = disk
  BY <1>1
<1> QED BY <1>1, <1>2, <1>3, <1>4, <1>5 DEF Free

(* A record just opened has paid for nothing.                               *)
LEMMA OpenWorth ==
    ASSUME NEW r, r.st = "owed", r.cut = FALSE, r.n = 0
    PROVE  Worth(r) = 0
<1>1. (IF r.st = "owed" THEN 0 ELSE 1) = 0
  OBVIOUS
<1>2. (IF r.cut THEN 1 ELSE 0) = 0
  OBVIOUS
<1>3. Worth(r) = 0 + 0 - 0
  BY <1>1, <1>2 DEF Worth
<1> QED BY <1>3

(* A reply opens a record at no cost, or joins one.                         *)
LEMMA ReturnFree ==
    ASSUME WakeInv, NEW t \in Tasks, Return(t)
    PROVE  Free
<1>1. tries' = tries /\ spent \in [Odd -> Nat] /\ Rows(wakes) /\ Book(hand, intents, wakes)
  BY TypedParts DEF Return, WakeInv, BookInv, Lasts
<1>2. \A x \in Tasks : hand'[x] = "none" => hand[x] = "none"
  BY TypedParts DEF WakeInv, Return
<1>3. CASE Intends(t) /\ \E w \in Delivered(t), ok \in BOOLEAN :
                 Flush(intents \ {t}, w, ok) /\ Spends({}, Failed(ok))
  <2>1. PICK w \in Delivered(t), ok \in BOOLEAN :
               Flush(intents \ {t}, w, ok) /\ Spends({}, Failed(ok))
    BY <1>3
  <2>2. t \in intents
    BY <1>3 DEF Intends
  <2>3. \E id \in Tasks : Adds(t, w, id)
    BY <1>1, <2>2, DeliveredRows
  <2>4. PICK k \in Tasks : Adds(t, w, k)
    BY <2>3
  <2>5. ASSUME NEW id \in Tasks PROVE Costs(wakes, w, id)
    <3>1. CASE id # k
      <4>1. w[id] = wakes[id]
        BY <2>4, <3>1 DEF Adds
      <4> QED BY <4>1, <1>1, SameCosts
    <3>2. CASE id = k /\ wakes[k].st = "owed"
      <4>1. wakes[k].cut = FALSE
        BY <1>1, <3>2 DEF Rows, RowOK
      <4>2. w[k].st = "owed" /\ w[k].cut = FALSE /\ w[k].n = wakes[k].n
        BY <2>4, <3>2 DEF Adds
      <4> QED BY <4>1, <4>2, <3>2, <1>1, SameCosts
    <3>3. CASE id = k /\ k = t /\ wakes[k].st = "none"
      <4>1. w[k].st = "owed" /\ w[k].cut = FALSE /\ w[k].n = 0
        BY <2>4, <3>3 DEF Adds
      <4>2. Worth(w[k]) = 0
        BY <4>1, OpenWorth
      <4> QED BY <4>2, <3>3, <2>2 DEF Costs
    <3> QED BY <3>1, <3>2, <3>3, <2>4 DEF Adds
  <2>6. spent'["close"] >= spent["close"]
    BY <2>1, SpendsWrite
  <2>7. intents \ {t} \subseteq intents
    OBVIOUS
  <2> QED BY <1>1, <1>2, <2>1, <2>5, <2>6, <2>7, FlushFree
<1>4. CASE intents' \subseteq intents /\ UNCHANGED <<wakes, disk, spent>>
  <2>1. \A id \in Tasks : Costs(wakes, wakes, id)
    BY <1>1, WithoutCosts
  <2>2. spent'["close"] >= spent["close"]
    BY <1>1, <1>4 DEF Odd
  <2> QED BY <1>1, <1>2, <1>4, <2>1, <2>2 DEF Free
<1> QED BY <1>3, <1>4 DEF Return, NoWrite

(* A hand-off that was stopped, and one the asker read.                     *)
LEMMA ReturnStoppedFree ==
    ASSUME WakeInv, NEW t \in Tasks, ReturnStopped(t)
    PROVE  Free
<1>1. tries' = tries /\ \E ok \in BOOLEAN : Consume(t, ok) /\ Spends({}, Failed(ok))
  BY DEF ReturnStopped
<1>2. \A x \in Tasks : hand'[x] = "none" => hand[x] = "none"
  BY TypedParts DEF WakeInv, ReturnStopped
<1>3. PICK ok \in BOOLEAN : Consume(t, ok) /\ Spends({}, Failed(ok))
  BY <1>1
<1> QED BY <1>1, <1>2, <1>3, ConsumeFree

(* The asker reads the receipt.                                             *)
LEMMA CheckFree ==
    ASSUME WakeInv, NEW t \in Tasks, Check(t)
    PROVE  Free
<1>1. tries' = tries /\ hand' = hand /\ \E ok \in BOOLEAN : Consume(t, ok) /\ Spends({}, Failed(ok))
  BY DEF Check
<1>2. PICK ok \in BOOLEAN : Consume(t, ok) /\ Spends({}, Failed(ok))
  BY <1>1
<1> QED BY <1>1, <1>2, ConsumeFree

(* An admission is of a start already counted.                              *)
LEMMA AdmitFree ==
    ASSUME WakeInv, NEW p, Admit(p)
    PROVE  Free
<1>1. tries' = tries /\ hand' = hand /\ p \in starting
  BY DEF Admit
<1>2. p.id \in Tasks /\ Rows(wakes) /\ spent \in [Odd -> Nat] /\ TakenOnce(p.id)
  BY <1>1, StartTyped, TypedParts DEF WakeInv, Takers
<1>3. CASE NoWrite /\ spent' = spent
  <2>1. spent'["close"] >= spent["close"]
    BY <1>2, <1>3 DEF Odd
  <2> QED BY <2>1, <1>1, <1>3, NoWriteFree
<1>4. CASE Cancelled(p)
  BY <1>1, <1>2, <1>4, CancelledFree
<1>5. ASSUME Owned(wakes, p.id), NEW again \in BOOLEAN, Refused(p, again, 0)
      PROVE  Free
  <2>1. 0 \in 0 .. 1
    OBVIOUS
  <2> QED BY <2>1, <1>1, <1>2, <1>5, RefusedFree
<1>6. CASE Owned(wakes, p.id) /\ (Refused(p, TRUE, 0) \/ Refused(p, FALSE, 0))
  <2>1. CASE Refused(p, TRUE, 0)
    BY <1>5, <1>6, <2>1
  <2>2. CASE Refused(p, FALSE, 0)
    BY <1>5, <1>6, <2>2
  <2> QED BY <1>6, <2>1, <2>2
<1>7. CASE /\ Owned(wakes, p.id)
           /\ \E ok \in BOOLEAN :
                 /\ Flush(intents, [wakes EXCEPT ![p.id].held = TRUE], ok)
                 /\ Spends({"hold"}, Failed(ok))
  <2>1. PICK ok \in BOOLEAN : /\ Flush(intents, [wakes EXCEPT ![p.id].held = TRUE], ok)
                              /\ Spends({"hold"}, Failed(ok))
    BY <1>7
  <2>2. \A id \in Tasks : Costs(wakes, [wakes EXCEPT ![p.id].held = TRUE], id)
    <3> TAKE id \in Tasks
    <3> DEFINE v == [wakes EXCEPT ![p.id].held = TRUE]
    <3>1. wakes \in [Tasks -> Record] /\ wakes[id] \in Record
      BY <1>2 DEF Rows
    <3>2. v[id].st = wakes[id].st /\ v[id].n = wakes[id].n /\ v[id].cut = wakes[id].cut
      BY <3>1, <1>2 DEF Record
    <3> HIDE DEF v
    <3>3. Costs(wakes, v, id)
      BY <3>2, <1>2, SameCosts
    <3> QED BY <3>3 DEF v
  <2>3. spent'["close"] >= spent["close"]
    BY <2>1, SpendsWrite
  <2> QED BY <1>1, <2>1, <2>2, <2>3, FlushFree
<1> QED BY <1>3, <1>4, <1>6, <1>7 DEF Admit

(* Nor does the fence start it again.                                       *)
LEMMA FenceFree ==
    ASSUME WakeInv, Fence
    PROVE  Free
<1>1. Alive /\ tries' = tries /\ hand' = hand /\ turn.at = "setup"
  BY DEF Fence
<1>2. PICK p \in turn.start :
          \/ NoWrite /\ spent' = spent
          \/ /\ Owned(wakes, p.id) /\ spent' = spent
             /\ Flush(intents, [wakes EXCEPT ![p.id].st = "started"], TRUE)
          \/ /\ Owned(wakes, p.id)
             /\ Refused(p, TRUE, IF Up THEN 1 ELSE 0)
  BY DEF Fence
<1>3. /\ p.id \in Tasks /\ Rows(wakes) /\ spent \in [Odd -> Nat]
      /\ Owned(wakes, p.id) => wakes[p.id].st = "claimed"
  BY <1>1, TurnParts, TypedParts DEF WakeInv
<1>4. spent' = spent => spent'["close"] >= spent["close"]
  BY <1>3 DEF Odd
<1>5. CASE NoWrite /\ spent' = spent
  BY <1>1, <1>4, <1>5, NoWriteFree
<1>6. CASE /\ Owned(wakes, p.id) /\ spent' = spent
           /\ Flush(intents, [wakes EXCEPT ![p.id].st = "started"], TRUE)
  <2>1. \A id \in Tasks : Costs(wakes, [wakes EXCEPT ![p.id].st = "started"], id)
    <3> TAKE id \in Tasks
    <3>1. \E r : /\ RowOK(r) /\ r.res = wakes[p.id].res /\ r.cut = wakes[p.id].cut
                 /\ r.n = wakes[p.id].n /\ r.st = "started" /\ r.held = wakes[p.id].held
                 /\ [wakes EXCEPT ![p.id].st = "started"] = [wakes EXCEPT ![p.id] = r]
      BY <1>3, <1>6, SetRow DEF Owned
    <3>2. PICK r : /\ r.cut = wakes[p.id].cut /\ r.n = wakes[p.id].n /\ r.st = "started"
                   /\ [wakes EXCEPT ![p.id].st = "started"] = [wakes EXCEPT ![p.id] = r]
      BY <3>1
    <3>3. Worth(r) = Worth(wakes[p.id])
      BY <3>2, <1>3, <1>6 DEF Worth
    <3>4. Worth(wakes[p.id]) \in Int
      BY <1>3, WorthInt DEF Rows
    <3>5. Worth(r) >= Worth(wakes[p.id]) /\ wakes[p.id].st # "none"
      BY <3>3, <3>4, <1>6 DEF Owned
    <3>6. Costs(wakes, [wakes EXCEPT ![p.id] = r], id)
      BY <3>5, <1>3, SetCosts
    <3> QED BY <3>2, <3>6
  <2> QED BY <2>1, <1>1, <1>4, <1>6, FlushFree
<1>7. CASE Owned(wakes, p.id) /\ Refused(p, TRUE, IF Up THEN 1 ELSE 0)
  <2>1. (IF Up THEN 1 ELSE 0) \in 0 .. 1 /\ TRUE \in BOOLEAN
    OBVIOUS
  <2> QED BY <2>1, <1>1, <1>3, <1>7, RefusedFree
<1> QED BY <1>2, <1>5, <1>6, <1>7

(* Nor an engine that accepts.                                              *)
LEMMA AcceptFree ==
    ASSUME WakeInv, NEW p \in turn.start, Accept(p)
    PROVE  Free
<1>1. Alive /\ tries' = tries /\ hand' = hand
  BY DEF Accept
<1>2. p.id \in Tasks /\ Rows(wakes) /\ spent \in [Odd -> Nat]
  BY <1>1, TurnParts, TypedParts DEF WakeInv
<1>3. CASE \E ok \in BOOLEAN :
              Flush(intents, Without(wakes, p.id), ok) /\ Spends({}, Failed(ok))
  <2>1. PICK ok \in BOOLEAN :
              Flush(intents, Without(wakes, p.id), ok) /\ Spends({}, Failed(ok))
    BY <1>3
  <2>2. \A id \in Tasks : Costs(wakes, Without(wakes, p.id), id)
    BY <1>2, WithoutCosts
  <2>3. spent'["close"] >= spent["close"]
    BY <2>1, SpendsWrite
  <2> QED BY <1>1, <2>1, <2>2, <2>3, FlushFree
<1>4. CASE NoWrite /\ spent' = spent
  <2>1. spent'["close"] >= spent["close"]
    BY <1>2, <1>4 DEF Odd
  <2> QED BY <2>1, <1>1, <1>4, NoWriteFree
<1> QED BY <1>3, <1>4 DEF Accept

(* Nor a setup that fails.                                                  *)
LEMMA SetupFailsFree ==
    ASSUME WakeInv, SetupFails
    PROVE  Free
<1>1. Alive /\ tries' = tries /\ hand' = hand /\ spent \in [Odd -> Nat]
  BY TypedParts DEF SetupFails, WakeInv
<1>2. \A p \in turn.start : p.id \in Tasks
  BY <1>1, TurnParts
<1>3. ASSUME NEW p \in turn.start, Cancelled(p) PROVE Free
  BY <1>1, <1>2, <1>3, CancelledFree
<1>4. ASSUME NEW p \in turn.start, wakes[p.id].st \in {"owed", "claimed"}, Refused(p, TRUE, 0)
      PROVE  Free
  <2>1. 0 \in 0 .. 1 /\ TRUE \in BOOLEAN
    OBVIOUS
  <2>2. Owned(wakes, p.id)
    BY <1>4 DEF Owned
  <2> QED BY <2>1, <2>2, <1>1, <1>2, <1>4, RefusedFree
<1>5. CASE NoWrite /\ spent' = spent
  <2>1. spent'["close"] >= spent["close"]
    BY <1>1, <1>5 DEF Odd
  <2> QED BY <2>1, <1>1, <1>5, NoWriteFree
<1> QED BY <1>3, <1>4, <1>5 DEF SetupFails

(* Nothing else of a turn or of the process starts a record.                *)
LEMMA OtherFree ==
    ASSUME WakeInv,
           \/ OwnTurn \/ FenceDone \/ AcceptOwn \/ TurnEnds \/ Stop \/ Sweep \/ Crash \/ Exit
           \/ \E t \in Tasks : CutReturn(t)
           \/ \E p \in starting : TornHold(p)
    PROVE  Free
<1>1. spent \in [Odd -> Nat] /\ Rows(wakes) /\ 0 \in Nat
  BY TypedParts DEF WakeInv
<1>2. spent' = spent => spent'["close"] >= spent["close"]
  BY <1>1 DEF Odd
<1>3. ASSUME NoWrite, tries' = tries, hand' = hand, spent' = spent PROVE Free
  BY <1>2, <1>3, NoWriteFree
<1>4. ASSUME Lost, disk' = disk, tries' = tries, NEW O, Spends(O, 0) \/ spent' = spent,
             \A x \in Tasks : hand'[x] = "none" => hand[x] = "none"
      PROVE  Free
  <2>1. \A id \in Tasks : Costs(wakes, wakes', id)
    BY <1>4 DEF Lost, Costs, NoRecords, NoRecord
  <2>2. CASE Spends(O, 0)
    <3>1. spent'["close"] >= spent["close"]
      BY <1>1, <2>2, SpendsMore DEF Odd
    <3> QED BY <2>1, <3>1, <1>4 DEF Free, Lost
  <2>3. CASE spent' = spent
    BY <2>1, <2>3, <1>2, <1>4 DEF Free, Lost
  <2> QED BY <1>4, <2>2, <2>3
<1>5. CASE OwnTurn
  BY <1>3, <1>5 DEF OwnTurn, NoWrite, history
<1>6. CASE FenceDone
  BY <1>3, <1>6 DEF FenceDone, NoWrite
<1>7. CASE AcceptOwn
  BY <1>3, <1>7 DEF AcceptOwn, NoWrite, history
<1>8. CASE TurnEnds
  <2>1. CASE NoWrite /\ UNCHANGED spent
    BY <1>3, <1>8, <2>1 DEF TurnEnds
  <2>2. CASE Forget({})
    BY <1>8, <2>2, ForgetFree DEF TurnEnds
  <2> QED BY <1>8, <2>1, <2>2 DEF TurnEnds
<1>9. CASE Stop
  BY <1>9, ForgetFree DEF Stop
<1>10. CASE Sweep
  <2>1. tries' = tries /\ hand' = hand
    BY <1>10 DEF Sweep, history
  <2>2. PICK ok \in BOOLEAN : Flush(intents, wakes, ok) /\ Spends({}, Failed(ok))
    BY <1>10 DEF Sweep
  <2>3. \A id \in Tasks : Costs(wakes, wakes, id)
    BY <1>1, WithoutCosts
  <2>4. spent'["close"] >= spent["close"]
    BY <2>2, SpendsWrite
  <2> QED BY <2>1, <2>2, <2>3, <2>4, FlushFree
<1>11. CASE Crash
  <2>1. /\ Lost /\ disk' = disk /\ tries' = tries /\ Spends({"crash"}, 0) /\ hand' = hand
    BY <1>11 DEF Crash, history
  <2> QED BY <2>1, <1>4
<1>12. CASE Exit
  <2>1. /\ Lost /\ disk' = disk /\ tries' = tries /\ spent' = spent /\ hand' = hand
    BY <1>12 DEF Exit, history
  <2> QED BY <2>1, <1>4
<1>13. ASSUME NEW t \in Tasks, CutReturn(t) PROVE Free
  <2>1. /\ Lost /\ disk' = disk /\ tries' = tries /\ Spends({"crash"}, 0)
    BY <1>13 DEF CutReturn, history
  <2>2. \A x \in Tasks : hand'[x] = "none" => hand[x] = "none"
    BY <1>13, TypedParts DEF WakeInv, CutReturn
  <2> QED BY <2>1, <2>2, <1>4
<1>14. ASSUME NEW p \in starting, TornHold(p) PROVE Free
  <2>1. /\ Lost /\ disk' = disk /\ tries' = tries /\ Spends({"crash", "hold"}, 0) /\ hand' = hand
    BY <1>14 DEF TornHold, history
  <2> QED BY <2>1, <1>4
<1> QED BY <1>5, <1>6, <1>7, <1>8, <1>9, <1>10, <1>11, <1>12, <1>13, <1>14

(* A start that is counted, of a record that has paid for it on disk.       *)
LEMMA CountedTries ==
    ASSUME WakeInv, WakeInv', TriesInv, NEW k \in Tasks, NEW r, RowOK(r), r.st = "claimed",
           wakes[k].st # "none", Worth(r) >= Worth(wakes[k]) + 1, r.n + 1 <= MaxAttempts + 1,
           Flush(intents, [wakes EXCEPT ![k] = r], TRUE), Tried(k),
           hand' = hand, spent' = spent
    PROVE  TriesInv'
<1>1. /\ spent["close"] \in Nat /\ tries \in [Tasks -> Nat] /\ Rows(wakes)
      /\ Book(hand, intents, wakes)
  BY Numbers, TypedParts DEF WakeInv, BookInv, Lasts
<1>2. /\ intents' = intents /\ wakes' = [wakes EXCEPT ![k] = r]
      /\ disk' = [intents |-> intents', wakes |-> wakes']
  BY DEF Flush
<1>3. disk'.intents = intents' /\ disk'.wakes = wakes'
  BY <1>2
<1>4. \A id \in Tasks : tries'[id] = IF id = k THEN tries[k] + 1 ELSE tries[id]
  BY <1>1 DEF Tried
<1>5. \A id \in Tasks : wakes'[id] = IF id = k THEN r ELSE wakes[id]
  BY <1>1, <1>2 DEF Rows
<1>6. Worth(r) \in Int /\ r.n \in Nat /\ MaxAttempts \in Nat /\ Worth(wakes[k]) \in Int
  BY <1>1, WorthInt DEF RowOK, Rows
<1>7. tries[k] <= Worth(wakes[k]) + spent["close"]
  BY DEF TriesInv, Paid
<1>8. tries'[k] <= Worth(r) + spent["close"]
  BY <1>1, <1>4, <1>6, <1>7
<1>9. Paid(wakes', tries', spent'["close"])
  <2> SUFFICES ASSUME NEW id \in Tasks, wakes'[id].st # "none"
               PROVE  tries'[id] <= Worth(wakes'[id]) + spent["close"]
    BY DEF Paid
  <2>1. CASE id = k
    BY <2>1, <1>5, <1>8
  <2>2. CASE id # k
    <3>1. tries'[id] = tries[id] /\ wakes'[id] = wakes[id]
      BY <2>2, <1>4, <1>5
    <3> QED BY <3>1 DEF TriesInv, Paid
  <2> QED BY <2>1, <2>2
<1>10. Untried'
  <2>1. k \notin intents /\ hand[k] # "none"
    BY <1>1 DEF Book
  <2>2. ASSUME NEW x \in Tasks, hand'[x] = "none" \/ x \in intents' \/ x \in disk'.intents
        PROVE  tries'[x] = 0
    <3>1. hand[x] = "none" \/ x \in intents
      BY <2>2, <1>2, <1>3
    <3>2. x # k /\ tries[x] = 0
      BY <2>1, <3>1 DEF TriesInv, Untried
    <3> QED BY <3>2, <1>4
  <2> QED BY <2>2 DEF Untried
<1>11. TriesBounded'
  <2>1. ASSUME NEW t \in Tasks
        PROVE  tries'[t] <= MaxAttempts + 1 + spent["close"]
    <3>1. CASE t = k
      <4>1. r.cut \in BOOLEAN /\ r.st # "owed"
        BY DEF RowOK, Record
      <4>2. Worth(r) <= r.n + 1
        BY <4>1, <1>6 DEF Worth
      <4>3. tries'[k] \in Nat
        BY <1>1, <1>4
      <4> QED BY <3>1, <4>2, <4>3, <1>1, <1>6, <1>8
    <3>2. CASE t # k
      BY <3>2, <1>4 DEF TriesInv, TriesBounded
    <3> QED BY <3>1, <3>2
  <2> QED BY <2>1 DEF TriesBounded
<1> QED BY <1>3, <1>9, <1>10, <1>11 DEF TriesInv

(* A claim is counted, and paid for by the record's being claimed.          *)
LEMMA ClaimTries ==
    ASSUME WakeInv, WakeInv', TriesInv, Claim
    PROVE  TriesInv'
<1>1. hand' = hand /\ spent \in [Odd -> Nat] /\ Rows(wakes)
  BY TypedParts DEF Claim, WakeInv
<1>2. PICK id \in Oldest(wakes, Owing(wakes)) :
         LET r == wakes[id]
             w == [wakes EXCEPT ![id].st = "claimed"]
         IN \/ Flush(intents, wakes, FALSE) /\ Spends({}, 1) /\ tries' = tries
            \/ Flush(intents, w, TRUE) /\ Tried(id) /\ spent' = spent
            \/ /\ intents' = intents /\ wakes' = Without(wakes, id)
               /\ \E ok \in BOOLEAN :
                     /\ disk' = [intents |-> intents,
                                 wakes |-> IF ok THEN wakes' ELSE w]
                     /\ Spends({}, Failed(ok))
               /\ tries' = tries
  BY DEF Claim
<1>3. id \in Tasks /\ wakes[id].st = "owed"
  BY DEF Oldest, Owing
<1> DEFINE r == [wakes[id] EXCEPT !.st = "claimed"]
<1>4. /\ RowOK(wakes[id]) /\ wakes[id] \in Record /\ wakes \in [Tasks -> Record]
  BY <1>1, <1>3 DEF Rows
<1>5. /\ r \in Record /\ r.st = "claimed" /\ r.n = wakes[id].n /\ r.cut = wakes[id].cut
      /\ r.held = wakes[id].held /\ r.res = wakes[id].res
  BY <1>4 DEF Record
<1>6. [wakes EXCEPT ![id].st = "claimed"] = [wakes EXCEPT ![id] = r]
  BY <1>4
<1> HIDE DEF r
<1>7. RowOK(r)
  BY <1>3, <1>4, <1>5 DEF RowOK
<1>8. /\ Worth(wakes[id]) \in Int /\ wakes[id].n \in Nat /\ wakes[id].n <= MaxAttempts
      /\ MaxAttempts \in Nat
  BY <1>4, WorthInt
<1>9. Worth(r) = Worth(wakes[id]) + 1
  BY <1>3, <1>5, <1>8 DEF Worth
<1>10. CASE Flush(intents, wakes, FALSE) /\ Spends({}, 1) /\ tries' = tries
  <2>1. \A i \in Tasks : Costs(wakes, wakes, i)
    BY <1>1, WithoutCosts
  <2>2. spent'["close"] >= spent["close"]
    BY <1>1, <1>10, SpendsMore DEF Odd
  <2>3. Free
    BY <2>1, <2>2, <1>1, <1>10, FlushFree
  <2> QED BY <2>3, FreeTries
<1>11. CASE Flush(intents, [wakes EXCEPT ![id].st = "claimed"], TRUE) /\ Tried(id) /\ spent' = spent
  <2>1. Flush(intents, [wakes EXCEPT ![id] = r], TRUE)
    BY <1>6, <1>11
  <2>2. Worth(r) >= Worth(wakes[id]) + 1 /\ r.n + 1 <= MaxAttempts + 1 /\ wakes[id].st # "none"
    BY <1>3, <1>5, <1>8, <1>9
  <2> QED BY <2>1, <2>2, <1>1, <1>3, <1>5, <1>7, <1>11, CountedTries
<1>12. CASE /\ intents' = intents /\ wakes' = Without(wakes, id) /\ tries' = tries
            /\ \E ok \in BOOLEAN :
                  /\ disk' = [intents |-> intents,
                              wakes |-> IF ok THEN wakes'
                                        ELSE [wakes EXCEPT ![id].st = "claimed"]]
                  /\ Spends({}, Failed(ok))
  <2>1. PICK ok \in BOOLEAN :
           /\ disk' = [intents |-> intents,
                       wakes |-> IF ok THEN wakes' ELSE [wakes EXCEPT ![id].st = "claimed"]]
           /\ Spends({}, Failed(ok))
    BY <1>12
  <2>2. spent'["close"] >= spent["close"]
    BY <2>1, SpendsWrite
  <2>3. spent["close"] \in Nat /\ tries \in [Tasks -> Nat]
    BY Numbers
  <2>4. \A i \in Tasks : Costs(wakes, Without(wakes, id), i)
    BY <1>1, <1>3, WithoutCosts
  <2>5. CASE ok
    <3>1. disk'.intents = intents' /\ disk'.wakes = wakes'
      BY <2>1, <2>5, <1>12
    <3>2. Free
      BY <3>1, <2>2, <2>4, <1>1, <1>12 DEF Free
    <3> QED BY <3>2, FreeTries
  <2>6. CASE ~ok
    <3>1. disk' = [intents |-> intents, wakes |-> [wakes EXCEPT ![id] = r]]
      BY <2>1, <2>6, <1>6
    <3>2. disk'.intents = intents /\ disk'.wakes = [wakes EXCEPT ![id] = r]
      BY <3>1
    <3>3. \A i \in Tasks : disk'.wakes[i] = IF i = id THEN r ELSE wakes[i]
      BY <3>2, <1>4
    <3>4. spent'["close"] \in Nat
      BY DEF WakeInv, BookInv, TypeOK, Odd
    <3>5. \A i \in Tasks : wakes[i].st # "none" => tries[i] <= Worth(wakes[i]) + spent["close"]
      BY DEF TriesInv, Paid
    <3>6. \A i \in Tasks : Worth(wakes[i]) \in Int /\ tries[i] \in Nat
      BY <2>3, <1>4, WorthInt
    <3>7. Paid(disk'.wakes, tries', spent'["close"])
      <4> SUFFICES ASSUME NEW i \in Tasks, disk'.wakes[i].st # "none"
                   PROVE  tries[i] <= Worth(disk'.wakes[i]) + spent'["close"]
        BY <1>12 DEF Paid
      <4>1. tries[i] \in Nat /\ Worth(wakes[i]) \in Int
        BY <3>6
      <4>2. CASE i = id
        <5>1. tries[id] <= Worth(wakes[id]) + spent["close"]
          BY <3>5, <1>3
        <5> QED BY <5>1, <4>1, <4>2, <3>3, <3>4, <2>2, <2>3, <1>9
      <4>3. CASE i # id
        <5>1. tries[i] <= Worth(wakes[i]) + spent["close"] /\ disk'.wakes[i] = wakes[i]
          BY <3>3, <3>5, <4>3
        <5> QED BY <5>1, <4>1, <3>4, <2>2, <2>3
      <4> QED BY <4>2, <4>3
    <3>8. Paid(wakes', tries', spent'["close"])
      <4> SUFFICES ASSUME NEW i \in Tasks, wakes'[i].st # "none"
                   PROVE  tries[i] <= Worth(wakes'[i]) + spent'["close"]
        BY <1>12 DEF Paid
      <4>1. i # id /\ wakes[i].st # "none"
        <5>1. Without(wakes, id)[id] = NoRecord
          BY <1>1, <1>3, WithoutRows
        <5>2. wakes[i].st = "none" => Without(wakes, id)[i] = NoRecord
          BY <1>1, <1>3, WithoutRows
        <5> QED BY <5>1, <5>2, <1>12 DEF NoRecord
      <4>2. /\ wakes'[i].st = wakes[i].st /\ wakes'[i].n = wakes[i].n
            /\ wakes'[i].cut = wakes[i].cut
        BY <4>1, <1>1, <1>3, <1>12, WithoutRows
      <4>3. Worth(wakes'[i]) = Worth(wakes[i])
        BY <4>2 DEF Worth
      <4>4. tries[i] <= Worth(wakes[i]) + spent["close"] /\ tries[i] \in Nat
            /\ Worth(wakes[i]) \in Int
        BY <4>1, <3>5, <3>6
      <4> QED BY <4>3, <4>4, <3>4, <2>2, <2>3
    <3>9. Untried'
      BY <3>2, <1>1, <1>12 DEF TriesInv, Untried
    <3>10. TriesBounded'
      <4>1. ASSUME NEW t \in Tasks
            PROVE  tries[t] <= MaxAttempts + 1 + spent'["close"]
        <5>1. tries[t] <= MaxAttempts + 1 + spent["close"] /\ tries[t] \in Nat
          BY <3>6 DEF TriesInv, TriesBounded
        <5> QED BY <5>1, <1>8, <3>4, <2>2, <2>3
      <4> QED BY <4>1, <1>12 DEF TriesBounded
    <3> QED BY <3>7, <3>8, <3>9, <3>10 DEF TriesInv
  <2> QED BY <2>5, <2>6
<1> QED BY <1>2, <1>10, <1>11, <1>12

(* A replay is counted, and paid for first.                                 *)
LEMMA DrainTries ==
    ASSUME WakeInv, WakeInv', TriesInv, NEW x \in item, Drain(x)
    PROVE  TriesInv'
<1>1. hand' = hand /\ spent \in [Odd -> Nat] /\ Rows(wakes) /\ x.id \in Tasks
  BY TypedParts DEF Drain, WakeInv, Item
<1>2. CASE NoWrite /\ tries' = tries /\ spent' = spent
  <2>1. spent'["close"] >= spent["close"]
    BY <1>1, <1>2 DEF Odd
  <2>2. Free
    BY <2>1, <1>1, <1>2, NoWriteFree
  <2> QED BY <2>2, FreeTries
<1>3. CASE Cancelled([id |-> x.id, replay |-> TRUE, res |-> x.res]) /\ tries' = tries
  <2> DEFINE p == [id |-> x.id, replay |-> TRUE, res |-> x.res]
  <2>1. p.id = x.id
    OBVIOUS
  <2>2. Cancelled(p)
    BY <1>3
  <2> HIDE DEF p
  <2>3. Free
    BY <2>1, <2>2, <1>1, <1>3, CancelledFree
  <2> QED BY <2>3, FreeTries
<1>4. CASE /\ IsHeld(wakes, x.id) /\ wakes[x.id].n < MaxAttempts
           /\ Flush(intents, [wakes EXCEPT ![x.id].n = @ + 1], TRUE)
           /\ Tried(x.id) /\ spent' = spent
  <2>1. RowOK(wakes[x.id]) /\ wakes[x.id] \in Record
    BY <1>1 DEF Rows
  <2>2. wakes[x.id].st = "claimed" /\ wakes[x.id].held = TRUE
    BY <2>1, <1>4 DEF IsHeld, Record
  <2>3. \E r : /\ RowOK(r) /\ r.res = wakes[x.id].res /\ r.cut = wakes[x.id].cut
               /\ r.n = wakes[x.id].n + 1 /\ r.st = wakes[x.id].st /\ r.held = TRUE
               /\ [wakes EXCEPT ![x.id].n = @ + 1] = [wakes EXCEPT ![x.id] = r]
    BY <1>1, <1>4, <2>2, SetRow
  <2>4. PICK r : /\ RowOK(r) /\ r.res = wakes[x.id].res /\ r.cut = wakes[x.id].cut
                 /\ r.n = wakes[x.id].n + 1 /\ r.st = wakes[x.id].st /\ r.held = TRUE
                 /\ [wakes EXCEPT ![x.id].n = @ + 1] = [wakes EXCEPT ![x.id] = r]
    BY <2>3
  <2>5. /\ Worth(wakes[x.id]) \in Int /\ wakes[x.id].n \in Nat /\ MaxAttempts \in Nat
    BY <2>1, WorthInt
  <2>6. Worth(r) = Worth(wakes[x.id]) + 1
    BY <2>2, <2>4, <2>5 DEF Worth
  <2>7. /\ Worth(r) >= Worth(wakes[x.id]) + 1 /\ r.n + 1 <= MaxAttempts + 1
        /\ wakes[x.id].st # "none" /\ r.st = "claimed"
    BY <2>2, <2>4, <2>5, <2>6, <1>4
  <2>8. Flush(intents, [wakes EXCEPT ![x.id] = r], TRUE)
    BY <2>4, <1>4
  <2> QED BY <2>4, <2>7, <2>8, <1>1, <1>4, CountedTries
<1>5. CASE Flush(intents, wakes, FALSE) /\ Spends({}, 1) /\ tries' = tries
  <2>1. \A i \in Tasks : Costs(wakes, wakes, i)
    BY <1>1, WithoutCosts
  <2>2. spent'["close"] >= spent["close"]
    BY <1>1, <1>5, SpendsMore DEF Odd
  <2>3. Free
    BY <2>1, <2>2, <1>1, <1>5, FlushFree
  <2> QED BY <2>3, FreeTries
<1> QED BY <1>2, <1>3, <1>4, <1>5 DEF Drain

(* A start a close cut was free, and the close is counted.                  *)
LEMMA CloseTries ==
    ASSUME WakeInv, WakeInv', TriesInv, Close
    PROVE  TriesInv'
<1>1. /\ hand' = hand /\ tries' = tries /\ spent \in [Odd -> Nat] /\ Rows(wakes)
      /\ spent["close"] \in Nat /\ tries \in [Tasks -> Nat]
  BY TypedParts, Numbers DEF Close, WakeInv, history
<1>2. /\ intents' = intents
      /\ \/ wakes' = Marked(wakes) \/ wakes' = wakes
      /\ \/ disk'.intents = intents' /\ disk'.wakes = wakes'
         \/ disk' = disk
      /\ \E f \in Nat : Spends({"close"}, f)
  <2>1. \/ \E ok \in BOOLEAN : Flush(intents, Marked(wakes), ok) /\ Spends({"close"}, Failed(ok))
        \/ NoWrite /\ Spends({"close"}, 0)
    BY DEF Close, Marked
  <2>2. CASE \E ok \in BOOLEAN : Flush(intents, Marked(wakes), ok) /\ Spends({"close"}, Failed(ok))
    <3>1. PICK ok \in BOOLEAN : Flush(intents, Marked(wakes), ok) /\ Spends({"close"}, Failed(ok))
      BY <2>2
    <3>2. Failed(ok) \in Nat
      BY DEF Failed
    <3>3. /\ intents' = intents /\ wakes' = Marked(wakes)
          /\ disk' = [intents |-> intents', wakes |-> wakes'] \/ disk' = disk
      BY <3>1 DEF Flush
    <3>4. disk' = [intents |-> intents', wakes |-> wakes'] =>
             disk'.intents = intents' /\ disk'.wakes = wakes'
      OBVIOUS
    <3> QED BY <3>1, <3>2, <3>3, <3>4
  <2>3. CASE NoWrite /\ Spends({"close"}, 0)
    <3>1. 0 \in Nat
      OBVIOUS
    <3> QED BY <2>3, <3>1 DEF NoWrite
  <2> QED BY <2>1, <2>2, <2>3
<1>3. spent'["close"] >= spent["close"] + 1 /\ spent'["close"] \in Nat
  <2>1. ASSUME NEW f \in Nat, Spends({"close"}, f)
        PROVE  spent'["close"] >= spent["close"] + 1
    BY <2>1, <1>1, SpendsMore DEF Odd
  <2>2. spent'["close"] \in Nat
    BY DEF WakeInv, BookInv, TypeOK, Odd
  <2> QED BY <1>2, <2>1, <2>2
<1>4. ASSUME NEW i \in Tasks
      PROVE  /\ wakes'[i].st = wakes[i].st /\ Worth(wakes'[i]) >= Worth(wakes[i]) - 1
             /\ Worth(wakes'[i]) \in Int /\ Worth(wakes[i]) \in Int
  <2>1. wakes[i] \in Record
    BY <1>1 DEF Rows
  <2>2. CASE wakes' = wakes
    <3>1. Worth(wakes[i]) \in Int
      BY <2>1, WorthInt
    <3> QED BY <2>2, <3>1
  <2>3. CASE wakes' = Marked(wakes)
    <3>1. /\ wakes'[i].st = wakes[i].st /\ wakes'[i].n = wakes[i].n /\ wakes'[i] \in Record
      BY <1>1, <2>3, MarkedRows
    <3>2. Worth(wakes'[i]) \in Int /\ Worth(wakes[i]) \in Int /\ wakes[i].n \in Nat
      BY <2>1, <3>1, WorthInt
    <3>3. wakes[i].cut \in BOOLEAN /\ wakes'[i].cut \in BOOLEAN
      BY <2>1, <3>1 DEF Record
    <3>4. Worth(wakes'[i]) >= Worth(wakes[i]) - 1
      BY <3>1, <3>2, <3>3 DEF Worth
    <3> QED BY <3>1, <3>2, <3>4
  <2> QED BY <1>2, <2>2, <2>3
<1>5. \A i \in Tasks : wakes[i].st # "none" => tries[i] <= Worth(wakes[i]) + spent["close"]
  BY DEF TriesInv, Paid
<1>6. Paid(wakes', tries', spent'["close"])
  <2> SUFFICES ASSUME NEW i \in Tasks, wakes'[i].st # "none"
               PROVE  tries[i] <= Worth(wakes'[i]) + spent'["close"]
    BY <1>1 DEF Paid
  <2>1. /\ tries[i] <= Worth(wakes[i]) + spent["close"] /\ tries[i] \in Nat
        /\ Worth(wakes'[i]) >= Worth(wakes[i]) - 1
        /\ Worth(wakes'[i]) \in Int /\ Worth(wakes[i]) \in Int
    BY <1>1, <1>4, <1>5
  <2> QED BY <2>1, <1>1, <1>3
<1>7. Paid(disk'.wakes, tries', spent'["close"])
  <2>1. CASE disk'.wakes = wakes'
    BY <2>1, <1>6
  <2>2. CASE disk' = disk
    <3> SUFFICES ASSUME NEW i \in Tasks, disk.wakes[i].st # "none"
                 PROVE  tries[i] <= Worth(disk.wakes[i]) + spent'["close"]
      BY <1>1, <2>2 DEF Paid
    <3>1. tries[i] <= Worth(disk.wakes[i]) + spent["close"] /\ tries[i] \in Nat
      BY <1>1 DEF TriesInv, Paid
    <3>2. Worth(disk.wakes[i]) \in Int
      BY Numbers, WorthInt
    <3> QED BY <3>1, <3>2, <1>1, <1>3
  <2> QED BY <1>2, <2>1, <2>2
<1>8. Untried'
  BY <1>1, <1>2 DEF TriesInv, Untried
<1>9. TriesBounded'
  <2>1. ASSUME NEW t \in Tasks
        PROVE  tries[t] <= MaxAttempts + 1 + spent'["close"]
    <3>1. tries[t] <= MaxAttempts + 1 + spent["close"] /\ tries[t] \in Nat
      BY <1>1 DEF TriesInv, TriesBounded
    <3>2. MaxAttempts \in Nat
      BY CapsAssumption
    <3> QED BY <3>1, <3>2, <1>1, <1>3
  <2> QED BY <2>1, <1>1 DEF TriesBounded
<1> QED BY <1>6, <1>7, <1>8, <1>9 DEF TriesInv

(* What restore makes of a record has paid for what it had.                 *)
LEMMA RestoredWorth ==
    ASSUME NEW w, Rows(w), NEW id \in Tasks, Restored(w)[id].st # "none"
    PROVE  w[id].st # "none" /\ Worth(Restored(w)[id]) >= Worth(w[id])
<1>1. Survives(id, w[id])
  <2>1. ~Survives(id, w[id]) => Restored(w)[id] = NoRecord
    BY RestoredRows
  <2> QED BY <2>1 DEF NoRecord
<1> DEFINE v == Restored(w)[id]
<1>2. /\ v.st = (IF w[id].held THEN "claimed" ELSE "owed") /\ v.cut = FALSE
      /\ v.n = Recounted(w[id]) /\ v \in Record
  BY <1>1, RestoredRows
<1> HIDE DEF v
<1>3. RowOK(w[id]) /\ w[id].held \in BOOLEAN /\ w[id].cut \in BOOLEAN
  BY DEF Rows, RowOK, Record
<1>4. w[id].n \in Nat /\ w[id].n <= MaxAttempts /\ MaxAttempts \in Nat \ {0}
  BY WorthInt DEF Rows
<1>5. w[id].st \in {"owed", "claimed"}
  BY <1>1 DEF Survives
<1>6. Worth(v) = Recounted(w[id]) + (IF w[id].held THEN 1 ELSE 0)
  <2>1. v.n \in Nat
    BY <1>2, WorthInt
  <2>2. (IF v.st = "owed" THEN 0 ELSE 1) = (IF w[id].held THEN 1 ELSE 0)
    BY <1>2, <1>3
  <2>3. (IF v.cut THEN 1 ELSE 0) = 0
    BY <1>2
  <2>4. Worth(v) = v.n + (IF w[id].held THEN 1 ELSE 0) - 0
    BY <2>2, <2>3 DEF Worth
  <2>5. v.n = Recounted(w[id])
    BY <1>2
  <2> QED BY <2>1, <2>4, <2>5
<1>7. CASE w[id].st = "owed"
  <2>1. ~w[id].held /\ ~w[id].cut
    BY <1>3, <1>7 DEF RowOK
  <2>2. Recounted(w[id]) = w[id].n
    BY <2>1, <1>4, <1>7 DEF Recounted, Capped, Charged
  <2>3. Worth(w[id]) = w[id].n
    BY <2>1, <1>4, <1>7 DEF Worth
  <2>4. Worth(v) = w[id].n
    BY <2>1, <2>2, <1>4, <1>6
  <2> QED BY <2>3, <2>4, <1>4, <1>7 DEF v
<1>8. CASE w[id].st = "claimed"
  <2>1. Worth(w[id]) = w[id].n + 1 - (IF w[id].cut THEN 1 ELSE 0)
    BY <1>8 DEF Worth
  <2>2. CASE w[id].held
    <3>1. Recounted(w[id]) = Capped(w[id])
      BY <2>2, <1>4 DEF Recounted, Charged, Capped
    <3>2. CASE w[id].cut
      <4>1. Worth(w[id]) = w[id].n
        BY <2>1, <3>2, <1>4
      <4>2. Capped(w[id]) + 1 >= w[id].n /\ Capped(w[id]) \in Int
        BY <3>2, <1>4 DEF Capped
      <4>3. Worth(v) = Capped(w[id]) + 1
        BY <2>2, <3>1, <1>6
      <4> QED BY <4>1, <4>2, <4>3, <1>8 DEF v
    <3>3. CASE ~w[id].cut
      <4>1. Worth(w[id]) = w[id].n + 1
        BY <2>1, <3>3, <1>4
      <4>2. Capped(w[id]) = w[id].n
        BY <3>3 DEF Capped
      <4>3. Worth(v) = w[id].n + 1
        BY <2>2, <3>1, <4>2, <1>6
      <4> QED BY <4>1, <4>3, <1>4, <1>8 DEF v
    <3> QED BY <3>2, <3>3
  <2>3. CASE ~w[id].held
    <3>1. w[id].n < MaxAttempts
      BY <2>3, <1>3 DEF RowOK
    <3>2. Capped(w[id]) = w[id].n
      BY <3>1, <1>4 DEF Capped
    <3>3. Recounted(w[id]) = w[id].n + (IF w[id].cut THEN 0 ELSE 1)
      BY <2>3, <3>2, <1>8 DEF Recounted, Charged
    <3>4. Worth(v) = w[id].n + (IF w[id].cut THEN 0 ELSE 1)
      BY <2>3, <3>3, <1>4, <1>6
    <3> QED BY <2>1, <3>4, <1>4, <1>8 DEF v
  <2> QED BY <2>2, <2>3
<1> QED BY <1>5, <1>7, <1>8

(* A boot gives no payment back.                                            *)
LEMMA BootTries ==
    ASSUME WakeInv, WakeInv', TriesInv, Boot
    PROVE  TriesInv'
<1>1. /\ hand' = hand /\ tries' = tries /\ spent \in [Odd -> Nat] /\ Rows(disk.wakes)
      /\ spent["close"] \in Nat /\ tries \in [Tasks -> Nat]
      /\ disk.wakes \in [Tasks -> Record] /\ disk.intents \subseteq Tasks
  BY TypedParts, Numbers DEF Boot, WakeInv, Rows, BookInv, TypeOK
<1>2. /\ wakes' = Restored(disk.wakes) /\ intents' \subseteq disk.intents
      /\ disk' = disk \/ (disk'.intents = disk.intents /\ disk'.wakes = wakes')
      /\ spent' = spent \/ \E ok \in BOOLEAN : Spends({}, Failed(ok))
  BY DEF Boot, Flush
<1>3. spent'["close"] >= spent["close"] /\ spent'["close"] \in Nat
  <2>1. spent'["close"] \in Nat
    BY DEF WakeInv, BookInv, TypeOK, Odd
  <2>2. ASSUME NEW ok \in BOOLEAN, Spends({}, Failed(ok))
        PROVE  spent'["close"] >= spent["close"]
    BY <2>2, SpendsWrite
  <2> QED BY <2>1, <2>2, <1>1, <1>2
<1>4. \A i \in Tasks : disk.wakes[i].st # "none" =>
                          tries[i] <= Worth(disk.wakes[i]) + spent["close"]
  BY DEF TriesInv, Paid
<1>5. \A i \in Tasks : Worth(disk.wakes[i]) \in Int
  BY <1>1, WorthInt
<1>6. Paid(wakes', tries', spent'["close"])
  <2> SUFFICES ASSUME NEW i \in Tasks, wakes'[i].st # "none"
               PROVE  tries[i] <= Worth(wakes'[i]) + spent'["close"]
    BY <1>1 DEF Paid
  <2>1. disk.wakes[i].st # "none" /\ Worth(wakes'[i]) >= Worth(disk.wakes[i])
    BY <1>1, <1>2, RestoredWorth
  <2>2. wakes'[i] \in Record
    BY DEF WakeInv, BookInv, TypeOK
  <2>3. Worth(wakes'[i]) \in Int /\ Worth(disk.wakes[i]) \in Int /\ tries[i] \in Nat
    BY <2>2, <1>1, <1>5, WorthInt
  <2>4. tries[i] <= Worth(disk.wakes[i]) + spent["close"]
    BY <2>1, <1>4
  <2> QED BY <2>1, <2>3, <2>4, <1>1, <1>3
<1>7. Paid(disk'.wakes, tries', spent'["close"])
  <2>1. CASE disk'.wakes = wakes'
    BY <2>1, <1>6
  <2>2. CASE disk' = disk
    <3> SUFFICES ASSUME NEW i \in Tasks, disk.wakes[i].st # "none"
                 PROVE  tries[i] <= Worth(disk.wakes[i]) + spent'["close"]
      BY <1>1, <2>2 DEF Paid
    <3>1. tries[i] <= Worth(disk.wakes[i]) + spent["close"] /\ tries[i] \in Nat
      BY <1>1, <1>4
    <3> QED BY <3>1, <1>1, <1>3, <1>5
  <2> QED BY <1>2, <2>1, <2>2
<1>8. Untried'
  BY <1>1, <1>2 DEF TriesInv, Untried
<1>9. TriesBounded'
  <2>1. ASSUME NEW t \in Tasks
        PROVE  tries[t] <= MaxAttempts + 1 + spent'["close"]
    <3>1. tries[t] <= MaxAttempts + 1 + spent["close"] /\ tries[t] \in Nat
      BY <1>1 DEF TriesInv, TriesBounded
    <3>2. MaxAttempts \in Nat
      BY CapsAssumption
    <3> QED BY <3>1, <3>2, <1>1, <1>3
  <2> QED BY <2>1, <1>1 DEF TriesBounded
<1> QED BY <1>6, <1>7, <1>8, <1>9 DEF TriesInv

(* Every step keeps every start paid for.                                   *)
LEMMA TriesStep ==
    ASSUME WakeInv, WakeInv', TriesInv, Next
    PROVE  TriesInv'
<1>1. ASSUME Free PROVE TriesInv'
  BY <1>1, FreeTries
<1>2. ASSUME NEW t \in Tasks,
             Ask(t) \/ Ticket(t) \/ Return(t) \/ ReturnStopped(t) \/ Check(t)
      PROVE  TriesInv'
  BY <1>1, <1>2, AskFree, ReturnFree, ReturnStoppedFree, CheckFree
<1>3. CASE Claim
  BY <1>3, ClaimTries
<1>4. ASSUME NEW p, Admit(p) PROVE TriesInv'
  BY <1>1, <1>4, AdmitFree
<1>5. ASSUME NEW x \in item, Drain(x) PROVE TriesInv'
  BY <1>5, DrainTries
<1>6. CASE Fence
  BY <1>1, <1>6, FenceFree
<1>7. ASSUME NEW p \in turn.start, Accept(p) PROVE TriesInv'
  BY <1>1, <1>7, AcceptFree
<1>8. CASE SetupFails
  BY <1>1, <1>8, SetupFailsFree
<1>9. CASE \/ OwnTurn \/ FenceDone \/ AcceptOwn \/ TurnEnds \/ Stop \/ Sweep \/ Crash \/ Exit
           \/ \E t \in Tasks : CutReturn(t)
           \/ \E p \in starting : TornHold(p)
  BY <1>1, <1>9, OtherFree
<1>10. CASE Close
  BY <1>10, CloseTries
<1>11. CASE Boot
  BY <1>11, BootTries
<1> QED BY <1>2, <1>3, <1>4, <1>5, <1>6, <1>7, <1>8, <1>9, <1>10, <1>11 DEF Next

(* A start that kills the server, or never comes back, is paid for, on disk,*)
(* before it is begun (Claim, Drain): no record is begun more often than    *)
(* its attempts allow, the held one's last and the clean closes, whatever   *)
(* writes fail and however often the server crashes.                        *)
THEOREM NotBegunForEver == Spec => []TriesBounded
<1>1. Init => TriesInv
  <2> SUFFICES ASSUME Init PROVE TriesInv
    OBVIOUS
  <2>1. /\ wakes = NoRecords /\ disk = Nothing /\ \A t \in Tasks : tries[t] = 0
        /\ spent["close"] = 0
    BY DEF Init, Odd
  <2>2. \A id \in Tasks : wakes[id].st = "none" /\ disk.wakes[id].st = "none"
    BY <2>1 DEF NoRecords, NoRecord, Nothing
  <2>3. MaxAttempts \in Nat
    BY CapsAssumption
  <2> QED BY <2>1, <2>2, <2>3 DEF TriesInv, Paid, Untried, TriesBounded
<1>2. WakeInv /\ WakeInv' /\ TriesInv /\ [Next]_vars => TriesInv'
  <2>1. CASE Next
    BY <2>1, TriesStep
  <2>2. CASE UNCHANGED vars
    BY <2>2 DEF vars, TriesInv, Paid, Untried, TriesBounded, history
  <2> QED BY <2>1, <2>2
<1>3. TriesInv => TriesBounded
  BY DEF TriesInv
<1> QED BY <1>1, <1>2, <1>3, WakeInvHolds, PTL DEF Spec


-----------------------------------------------------------------------------
(* A wake goes out once *)

(* What a start, the turn and an item name is in their record, in memory    *)
(* and on disk.                                                             *)
Names ==
    /\ \A p \in starting \cup turn.start : Owned(wakes, p.id) => p.res \subseteq wakes[p.id].res
    /\ \A y \in item : /\ wakes[y.id].st = "claimed" => y.res \subseteq wakes[y.id].res
                       /\ disk.wakes[y.id].st = "claimed" => y.res \subseteq disk.wakes[y.id].res
    /\ \A id \in Tasks : wakes[id].st \in {"claimed", "started"} =>
                            disk.wakes[id].res = wakes[id].res

(* Only the turn an engine accepted before the fence is done, and not yet   *)
(* let through.                                                             *)
DoneOnce ==
    /\ turn.at # "early" => doneIds = {}
    /\ \A p \in turn.start : doneIds \subseteq {p.id}

(* Without a failed write nothing lags: memory is on disk, receipts have let*)
(* go of what is in a record, and a turn carries all that is in its prompt. *)
Lags ==
    /\ unwritten => spent["fail"] >= 1
    /\ \A id \in Tasks : \A x \in wakes[id].res \cup disk.wakes[id].res :
          hand[x] = "owes" => spent["fail"] >= 1
    /\ spent["fail"] = 0 /\ turn.at = "setup" =>
          \A p \in turn.start : Owned(wakes, p.id) =>
             \A x \in p.res : x \in upd => x \in turn.carries

(* A reply the engine has, whether or not its fence has been passed.        *)
Early(x) == turn.at = "early" /\ \E p \in turn.start : p.id \in doneIds /\ x \in p.res
Heard(x) == woke[x] >= 1 \/ Early(x)

(* A record with this reply that may still be claimed, or replayed, starts  *)
(* nothing with it: it is no update any more, and no item names it.         *)
Spare(w, x) ==
    \A id \in Tasks : w[id].st \in {"owed", "claimed"} /\ x \in w[id].res =>
       /\ hand[x] = "told" /\ x \notin upd
       /\ w[id].st = "claimed" /\ w[id].held = TRUE => \A y \in item : y.id = id => x \notin y.res

(* Nothing will start the asker with this reply again.                      *)
Closed(x) ==
    /\ x \notin intents /\ x \notin disk.intents /\ hand[x] \in {"owes", "told"}
    /\ Spare(wakes, x) /\ Spare(disk.wakes, x)
    /\ \A p \in starting : Owned(wakes, p.id) => x \notin p.res
    /\ turn.at = "setup" => \A p \in turn.start : Owned(wakes, p.id) => x \notin p.res

(* With one failed write at most, what the engine has heard is closed.      *)
HeardOnce ==
    spent["fail"] <= 1 =>
       \A x \in Tasks : /\ woke[x] <= 1 /\ (Early(x) => woke[x] = 0)
                        /\ Heard(x) => Closed(x)

OnceInv == Names /\ DoneOnce /\ Lags /\ HeardOnce

(* Where a record comes from: it was there, with what it carries, or it is  *)
(* opened or joined by a reply asked for.                                   *)
Heir(id) ==
    /\ wakes'[id].res \subseteq wakes[id].res \cup intents
    /\ wakes'[id].st = "claimed" =>
          wakes[id].st \in {"owed", "claimed"} /\ wakes'[id].res = wakes[id].res
    /\ wakes'[id].st = "started" =>
          wakes[id].st \in {"claimed", "started"} /\ wakes'[id].res = wakes[id].res
    /\ wakes'[id].st = "owed" => wakes[id].st # "started"

(* What the disk has for it: what memory has, what it had, or the claim of  *)
(* a record that is over.                                                   *)
OnDisk(id) ==
    \/ disk'.wakes[id].st = wakes'[id].st /\ disk'.wakes[id].res = wakes'[id].res
    \/ disk'.wakes[id] = disk.wakes[id] /\ ~(wakes[id].st = "owed" /\ wakes'[id].st = "claimed")
    \/ /\ wakes[id].st = "owed" /\ wakes'[id].st = "none"
       /\ disk'.wakes[id].st = "claimed" /\ disk'.wakes[id].held = FALSE
       /\ disk'.wakes[id].res = wakes[id].res

(* What a step of a server that is alive does to both books.                *)
Pages ==
    /\ spent'["fail"] >= spent["fail"] /\ (unwritten' => unwritten \/ spent'["fail"] >= 1)
    /\ \A x \in intents' : x \in intents \/ hand[x] = "none"
    /\ \A x \in disk'.intents : x \in disk.intents \/ x \in intents'
    /\ \A id \in Tasks : Heir(id) /\ OnDisk(id)

(* To the receipts and the updates: a reply that is delivered is told, or   *)
(* its write failed, and no reply that was told is an update again.         *)
Post ==
    /\ \A x \in Tasks : /\ hand[x] = "told" => hand'[x] = "told"
                        /\ hand[x] = "owes" => hand'[x] \in {"owes", "told"}
    /\ \A id \in Tasks : \A x \in wakes'[id].res :
          x \in intents /\ hand'[x] = "owes" => unwritten'
    /\ \A x \in upd' : x \in upd \/ hand[x] # "told"

(* And to who carries a record: a new start names nothing the engine has    *)
(* heard, a turn is set up for a start with all updates, and an item is     *)
(* kept for one.                                                            *)
Crew ==
    /\ turn'.start \subseteq turn.start \cup starting
    /\ turn'.at = "setup" =>
          turn' = turn \/ (turn'.carries = upd' /\ turn'.start \subseteq starting)
    /\ \A q \in starting' :
          \/ q \in starting
          \/ /\ q.res \subseteq wakes'[q.id].res
             /\ spent["fail"] <= 1 => \A x \in q.res : ~Heard(x)
    /\ \A y \in item' :
          \/ y \in item
          \/ \E p \in starting : Owned(wakes, p.id) /\ y.id = p.id /\ y.res = p.res

Calm == Pages /\ Post /\ Crew

(* The record of a start or a turn was its record before, with what it has. *)
LEMMA CalmRecord ==
    ASSUME WakeInv', Calm, NEW p, p \in starting' \cup turn'.start, Owned(wakes', p.id)
    PROVE  /\ p.id \in Tasks /\ wakes'[p.id].st \in {"claimed", "started"}
           /\ Owned(wakes, p.id) /\ wakes'[p.id].res = wakes[p.id].res
<1>1. p.id \in Tasks
  BY DEF WakeInv, BookInv, TypeOK, Turn, Start
<1>2. TakenOnce(p.id)' /\ wakes'[p.id].st # "none"
  BY <1>1 DEF WakeInv, Takers, Owned
<1>3. p \in Starts(p.id)' \/ p \in Wakings(p.id)'
  BY DEF Starts, Wakings
<1>4. wakes'[p.id].st \in {"claimed", "started"}
  BY <1>2, <1>3 DEF TakenOnce
<1>5. Heir(p.id)
  BY <1>1 DEF Calm, Pages
<1>6. Owned(wakes, p.id) /\ wakes'[p.id].res = wakes[p.id].res
  BY <1>4, <1>5 DEF Heir, Owned
<1> QED BY <1>1, <1>4, <1>6

(* A record that is claimed and has an item was claimed before, or is the   *)
(* item's of a start.                                                       *)
LEMMA CalmItem ==
    ASSUME WakeInv, Names, Calm, Alive, NEW y, y \in item', y.id \in Tasks,
           wakes[y.id].st \in {"owed", "claimed"}
    PROVE  wakes[y.id].st = "claimed" /\ y.res \subseteq wakes[y.id].res
<1>1. TakenOnce(y.id)
  BY DEF WakeInv, Takers
<1>2. CASE y \in item
  <2>1. HasItem(y.id)
    BY <1>2 DEF HasItem
  <2>2. wakes[y.id].st = "claimed"
    BY <2>1, <1>1 DEF TakenOnce
  <2> QED BY <2>2, <1>2 DEF Names
<1>3. CASE \E p \in starting : Owned(wakes, p.id) /\ y.id = p.id /\ y.res = p.res
  <2>1. PICK p \in starting : Owned(wakes, p.id) /\ y.id = p.id /\ y.res = p.res
    BY <1>3
  <2>2. p \in Starts(y.id)
    BY <2>1 DEF Starts
  <2>3. wakes[y.id].st = "claimed"
    BY <2>2, <1>1 DEF TakenOnce
  <2>4. p.res \subseteq wakes[p.id].res
    BY <2>1 DEF Names
  <2> QED BY <2>1, <2>3, <2>4
<1> QED BY <1>2, <1>3 DEF Calm, Crew

(* Such a step keeps what is named in its record.                           *)
LEMMA CalmNames ==
    ASSUME WakeInv, WakeInv', Names, Calm, Alive
    PROVE  Names'
<1>1. ASSUME NEW p \in starting' \cup turn'.start, Owned(wakes', p.id)
      PROVE  p.res \subseteq wakes'[p.id].res
  <2>1. Owned(wakes, p.id) /\ wakes'[p.id].res = wakes[p.id].res
    BY <1>1, CalmRecord
  <2>2. CASE p \in starting \cup turn.start
    BY <2>1, <2>2 DEF Names
  <2>3. CASE p.res \subseteq wakes'[p.id].res
    BY <2>3
  <2> QED BY <1>1, <2>2, <2>3 DEF Calm, Crew
<1>2. \A y \in item' : y.id \in Tasks
  BY DEF WakeInv, BookInv, TypeOK, Item
<1>3. ASSUME NEW y \in item', wakes'[y.id].st = "claimed"
      PROVE  y.res \subseteq wakes'[y.id].res
  <2>1. Heir(y.id) /\ y.id \in Tasks
    BY <1>2, <1>3 DEF Calm, Pages
  <2>2. wakes[y.id].st \in {"owed", "claimed"} /\ wakes'[y.id].res = wakes[y.id].res
    BY <2>1, <1>3 DEF Heir
  <2>3. y.res \subseteq wakes[y.id].res
    BY <2>1, <2>2, <1>3, CalmItem
  <2> QED BY <2>2, <2>3
<1>4. ASSUME NEW y \in item', disk'.wakes[y.id].st = "claimed"
      PROVE  y.res \subseteq disk'.wakes[y.id].res
  <2>1. OnDisk(y.id) /\ y.id \in Tasks
    BY <1>2, <1>4 DEF Calm, Pages
  <2>2. CASE /\ disk'.wakes[y.id].st = wakes'[y.id].st
             /\ disk'.wakes[y.id].res = wakes'[y.id].res
    BY <2>2, <1>3, <1>4
  <2>3. CASE disk'.wakes[y.id] = disk.wakes[y.id]
    <3>1. CASE y \in item
      BY <3>1, <2>3, <1>4 DEF Names
    <3>2. CASE \E p \in starting : Owned(wakes, p.id) /\ y.id = p.id /\ y.res = p.res
      <4>1. PICK p \in starting : Owned(wakes, p.id) /\ y.id = p.id /\ y.res = p.res
        BY <3>2
      <4>2. TakenOnce(y.id) /\ p \in Starts(y.id)
        BY <4>1, <2>1 DEF Starts, WakeInv, Takers
      <4>3. wakes[y.id].st = "claimed"
        BY <4>1, <4>2 DEF TakenOnce, Owned
      <4>4. p.res \subseteq wakes[p.id].res /\ disk.wakes[y.id].res = wakes[y.id].res
        BY <4>1, <4>3, <2>1 DEF Names
      <4> QED BY <4>1, <4>4, <2>3
    <3> QED BY <3>1, <3>2, <1>4 DEF Calm, Crew
  <2>4. CASE wakes[y.id].st = "owed" /\ disk'.wakes[y.id].res = wakes[y.id].res
    <3>1. wakes[y.id].st = "claimed"
      BY <2>1, <2>4, <1>4, CalmItem
    <3> QED BY <3>1, <2>4
  <2> QED BY <2>1, <2>2, <2>3, <2>4 DEF OnDisk
<1>5. ASSUME NEW id \in Tasks, wakes'[id].st \in {"claimed", "started"}
      PROVE  disk'.wakes[id].res = wakes'[id].res
  <2>1. Heir(id) /\ OnDisk(id)
    BY DEF Calm, Pages
  <2>2. CASE disk'.wakes[id].res = wakes'[id].res
    BY <2>2
  <2>3. CASE disk'.wakes[id] = disk.wakes[id] /\ ~(wakes[id].st = "owed" /\ wakes'[id].st = "claimed")
    <3>1. wakes[id].st \in {"claimed", "started"} /\ wakes'[id].res = wakes[id].res
      BY <2>1, <2>3, <1>5 DEF Heir
    <3> QED BY <3>1, <2>3 DEF Names
  <2> QED BY <2>1, <2>2, <2>3, <1>5 DEF OnDisk
<1> QED BY <1>1, <1>3, <1>4, <1>5 DEF Names

(* What is spent is a number.                                               *)
LEMMA FailNat ==
    ASSUME WakeInv
    PROVE  spent["fail"] \in Nat
BY TypedParts DEF WakeInv, Odd

(* A reply in a record has a receipt that owes it, or has let go of it.     *)
LEMMA CarriedOwes ==
    ASSUME WakeInv, NEW id \in Tasks, NEW x, x \in wakes[id].res \/ x \in disk.wakes[id].res
    PROVE  x \in Tasks /\ hand[x] \in {"owes", "told"}
<1>1. Book(hand, intents, wakes) /\ Book(hand, disk.intents, disk.wakes)
  BY DEF WakeInv, BookInv, Lasts
<1>2. wakes[id].res \subseteq Tasks /\ disk.wakes[id].res \subseteq Tasks
  BY <1>1 DEF Book, Rows, Record
<1> QED BY <1>1, <1>2 DEF Book

(* Such a step leaves nothing lagging that no write failed for.             *)
LEMMA CalmLags ==
    ASSUME WakeInv, WakeInv', Names, Names', Lags, Calm
    PROVE  Lags'
<1>1. /\ spent["fail"] \in Nat /\ spent'["fail"] \in Nat /\ spent'["fail"] >= spent["fail"]
      /\ unwritten' => unwritten \/ spent'["fail"] >= 1
  BY FailNat DEF Calm, Pages, WakeInv, BookInv, TypeOK, Odd
<1>2. unwritten' => spent'["fail"] >= 1
  BY <1>1 DEF Lags
<1>3. ASSUME NEW id \in Tasks, NEW x, x \in wakes'[id].res \cup disk'.wakes[id].res,
             hand'[x] = "owes"
      PROVE  spent'["fail"] >= 1
  <2>1. Heir(id) /\ OnDisk(id)
    BY DEF Calm, Pages
  <2>2. \/ x \in wakes[id].res \cup disk.wakes[id].res
        \/ x \in intents /\ x \in wakes'[id].res
    BY <2>1, <1>3 DEF Heir, OnDisk
  <2>3. CASE x \in wakes[id].res \cup disk.wakes[id].res
    <3>1. x \in Tasks /\ hand[x] \in {"owes", "told"}
      BY <2>3, CarriedOwes
    <3>2. hand[x] = "owes"
      BY <3>1, <1>3 DEF Calm, Post
    <3>3. spent["fail"] >= 1
      BY <3>2, <2>3 DEF Lags
    <3> QED BY <3>3, <1>1
  <2>4. CASE x \in intents /\ x \in wakes'[id].res
    <3>1. unwritten'
      BY <2>4, <1>3 DEF Calm, Post
    <3> QED BY <3>1, <1>2
  <2> QED BY <2>2, <2>3, <2>4
<1>4. ASSUME spent'["fail"] = 0, turn'.at = "setup", NEW p \in turn'.start,
             Owned(wakes', p.id), NEW x \in p.res, x \in upd'
      PROVE  x \in turn'.carries
  <2>1. CASE turn' = turn
    <3>1. spent["fail"] = 0
      BY <1>1, <1>4
    <3>2. p.id \in Tasks /\ Owned(wakes, p.id) /\ p \in turn.start
      BY <1>4, <2>1, CalmRecord
    <3>3. x \in wakes[p.id].res
      BY <3>2 DEF Names
    <3>4. hand[x] \in {"owes", "told"}
      BY <3>2, <3>3, CarriedOwes
    <3>5. hand[x] # "owes"
      BY <3>1, <3>2, <3>3 DEF Lags
    <3>6. x \in upd
      BY <3>4, <3>5, <1>4 DEF Calm, Post
    <3> QED BY <3>1, <3>2, <3>6, <2>1, <1>4 DEF Lags
  <2>2. CASE turn'.carries = upd'
    BY <2>2, <1>4
  <2> QED BY <2>1, <2>2, <1>4 DEF Calm, Crew
<1> QED BY <1>2, <1>3, <1>4 DEF Lags

(* A claim that is held, or that is taken, is the one it was: what its item *)
(* names, it was named by then.                                             *)
LEMMA CalmSpareItem ==
    ASSUME WakeInv, Calm, Alive, NEW x, Closed(x), NEW id \in Tasks, NEW y \in item', y.id = id,
           x \in y.res
    PROVE  /\ wakes[id].st \in {"owed", "claimed"} /\ x \in wakes[id].res => FALSE
           /\ y \in item
<1>1. y \in item
  <2>1. CASE \E p \in starting : Owned(wakes, p.id) /\ y.id = p.id /\ y.res = p.res
    BY <2>1 DEF Closed
  <2> QED BY <2>1 DEF Calm, Crew
<1>2. HasItem(id) /\ TakenOnce(id)
  BY <1>1 DEF HasItem, WakeInv, Takers
<1>3. ASSUME wakes[id].st \in {"owed", "claimed"}, x \in wakes[id].res
      PROVE  FALSE
  <2>1. wakes[id].st = "claimed" /\ wakes[id].held = TRUE
    BY <1>2, <1>3 DEF TakenOnce
  <2> QED BY <2>1, <1>1, <1>3 DEF Closed, Spare
<1> QED BY <1>1, <1>3

(* What is spare in memory stays so.                                        *)
LEMMA CalmSpare ==
    ASSUME WakeInv, Calm, Alive, NEW x \in Tasks, Closed(x),
           NEW id \in Tasks, wakes'[id].st \in {"owed", "claimed"}, x \in wakes'[id].res
    PROVE  /\ wakes[id].st \in {"owed", "claimed"} /\ x \in wakes[id].res
           /\ hand'[x] = "told" /\ x \notin upd'
           /\ \A y \in item' : y.id = id => x \notin y.res
<1>1. Heir(id) /\ x \notin intents
  BY DEF Calm, Pages, Closed
<1>2. x \in wakes[id].res
  BY <1>1 DEF Heir
<1>3. wakes[id].st # "none"
  BY <1>2 DEF WakeInv, BookInv, Lasts, Book, Rows, RowOK
<1>4. wakes[id].st \in {"owed", "claimed", "started"}
  BY <1>3, TypedParts DEF WakeInv, Record
<1>5. wakes[id].st \in {"owed", "claimed"}
  BY <1>1, <1>4 DEF Heir
<1>6. hand[x] = "told" /\ x \notin upd
  BY <1>2, <1>5 DEF Closed, Spare
<1>7. hand'[x] = "told" /\ x \notin upd'
  BY <1>6 DEF Calm, Post
<1>8. \A y \in item' : y.id = id => x \notin y.res
  BY <1>2, <1>5, CalmSpareItem
<1> QED BY <1>2, <1>5, <1>7, <1>8

(* What is closed stays closed.                                             *)
LEMMA CalmClosed ==
    ASSUME WakeInv, WakeInv', Calm, Alive, NEW x \in Tasks, Closed(x),
           spent["fail"] <= 1, Heard(x)
    PROVE  Closed(x)'
<1>1. /\ x \notin intents /\ x \notin disk.intents /\ hand[x] \in {"owes", "told"}
  BY DEF Closed
<1>2. x \notin intents' /\ x \notin disk'.intents /\ hand'[x] \in {"owes", "told"}
  BY <1>1 DEF Calm, Pages, Post
<1>3. Spare(wakes, x)'
  BY CalmSpare DEF Spare
<1>4. Spare(disk.wakes, x)'
  <2> SUFFICES ASSUME NEW id \in Tasks, disk'.wakes[id].st \in {"owed", "claimed"},
                      x \in disk'.wakes[id].res
               PROVE  /\ hand'[x] = "told" /\ x \notin upd'
                      /\ disk'.wakes[id].st = "claimed" /\ disk'.wakes[id].held = TRUE =>
                            \A y \in item' : y.id = id => x \notin y.res
    BY DEF Spare
  <2>1. CASE /\ disk'.wakes[id].st = wakes'[id].st
             /\ disk'.wakes[id].res = wakes'[id].res
    BY <2>1, CalmSpare
  <2>2. CASE disk'.wakes[id] = disk.wakes[id]
    <3>1. hand[x] = "told" /\ x \notin upd
      BY <2>2 DEF Closed, Spare
    <3>2. hand'[x] = "told" /\ x \notin upd'
      BY <3>1 DEF Calm, Post
    <3>3. ASSUME disk.wakes[id].st = "claimed", disk.wakes[id].held = TRUE,
                 NEW y \in item', y.id = id, x \in y.res
          PROVE  FALSE
      <4>1. y \in item
        BY <3>3, CalmSpareItem
      <4> QED BY <4>1, <3>3, <2>2 DEF Closed, Spare
    <3> QED BY <3>2, <3>3, <2>2
  <2>3. CASE /\ wakes[id].st = "owed" /\ disk'.wakes[id].held = FALSE
             /\ disk'.wakes[id].res = wakes[id].res
    <3>1. hand[x] = "told" /\ x \notin upd
      BY <2>3 DEF Closed, Spare
    <3>2. hand'[x] = "told" /\ x \notin upd'
      BY <3>1 DEF Calm, Post
    <3> QED BY <3>2, <2>3
  <2> QED BY <2>1, <2>2, <2>3 DEF Calm, Pages, OnDisk
<1>5. ASSUME NEW p \in starting', Owned(wakes', p.id), x \in p.res
      PROVE  FALSE
  <2>1. Owned(wakes, p.id)
    BY <1>5, CalmRecord
  <2>2. p \in starting
    BY <1>5 DEF Calm, Crew
  <2> QED BY <2>1, <2>2, <1>5 DEF Closed
<1>6. ASSUME turn'.at = "setup", NEW p \in turn'.start, Owned(wakes', p.id), x \in p.res
      PROVE  FALSE
  <2>1. Owned(wakes, p.id)
    BY <1>6, CalmRecord
  <2>2. CASE turn' = turn
    BY <2>1, <2>2, <1>6 DEF Closed
  <2>3. CASE p \in starting
    BY <2>1, <2>3, <1>6 DEF Closed
  <2> QED BY <2>2, <2>3, <1>6 DEF Calm, Crew
<1> QED BY <1>2, <1>3, <1>4, <1>5, <1>6 DEF Closed

(* A step that neither sends a prompt nor hears early from the engine.      *)
Settled == woke' = woke /\ (doneIds' = {} \/ (turn' = turn /\ doneIds' = doneIds))

(* Such a step keeps it all.                                                *)
LEMMA CalmOnce ==
    ASSUME WakeInv, WakeInv', OnceInv, Calm, Settled, Alive
    PROVE  OnceInv'
<1>1. Names'
  BY CalmNames DEF OnceInv
<1>2. Lags'
  BY <1>1, CalmLags DEF OnceInv
<1>3. DoneOnce'
  BY DEF DoneOnce, OnceInv, Settled
<1>4. HeardOnce'
  <2> SUFFICES ASSUME spent'["fail"] <= 1, NEW x \in Tasks
               PROVE  /\ woke'[x] <= 1 /\ (Early(x)' => woke'[x] = 0)
                      /\ Heard(x)' => Closed(x)'
    BY DEF HeardOnce
  <2>1. spent["fail"] <= 1
    <3>1. spent["fail"] \in Nat /\ spent'["fail"] \in Nat /\ spent'["fail"] >= spent["fail"]
      BY FailNat DEF Calm, Pages, WakeInv, BookInv, TypeOK, Odd
    <3> QED BY <3>1
  <2>2. Early(x)' => Early(x)
    BY DEF Early, Settled
  <2>3. /\ woke[x] <= 1 /\ (Early(x) => woke[x] = 0) /\ (Heard(x) => Closed(x))
    BY <2>1 DEF OnceInv, HeardOnce
  <2>4. Heard(x)' => Heard(x)
    BY <2>2 DEF Heard, Settled
  <2>5. Heard(x)' => Closed(x)'
    BY <2>1, <2>3, <2>4, CalmClosed
  <2> QED BY <2>2, <2>3, <2>5 DEF Settled
<1> QED BY <1>1, <1>2, <1>3, <1>4 DEF OnceInv

-----------------------------------------------------------------------------
(* What each step does to the books, for a wake that goes out once *)

(* A record of v is the one in memory, on its way: no reply is new in it,   *)
(* and it is not claimed anew.                                              *)
Thins(v, id) ==
    /\ v[id].res \subseteq wakes[id].res
    /\ v[id].st = "claimed" => wakes[id].st = "claimed" /\ v[id].res = wakes[id].res
    /\ v[id].st = "started" =>
          wakes[id].st \in {"claimed", "started"} /\ v[id].res = wakes[id].res
    /\ v[id].st = "owed" => wakes[id].st # "started"

(* A step that only thins the records, and writes them, or does not.        *)
LEMMA ThinPages ==
    ASSUME WakeInv, \A x \in intents' : x \in intents \/ hand[x] = "none",
           \A id \in Tasks : Thins(wakes', id),
           disk' = disk \/ (disk'.intents = intents' /\ disk'.wakes = wakes'),
           spent'["fail"] >= spent["fail"], unwritten' => unwritten \/ spent'["fail"] >= 1
    PROVE  Pages
<1>1. \A x \in disk'.intents : x \in disk.intents \/ x \in intents'
  OBVIOUS
<1>2. ASSUME NEW id \in Tasks PROVE Heir(id) /\ OnDisk(id)
  <2>1. Thins(wakes', id)
    OBVIOUS
  <2>2. Heir(id)
    BY <2>1 DEF Heir, Thins
  <2>3. OnDisk(id)
    BY <2>1 DEF OnDisk, Thins
  <2> QED BY <2>2, <2>3
<1> QED BY <1>1, <1>2 DEF Pages

(* It delivers nothing.                                                     *)
LEMMA ThinPost ==
    ASSUME WakeInv, \A id \in Tasks : Thins(wakes', id),
           \A x \in Tasks : /\ hand[x] = "told" => hand'[x] = "told"
                            /\ hand[x] = "owes" => hand'[x] \in {"owes", "told"},
           \A x \in upd' : x \in upd \/ hand[x] # "told"
    PROVE  Post
<1>1. \A x \in intents : \A id \in Tasks : x \notin wakes[id].res
  BY DEF WakeInv, BookInv, Lasts, Book
<1>2. \A id \in Tasks : \A x \in wakes'[id].res : x \notin intents
  BY <1>1 DEF Thins
<1> QED BY <1>2 DEF Post

(* A write that fails is counted.                                           *)
LEMMA SpendsFails ==
    ASSUME WakeInv, NEW O, NEW f \in 0 .. 2, NEW ok \in BOOLEAN, Spends(O, f + Failed(ok))
    PROVE  /\ spent'["fail"] >= spent["fail"] + f + Failed(ok) /\ spent'["fail"] \in Nat
           /\ spent'["fail"] >= spent["fail"] /\ (~ok => spent'["fail"] >= spent["fail"] + 1)
<1>1. f + Failed(ok) \in Nat /\ Failed(ok) \in Nat /\ (~ok => Failed(ok) = 1)
  BY DEF Failed
<1>2. spent \in [Odd -> Nat] /\ spent["fail"] \in Nat /\ "fail" \in Odd
  BY TypedParts, FailNat DEF WakeInv, Odd
<1>3. spent'["fail"] >= spent["fail"] + (f + Failed(ok)) /\ spent'["fail"] \in Nat
  BY <1>1, <1>2, SpendsMore
<1> QED BY <1>1, <1>2, <1>3

(* The same of one write.                                                   *)
LEMMA SpendsFailed ==
    ASSUME WakeInv, NEW O, NEW ok \in BOOLEAN, Spends(O, Failed(ok))
    PROVE  /\ spent'["fail"] \in Nat
           /\ spent'["fail"] >= spent["fail"] /\ (~ok => spent'["fail"] >= spent["fail"] + 1)
<1>1. Spends(O, 0 + Failed(ok)) /\ 0 \in 0 .. 2
  BY DEF Failed
<1> QED BY <1>1, SpendsFails

(* What memory holds and the disk does not, a write failed for.             *)
LEMMA WriteFails ==
    ASSUME WakeInv, NEW ok \in BOOLEAN, unwritten' = ~ok, spent'["fail"] \in Nat,
           ~ok => spent'["fail"] >= spent["fail"] + 1
    PROVE  unwritten' => spent'["fail"] >= 1
<1>1. spent["fail"] \in Nat
  BY FailNat
<1>2. CASE ok = TRUE
  BY <1>2
<1>3. CASE ok = FALSE
  <2>1. spent'["fail"] >= spent["fail"] + 1
    BY <1>3
  <2> QED BY <2>1, <1>1
<1> QED BY <1>2, <1>3

(* A write, that may fail, of thinner records.                              *)
LEMMA FlushPages ==
    ASSUME WakeInv, NEW I, NEW w, NEW ok \in BOOLEAN, Flush(I, w, ok), I \subseteq intents,
           \A id \in Tasks : Thins(w, id),
           spent'["fail"] \in Nat, spent'["fail"] >= spent["fail"],
           ~ok => spent'["fail"] >= spent["fail"] + 1,
           hand' = hand, upd' \subseteq upd
    PROVE  Pages /\ Post
<1>1. /\ intents' = I /\ wakes' = w /\ unwritten' = ~ok
      /\ disk' = IF ok THEN [intents |-> I, wakes |-> w] ELSE disk
  BY DEF Flush
<1>2. disk' = disk \/ (disk'.intents = intents' /\ disk'.wakes = wakes')
  BY <1>1
<1>3. unwritten' => spent'["fail"] >= 1
  BY <1>1, WriteFails
<1>4. Pages
  BY <1>1, <1>2, <1>3, ThinPages
<1>5. Post
  BY <1>1, ThinPost
<1> QED BY <1>4, <1>5

(* The records as they are.                                                 *)
LEMMA SameThins ==
    ASSUME WakeInv, NEW id \in Tasks
    PROVE  Thins(wakes, id)
BY DEF Thins

(* No write.                                                                *)
LEMMA NoWritePages ==
    ASSUME WakeInv, NoWrite, spent'["fail"] >= spent["fail"], hand' = hand, upd' \subseteq upd
    PROVE  Pages /\ Post
<1>1. \A id \in Tasks : Thins(wakes', id)
  BY SameThins DEF NoWrite
<1>2. Pages
  BY <1>1, ThinPages DEF NoWrite
<1>3. Post
  BY <1>1, ThinPost
<1> QED BY <1>2, <1>3

(* One record gone, and all of them.                                        *)
LEMMA WithoutThins ==
    ASSUME WakeInv, NEW k \in Tasks, NEW id \in Tasks
    PROVE  Thins(Without(wakes, k), id) /\ Thins(NoRecords, id)
<1>1. NoRecord.st = "none" /\ NoRecord.res = {} /\ NoRecords[id] = NoRecord
  BY DEF NoRecord, NoRecords
<1>2. Rows(wakes)
  BY TypedParts DEF WakeInv
<1>3. CASE id = k \/ wakes[id].st = "none"
  <2>1. Without(wakes, k)[id] = NoRecord
    BY <1>2, <1>3, WithoutRows
  <2> QED BY <2>1, <1>1 DEF Thins
<1>4. CASE id # k /\ wakes[id].st # "none"
  <2>1. /\ Without(wakes, k)[id].st = wakes[id].st
        /\ Without(wakes, k)[id].res = wakes[id].res
    BY <1>2, <1>4, WithoutRows
  <2> QED BY <2>1, <1>1 DEF Thins
<1> QED BY <1>3, <1>4

(* One record changed, not claimed anew.                                    *)
LEMMA SetThins ==
    ASSUME WakeInv, NEW k \in Tasks, NEW r, r.res = wakes[k].res,
           \/ r.st = wakes[k].st
           \/ r.st \in {"owed", "started"} /\ wakes[k].st = "claimed",
           NEW id \in Tasks
    PROVE  Thins([wakes EXCEPT ![k] = r], id)
<1>1. [wakes EXCEPT ![k] = r][id] = IF id = k THEN r ELSE wakes[id]
  BY TypedParts DEF WakeInv, Rows
<1> QED BY <1>1 DEF Thins

(* A claim given back.                                                      *)
LEMMA GivenBackThins ==
    ASSUME WakeInv, NEW k \in Tasks, wakes[k].st \in {"owed", "claimed"}, wakes[k].cut = FALSE,
           NEW id \in Tasks
    PROVE  Thins(GivenBack(wakes, k), id)
<1>0. Rows(wakes) /\ wakes[k].st # "none"
  BY TypedParts DEF WakeInv
<1>1. CASE wakes[k].n + 1 >= MaxAttempts
  <2>1. GivenBack(wakes, k) = Without(wakes, k)
    BY <1>0, <1>1, GivenBackRow
  <2> QED BY <2>1, WithoutThins
<1>2. CASE ~(wakes[k].n + 1 >= MaxAttempts)
  <2>1. \E r : /\ RowOK(r) /\ r.res = wakes[k].res /\ r.st = "owed"
               /\ r.n = wakes[k].n + 1 /\ r.cut = FALSE /\ r.held = FALSE
               /\ GivenBack(wakes, k) = [wakes EXCEPT ![k] = r]
    BY <1>0, <1>2, GivenBackRow
  <2>2. PICK r : /\ r.st = "owed" /\ r.res = wakes[k].res
                 /\ GivenBack(wakes, k) = [wakes EXCEPT ![k] = r]
    BY <2>1
  <2>3. Thins([wakes EXCEPT ![k] = r], id)
    BY <2>2, SetThins
  <2> QED BY <2>2, <2>3
<1> QED BY <1>1, <1>2

(* A reply consumed.                                                        *)
LEMMA ConsumedThins ==
    ASSUME WakeInv, NEW t, NEW id \in Tasks
    PROVE  Thins(Consumed(t), id)
<1> DEFINE w == [i \in Tasks |->
                    IF i \in Owing(wakes) THEN [wakes[i] EXCEPT !.res = @ \ {t}]
                    ELSE wakes[i]]
           K == {i \in Tasks : w[i].res # {}}
<1>1. Consumed(t)[id] = IF id \in K THEN [w[id] EXCEPT !.ahead = @ \cap K] ELSE NoRecord
  BY DEF Consumed, Kept
<1>2. wakes[id] \in Record
  BY TypedParts DEF WakeInv
<1>3. /\ w[id] \in Record /\ w[id].st = wakes[id].st
      /\ w[id].res = IF wakes[id].st = "owed" THEN wakes[id].res \ {t} ELSE wakes[id].res
  <2>1. w[id] = IF wakes[id].st = "owed" THEN [wakes[id] EXCEPT !.res = @ \ {t}] ELSE wakes[id]
    BY DEF Owing
  <2> HIDE DEF w
  <2> QED BY <2>1, <1>2 DEF Record
<1>4. NoRecord.st = "none" /\ NoRecord.res = {}
  BY DEF NoRecord
<1> HIDE DEF w, K
<1>5. CASE id \in K
  <2>1. Consumed(t)[id].st = w[id].st /\ Consumed(t)[id].res = w[id].res
    BY <1>1, <1>3, <1>5 DEF Record
  <2> QED BY <2>1, <1>3 DEF Thins
<1>6. CASE id \notin K
  <2>1. Consumed(t)[id] = NoRecord
    BY <1>1, <1>6
  <2> QED BY <2>1, <1>4 DEF Thins
<1> QED BY <1>5, <1>6

(* With its write.                                                          *)
LEMMA ConsumePages ==
    ASSUME WakeInv, NEW t, NEW ok \in BOOLEAN, Consume(t, ok), Spends({}, Failed(ok))
    PROVE  /\ Pages
           /\ \A id \in Tasks : Thins(wakes', id)
<1>1. /\ spent'["fail"] \in Nat /\ spent["fail"] \in Nat
      /\ spent'["fail"] >= spent["fail"] /\ (~ok => spent'["fail"] >= spent["fail"] + 1)
  BY SpendsFailed, FailNat
<1>2. CASE Flush(intents \ {t}, Consumed(t), ok)
  <2>1. /\ intents' = intents \ {t} /\ wakes' = Consumed(t) /\ unwritten' = ~ok
        /\ disk' = IF ok THEN [intents |-> intents \ {t}, wakes |-> Consumed(t)] ELSE disk
    BY <1>2 DEF Flush
  <2>2. \A id \in Tasks : Thins(wakes', id)
    BY <2>1, ConsumedThins
  <2>3. disk' = disk \/ (disk'.intents = intents' /\ disk'.wakes = wakes')
    BY <2>1
  <2>4. unwritten' => spent'["fail"] >= 1
    BY <2>1, <1>1, WriteFails
  <2>5. \A x \in intents' : x \in intents \/ hand[x] = "none"
    BY <2>1
  <2> QED BY <2>2, <2>3, <2>4, <2>5, <1>1, ThinPages
<1>3. CASE NoWrite
  <2>1. /\ \A id \in Tasks : Thins(wakes', id)
        /\ intents' = intents /\ disk' = disk /\ unwritten' = unwritten
    BY <1>3, SameThins DEF NoWrite
  <2> QED BY <2>1, <1>1, ThinPages
<1> QED BY <1>2, <1>3 DEF Consume

(* A start refused.                                                         *)
LEMMA RefusedPages ==
    ASSUME WakeInv, NEW p, p.id \in Tasks, wakes[p.id].st \in {"owed", "claimed"},
           NEW again \in BOOLEAN, NEW f \in 0 .. 1, Refused(p, again, f),
           hand' = hand, upd' \subseteq upd
    PROVE  Pages /\ Post
<1> DEFINE w == IF again THEN GivenBack(wakes, p.id) ELSE Without(wakes, p.id)
<1>1. Rows(wakes) /\ (Up => wakes[p.id].cut = FALSE)
  BY TypedParts DEF WakeInv, BookInv, Lasts
<1>2. CASE Up /\ \E ok \in BOOLEAN : Flush(intents, w, ok) /\ Spends({}, f + Failed(ok))
  <2>1. PICK ok \in BOOLEAN : Flush(intents, w, ok) /\ Spends({}, f + Failed(ok))
    BY <1>2
  <2>2. \A id \in Tasks : Thins(w, id)
    <3>1. again => w = GivenBack(wakes, p.id)
      OBVIOUS
    <3>2. ~again => w = Without(wakes, p.id)
      OBVIOUS
    <3> HIDE DEF w
    <3>3. \A id \in Tasks : Thins(GivenBack(wakes, p.id), id)
      BY <1>1, <1>2, GivenBackThins
    <3>4. \A id \in Tasks : Thins(Without(wakes, p.id), id)
      BY WithoutThins
    <3> QED BY <3>1, <3>2, <3>3, <3>4
  <2> HIDE DEF w
  <2>3. /\ spent'["fail"] \in Nat /\ spent'["fail"] >= spent["fail"]
        /\ ~ok => spent'["fail"] >= spent["fail"] + 1
    <3>1. f \in 0 .. 2
      OBVIOUS
    <3> QED BY <3>1, <2>1, SpendsFails
  <2> QED BY <2>1, <2>2, <2>3, FlushPages
<1>3. CASE /\ IF f > 0 THEN Flush(intents, wakes, FALSE) ELSE NoWrite
           /\ Spends({}, f)
  <2>1. /\ spent'["fail"] \in Nat /\ spent["fail"] \in Nat
        /\ spent'["fail"] >= spent["fail"] + f
    <3>1. spent \in [Odd -> Nat] /\ "fail" \in Odd /\ f \in Nat
      BY TypedParts DEF WakeInv, Odd
    <3> QED BY <3>1, <1>3, SpendsMore, FailNat
  <2>2. spent'["fail"] >= spent["fail"]
    BY <2>1
  <2>3. \A id \in Tasks : Thins(wakes, id)
    BY SameThins
  <2>4. CASE f > 0
    <3>1. Flush(intents, wakes, FALSE) /\ FALSE \in BOOLEAN
      BY <1>3, <2>4
    <3>2. spent'["fail"] >= spent["fail"] + 1
      BY <2>1, <2>4
    <3> QED BY <3>1, <3>2, <2>1, <2>2, <2>3, FlushPages
  <2>5. CASE ~(f > 0)
    <3>1. NoWrite
      BY <1>3, <2>5
    <3> QED BY <3>1, <2>2, NoWritePages
  <2> QED BY <2>4, <2>5
<1>4. \/ Up /\ \E ok \in BOOLEAN : Flush(intents, w, ok) /\ Spends({}, f + Failed(ok))
      \/ /\ IF f > 0 THEN Flush(intents, wakes, FALSE) ELSE NoWrite
         /\ Spends({}, f)
  BY DEF Refused
<1> HIDE DEF w
<1> QED BY <1>2, <1>3, <1>4

(* A record that goes, with its write.                                      *)
LEMMA WithoutPages ==
    ASSUME WakeInv, NEW k \in Tasks, NEW ok \in BOOLEAN,
           Flush(intents, Without(wakes, k), ok), Spends({}, Failed(ok)),
           hand' = hand, upd' \subseteq upd
    PROVE  Pages /\ Post
<1>1. \A id \in Tasks : Thins(Without(wakes, k), id)
  BY WithoutThins
<1>2. /\ spent'["fail"] \in Nat /\ spent'["fail"] >= spent["fail"]
      /\ ~ok => spent'["fail"] >= spent["fail"] + 1
  BY SpendsFailed
<1> QED BY <1>1, <1>2, FlushPages

(* A wake cancelled.                                                        *)
LEMMA CancelledPages ==
    ASSUME WakeInv, NEW p, p.id \in Tasks, Cancelled(p), hand' = hand, upd' \subseteq upd
    PROVE  Pages /\ Post
<1>1. PICK ok \in BOOLEAN : /\ Flush(intents, Without(wakes, p.id), ok)
                            /\ Spends({}, Failed(ok))
  BY DEF Cancelled
<1> QED BY <1>1, WithoutPages

(* All that is owed forgotten.                                              *)
LEMMA ForgetPages ==
    ASSUME WakeInv, NEW O, Forget(O), hand' = hand, upd' \subseteq upd
    PROVE  Pages /\ Post
<1>1. PICK ok \in BOOLEAN : Flush({}, NoRecords, ok) /\ Spends(O, Failed(ok))
  BY DEF Forget
<1>2. \A id \in Tasks : Thins(NoRecords, id)
  BY WithoutThins
<1>3. /\ spent'["fail"] \in Nat /\ spent'["fail"] >= spent["fail"]
      /\ ~ok => spent'["fail"] >= spent["fail"] + 1
  BY <1>1, SpendsFailed
<1>4. {} \subseteq intents
  OBVIOUS
<1> QED BY <1>1, <1>2, <1>3, <1>4, FlushPages

(* A record changed, with its write: what it carries stays, and it is not   *)
(* claimed anew.                                                            *)
LEMMA SetPages ==
    ASSUME WakeInv, NEW k \in Tasks, NEW r, r.res = wakes[k].res,
           r.st = wakes[k].st \/ (r.st = "started" /\ wakes[k].st = "claimed"),
           NEW ok \in BOOLEAN, Flush(intents, [wakes EXCEPT ![k] = r], ok),
           spent'["fail"] \in Nat, spent'["fail"] >= spent["fail"],
           ~ok => spent'["fail"] >= spent["fail"] + 1,
           hand' = hand, upd' \subseteq upd
    PROVE  Pages /\ Post
<1>1. \A id \in Tasks : Thins([wakes EXCEPT ![k] = r], id)
  BY SetThins
<1> QED BY <1>1, FlushPages

-----------------------------------------------------------------------------
(* Each step, for a wake that goes out once *)

(* Starts, turn and items that only go.                                     *)
LEMMA StillCrew ==
    ASSUME starting' \subseteq starting, item' \subseteq item,
           turn' = turn \/ (turn'.at # "setup" /\ turn'.start \subseteq turn.start)
    PROVE  Crew
BY DEF Crew

(* A hand-off is asked.                                                     *)
LEMMA AskCalm ==
    ASSUME WakeInv, OnceInv, NEW t \in Tasks, Ask(t) \/ Ticket(t)
    PROVE  Calm /\ Settled
<1>1. /\ doneIds' = doneIds /\ turn' = turn /\ woke' = woke /\ starting' = starting
      /\ item' = item /\ upd' = upd /\ hand[t] = "none" /\ wakes' = wakes
      /\ intents' \subseteq intents \cup {t}
      /\ disk' = disk \/ (disk'.intents = intents' /\ disk'.wakes = wakes')
  BY DEF Ask, Ticket, Acknowledged, Flush, history
<1>2. \A x \in Tasks : hand[x] # "none" => hand'[x] = hand[x]
  BY <1>1, TypedParts DEF WakeInv, Ask, Ticket, Acknowledged
<1>3. \A id \in Tasks : Thins(wakes', id)
  BY <1>1, SameThins
<1>4. spent \in [Odd -> Nat] /\ spent["fail"] \in Nat /\ "fail" \in Odd
  BY TypedParts, FailNat DEF WakeInv, Odd
<1>5. spent'["fail"] >= spent["fail"] /\ (unwritten' => spent'["fail"] >= 1)
  <2>1. CASE \E f \in 0 .. 2 : Acknowledged(t, f)
    <3>1. PICK f \in 0 .. 2 : Acknowledged(t, f)
      BY <2>1
    <3>2. f \in Nat /\ Spends({}, f) /\ unwritten' = ~(f < 2)
      BY <3>1 DEF Acknowledged, Flush
    <3>3. spent'["fail"] >= spent["fail"] + f /\ spent'["fail"] \in Nat
      BY <3>2, <1>4, SpendsMore
    <3>4. spent'["fail"] >= spent["fail"]
      BY <3>2, <3>3, <1>4
    <3>5. CASE f < 2
      BY <3>2, <3>4, <3>5
    <3>6. CASE ~(f < 2)
      <4>1. spent'["fail"] >= 1
        BY <3>2, <3>3, <3>6, <1>4
      <4> QED BY <3>4, <4>1
    <3> QED BY <3>5, <3>6
  <2>2. CASE \E ok \in BOOLEAN : Spends({}, 2 + Failed(ok))
    <3>1. PICK ok \in BOOLEAN : Spends({}, 2 + Failed(ok))
      BY <2>2
    <3>2. 2 + Failed(ok) \in Nat /\ 2 + Failed(ok) >= 1
      BY DEF Failed
    <3>3. spent'["fail"] >= spent["fail"] + (2 + Failed(ok)) /\ spent'["fail"] \in Nat
      BY <3>1, <3>2, <1>4, SpendsMore
    <3> QED BY <3>2, <3>3, <1>4
  <2> QED BY <2>1, <2>2 DEF Ask, Ticket
<1>6. \A x \in intents' : x \in intents \/ hand[x] = "none"
  BY <1>1
<1>7. Pages
  BY <1>1, <1>3, <1>5, <1>6, ThinPages
<1>8. Post
  BY <1>1, <1>2, <1>3, ThinPost
<1>9. Crew
  BY <1>1, StillCrew
<1> QED BY <1>1, <1>7, <1>8, <1>9 DEF Calm, Settled

(* A reply is delivered, or dropped.                                        *)
LEMMA ReturnCalm ==
    ASSUME WakeInv, OnceInv, NEW t \in Tasks, Return(t)
    PROVE  Calm /\ Settled
<1>1. /\ doneIds' = doneIds /\ turn' = turn /\ woke' = woke /\ starting' = starting
      /\ item' = item /\ upd' = upd \cup {t} /\ hand[t] \in {"out", "owes"}
  BY DEF Return
<1>2. /\ \A x \in Tasks : x # t => hand'[x] = hand[x]
      /\ hand'[t] \in {"owes", "told"} /\ (hand'[t] = "owes" => unwritten')
  BY TypedParts DEF WakeInv, Return, Durable
<1>3. Crew
  BY <1>1, StillCrew
<1>4. /\ Book(hand, intents, wakes) /\ spent["fail"] \in Nat
      /\ \A x \in upd' : x \in upd \/ hand[x] # "told"
      /\ \A x \in Tasks : /\ hand[x] = "told" => hand'[x] = "told"
                          /\ hand[x] = "owes" => hand'[x] \in {"owes", "told"}
  BY <1>1, <1>2, FailNat DEF WakeInv, BookInv, Lasts
<1>5. CASE intents' \subseteq intents /\ UNCHANGED <<wakes, disk, unwritten, spent>>
  <2>1. \A id \in Tasks : Thins(wakes', id)
    BY <1>5, SameThins
  <2>2. spent'["fail"] >= spent["fail"] /\ (unwritten' => unwritten \/ spent'["fail"] >= 1)
    BY <1>4, <1>5
  <2>3. \A x \in intents' : x \in intents \/ hand[x] = "none"
    BY <1>5
  <2>4. Pages
    BY <2>1, <2>2, <2>3, <1>5, ThinPages
  <2>5. Post
    BY <2>1, <1>4, ThinPost
  <2> QED BY <2>4, <2>5, <1>1, <1>3 DEF Calm, Settled
<1>6. CASE Intends(t) /\ \E w \in Delivered(t), ok \in BOOLEAN :
                 Flush(intents \ {t}, w, ok) /\ Spends({}, Failed(ok))
  <2>1. PICK w \in Delivered(t), ok \in BOOLEAN :
               Flush(intents \ {t}, w, ok) /\ Spends({}, Failed(ok))
    BY <1>6
  <2>2. t \in intents
    BY <1>6 DEF Intends
  <2>3. \E id \in Tasks : Adds(t, w, id)
    BY <1>4, <2>2, DeliveredRows
  <2>4. PICK k \in Tasks : Adds(t, w, k)
    BY <2>3
  <2>5. /\ intents' = intents \ {t} /\ wakes' = w /\ unwritten' = ~ok
        /\ disk' = IF ok THEN [intents |-> intents \ {t}, wakes |-> w] ELSE disk
    BY <2>1 DEF Flush
  <2>6. /\ spent'["fail"] \in Nat /\ spent'["fail"] >= spent["fail"]
        /\ ~ok => spent'["fail"] >= spent["fail"] + 1
    BY <2>1, SpendsFailed
  <2>7. unwritten' => spent'["fail"] >= 1
    BY <2>5, <2>6, WriteFails
  <2>8. ASSUME NEW id \in Tasks PROVE Heir(id) /\ OnDisk(id)
    <3>1. \/ w[id] = wakes[id]
          \/ /\ w[id].st = "owed" /\ w[id].res = wakes[id].res \cup {t}
             /\ wakes[id].st \in {"none", "owed"}
      BY <2>4 DEF Adds
    <3>2. Heir(id)
      BY <3>1, <2>2, <2>5 DEF Heir
    <3>3. ~(wakes[id].st = "owed" /\ wakes'[id].st = "claimed")
      BY <3>1, <2>5
    <3>4. disk'.wakes = wakes' \/ disk' = disk
      BY <2>5
    <3> QED BY <3>2, <3>3, <3>4 DEF OnDisk
  <2>9. Pages
    <3>1. \A x \in intents' : x \in intents \/ hand[x] = "none"
      BY <2>5
    <3>2. \A x \in disk'.intents : x \in disk.intents \/ x \in intents'
      BY <2>5
    <3> QED BY <3>1, <3>2, <2>6, <2>7, <2>8 DEF Pages
  <2>10. \A id \in Tasks : \A x \in wakes'[id].res : x \in intents => x = t
    BY <2>4, <2>5, <1>4 DEF Adds, Book
  <2>11. Post
    BY <2>10, <1>2, <1>4 DEF Post
  <2> QED BY <2>9, <2>11, <1>1, <1>3 DEF Calm, Settled
<1> QED BY <1>5, <1>6 DEF Return, NoWrite

(* A hand-off that was stopped, and one the asker read itself.              *)
LEMMA ConsumeCalm ==
    ASSUME WakeInv, OnceInv, NEW t \in Tasks, ReturnStopped(t) \/ Check(t)
    PROVE  Calm /\ Settled
<1>1. /\ doneIds' = doneIds /\ turn' = turn /\ woke' = woke /\ starting' = starting
      /\ item' = item /\ \E ok \in BOOLEAN : Consume(t, ok) /\ Spends({}, Failed(ok))
  BY DEF ReturnStopped, Check
<1>2. PICK ok \in BOOLEAN : Consume(t, ok) /\ Spends({}, Failed(ok))
  BY <1>1
<1>3. Pages /\ \A id \in Tasks : Thins(wakes', id)
  BY <1>2, ConsumePages
<1>4. /\ \A x \in Tasks : /\ hand[x] = "told" => hand'[x] = "told"
                          /\ hand[x] = "owes" => hand'[x] \in {"owes", "told"}
      /\ \A x \in upd' : x \in upd \/ hand[x] # "told"
  BY TypedParts DEF WakeInv, ReturnStopped, Check
<1>5. Post
  BY <1>3, <1>4, ThinPost
<1>6. Crew
  BY <1>1, StillCrew
<1> QED BY <1>1, <1>3, <1>5, <1>6 DEF Calm, Settled

(* A start that names nothing the engine has heard.                         *)
LEMMA NewStartCrew ==
    ASSUME NEW q, starting' = starting \cup {q}, q.res \subseteq wakes'[q.id].res,
           spent["fail"] <= 1 => \A x \in q.res : ~Heard(x),
           item' = item, turn' = turn
    PROVE  Crew
BY DEF Crew

(* The oldest record owed is claimed.                                       *)
LEMMA ClaimCalm ==
    ASSUME WakeInv, OnceInv, Claim
    PROVE  Calm /\ Settled
<1>1. /\ doneIds' = doneIds /\ turn' = turn /\ woke' = woke /\ item' = item
      /\ hand' = hand /\ upd' = upd
  BY DEF Claim
<1>2. PICK id \in Oldest(wakes, Owing(wakes)) :
         LET r == wakes[id]
             w == [wakes EXCEPT ![id].st = "claimed"]
         IN \/ /\ Flush(intents, wakes, FALSE)
               /\ Spends({}, 1)
               /\ UNCHANGED <<starting, tries, over>>
            \/ /\ Flush(intents, w, TRUE)
               /\ starting' = starting \cup
                     {[id |-> id, replay |-> FALSE, res |-> r.res \cap upd]}
               /\ UNCHANGED <<over, spent>>
            \/ /\ intents' = intents /\ wakes' = Without(wakes, id)
               /\ \E ok \in BOOLEAN :
                     /\ disk' = [intents |-> intents,
                                 wakes |-> IF ok THEN wakes' ELSE w]
                     /\ unwritten' = ~ok
                     /\ Spends({}, Failed(ok))
               /\ UNCHANGED <<starting, tries>>
  BY DEF Claim
<1>3. id \in Tasks /\ wakes[id].st = "owed" /\ Rows(wakes)
  BY TypedParts DEF Oldest, Owing, WakeInv
<1>4. spent \in [Odd -> Nat] /\ spent["fail"] \in Nat /\ "fail" \in Odd
  BY TypedParts, FailNat DEF WakeInv, Odd
<1> DEFINE w == [wakes EXCEPT ![id].st = "claimed"]
<1>5. /\ w[id].st = "claimed" /\ w[id].held = FALSE /\ w[id].res = wakes[id].res
      /\ \A i \in Tasks : i # id => w[i] = wakes[i]
  <2>1. wakes \in [Tasks -> Record] /\ wakes[id] \in Record /\ wakes[id].held = FALSE
    BY <1>3 DEF Rows, RowOK
  <2> QED BY <2>1, <1>3 DEF Record
<1> HIDE DEF w
<1>6. CASE Flush(intents, wakes, FALSE) /\ Spends({}, 1) /\ UNCHANGED <<starting, tries, over>>
  <2>1. spent'["fail"] \in Nat /\ spent'["fail"] >= spent["fail"] + 1
    <3>1. 1 \in Nat
      OBVIOUS
    <3> QED BY <3>1, <1>4, <1>6, SpendsMore
  <2>2. FALSE \in BOOLEAN /\ spent'["fail"] >= spent["fail"]
    BY <2>1, <1>4
  <2>3. \A i \in Tasks : Thins(wakes, i)
    BY SameThins
  <2>4. Pages /\ Post
    BY <2>1, <2>2, <2>3, <1>1, <1>6, FlushPages
  <2>5. Crew
    BY <1>1, <1>6, StillCrew
  <2> QED BY <2>4, <2>5, <1>1 DEF Calm, Settled
<1>7. CASE /\ Flush(intents, w, TRUE)
           /\ starting' = starting \cup
                 {[id |-> id, replay |-> FALSE, res |-> wakes[id].res \cap upd]}
           /\ spent' = spent
  <2>1. /\ intents' = intents /\ wakes' = w /\ ~unwritten'
        /\ disk' = [intents |-> intents, wakes |-> w]
    BY <1>7 DEF Flush
  <2>2. disk'.intents = intents' /\ disk'.wakes = wakes'
    BY <2>1
  <2>3. ASSUME NEW i \in Tasks PROVE Heir(i) /\ OnDisk(i)
    BY <1>3, <1>5, <2>1, <2>2 DEF Heir, OnDisk
  <2>4. Pages
    BY <2>1, <2>2, <2>3, <1>4, <1>7 DEF Pages
  <2>5. Post
    <3>1. \A i \in Tasks : w[i].res = wakes[i].res
      BY <1>5
    <3>2. \A x \in intents : \A i \in Tasks : x \notin wakes[i].res
      BY DEF WakeInv, BookInv, Lasts, Book
    <3> QED BY <3>1, <3>2, <2>1, <1>1 DEF Post
  <2> DEFINE q == [id |-> id, replay |-> FALSE, res |-> wakes[id].res \cap upd]
  <2>6. starting' = starting \cup {q} /\ q.id = id /\ q.res = wakes[id].res \cap upd
    BY <1>7
  <2> HIDE DEF q
  <2>7. q.res \subseteq wakes'[q.id].res
    BY <2>1, <2>6, <1>5
  <2>8. ASSUME spent["fail"] <= 1, NEW x \in q.res, Heard(x) PROVE FALSE
    <3>1. x \in Tasks /\ x \in wakes[id].res /\ x \in upd
      BY <2>6, TypedParts DEF WakeInv
    <3>2. Closed(x)
      BY <3>1, <2>8 DEF OnceInv, HeardOnce
    <3> QED BY <3>1, <3>2, <1>3 DEF Closed, Spare
  <2>9. Crew
    BY <2>6, <2>7, <2>8, <1>1, NewStartCrew
  <2> QED BY <2>4, <2>5, <2>9, <1>1 DEF Calm, Settled
<1>8. CASE /\ intents' = intents /\ wakes' = Without(wakes, id) /\ starting' = starting
           /\ \E ok \in BOOLEAN :
                 /\ disk' = [intents |-> intents, wakes |-> IF ok THEN wakes' ELSE w]
                 /\ unwritten' = ~ok
                 /\ Spends({}, Failed(ok))
  <2>1. PICK ok \in BOOLEAN :
                 /\ disk' = [intents |-> intents, wakes |-> IF ok THEN wakes' ELSE w]
                 /\ unwritten' = ~ok
                 /\ Spends({}, Failed(ok))
    BY <1>8
  <2>2. /\ spent'["fail"] \in Nat /\ spent'["fail"] >= spent["fail"]
        /\ ~ok => spent'["fail"] >= spent["fail"] + 1
    BY <2>1, SpendsFailed
  <2>3. unwritten' => spent'["fail"] >= 1
    BY <2>1, <2>2, WriteFails
  <2>4. \A i \in Tasks : Thins(wakes', i)
    BY <1>3, <1>8, WithoutThins
  <2>5. disk'.intents = intents /\ (disk'.wakes = wakes' \/ disk'.wakes = w)
    BY <2>1
  <2>6. ASSUME NEW i \in Tasks PROVE Heir(i) /\ OnDisk(i)
    <3>1. Heir(i)
      BY <2>4 DEF Thins, Heir
    <3>2. CASE disk'.wakes = wakes'
      BY <3>1, <3>2 DEF OnDisk
    <3>3. CASE disk'.wakes = w /\ i = id
      <4>1. Without(wakes, id)[id].st = "none"
        BY <1>3, WithoutStays
      <4> QED BY <4>1, <3>1, <3>3, <1>3, <1>5, <1>8 DEF OnDisk
    <3>4. CASE disk'.wakes = w /\ i # id
      <4>1. w[i] = wakes[i]
        BY <3>4, <1>5
      <4>2. CASE wakes[i].st = "none"
        <5>1. Without(wakes, id)[i] = NoRecord
          BY <4>2, <1>3, WithoutRows
        <5>2. wakes[i].res = {}
          BY <4>2, <1>3 DEF Rows, RowOK
        <5> QED BY <5>1, <5>2, <4>1, <4>2, <3>1, <3>4, <1>8 DEF OnDisk, NoRecord
      <4>3. CASE wakes[i].st # "none"
        <5>1. /\ Without(wakes, id)[i].st = wakes[i].st
              /\ Without(wakes, id)[i].res = wakes[i].res
          BY <4>3, <3>4, <1>3, WithoutRows
        <5> QED BY <5>1, <4>1, <3>1, <3>4, <1>8 DEF OnDisk
      <4> QED BY <4>2, <4>3
    <3> QED BY <2>5, <3>2, <3>3, <3>4
  <2>7. Pages
    BY <2>2, <2>3, <2>5, <2>6, <1>8 DEF Pages
  <2>8. Post
    BY <2>4, <1>1, ThinPost
  <2>9. Crew
    BY <1>1, <1>8, StillCrew
  <2> QED BY <2>7, <2>8, <2>9, <1>1 DEF Calm, Settled
<1> QED BY <1>2, <1>6, <1>7, <1>8 DEF w

(* Outside the turn that was accepted early, nothing is done.               *)
LEMMA NotEarly ==
    ASSUME OnceInv, doneIds' = doneIds, woke' = woke, turn' = turn \/ turn.at # "early"
    PROVE  Settled
BY DEF OnceInv, DoneOnce, Settled

(* An admission, or a start that does not pass it.                          *)
LEMMA AdmitCalm ==
    ASSUME WakeInv, OnceInv, NEW p, Admit(p)
    PROVE  Calm /\ Settled
<1>1. /\ doneIds' = doneIds /\ woke' = woke /\ hand' = hand /\ upd' = upd /\ p \in starting
      /\ starting' = starting \ {p} /\ (turn' = turn \/ turn = Idle)
  BY DEF Admit
<1>2. p.id \in Tasks /\ TakenOnce(p.id) /\ p \in Starts(p.id) /\ Rows(wakes)
  BY <1>1, StartTyped, TypedParts DEF WakeInv, Takers
<1>3. Owned(wakes, p.id) => wakes[p.id].st = "claimed"
  BY <1>2 DEF TakenOnce, Owned
<1>4. Settled
  <2>1. turn' = turn \/ turn.at # "early"
    BY <1>1 DEF Idle
  <2> QED BY <2>1, <1>1, NotEarly
<1>5. upd' \subseteq upd /\ spent["fail"] \in Nat /\ starting' \subseteq starting
  BY <1>1, FailNat
<1>6. SUFFICES Pages /\ Post /\ Crew
  BY <1>4 DEF Calm
<1>7. item' \subseteq item /\ turn' = turn => Crew
  BY <1>5, StillCrew
<1>8. CASE /\ item' = (IF p.replay THEN ItemGone(p.id) ELSE item)
           /\ NoWrite /\ UNCHANGED <<turn, over, spent>>
  <2>1. item' \subseteq item
    BY <1>8 DEF ItemGone
  <2>2. spent'["fail"] >= spent["fail"]
    BY <1>5, <1>8
  <2> QED BY <2>1, <2>2, <1>1, <1>5, <1>7, <1>8, NoWritePages
<1>9. CASE Cancelled(p) /\ UNCHANGED turn
  <2>1. item' \subseteq item
    BY <1>9 DEF Cancelled, ItemGone
  <2> QED BY <2>1, <1>1, <1>2, <1>5, <1>7, <1>9, CancelledPages
<1>10. ASSUME Owned(wakes, p.id), turn' = turn, NEW again \in BOOLEAN, Refused(p, again, 0)
       PROVE  Pages /\ Post /\ Crew
  <2>1. 0 \in 0 .. 1 /\ wakes[p.id].st \in {"owed", "claimed"}
    BY <1>3, <1>10
  <2>2. item' \subseteq item
    BY <1>10 DEF Refused
  <2>3. Pages /\ Post
    BY <2>1, <1>1, <1>2, <1>5, <1>10, RefusedPages
  <2> QED BY <2>2, <2>3, <1>7, <1>10
<1>11. CASE /\ Owned(wakes, p.id) /\ UNCHANGED turn
            /\ Refused(p, TRUE, 0) \/ Refused(p, FALSE, 0)
  <2>1. CASE Refused(p, TRUE, 0)
    BY <2>1, <1>10, <1>11
  <2>2. CASE Refused(p, FALSE, 0)
    BY <2>2, <1>10, <1>11
  <2> QED BY <2>1, <2>2, <1>11
<1>12. CASE /\ Owned(wakes, p.id) /\ item' = ItemKept(p) /\ UNCHANGED turn
            /\ \E ok \in BOOLEAN :
                 /\ Flush(intents, [wakes EXCEPT ![p.id].held = TRUE], ok)
                 /\ Spends({"hold"}, Failed(ok))
  <2>1. PICK ok \in BOOLEAN : /\ Flush(intents, [wakes EXCEPT ![p.id].held = TRUE], ok)
                              /\ Spends({"hold"}, Failed(ok))
    BY <1>12
  <2>2. wakes[p.id].st = "claimed" /\ wakes[p.id].st # "none"
    BY <1>3, <1>12
  <2>3. \E r : /\ RowOK(r) /\ r.res = wakes[p.id].res /\ r.cut = wakes[p.id].cut
               /\ r.n = wakes[p.id].n /\ r.st = "claimed" /\ r.held = TRUE
               /\ [wakes EXCEPT ![p.id].held = TRUE] = [wakes EXCEPT ![p.id] = r]
    BY <2>2, <1>2, SetRow
  <2>4. PICK r : /\ r.res = wakes[p.id].res /\ r.st = "claimed"
                 /\ [wakes EXCEPT ![p.id].held = TRUE] = [wakes EXCEPT ![p.id] = r]
    BY <2>3
  <2>5. /\ spent'["fail"] \in Nat /\ spent'["fail"] >= spent["fail"]
        /\ ~ok => spent'["fail"] >= spent["fail"] + 1
    BY <2>1, SpendsFailed
  <2>6. Flush(intents, [wakes EXCEPT ![p.id] = r], ok) /\ r.st = wakes[p.id].st
    BY <2>1, <2>2, <2>4
  <2>7. Pages /\ Post
    BY <2>4, <2>5, <2>6, <1>1, <1>2, <1>5, SetPages
  <2>8. ASSUME NEW y \in item'
        PROVE  y \in item \/ (y.id = p.id /\ y.res = p.res)
    BY <2>8, <1>12 DEF ItemKept, ItemGone
  <2>9. Crew
    BY <2>8, <1>1, <1>12 DEF Crew
  <2> QED BY <2>7, <2>9
<1>13. CASE /\ turn' = [at |-> "setup", carries |-> upd, start |-> {p}]
            /\ NoWrite /\ UNCHANGED <<item, over, spent>>
  <2>1. spent'["fail"] >= spent["fail"]
    BY <1>5, <1>13
  <2>2. Pages /\ Post
    BY <2>1, <1>1, <1>5, <1>13, NoWritePages
  <2>3. turn'.carries = upd' /\ turn'.start = {p}
    BY <1>1, <1>13
  <2>4. Crew
    BY <2>3, <1>1, <1>13 DEF Crew
  <2> QED BY <2>2, <2>4
<1> QED BY <1>8, <1>9, <1>11, <1>12, <1>13 DEF Admit

(* A replay takes its item's record.                                        *)
LEMMA DrainCalm ==
    ASSUME WakeInv, OnceInv, NEW x \in item, Drain(x)
    PROVE  Calm /\ Settled
<1>1. /\ doneIds' = doneIds /\ woke' = woke /\ hand' = hand /\ upd' = upd /\ turn' = turn
      /\ Alive
  BY DEF Drain, Up, Alive
<1>2. /\ x.id \in Tasks /\ x.res \subseteq Tasks /\ Rows(wakes) /\ spent["fail"] \in Nat
      /\ upd' \subseteq upd
  BY <1>1, TypedParts, FailNat DEF WakeInv, Item
<1>3. SUFFICES Pages /\ Post /\ Crew
  BY <1>1, NotEarly DEF Calm
<1>4. CASE item' = ItemGone(x.id) /\ NoWrite /\ UNCHANGED <<starting, tries, over, spent>>
  <2>1. item' \subseteq item
    BY <1>4 DEF ItemGone
  <2>2. spent'["fail"] >= spent["fail"]
    BY <1>2, <1>4
  <2>3. Crew
    BY <2>1, <1>1, <1>4, StillCrew
  <2> QED BY <2>2, <2>3, <1>1, <1>2, <1>4, NoWritePages
<1>5. CASE Cancelled([id |-> x.id, replay |-> TRUE, res |-> x.res]) /\ UNCHANGED <<starting, tries>>
  <2> DEFINE p == [id |-> x.id, replay |-> TRUE, res |-> x.res]
  <2>1. p.id \in Tasks /\ Cancelled(p)
    BY <1>2, <1>5
  <2>2. item' \subseteq item
    BY <1>5 DEF Cancelled, ItemGone
  <2> HIDE DEF p
  <2>3. Pages /\ Post
    BY <2>1, <1>1, <1>2, CancelledPages
  <2>4. Crew
    BY <2>2, <1>1, <1>5, StillCrew
  <2> QED BY <2>3, <2>4
<1>6. CASE IsHeld(wakes, x.id) /\ Flush(intents, wakes, FALSE) /\ Spends({}, 1)
           /\ UNCHANGED <<starting, tries, item>>
  <2>1. spent'["fail"] \in Nat /\ spent'["fail"] >= spent["fail"] + 1
    <3>1. spent \in [Odd -> Nat] /\ "fail" \in Odd /\ 1 \in Nat
      BY TypedParts DEF WakeInv, Odd
    <3> QED BY <3>1, <1>6, SpendsMore
  <2>2. FALSE \in BOOLEAN /\ spent'["fail"] >= spent["fail"]
    BY <2>1, <1>2
  <2>3. \A i \in Tasks : Thins(wakes, i)
    BY SameThins
  <2>4. Pages /\ Post
    BY <2>1, <2>2, <2>3, <1>1, <1>2, <1>6, FlushPages
  <2>5. Crew
    BY <1>1, <1>6, StillCrew
  <2> QED BY <2>4, <2>5
<1>7. CASE /\ IsHeld(wakes, x.id) /\ wakes[x.id].n < MaxAttempts
           /\ Flush(intents, [wakes EXCEPT ![x.id].n = @ + 1], TRUE)
           /\ starting' = starting \cup {[id |-> x.id, replay |-> TRUE, res |-> x.res]}
           /\ UNCHANGED <<spent, item>>
  <2>1. wakes[x.id].st = "claimed" /\ wakes[x.id].held = TRUE /\ wakes[x.id].st # "none"
    <3>1. wakes[x.id].held \in BOOLEAN
      BY <1>2 DEF Rows, Record
    <3> QED BY <3>1, <1>7 DEF IsHeld
  <2>2. \E r : /\ RowOK(r) /\ r.res = wakes[x.id].res /\ r.cut = wakes[x.id].cut
               /\ r.n = wakes[x.id].n + 1 /\ r.st = wakes[x.id].st /\ r.held = TRUE
               /\ [wakes EXCEPT ![x.id].n = @ + 1] = [wakes EXCEPT ![x.id] = r]
    BY <2>1, <1>2, <1>7, SetRow
  <2>3. PICK r : /\ r.res = wakes[x.id].res /\ r.st = wakes[x.id].st
                 /\ [wakes EXCEPT ![x.id].n = @ + 1] = [wakes EXCEPT ![x.id] = r]
    BY <2>2
  <2>4. Flush(intents, [wakes EXCEPT ![x.id] = r], TRUE) /\ TRUE \in BOOLEAN
    BY <2>3, <1>7
  <2>5. spent'["fail"] \in Nat /\ spent'["fail"] >= spent["fail"]
    BY <1>2, <1>7
  <2>6. Pages /\ Post
    BY <2>3, <2>4, <2>5, <1>1, <1>2, SetPages
  <2> DEFINE q == [id |-> x.id, replay |-> TRUE, res |-> x.res]
  <2>7. starting' = starting \cup {q} /\ q.id = x.id /\ q.res = x.res
    BY <1>7
  <2> HIDE DEF q
  <2>8. wakes'[x.id].res = wakes[x.id].res
    <3>1. wakes' = [wakes EXCEPT ![x.id] = r]
      BY <2>4 DEF Flush
    <3> QED BY <3>1, <2>3, <1>2 DEF Rows
  <2>9. q.res \subseteq wakes[x.id].res /\ q.res \subseteq wakes'[q.id].res
    BY <2>1, <2>7, <2>8 DEF OnceInv, Names
  <2>10. ASSUME spent["fail"] <= 1, NEW y \in q.res, Heard(y) PROVE FALSE
    <3>1. y \in Tasks /\ y \in wakes[x.id].res /\ y \in x.res
      BY <2>7, <2>9, <1>2
    <3>2. Closed(y)
      BY <3>1, <2>10 DEF OnceInv, HeardOnce
    <3> QED BY <3>1, <3>2, <2>1, <1>2 DEF Closed, Spare
  <2>11. Crew
    BY <2>7, <2>9, <2>10, <1>1, <1>7, NewStartCrew
  <2> QED BY <2>6, <2>11
<1>8. \/ item' = ItemGone(x.id) /\ NoWrite /\ UNCHANGED <<starting, tries, over, spent>>
      \/ Cancelled([id |-> x.id, replay |-> TRUE, res |-> x.res]) /\ UNCHANGED <<starting, tries>>
      \/ /\ IsHeld(wakes, x.id) /\ Flush(intents, wakes, FALSE) /\ Spends({}, 1)
         /\ UNCHANGED <<starting, tries, item>>
      \/ /\ IsHeld(wakes, x.id) /\ wakes[x.id].n < MaxAttempts
         /\ Flush(intents, [wakes EXCEPT ![x.id].n = @ + 1], TRUE)
         /\ starting' = starting \cup {[id |-> x.id, replay |-> TRUE, res |-> x.res]}
         /\ UNCHANGED <<spent, item>>
  BY DEF Drain
<1> QED BY <1>4, <1>5, <1>6, <1>7, <1>8

(* A turn of the owner's, its acceptance, a turn that ends.                 *)
LEMMA TurnCalm ==
    ASSUME WakeInv, OnceInv, OwnTurn \/ AcceptOwn \/ TurnEnds
    PROVE  Calm /\ Settled
<1>1. /\ doneIds' = doneIds /\ woke' = woke /\ hand' = hand /\ upd' \subseteq upd
      /\ item' = item /\ starting' = starting /\ turn.at # "early"
  BY DEF OwnTurn, AcceptOwn, TurnEnds, history, Idle
<1>2. Settled
  BY <1>1, NotEarly
<1>3. spent["fail"] \in Nat
  BY FailNat
<1>4. Crew
  <2>1. CASE OwnTurn
    <3>1. turn'.start = {} /\ turn'.carries = upd'
      BY <2>1 DEF OwnTurn
    <3> QED BY <3>1, <1>1 DEF Crew
  <2>2. CASE AcceptOwn \/ TurnEnds
    <3>1. turn'.start = {} /\ turn'.at # "setup"
      BY <2>2 DEF AcceptOwn, TurnEnds, Idle, Running
    <3> QED BY <3>1, <1>1, StillCrew
  <2> QED BY <2>1, <2>2
<1>5. CASE NoWrite /\ spent' = spent
  <2>1. spent'["fail"] >= spent["fail"]
    BY <1>3, <1>5
  <2> QED BY <2>1, <1>1, <1>2, <1>4, <1>5, NoWritePages DEF Calm
<1>6. CASE Forget({})
  BY <1>1, <1>2, <1>4, <1>6, ForgetPages DEF Calm
<1> QED BY <1>5, <1>6 DEF OwnTurn, AcceptOwn, TurnEnds, NoWrite

(* A Stop, a write again, a clean close.                                    *)
LEMMA StopCalm ==
    ASSUME WakeInv, OnceInv, Stop \/ Sweep \/ Close
    PROVE  Calm /\ Settled
<1>1. /\ woke' = woke /\ hand' = hand /\ upd' \subseteq upd /\ turn' = turn
      /\ starting' = starting /\ item' \subseteq item
      /\ doneIds' = {} \/ doneIds' = doneIds
  BY DEF Stop, Sweep, Close, history
<1>2. Settled
  BY <1>1 DEF Settled
<1>3. Crew
  BY <1>1, StillCrew
<1>4. ASSUME NEW w, NEW O, NEW ok \in BOOLEAN, \A id \in Tasks : Thins(w, id),
             Flush(intents, w, ok), Spends(O, Failed(ok))
      PROVE  Pages /\ Post
  <2>1. /\ spent'["fail"] \in Nat /\ spent'["fail"] >= spent["fail"]
        /\ ~ok => spent'["fail"] >= spent["fail"] + 1
    BY <1>4, SpendsFailed
  <2> QED BY <2>1, <1>1, <1>4, FlushPages
<1>5. Pages /\ Post
  <2>1. CASE Stop
    BY <2>1, <1>1, ForgetPages DEF Stop
  <2>2. CASE Sweep
    <3>1. PICK ok \in BOOLEAN : Flush(intents, wakes, ok) /\ Spends({}, Failed(ok))
      BY <2>2 DEF Sweep
    <3>2. \A id \in Tasks : Thins(wakes, id)
      BY SameThins
    <3> QED BY <3>1, <3>2, <1>4
  <2>3. CASE Close /\ NoWrite /\ Spends({"close"}, 0)
    <3>1. spent'["fail"] >= spent["fail"]
      <4>1. spent \in [Odd -> Nat] /\ "fail" \in Odd /\ 0 \in Nat
        BY TypedParts DEF WakeInv, Odd
      <4> QED BY <4>1, <2>3, SpendsMore
    <3> QED BY <3>1, <2>3, <1>1, NoWritePages
  <2>4. CASE \E ok \in BOOLEAN :
                Flush(intents, Marked(wakes), ok) /\ Spends({"close"}, Failed(ok))
    <3>1. PICK ok \in BOOLEAN :
                Flush(intents, Marked(wakes), ok) /\ Spends({"close"}, Failed(ok))
      BY <2>4
    <3>2. Rows(wakes)
      BY TypedParts DEF WakeInv
    <3>3. \A id \in Tasks : /\ Marked(wakes)[id].st = wakes[id].st
                            /\ Marked(wakes)[id].res = wakes[id].res
      BY <3>2, MarkedRows
    <3>4. \A id \in Tasks : Thins(Marked(wakes), id)
      BY <3>3 DEF Thins
    <3> QED BY <3>1, <3>4, <1>4
  <2>5. Close => \/ NoWrite /\ Spends({"close"}, 0)
                 \/ \E ok \in BOOLEAN :
                       Flush(intents, Marked(wakes), ok) /\ Spends({"close"}, Failed(ok))
    BY DEF Close, Marked
  <2> QED BY <2>1, <2>2, <2>3, <2>4, <2>5
<1> QED BY <1>2, <1>3, <1>5 DEF Calm

(* A server that goes.                                                      *)
LEMMA LostCalm ==
    ASSUME WakeInv, OnceInv,
           \/ Crash \/ Exit
           \/ \E t \in Tasks : CutReturn(t)
           \/ \E p \in starting : TornHold(p)
    PROVE  Calm /\ Settled
<1>1. /\ Lost /\ woke' = woke /\ upd' = upd /\ disk' = disk
      /\ \/ spent' = spent \/ Spends({"crash"}, 0) \/ Spends({"crash", "hold"}, 0)
      /\ item' = item \/ \E p \in starting : Owned(wakes, p.id) /\ item' = ItemKept(p)
      /\ hand' = hand \/ \E t \in Tasks : hand[t] = "out" /\ hand' = [hand EXCEPT ![t] = "owes"]
  BY DEF Crash, Exit, CutReturn, TornHold, history
<1>2. /\ \A x \in Tasks : /\ hand[x] = "told" => hand'[x] = "told"
                          /\ hand[x] = "owes" => hand'[x] \in {"owes", "told"}
  BY <1>1, TypedParts DEF WakeInv
<1>3. /\ intents' = {} /\ wakes' = NoRecords /\ doneIds' = {} /\ unwritten' = FALSE
      /\ starting' = {} /\ turn'.start = {} /\ turn'.at # "setup"
  BY <1>1 DEF Lost, Idle
<1>4. Settled
  BY <1>1, <1>3 DEF Settled
<1>5. \A id \in Tasks : Thins(wakes', id)
  BY <1>3, WithoutThins
<1>6. spent'["fail"] >= spent["fail"]
  <2>1. spent \in [Odd -> Nat] /\ spent["fail"] \in Nat /\ "fail" \in Odd /\ 0 \in Nat
    BY TypedParts, FailNat DEF WakeInv, Odd
  <2>2. CASE spent' = spent
    BY <2>1, <2>2
  <2>3. CASE Spends({"crash"}, 0)
    BY <2>1, <2>3, SpendsMore
  <2>4. CASE Spends({"crash", "hold"}, 0)
    BY <2>1, <2>4, SpendsMore
  <2> QED BY <1>1, <2>2, <2>3, <2>4
<1>7. Pages
  BY <1>1, <1>3, <1>5, <1>6, ThinPages
<1>8. Post
  BY <1>1, <1>2, <1>5, ThinPost
<1>9. \A y \in item' :
          \/ y \in item
          \/ \E p \in starting : Owned(wakes, p.id) /\ y.id = p.id /\ y.res = p.res
  BY <1>1 DEF ItemKept, ItemGone
<1>10. Crew
  BY <1>3, <1>9 DEF Crew
<1> QED BY <1>4, <1>7, <1>8, <1>10 DEF Calm

(* A setup that fails.                                                      *)
LEMMA SetupFailsCalm ==
    ASSUME WakeInv, OnceInv, SetupFails
    PROVE  Calm /\ Settled
<1>1. /\ doneIds' = doneIds /\ woke' = woke /\ hand' = hand /\ upd' \subseteq upd
      /\ starting' = starting /\ turn.at # "early" /\ Alive
      /\ turn'.start = {} /\ turn'.at # "setup"
  BY DEF SetupFails, Idle
<1>2. Settled
  BY <1>1, NotEarly
<1>3. \A p \in turn.start : p.id \in Tasks
  BY <1>1, TurnParts
<1>4. item' \subseteq item
  BY DEF SetupFails, Cancelled, Refused, ItemGone
<1>5. Crew
  BY <1>1, <1>4, StillCrew
<1>6. ASSUME NEW p \in turn.start, Cancelled(p) PROVE Pages /\ Post
  BY <1>1, <1>3, <1>6, CancelledPages
<1>7. ASSUME NEW p \in turn.start, wakes[p.id].st \in {"owed", "claimed"}, Refused(p, TRUE, 0)
      PROVE  Pages /\ Post
  <2>1. 0 \in 0 .. 1 /\ TRUE \in BOOLEAN
    OBVIOUS
  <2> QED BY <2>1, <1>1, <1>3, <1>7, RefusedPages
<1>8. ASSUME NoWrite, spent' = spent PROVE Pages /\ Post
  <2>1. spent'["fail"] >= spent["fail"]
    BY <1>8, FailNat
  <2> QED BY <2>1, <1>1, <1>8, NoWritePages
<1>9. Pages /\ Post
  BY <1>6, <1>7, <1>8 DEF SetupFails
<1> QED BY <1>2, <1>5, <1>9 DEF Calm

(* The fence.                                                               *)
LEMMA FenceCalm ==
    ASSUME WakeInv, OnceInv, NEW p \in turn.start, Alive, turn.at = "setup", p.id \in Tasks,
           hand' = hand, upd' = upd, starting' = starting,
           \/ /\ turn' = Idle /\ (item' = item \/ item' = ItemGone(p.id))
              /\ NoWrite /\ spent' = spent
           \/ /\ Owned(wakes, p.id)
              /\ turn' = [turn EXCEPT !.at = "sent"]
              /\ Flush(intents, [wakes EXCEPT ![p.id].st = "started"], TRUE)
              /\ item' = item /\ spent' = spent
           \/ /\ Owned(wakes, p.id)
              /\ turn' = Idle
              /\ Refused(p, TRUE, IF Up THEN 1 ELSE 0)
    PROVE  Calm
<1>1. upd' \subseteq upd /\ spent["fail"] \in Nat /\ turn \in Turn /\ Rows(wakes)
  BY FailNat, TypedParts DEF WakeInv
<1>2. Owned(wakes, p.id) => wakes[p.id].st = "claimed"
  BY TurnParts
<1>3. item' \subseteq item
  BY DEF ItemGone, Refused
<1>4. turn' = Idle \/ turn' = [turn EXCEPT !.at = "sent"]
  OBVIOUS
<1>5. ASSUME turn' = [turn EXCEPT !.at = "sent"]
       PROVE  turn'.at = "sent" /\ turn'.start = turn.start
  BY <1>1, <1>5 DEF Turn
<1>6. ASSUME turn' = Idle
       PROVE  turn'.at = "idle" /\ turn'.start = {}
  BY <1>6 DEF Idle
<1>7. turn'.at # "setup" /\ turn'.start \subseteq turn.start
  BY <1>4, <1>5, <1>6
<1>8. Crew
  BY <1>3, <1>7, StillCrew
<1>9. ASSUME NoWrite, spent' = spent PROVE Pages /\ Post
  <2>1. spent'["fail"] >= spent["fail"]
    BY <1>1, <1>9
  <2> QED BY <2>1, <1>1, <1>9, NoWritePages
<1>10. ASSUME Owned(wakes, p.id), Flush(intents, [wakes EXCEPT ![p.id].st = "started"], TRUE),
             spent' = spent
      PROVE  Pages /\ Post
  <2>1. \E r : /\ RowOK(r) /\ r.res = wakes[p.id].res /\ r.cut = wakes[p.id].cut
               /\ r.n = wakes[p.id].n /\ r.st = "started" /\ r.held = wakes[p.id].held
               /\ [wakes EXCEPT ![p.id].st = "started"] = [wakes EXCEPT ![p.id] = r]
    BY <1>1, <1>10, SetRow DEF Owned
  <2>2. PICK r : /\ r.res = wakes[p.id].res /\ r.st = "started"
                 /\ [wakes EXCEPT ![p.id].st = "started"] = [wakes EXCEPT ![p.id] = r]
    BY <2>1
  <2>3. Flush(intents, [wakes EXCEPT ![p.id] = r], TRUE) /\ TRUE \in BOOLEAN
    BY <2>2, <1>10
  <2>4. spent'["fail"] \in Nat /\ spent'["fail"] >= spent["fail"]
    BY <1>1, <1>10
  <2> QED BY <2>2, <2>3, <2>4, <1>1, <1>2, <1>10, SetPages
<1>11. ASSUME Owned(wakes, p.id), Refused(p, TRUE, IF Up THEN 1 ELSE 0) PROVE Pages /\ Post
  <2>1. (IF Up THEN 1 ELSE 0) \in 0 .. 1 /\ TRUE \in BOOLEAN
    OBVIOUS
  <2>2. wakes[p.id].st \in {"owed", "claimed"}
    BY <1>2, <1>11
  <2> QED BY <2>1, <2>2, <1>1, <1>11, RefusedPages
<1>12. Pages /\ Post
  BY <1>9, <1>10, <1>11
<1> QED BY <1>8, <1>12 DEF Calm

(* What a start that is set up names has not been heard.                    *)
LEMMA Unheard ==
    ASSUME WakeInv, OnceInv, NEW p \in turn.start, Alive, turn.at = "setup", Owned(wakes, p.id),
           NEW x \in p.res
    PROVE  /\ x \in Tasks /\ p.id \in Tasks /\ x \in wakes[p.id].res
           /\ x \notin intents /\ x \notin disk.intents /\ hand[x] \in {"owes", "told"}
           /\ wakes[p.id].st = "claimed" /\ x \in disk.wakes[p.id].res
           /\ \A id \in Tasks : id # p.id => x \notin wakes[id].res /\ x \notin disk.wakes[id].res
           /\ \A q \in starting : Owned(wakes, q.id) => x \notin q.res
           /\ spent["fail"] <= 1 => woke[x] = 0
<1>1. /\ p \in Start /\ p.id \in Tasks /\ wakes[p.id].st = "claimed" /\ Starts(p.id) = {}
  BY TurnParts
<1>2. x \in wakes[p.id].res
  BY DEF OnceInv, Names
<1>3. /\ Book(hand, intents, wakes) /\ Book(hand, disk.intents, disk.wakes)
  BY DEF WakeInv, BookInv, Lasts
<1>4. x \in Tasks
  BY <1>1 DEF Start
<1>5. x \in disk.wakes[p.id].res
  BY <1>1, <1>2 DEF OnceInv, Names
<1>6. x \notin intents /\ x \notin disk.intents
  BY <1>1, <1>2, <1>3, <1>5 DEF Book
<1>7. hand[x] \in {"owes", "told"}
  BY <1>1, <1>2, <1>3 DEF Book
<1>8. \A id \in Tasks : id # p.id => x \notin wakes[id].res /\ x \notin disk.wakes[id].res
  BY <1>1, <1>2, <1>3, <1>5 DEF Book
<1>9. ASSUME NEW q \in starting, Owned(wakes, q.id), x \in q.res PROVE FALSE
  <2>1. x \in wakes[q.id].res
    BY <1>9 DEF OnceInv, Names
  <2>2. q.id \in Tasks /\ q \in Starts(q.id)
    BY StartTyped
  <2>3. q.id = p.id
    BY <2>1, <2>2, <1>8
  <2> QED BY <2>2, <2>3, <1>1
<1>10. ASSUME spent["fail"] <= 1 PROVE woke[x] = 0
  <2>1. Heard(x) => Closed(x)
    BY <1>4, <1>10 DEF OnceInv, HeardOnce
  <2>2. ~Closed(x)
    BY DEF Closed
  <2>3. ~(woke[x] >= 1)
    BY <2>1, <2>2 DEF Heard
  <2>4. woke[x] \in Nat
    BY <1>4, TypedParts DEF WakeInv
  <2> QED BY <2>3, <2>4
<1> QED BY <1>1, <1>2, <1>4, <1>5, <1>6, <1>7, <1>8, <1>9, <1>10

(* What failed before had failed by then.                                   *)
LEMMA FailedBefore ==
    ASSUME WakeInv, WakeInv', Calm, spent'["fail"] <= 1
    PROVE  spent["fail"] <= 1
<1>1. spent["fail"] \in Nat /\ spent'["fail"] \in Nat /\ spent'["fail"] >= spent["fail"]
  BY FailNat DEF Calm, Pages, WakeInv, BookInv, TypeOK, Odd
<1> QED BY <1>1

(* A prompt that goes out, with replies none of which went out before.      *)
LEMMA SentOnce ==
    ASSUME WakeInv, WakeInv', OnceInv, Calm, Alive, doneIds' = {}, turn'.at # "early",
           NEW p, Sent(p), spent["fail"] <= 1 => \A x \in p.res : woke[x] = 0 /\ Closed(x)'
    PROVE  OnceInv'
<1>1. Names'
  BY CalmNames DEF OnceInv
<1>2. Lags'
  BY <1>1, CalmLags DEF OnceInv
<1>3. DoneOnce'
  BY DEF DoneOnce
<1>4. HeardOnce'
  <2> SUFFICES ASSUME spent'["fail"] <= 1, NEW x \in Tasks
               PROVE  /\ woke'[x] <= 1 /\ (Early(x)' => woke'[x] = 0)
                      /\ Heard(x)' => Closed(x)'
    BY DEF HeardOnce
  <2>1. spent["fail"] <= 1
    BY FailedBefore
  <2>2. ~Early(x)'
    BY DEF Early
  <2>3. woke'[x] = IF x \in p.res THEN woke[x] + 1 ELSE woke[x]
    BY DEF Sent
  <2>4. CASE x \in p.res
    BY <2>1, <2>2, <2>3, <2>4
  <2>5. CASE x \notin p.res
    <3>1. woke'[x] = woke[x] /\ woke[x] <= 1
      BY <2>1, <2>3, <2>5 DEF OnceInv, HeardOnce
    <3>2. ASSUME Heard(x)' PROVE Closed(x)'
      <4>1. woke[x] >= 1
        BY <3>1, <3>2, <2>2 DEF Heard
      <4>2. Heard(x) /\ Closed(x)
        BY <4>1, <2>1 DEF Heard, OnceInv, HeardOnce
      <4> QED BY <4>2, <2>1, CalmClosed
    <3> QED BY <3>1, <3>2, <2>2
  <2> QED BY <2>4, <2>5
<1> QED BY <1>1, <1>2, <1>3, <1>4 DEF OnceInv

(* The fence: with the prompt's replies none of which went out before.      *)
LEMMA FenceOnce ==
    ASSUME WakeInv, WakeInv', OnceInv, Fence
    PROVE  OnceInv'
<1>1. /\ Alive /\ turn.at = "setup" /\ doneIds' = doneIds /\ hand' = hand /\ upd' = upd
      /\ starting' = starting
  BY DEF Fence
<1>2. doneIds = {}
  BY <1>1 DEF OnceInv, DoneOnce
<1>3. PICK p \in turn.start :
          \/ /\ ~Owned(wakes, p.id)
             /\ turn' = Idle
             /\ item' = IF p.replay THEN ItemGone(p.id) ELSE item
             /\ NoWrite /\ UNCHANGED <<woke, over, spent>>
          \/ /\ Owned(wakes, p.id) /\ Up
             /\ turn' = [turn EXCEPT !.at = "sent"] /\ Sent(p)
             /\ Flush(intents, [wakes EXCEPT ![p.id].st = "started"], TRUE)
             /\ UNCHANGED <<item, over, spent>>
          \/ /\ Owned(wakes, p.id)
             /\ turn' = Idle
             /\ Refused(p, TRUE, IF Up THEN 1 ELSE 0)
             /\ UNCHANGED woke
  BY DEF Fence
<1>4. p.id \in Tasks
  BY StartTyped
<1>5. ASSUME \/ /\ turn' = Idle /\ (item' = item \/ item' = ItemGone(p.id))
                /\ NoWrite /\ spent' = spent
             \/ /\ Owned(wakes, p.id)
                /\ turn' = [turn EXCEPT !.at = "sent"]
                /\ Flush(intents, [wakes EXCEPT ![p.id].st = "started"], TRUE)
                /\ item' = item /\ spent' = spent
             \/ /\ Owned(wakes, p.id)
                /\ turn' = Idle
                /\ Refused(p, TRUE, IF Up THEN 1 ELSE 0)
      PROVE  Calm
  BY <1>1, <1>4, <1>5, FenceCalm
<1>6. CASE /\ ~Owned(wakes, p.id)
           /\ turn' = Idle
           /\ item' = IF p.replay THEN ItemGone(p.id) ELSE item
           /\ NoWrite /\ UNCHANGED <<woke, over, spent>>
  <2>1. item' = item \/ item' = ItemGone(p.id)
    BY <1>6
  <2>2. Calm
    BY <2>1, <1>5, <1>6
  <2>3. Settled
    BY <1>1, <1>2, <1>6 DEF Settled
  <2> QED BY <2>2, <2>3, <1>1, CalmOnce
<1>7. CASE /\ Owned(wakes, p.id)
           /\ turn' = Idle
           /\ Refused(p, TRUE, IF Up THEN 1 ELSE 0)
           /\ UNCHANGED woke
  <2>1. Calm
    BY <1>5, <1>7
  <2>2. Settled
    BY <1>1, <1>2, <1>7 DEF Settled
  <2> QED BY <2>1, <2>2, <1>1, CalmOnce
<1>8. CASE /\ Owned(wakes, p.id) /\ Up
           /\ turn' = [turn EXCEPT !.at = "sent"] /\ Sent(p)
           /\ Flush(intents, [wakes EXCEPT ![p.id].st = "started"], TRUE)
           /\ UNCHANGED <<item, over, spent>>
  <2>1. Calm
    BY <1>5, <1>8
  <2>2. turn'.at = "sent"
    BY <1>8, TypedParts DEF WakeInv, Turn
  <2>3. /\ wakes' = [wakes EXCEPT ![p.id].st = "started"]
        /\ intents' = intents /\ disk'.intents = intents /\ disk'.wakes = wakes'
    BY <1>8 DEF Flush
  <2>4. /\ wakes'[p.id].st = "started"
        /\ \A id \in Tasks : id # p.id => wakes'[id] = wakes[id]
    <3>1. Rows(wakes) /\ wakes[p.id].st # "none"
      BY <1>8, TypedParts DEF WakeInv, Owned
    <3>2. PICK r : /\ r.st = "started"
                   /\ [wakes EXCEPT ![p.id].st = "started"] = [wakes EXCEPT ![p.id] = r]
      BY <3>1, <1>4, SetRow
    <3> QED BY <3>1, <3>2, <2>3, <1>4 DEF Rows
  <2>5. ASSUME spent["fail"] <= 1, NEW x \in p.res
        PROVE  woke[x] = 0 /\ Closed(x)'
    <3>1. /\ x \in Tasks /\ x \notin intents /\ hand[x] \in {"owes", "told"}
          /\ \A id \in Tasks : id # p.id => x \notin wakes[id].res
          /\ \A q \in starting : Owned(wakes, q.id) => x \notin q.res
          /\ woke[x] = 0
      BY <1>1, <1>8, <2>5, Unheard
    <3>2. \A id \in Tasks : x \in wakes'[id].res => wakes'[id].st = "started"
      BY <2>4, <3>1
    <3>3. Spare(wakes, x)' /\ Spare(disk.wakes, x)'
      BY <2>3, <3>2 DEF Spare
    <3>4. \A q \in starting' : q.id \in Tasks
      BY <1>1, StartTyped
    <3>5. \A q \in starting' : Owned(wakes', q.id) => x \notin q.res
      <4> SUFFICES ASSUME NEW q \in starting', Owned(wakes', q.id) PROVE x \notin q.res
        OBVIOUS
      <4>1. Owned(wakes, q.id)
        BY <3>4, <2>4, <1>8 DEF Owned
      <4> QED BY <4>1, <3>1, <1>1
    <3> QED BY <1>1, <2>2, <2>3, <3>1, <3>3, <3>5 DEF Closed
  <2>6. spent["fail"] <= 1 => \A x \in p.res : woke[x] = 0 /\ Closed(x)'
    BY <2>5
  <2> QED BY <2>1, <2>2, <2>6, <1>1, <1>2, <1>8, SentOnce
<1> QED BY <1>3, <1>6, <1>7, <1>8

(* The engine had accepted before its fence.                                *)
LEMMA FenceDoneOnce ==
    ASSUME WakeInv, WakeInv', OnceInv, FenceDone
    PROVE  OnceInv'
<1>1. /\ Alive /\ turn.at = "early" /\ doneIds' = {} /\ hand' = hand /\ upd' = upd
      /\ starting' = starting /\ item' = item /\ NoWrite /\ spent' = spent
  BY DEF FenceDone, NoWrite
<1>2. PICK p \in turn.start :
          IF p.id \in doneIds THEN turn' = Running /\ Sent(p)
          ELSE turn' = Idle /\ UNCHANGED woke
  BY DEF FenceDone
<1>3. turn'.at \notin {"setup", "early"} /\ turn'.start = {}
  BY <1>2 DEF Running, Idle
<1>4. Crew
  BY <1>1, <1>3, StillCrew
<1>5. Calm
  <2>1. spent'["fail"] >= spent["fail"] /\ upd' \subseteq upd
    BY <1>1, FailNat
  <2> QED BY <2>1, <1>1, <1>4, NoWritePages DEF Calm
<1>6. CASE p.id \notin doneIds
  <2>1. Settled
    BY <1>1, <1>2, <1>6 DEF Settled
  <2> QED BY <2>1, <1>1, <1>5, CalmOnce
<1>7. CASE p.id \in doneIds
  <2>1. p.res \subseteq Tasks
    BY StartTyped
  <2>2. ASSUME spent["fail"] <= 1, NEW x \in p.res
        PROVE  woke[x] = 0 /\ Closed(x)'
    <3>1. Early(x) /\ x \in Tasks
      BY <1>1, <1>7, <2>1 DEF Early
    <3>2. woke[x] = 0 /\ Closed(x) /\ Heard(x)
      BY <3>1, <2>2 DEF OnceInv, HeardOnce, Heard
    <3> QED BY <3>1, <3>2, <2>2, <1>1, <1>5, CalmClosed
  <2>3. spent["fail"] <= 1 => \A x \in p.res : woke[x] = 0 /\ Closed(x)'
    BY <2>2
  <2>4. turn'.at # "early" /\ Sent(p)
    BY <1>2, <1>3, <1>7
  <2> QED BY <2>3, <2>4, <1>1, <1>5, SentOnce
<1> QED BY <1>6, <1>7

(* What an acceptance does to the books.                                    *)
LEMMA AcceptCalm ==
    ASSUME WakeInv, OnceInv, NEW p \in turn.start, Accept(p)
    PROVE  Calm
<1>1. /\ Alive /\ hand' = hand /\ starting' = starting /\ upd' \subseteq upd
      /\ turn' = [turn EXCEPT !.at = "early"] \/ turn' = Running
      /\ item' = IF p.replay THEN ItemGone(p.id) ELSE item
  BY DEF Accept
<1>2. turn \in Turn /\ p.id \in Tasks
  BY StartTyped, TypedParts DEF WakeInv
<1>3. ASSUME turn' = [turn EXCEPT !.at = "early"]
      PROVE  turn'.at = "early" /\ turn'.start = turn.start
  BY <1>2, <1>3 DEF Turn
<1>4. ASSUME turn' = Running
      PROVE  turn'.at = "run" /\ turn'.start = {}
  BY <1>4 DEF Running
<1>5. turn'.at # "setup" /\ turn'.start \subseteq turn.start
  BY <1>1, <1>3, <1>4
<1>6. item' \subseteq item
  BY <1>1 DEF ItemGone
<1>7. Crew
  BY <1>1, <1>5, <1>6, StillCrew
<1>8. \/ \E ok \in BOOLEAN : Flush(intents, Without(wakes, p.id), ok) /\ Spends({}, Failed(ok))
      \/ NoWrite /\ spent' = spent
  BY DEF Accept
<1>9. CASE \E ok \in BOOLEAN : Flush(intents, Without(wakes, p.id), ok) /\ Spends({}, Failed(ok))
  <2>1. PICK ok \in BOOLEAN : Flush(intents, Without(wakes, p.id), ok) /\ Spends({}, Failed(ok))
    BY <1>9
  <2> QED BY <2>1, <1>1, <1>2, <1>7, WithoutPages DEF Calm
<1>10. CASE NoWrite /\ spent' = spent
  <2>1. spent'["fail"] >= spent["fail"]
    BY <1>10, FailNat
  <2> QED BY <2>1, <1>1, <1>7, <1>10, NoWritePages DEF Calm
<1> QED BY <1>8, <1>9, <1>10

(* Its record gone, what a turn accepted before its fence names is closed.  *)
LEMMA AcceptCloses ==
    ASSUME WakeInv, OnceInv, NEW p \in turn.start, Alive, turn.at = "setup",
           Owned(wakes, p.id), hand' = hand, starting' = starting, upd' = upd \ turn.carries,
           item' = IF p.replay THEN ItemGone(p.id) ELSE item, turn'.at = "early",
           NEW ok \in BOOLEAN, Flush(intents, Without(wakes, p.id), ok), Spends({}, Failed(ok)),
           spent'["fail"] <= 1, spent["fail"] <= 1, NEW x \in p.res
    PROVE  Closed(x)' /\ woke[x] = 0
<1>1. /\ x \in Tasks /\ p.id \in Tasks /\ x \in wakes[p.id].res
      /\ x \notin intents /\ x \notin disk.intents /\ hand[x] \in {"owes", "told"}
      /\ wakes[p.id].st = "claimed" /\ x \in disk.wakes[p.id].res
      /\ \A id \in Tasks : id # p.id => x \notin wakes[id].res /\ x \notin disk.wakes[id].res
      /\ \A q \in starting : Owned(wakes, q.id) => x \notin q.res
      /\ woke[x] = 0
  BY Unheard
<1>2. /\ intents' = intents /\ wakes' = Without(wakes, p.id)
      /\ disk' = IF ok THEN [intents |-> intents, wakes |-> wakes'] ELSE disk
  BY DEF Flush
<1>3. Rows(wakes)
  BY TypedParts DEF WakeInv
<1>4. wakes'[p.id] = NoRecord
  BY <1>1, <1>2, <1>3, WithoutRows
<1>5. \A id \in Tasks : Thins(wakes', id)
  BY <1>1, <1>2, WithoutThins
<1>6. \A id \in Tasks : x \notin wakes'[id].res
  BY <1>1, <1>4, <1>5 DEF Thins, NoRecord
<1>7. ASSUME NEW q \in starting', Owned(wakes', q.id) PROVE x \notin q.res
  <2>1. q \in starting /\ q.id \in Tasks
    BY <1>7, StartTyped
  <2>2. Stays(wakes, wakes', q.id)
    BY <2>1, <1>1, <1>2, <1>3, WithoutStays
  <2>3. Owned(wakes, q.id)
    BY <2>2, <1>7 DEF Stays, Owned
  <2> QED BY <2>1, <2>3, <1>1
<1>8. Spare(wakes, x)'
  BY <1>6 DEF Spare
<1>9. CASE ok = TRUE
  <2>1. disk'.intents = intents /\ disk'.wakes = wakes'
    BY <1>2, <1>9
  <2>2. Spare(disk.wakes, x)'
    BY <2>1, <1>6 DEF Spare
  <2> QED BY <2>1, <2>2, <1>1, <1>2, <1>7, <1>8 DEF Closed
<1>10. CASE ok = FALSE
  <2>1. disk' = disk
    BY <1>2, <1>10
  <2>2. spent["fail"] = 0
    <3>1. spent'["fail"] >= spent["fail"] + 1
      BY <1>10, SpendsFailed
    <3>2. spent["fail"] \in Nat /\ spent'["fail"] \in Nat
      BY SpendsFailed, FailNat
    <3> QED BY <3>1, <3>2
  <2>3. hand[x] = "told" /\ ~unwritten
    <3>1. ~(spent["fail"] >= 1)
      BY <2>2
    <3>2. ~unwritten
      BY <3>1 DEF OnceInv, Lags
    <3>3. hand[x] # "owes"
      BY <3>1, <1>1 DEF OnceInv, Lags
    <3> QED BY <3>2, <3>3, <1>1
  <2>4. x \notin upd'
    <3>1. x \in upd => x \in turn.carries
      BY <2>2 DEF OnceInv, Lags
    <3> QED BY <3>1
  <2>5. ASSUME disk.wakes[p.id].st = "claimed", disk.wakes[p.id].held = TRUE,
               NEW y \in item', y.id = p.id
        PROVE  FALSE
    <3>1. disk.wakes[p.id] = wakes[p.id]
      BY <2>3, <1>1 DEF WakeInv, BookInv, Lasts
    <3>2. wakes[p.id].held = p.replay
      BY TurnParts
    <3>3. y \in ItemGone(p.id)
      BY <3>1, <3>2, <2>5
    <3> QED BY <3>3, <2>5 DEF ItemGone
  <2>6. Spare(disk.wakes, x)'
    BY <2>1, <2>3, <2>4, <2>5, <1>1 DEF Spare
  <2> QED BY <2>1, <2>6, <1>1, <1>2, <1>7, <1>8 DEF Closed
<1> QED BY <1>1, <1>9, <1>10

(* The engine accepts.                                                      *)
LEMMA AcceptOnce ==
    ASSUME WakeInv, WakeInv', OnceInv, NEW p \in turn.start, Accept(p)
    PROVE  OnceInv'
<1>1. /\ Alive /\ hand' = hand /\ starting' = starting /\ upd' = upd \ turn.carries
      /\ item' = IF p.replay THEN ItemGone(p.id) ELSE item
      /\ woke' = woke /\ turn.at # "early"
  BY DEF Accept
<1>2. Calm
  BY AcceptCalm
<1>3. CASE ~(Owned(wakes, p.id) /\ turn.at = "setup")
  <2>1. doneIds' = doneIds
    BY <1>3 DEF Accept
  <2>2. Settled
    BY <2>1, <1>1, NotEarly
  <2> QED BY <2>2, <1>1, <1>2, CalmOnce
<1>4. CASE Owned(wakes, p.id) /\ turn.at = "setup"
  <2>1. turn' = [turn EXCEPT !.at = "early"] /\ doneIds' = {p.id}
    BY <1>4 DEF Accept
  <2>2. turn \in Turn /\ turn.start = {p}
    BY <1>1, TurnParts, TypedParts DEF WakeInv
  <2>3. turn'.at = "early" /\ turn'.start = {p}
    BY <2>1, <2>2 DEF Turn
  <2>4. PICK ok \in BOOLEAN : Flush(intents, Without(wakes, p.id), ok) /\ Spends({}, Failed(ok))
    BY <1>4 DEF Accept
  <2>5. Names'
    BY <1>1, <1>2, CalmNames DEF OnceInv
  <2>6. Lags'
    BY <1>2, <2>5, CalmLags DEF OnceInv
  <2>7. DoneOnce'
    BY <2>1, <2>3 DEF DoneOnce
  <2>8. ASSUME spent'["fail"] <= 1, NEW x \in Tasks
        PROVE  /\ woke'[x] <= 1 /\ (Early(x)' => woke'[x] = 0)
               /\ Heard(x)' => Closed(x)'
    <3>1. spent["fail"] <= 1
      BY <1>2, <2>8, FailedBefore
    <3>2. woke[x] <= 1
      BY <3>1 DEF OnceInv, HeardOnce
    <3>3. CASE x \in p.res
      <4>1. Closed(x)' /\ woke[x] = 0
        BY <1>1, <1>4, <2>3, <2>4, <2>8, <3>1, <3>3, AcceptCloses
      <4> QED BY <4>1, <3>2, <1>1
    <3>4. CASE x \notin p.res
      <4>1. ~Early(x)'
        BY <3>4, <2>3 DEF Early
      <4>2. ASSUME Heard(x)' PROVE Closed(x)'
        <5>1. woke[x] >= 1
          BY <4>1, <4>2, <1>1 DEF Heard
        <5>2. Heard(x) /\ Closed(x)
          BY <5>1, <3>1 DEF Heard, OnceInv, HeardOnce
        <5> QED BY <5>2, <3>1, <1>1, <1>2, CalmClosed
      <4> QED BY <4>1, <4>2, <3>2, <1>1
    <3> QED BY <3>3, <3>4
  <2>9. HeardOnce'
    BY <2>8 DEF HeardOnce
  <2> QED BY <2>5, <2>6, <2>7, <2>9 DEF OnceInv
<1> QED BY <1>3, <1>4

(* A record read back is the one on disk, with what it has: owed, or still  *)
(* held and claimed.                                                        *)
ReadBack(id) ==
    /\ wakes'[id].st \in {"owed", "claimed"} =>
          /\ disk.wakes[id].st \in {"owed", "claimed"}
          /\ wakes'[id].st = "claimed" => disk.wakes[id].st = "claimed" /\ disk.wakes[id].held = TRUE
    /\ wakes'[id].res \subseteq disk.wakes[id].res
    /\ wakes'[id].st \in {"owed", "claimed"} => wakes'[id].res = disk.wakes[id].res
    /\ wakes'[id].st # "started"

(* What a boot reads back.                                                  *)
LEMMA BootReads ==
    ASSUME WakeInv, Boot
    PROVE  /\ starting' = {} /\ turn' = Idle /\ doneIds' = {}
           /\ woke' = woke /\ hand' = hand /\ upd' = upd /\ item' \subseteq item
           /\ intents' \subseteq disk.intents /\ disk'.intents = disk.intents
           /\ disk'.wakes = disk.wakes \/ disk'.wakes = wakes'
           /\ \A id \in Tasks : ReadBack(id)
           /\ spent["fail"] \in Nat /\ spent'["fail"] \in Nat
           /\ spent'["fail"] >= spent["fail"] /\ (unwritten' => spent'["fail"] >= 1)
<1>1. /\ proc = "down" /\ doneIds' = doneIds /\ hand' = hand /\ upd' = upd
      /\ starting' = starting /\ turn' = turn /\ woke' = woke
      /\ item' \subseteq item /\ wakes' = Restored(disk.wakes)
  BY DEF Boot, Flush
<1>2. doneIds = {} /\ starting = {} /\ turn = Idle /\ unwritten = FALSE
  BY <1>1 DEF WakeInv, BookInv, Lasts, Alive
<1>3. Rows(disk.wakes) /\ spent["fail"] \in Nat
  BY TypedParts, FailNat DEF WakeInv
<1>4. ASSUME NEW id \in Tasks PROVE ReadBack(id)
  <2>1. RowOK(disk.wakes[id]) /\ disk.wakes[id].held \in BOOLEAN
    BY <1>3 DEF Rows, RowOK, Record
  <2>2. CASE ~Survives(id, disk.wakes[id])
    <3>1. wakes'[id] = NoRecord
      BY <1>1, <1>3, <2>2, RestoredRows
    <3>2. wakes'[id].st = "none" /\ wakes'[id].res = {}
      BY <3>1 DEF NoRecord
    <3> QED BY <3>2 DEF ReadBack
  <2>3. CASE Survives(id, disk.wakes[id])
    <3>1. /\ wakes'[id].st = IF disk.wakes[id].held THEN "claimed" ELSE "owed"
          /\ wakes'[id].res = disk.wakes[id].res
      BY <1>1, <1>3, <2>3, RestoredRows
    <3>2. disk.wakes[id].st \in {"owed", "claimed"}
      BY <2>3 DEF Survives
    <3>3. disk.wakes[id].st = "owed" => disk.wakes[id].held = FALSE
      BY <2>1 DEF RowOK
    <3>4. wakes'[id].st = "claimed" => disk.wakes[id].st = "claimed" /\ disk.wakes[id].held = TRUE
      BY <2>1, <3>1, <3>2, <3>3
    <3> QED BY <3>1, <3>2, <3>4 DEF ReadBack
  <2> QED BY <2>2, <2>3
<1>5. CASE disk = Nothing
  <2>1. intents' = {} /\ disk' = disk /\ unwritten' = unwritten /\ spent' = spent
    BY <1>5 DEF Boot
  <2> QED BY <2>1, <1>1, <1>2, <1>3, <1>4
<1>6. CASE disk # Nothing
  <2>1. PICK ok \in BOOLEAN : /\ Flush(disk.intents, Restored(disk.wakes), ok)
                              /\ Spends({}, Failed(ok))
    BY <1>6 DEF Boot
  <2>2. /\ spent'["fail"] \in Nat
        /\ spent'["fail"] >= spent["fail"] /\ (~ok => spent'["fail"] >= spent["fail"] + 1)
    BY <2>1, SpendsFailed
  <2>3. /\ intents' = disk.intents /\ unwritten' = ~ok
        /\ disk' = IF ok THEN [intents |-> disk.intents, wakes |-> wakes'] ELSE disk
    BY <2>1, <1>1 DEF Flush
  <2>4. unwritten' => spent'["fail"] >= 1
    BY <2>2, <2>3, WriteFails
  <2>5. disk'.intents = disk.intents /\ (disk'.wakes = disk.wakes \/ disk'.wakes = wakes')
    BY <2>3
  <2> QED BY <2>2, <2>3, <2>4, <2>5, <1>1, <1>2, <1>3, <1>4
<1> QED BY <1>5, <1>6

(* A boot opens nothing that was closed.                                    *)
LEMMA BootOnce ==
    ASSUME WakeInv, OnceInv, Boot
    PROVE  OnceInv'
<1>1. /\ starting' = {} /\ turn' = Idle /\ doneIds' = {}
      /\ woke' = woke /\ hand' = hand /\ upd' = upd /\ item' \subseteq item
      /\ intents' \subseteq disk.intents /\ disk'.intents = disk.intents
      /\ disk'.wakes = disk.wakes \/ disk'.wakes = wakes'
      /\ \A id \in Tasks : ReadBack(id)
      /\ spent["fail"] \in Nat /\ spent'["fail"] \in Nat
      /\ spent'["fail"] >= spent["fail"] /\ (unwritten' => spent'["fail"] >= 1)
  BY BootReads
<1>2. turn'.start = {} /\ turn'.at = "idle"
  BY <1>1 DEF Idle
<1>3. \A y \in item' : y \in item /\ y.id \in Tasks
  BY <1>1, TypedParts DEF WakeInv, Item
<1>4. Names'
  <2>1. ASSUME NEW y \in item', wakes'[y.id].st = "claimed"
        PROVE  y.res \subseteq wakes'[y.id].res
    <3>1. ReadBack(y.id) /\ y \in item
      BY <1>1, <1>3, <2>1
    <3>2. disk.wakes[y.id].st = "claimed" /\ wakes'[y.id].res = disk.wakes[y.id].res
      BY <3>1, <2>1 DEF ReadBack
    <3> QED BY <3>1, <3>2 DEF OnceInv, Names
  <2>2. ASSUME NEW y \in item', disk'.wakes[y.id].st = "claimed"
        PROVE  y.res \subseteq disk'.wakes[y.id].res
    <3>1. CASE disk'.wakes = disk.wakes
      BY <3>1, <1>3, <2>2 DEF OnceInv, Names
    <3>2. CASE disk'.wakes = wakes'
      BY <3>2, <2>1, <2>2
    <3> QED BY <3>1, <3>2, <1>1
  <2>3. ASSUME NEW id \in Tasks, wakes'[id].st \in {"claimed", "started"}
        PROVE  disk'.wakes[id].res = wakes'[id].res
    <3>1. wakes'[id].res = disk.wakes[id].res
      BY <1>1, <2>3 DEF ReadBack
    <3> QED BY <3>1, <1>1
  <2> QED BY <2>1, <2>2, <2>3, <1>1, <1>2 DEF Names
<1>5. DoneOnce'
  BY <1>1 DEF DoneOnce
<1>6. Lags'
  <2>1. ASSUME NEW id \in Tasks, NEW x \in wakes'[id].res \cup disk'.wakes[id].res,
               hand'[x] = "owes"
        PROVE  spent'["fail"] >= 1
    <3>1. x \in disk.wakes[id].res
      BY <1>1, <2>1 DEF ReadBack
    <3>2. spent["fail"] >= 1
      BY <3>1, <2>1, <1>1 DEF OnceInv, Lags
    <3> QED BY <3>2, <1>1
  <2> QED BY <2>1, <1>1, <1>2 DEF Lags
<1>7. HeardOnce'
  <2> SUFFICES ASSUME spent'["fail"] <= 1, NEW x \in Tasks
               PROVE  /\ woke'[x] <= 1 /\ (Early(x)' => woke'[x] = 0)
                      /\ Heard(x)' => Closed(x)'
    BY DEF HeardOnce
  <2>1. spent["fail"] <= 1
    BY <1>1
  <2>2. ~Early(x)'
    BY <1>2 DEF Early
  <2>3. woke'[x] <= 1
    BY <2>1, <1>1 DEF OnceInv, HeardOnce
  <2>4. ASSUME Heard(x)' PROVE Closed(x)'
    <3>1. Heard(x)
      BY <2>2, <2>4, <1>1 DEF Heard
    <3>2. Closed(x)
      BY <3>1, <2>1 DEF OnceInv, HeardOnce
    <3>3. x \notin disk.intents /\ hand[x] \in {"owes", "told"} /\ Spare(disk.wakes, x)
      BY <3>2 DEF Closed
    <3>4. ASSUME NEW id \in Tasks, wakes'[id].st \in {"owed", "claimed"}, x \in wakes'[id].res
          PROVE  /\ hand[x] = "told" /\ x \notin upd
                 /\ wakes'[id].st = "claimed" =>
                       \A y \in item' : y.id = id => x \notin y.res
      <4>1. /\ disk.wakes[id].st \in {"owed", "claimed"} /\ x \in disk.wakes[id].res
            /\ wakes'[id].st = "claimed" =>
                  disk.wakes[id].st = "claimed" /\ disk.wakes[id].held = TRUE
        BY <3>4, <1>1 DEF ReadBack
      <4> QED BY <4>1, <3>3, <1>3 DEF Spare
    <3>5. Spare(wakes, x)'
      BY <3>4, <1>1 DEF Spare
    <3>6. Spare(disk.wakes, x)'
      <4>1. CASE disk'.wakes = wakes'
        BY <4>1, <3>5 DEF Spare
      <4>2. CASE disk'.wakes = disk.wakes
        BY <4>2, <3>3, <1>1, <1>3 DEF Spare
      <4> QED BY <4>1, <4>2, <1>1
    <3>7. x \notin intents' /\ x \notin disk'.intents /\ hand'[x] \in {"owes", "told"}
      BY <3>3, <1>1
    <3> QED BY <3>5, <3>6, <3>7, <1>1, <1>2 DEF Closed
  <2> QED BY <2>2, <2>3, <2>4
<1> QED BY <1>4, <1>5, <1>6, <1>7 DEF OnceInv

(* A calm step of a server that is alive: every action but the fence's, an  *)
(* acceptance and a boot.                                                   *)
LEMMA CalmSteps ==
    ASSUME WakeInv, OnceInv,
           \/ \E t \in Tasks :
                 Ask(t) \/ Ticket(t) \/ Return(t) \/ ReturnStopped(t) \/ Check(t)
           \/ Claim \/ (\E p \in starting : Admit(p)) \/ (\E x \in item : Drain(x))
           \/ OwnTurn \/ AcceptOwn \/ TurnEnds \/ SetupFails \/ Stop \/ Sweep \/ Close
           \/ Crash \/ Exit \/ (\E t \in Tasks : CutReturn(t))
           \/ (\E p \in starting : TornHold(p))
    PROVE  Calm /\ Settled /\ Alive
<1>1. ASSUME NEW t \in Tasks, Ask(t) \/ Ticket(t) PROVE Calm /\ Settled /\ Alive
  <2>1. Alive
    BY <1>1 DEF Ask, Ticket, Up, Alive
  <2> QED BY <2>1, <1>1, AskCalm
<1>2. ASSUME NEW t \in Tasks, Return(t) PROVE Calm /\ Settled /\ Alive
  BY <1>2, ReturnCalm DEF Return
<1>3. ASSUME NEW t \in Tasks, ReturnStopped(t) \/ Check(t) PROVE Calm /\ Settled /\ Alive
  <2>1. Alive
    BY <1>3 DEF ReturnStopped, Check, Up, Alive
  <2> QED BY <2>1, <1>3, ConsumeCalm
<1>4. CASE Claim
  BY <1>4, ClaimCalm DEF Claim, Up, Alive
<1>5. ASSUME NEW p, Admit(p) PROVE Calm /\ Settled /\ Alive
  BY <1>5, AdmitCalm DEF Admit
<1>6. ASSUME NEW x \in item, Drain(x) PROVE Calm /\ Settled /\ Alive
  BY <1>6, DrainCalm DEF Drain, Up, Alive
<1>7. CASE OwnTurn \/ AcceptOwn \/ TurnEnds
  <2>1. Alive
    BY <1>7 DEF OwnTurn, AcceptOwn, TurnEnds, Up, Alive
  <2> QED BY <2>1, <1>7, TurnCalm
<1>8. CASE SetupFails
  BY <1>8, SetupFailsCalm DEF SetupFails
<1>9. CASE Stop \/ Sweep \/ Close
  <2>1. Alive
    BY <1>9 DEF Stop, Sweep, Close, Up, Alive
  <2> QED BY <2>1, <1>9, StopCalm
<1>10. CASE Crash \/ Exit \/ (\E t \in Tasks : CutReturn(t)) \/ (\E p \in starting : TornHold(p))
  <2>1. Alive
    BY <1>10 DEF Crash, Exit, CutReturn, TornHold, Alive
  <2> QED BY <2>1, <1>10, LostCalm
<1> QED BY <1>1, <1>2, <1>3, <1>4, <1>5, <1>6, <1>7, <1>8, <1>9, <1>10

(* Every step keeps what was heard closed.                                  *)
LEMMA OnceStep ==
    ASSUME WakeInv, WakeInv', OnceInv, Next
    PROVE  OnceInv'
<1>1. ASSUME Calm, Settled, Alive PROVE OnceInv'
  BY <1>1, CalmOnce
<1>2. CASE \/ \E t \in Tasks :
                 Ask(t) \/ Ticket(t) \/ Return(t) \/ ReturnStopped(t) \/ Check(t)
           \/ Claim \/ (\E p \in starting : Admit(p)) \/ (\E x \in item : Drain(x))
           \/ OwnTurn \/ AcceptOwn \/ TurnEnds \/ SetupFails \/ Stop \/ Sweep \/ Close
           \/ Crash \/ Exit \/ (\E t \in Tasks : CutReturn(t))
           \/ (\E p \in starting : TornHold(p))
  BY <1>1, <1>2, CalmSteps
<1>3. CASE Fence
  BY <1>3, FenceOnce
<1>4. CASE FenceDone
  BY <1>4, FenceDoneOnce
<1>5. ASSUME NEW p \in turn.start, Accept(p) PROVE OnceInv'
  BY <1>5, AcceptOnce
<1>6. CASE Boot
  BY <1>6, BootOnce
<1> QED BY <1>2, <1>3, <1>4, <1>5, <1>6 DEF Next

(* What does not move says what it said.                                    *)
LEMMA OnceStutter ==
    ASSUME OnceInv, UNCHANGED vars
    PROVE  OnceInv'
<1>1. /\ intents' = intents /\ wakes' = wakes /\ doneIds' = doneIds
      /\ disk' = disk /\ unwritten' = unwritten /\ hand' = hand
      /\ upd' = upd /\ item' = item /\ starting' = starting /\ turn' = turn
      /\ woke' = woke /\ spent' = spent
  BY DEF vars, history
<1>2. Names' /\ DoneOnce'
  BY <1>1 DEF OnceInv, Names, DoneOnce, Owned
<1>3. Lags'
  BY <1>1 DEF OnceInv, Lags, Owned
<1>4. ASSUME NEW x PROVE (Early(x)' <=> Early(x)) /\ (Heard(x)' <=> Heard(x))
  BY <1>1 DEF Early, Heard
<1>5. ASSUME NEW x, Closed(x) PROVE Closed(x)'
  <2>1. Spare(wakes, x)' /\ Spare(disk.wakes, x)'
    BY <1>1, <1>5 DEF Closed, Spare
  <2> QED BY <2>1, <1>1, <1>5 DEF Closed, Owned
<1>6. HeardOnce'
  BY <1>1, <1>4, <1>5 DEF OnceInv, HeardOnce
<1> QED BY <1>2, <1>3, <1>6 DEF OnceInv

(* A reply starts its asker once: no two prompts of a wake go out with it   *)
(* (Fence, FenceDone), whatever is stopped, held, replayed, refused, cut or *)
(* crashed, with one write that fails.                                      *)
THEOREM WakesGoOutOnce == Spec => []WokenOnce
<1>1. Init => OnceInv
  <2> SUFFICES ASSUME Init PROVE OnceInv
    OBVIOUS
  <2>1. /\ wakes = NoRecords /\ disk = Nothing /\ \A x \in Tasks : woke[x] = 0
        /\ turn = Idle /\ starting = {} /\ item = {} /\ doneIds = {} /\ unwritten = FALSE
    BY DEF Init
  <2>2. turn.at = "idle" /\ turn.start = {}
    BY <2>1 DEF Idle
  <2>3. \A id \in Tasks : /\ wakes[id].st = "none" /\ disk.wakes[id].st = "none"
                          /\ wakes[id].res = {} /\ disk.wakes[id].res = {}
    BY <2>1 DEF NoRecords, NoRecord, Nothing
  <2>4. Names
    BY <2>1, <2>2, <2>3 DEF Names
  <2>5. DoneOnce /\ Lags
    BY <2>1, <2>2, <2>3 DEF DoneOnce, Lags
  <2>6. HeardOnce
    BY <2>1, <2>2 DEF HeardOnce, Heard, Early
  <2> QED BY <2>4, <2>5, <2>6 DEF OnceInv
<1>2. WakeInv /\ WakeInv' /\ OnceInv /\ [Next]_vars => OnceInv'
  BY OnceStep, OnceStutter
<1>3. OnceInv => WokenOnce
  BY DEF OnceInv, HeardOnce, WokenOnce
<1> QED BY <1>1, <1>2, <1>3, WakeInvHolds, PTL DEF Spec
=============================================================================
