---------------------------- MODULE OwnerOnceProofs ----------------------------
(***************************************************************************)
(* Theorems about OwnerSends: the engine gets the words of one act of the  *)
(* owner at most once, and what waits has not been given, for every set of *)
(* sends and every bound but that of the failed writes, which is one.      *)
(***************************************************************************)
EXTENDS OwnerFlowProofs

(* Send s is first in line C and its words are, or will be, before the      *)
(* engine; or in the batch B, the turn K, or a steer T without an answer.   *)
AtHead(C, p, s) == p \in {"steering", "starting"} /\ Head(C).s = s
InBatch(B, s) == \E b \in B : b.s = s
InTurn(K, s) == \E w \in K : w[1] = s
InLate(T, s) == \E l \in T : l.s = s

(* The pipeline still has it in hand, before the turn or the steer does.    *)
Free(L, C, p, B, s) == L[s].st \in Undecided \/ AtHead(C, p, s) \/ InBatch(B, s)

(* The engine may yet get its words without a new act of the owner.         *)
May(L, C, p, T, B, K, s) == Free(L, C, p, B, s) \/ InTurn(K, s) \/ InLate(T, s)

(* The words of a send are at one place at a time.                          *)
Apart(L, C, p, T, B, K) ==
    /\ \A w \in K : /\ L[w[1]].st \in {"dispatched", "started"}
                    /\ ~Free(L, C, p, B, w[1]) /\ ~InLate(T, w[1])
                    /\ \A v \in K : v[1] = w[1] => v = w
    /\ \A l \in T : /\ \/ L[l.s].st = "unconfirmed"
                       \/ target = "gone" /\ L[l.s].st # "none"
                    /\ ~Free(L, C, p, B, l.s)
                    /\ \A k \in T : k.s = l.s => k = l

Ungiven(g) == \A a \in Acts : g[a] = 0

(* A send the engine may yet get, or that may be sent again, it has not got.*)
Unspent(L, C, p, T, B, K, G) ==
    \A s \in Sends \ forgot :
        /\ \A a \in Acts : G[s][a] <= 1
        /\ \/ May(L, C, p, T, B, K, s)
           \/ L[s].st \in {"failed", "refused"} /\ target # "gone"
           => Ungiven(G[s])

(* Every row is an accepted send's; a request is left only of a send whose  *)
(* row is there, or that was never accepted, and that one was never given.  *)
Asks ==
    /\ \A s \in Sends : row[s].st # "none" => s \in acked
    /\ \A p \in net : row[p.s].st # "none" \/ p.s \notin acked
    /\ \A s \in Sends \ (forgot \cup acked) : Ungiven(given[s])

(* The same of the snapshot a restore would bring back.                     *)
SnapOnce ==
    backup # NoBackup =>
      /\ \A s \in Sends : backup.row[s].st # "none" => s \in backup.acked
      /\ \A s \in backup.acked : backup.row[s].st = "none" => row[s].st = "none"
      /\ backup.acked \subseteq acked
      /\ \A s \in Sends \ forgot :
            \/ backup.row[s].st \in Undecided \/ s \notin backup.acked
            \/ backup.row[s].st \in {"failed", "refused"} /\ target # "gone"
            => Ungiven(backup.given[s])

OnceInv ==
    /\ Apart(row, chain, pc, late, batch, carry)
    /\ Unspent(row, chain, pc, late, batch, carry, given)
    /\ Asks /\ SnapOnce
-----------------------------------------------------------------------------
(* The pipeline has send s in hand, or its steer's late answer, which comes *)
(* now: of the steers in T those in U are left.                             *)
InHand(L, C, p, T, B, U, s) ==
    L[s].st # "none" /\ (Free(L, C, p, B, s) \/ (InLate(T, s) /\ ~InLate(U, s)))

(* What a step may do to the rows: it moves sends the pipeline has in hand; *)
(* of the others a chip is dropped, a marked row's end is written, a row is *)
(* unconfirmed, or it goes, with every request for it.                      *)
Moved(L, C, p, T, B, K, M, U) ==
    \A s \in Sends :
        \/ M[s].st = L[s].st
        \/ InHand(L, C, p, T, B, U, s) /\ M[s].st # "none"
        \/ L[s].st \in {"failed", "refused"} /\ M[s].st = "cancelled"
        \/ L[s].st = "dispatched" /\ M[s].st = "started"
        \/ L[s].st # "none" /\ M[s].st = "unconfirmed" /\ ~InTurn(K, s)
        \/ /\ M[s].st = "none" /\ ~May(L, C, p, T, B, K, s)
           /\ \A r \in net' : r.s # s

(* A send enters a place from the pipeline's hands, and only one.           *)
Entered(L, C, p, T, B, K, M, D, q, U, A, J) ==
    /\ \A b \in A : b \in B \/ InHand(L, C, p, T, B, U, b.s)
    /\ q \in {"steering", "starting"} => Free(L, C, p, B, Head(D).s)
    /\ \A w \in J : \/ w \in K
                    \/ /\ Free(L, C, p, B, w[1]) /\ ~Free(M, D, q, A, w[1])
                       /\ M[w[1]].st \in {"dispatched", "started"} /\ ~InLate(U, w[1])
                       /\ \A v \in J : v[1] = w[1] => v = w
    /\ \A l \in U : \/ l \in T
                    \/ /\ Free(L, C, p, B, l.s) /\ ~Free(M, D, q, A, l.s)
                       /\ ~InTurn(J, l.s)
                       /\ \/ M[l.s].st = "unconfirmed"
                          \/ target = "gone" /\ M[l.s].st # "none"
                       /\ \A k \in U : k.s = l.s => k = l

(* The types of the places.                                                 *)
Places(L, T, B, K) ==
    /\ L \in [Sends -> Row] /\ T \subseteq LateCall /\ B \subseteq Job
    /\ K \subseteq Sends \X Nat

(* What was apart stays apart, and what may yet be given could be before.   *)
LEMMA MovedApart ==
    ASSUME NEW L, NEW C, NEW p, NEW T, NEW B, NEW K, Places(L, T, B, K),
           Apart(L, C, p, T, B, K),
           NEW M, NEW D, NEW q, NEW U, NEW A, NEW J, Places(M, U, A, J),
           Moved(L, C, p, T, B, K, M, U), Entered(L, C, p, T, B, K, M, D, q, U, A, J),
           q \in {"steering", "starting"} => Head(D).s \in Sends
    PROVE  /\ Apart(M, D, q, U, A, J)
           /\ \A s \in Sends : May(M, D, q, U, A, J, s) => May(L, C, p, T, B, K, s)
<1>1. \A w \in K : w[1] \in Sends
  BY DEF Places
<1>2. \A l \in T : l.s \in Sends
  BY DEF Places, LateCall
<1>3. \A b \in A : b.s \in Sends
  BY DEF Places, Job
<1>4. ASSUME NEW s \in Sends, ~Free(L, C, p, B, s), ~InHand(L, C, p, T, B, U, s),
             M[s].st \notin Undecided
      PROVE  ~Free(M, D, q, A, s)
  <2>1. L[s].st \notin Undecided /\ ~AtHead(C, p, s) /\ ~InBatch(B, s)
    BY <1>4 DEF Free
  <2>2. ~AtHead(D, q, s)
    BY <1>4 DEF Entered, AtHead
  <2>3. ~InBatch(A, s)
    BY <1>4, <2>1 DEF Entered, InBatch
  <2> QED BY <1>4, <2>1, <2>2, <2>3 DEF Free
<1>5. ASSUME NEW w \in K, ~InLate(T, w[1])
      PROVE  /\ M[w[1]].st \in {"dispatched", "started"}
             /\ ~Free(M, D, q, A, w[1]) /\ ~InLate(U, w[1])
  <2>1. /\ L[w[1]].st \in {"dispatched", "started"} /\ ~Free(L, C, p, B, w[1])
        /\ InTurn(K, w[1])
    BY DEF Apart, InTurn
  <2>2. ~InHand(L, C, p, T, B, U, w[1])
    BY <1>5, <2>1 DEF InHand
  <2>3. M[w[1]].st \in {"dispatched", "started"}
    BY <1>1, <2>1, <2>2 DEF Moved, May
  <2>4. ~InLate(U, w[1])
    BY <1>5, <2>1 DEF InLate, Entered
  <2>5. M[w[1]].st \notin Undecided
    BY <2>3 DEF Undecided
  <2> QED BY <1>1, <1>4, <2>1, <2>2, <2>3, <2>4, <2>5
<1>6. ASSUME NEW l \in T, l \in U
      PROVE  /\ M[l.s].st = "unconfirmed" \/ (target = "gone" /\ M[l.s].st # "none")
             /\ ~Free(M, D, q, A, l.s)
  <2>1. /\ L[l.s].st = "unconfirmed" \/ (target = "gone" /\ L[l.s].st # "none")
        /\ ~Free(L, C, p, B, l.s) /\ InLate(T, l.s) /\ InLate(U, l.s)
    BY <1>6 DEF Apart, InLate
  <2>2. ~InHand(L, C, p, T, B, U, l.s)
    BY <2>1 DEF InHand
  <2>3. \/ M[l.s].st = L[l.s].st
        \/ L[l.s].st \in {"failed", "refused"} /\ M[l.s].st = "cancelled"
        \/ L[l.s].st = "dispatched" /\ M[l.s].st = "started"
        \/ M[l.s].st = "unconfirmed"
    BY <1>2, <2>1, <2>2 DEF Moved, May
  <2>4. M[l.s].st = "unconfirmed" \/ (target = "gone" /\ M[l.s].st # "none")
    BY <2>1, <2>3
  <2>5. M[l.s].st \notin Undecided
    BY <2>1, <2>3 DEF Undecided, Free
  <2> QED BY <1>2, <1>4, <2>1, <2>2, <2>4, <2>5
<1>7. ASSUME NEW w \in J
      PROVE  /\ M[w[1]].st \in {"dispatched", "started"}
             /\ ~Free(M, D, q, A, w[1]) /\ ~InLate(U, w[1])
             /\ \A v \in J : v[1] = w[1] => v = w
  <2>1. CASE w \in K
    <3>1. ~InLate(T, w[1]) /\ ~Free(L, C, p, B, w[1])
      BY <2>1 DEF Apart
    <3>2. ASSUME NEW v \in J, v[1] = w[1] PROVE v = w
      <4>1. v \in K
        BY <3>1, <3>2 DEF Entered
      <4> QED BY <2>1, <3>2, <4>1 DEF Apart
    <3> QED BY <1>5, <2>1, <3>1, <3>2
  <2>2. CASE w \notin K
    BY <2>2 DEF Entered
  <2> QED BY <2>1, <2>2
<1>8. ASSUME NEW l \in U
      PROVE  /\ M[l.s].st = "unconfirmed" \/ (target = "gone" /\ M[l.s].st # "none")
             /\ ~Free(M, D, q, A, l.s)
             /\ \A k \in U : k.s = l.s => k = l
  <2>1. CASE l \in T
    <3>1. ~Free(L, C, p, B, l.s)
      BY <2>1 DEF Apart
    <3>2. ASSUME NEW k \in U, k.s = l.s PROVE k = l
      <4>1. k \in T
        BY <3>1, <3>2 DEF Entered
      <4> QED BY <2>1, <3>2, <4>1 DEF Apart
    <3> QED BY <1>6, <2>1, <3>2
  <2>2. CASE l \notin T
    BY <2>2 DEF Entered
  <2> QED BY <2>1, <2>2
<1>9. ASSUME NEW s \in Sends, May(M, D, q, U, A, J, s)
      PROVE  May(L, C, p, T, B, K, s)
  <2>1. CASE InTurn(J, s)
    BY <2>1 DEF InTurn, Entered, May
  <2>2. CASE InLate(U, s)
    BY <2>2 DEF InLate, Entered, May
  <2>3. CASE InBatch(A, s)
    BY <2>3 DEF InBatch, Entered, May, Free, InHand
  <2>4. CASE AtHead(D, q, s)
    BY <2>4 DEF AtHead, Entered, May
  <2>5. CASE M[s].st \in Undecided
    BY <2>5 DEF Moved, May, Free, Undecided, InHand
  <2> QED BY <1>9, <2>1, <2>2, <2>3, <2>4, <2>5 DEF May, Free
<1>10. Apart(M, D, q, U, A, J)
  BY <1>7, <1>8 DEF Apart
<1> QED BY <1>9, <1>10

(* The words W the engine gets in a step: of sends that were its to get, of *)
(* one act each, and that are not, and cannot be sent again, afterwards.    *)
Given(L, C, p, T, B, K, M, D, q, U, A, J, W) ==
    \A w \in W : /\ w[1] \in Sends /\ L[w[1]].st # "none" /\ May(L, C, p, T, B, K, w[1])
                 /\ ~May(M, D, q, U, A, J, w[1])
                 /\ M[w[1]].st \notin {"failed", "refused"} \/ target = "gone"
                 /\ \A v \in W : v[1] = w[1] => v = w

(* What the engine has got, counted.                                        *)
LEMMA GaveCounts ==
    ASSUME given \in [Sends -> [Acts -> Nat]], NEW W, NEW s \in Sends
    PROVE  /\ \A a \in Acts : <<s, a>> \notin W => Gave(given, W)[s][a] = given[s][a]
           /\ Ungiven(given[s]) => \A a \in Acts : Gave(given, W)[s][a] <= 1
<1>1. \A a \in Acts : Gave(given, W)[s][a] = given[s][a] + IF <<s, a>> \in W THEN 1 ELSE 0
  BY DEF Gave
<1> DEFINE G == Gave(given, W)[s]
<1> HIDE DEF G
<1>2. ASSUME NEW a \in Acts
      PROVE  /\ <<s, a>> \notin W => G[a] = given[s][a]
             /\ given[s][a] = 0 => G[a] <= 1
  <2>1. given[s][a] \in Nat
    OBVIOUS
  <2>2. G[a] = given[s][a] + IF <<s, a>> \in W THEN 1 ELSE 0
    BY <1>1 DEF G
  <2>3. CASE <<s, a>> \in W
    BY <2>1, <2>2, <2>3
  <2>4. CASE <<s, a>> \notin W
    BY <2>1, <2>2, <2>4
  <2> QED BY <2>3, <2>4
<1> QED BY <1>2 DEF Ungiven, G

(* What is unspent stays so.                                                *)
LEMMA MovedUnspent ==
    ASSUME NEW L, NEW C, NEW p, NEW T, NEW B, NEW K, Places(L, T, B, K),
           Apart(L, C, p, T, B, K), given \in [Sends -> [Acts -> Nat]],
           Unspent(L, C, p, T, B, K, given),
           NEW M, NEW D, NEW q, NEW U, NEW A, NEW J, Places(M, U, A, J),
           Moved(L, C, p, T, B, K, M, U), Entered(L, C, p, T, B, K, M, D, q, U, A, J),
           q \in {"steering", "starting"} => Head(D).s \in Sends,
           NEW W, Given(L, C, p, T, B, K, M, D, q, U, A, J, W)
    PROVE  Unspent(M, D, q, U, A, J, Gave(given, W))
<1> DEFINE G == Gave(given, W)
<1>1. \A s \in Sends : May(M, D, q, U, A, J, s) => May(L, C, p, T, B, K, s)
  BY MovedApart
<1>2. ASSUME NEW s \in Sends, M[s].st \in {"failed", "refused"}
      PROVE  May(L, C, p, T, B, K, s) \/ L[s].st \in {"failed", "refused"}
  BY <1>2 DEF Moved, May, InHand
<1>3. ASSUME NEW s \in Sends \ forgot, \A a \in Acts : <<s, a>> \notin W
      PROVE  /\ \A a \in Acts : G[s][a] <= 1
             /\ \/ May(M, D, q, U, A, J, s)
                \/ M[s].st \in {"failed", "refused"} /\ target # "gone"
                => Ungiven(G[s])
  <2>1. \A a \in Acts : G[s][a] = given[s][a]
    BY ZenonT(40), <1>3, GaveCounts
  <2>2. /\ \A a \in Acts : given[s][a] <= 1
        /\ \/ May(L, C, p, T, B, K, s)
           \/ L[s].st \in {"failed", "refused"} /\ target # "gone"
           => Ungiven(given[s])
    BY DEF Unspent
  <2> HIDE DEF G
  <2> QED BY <1>1, <1>2, <2>1, <2>2 DEF Ungiven
<1>4. ASSUME NEW s \in Sends \ forgot, NEW a \in Acts, <<s, a>> \in W
      PROVE  /\ \A c \in Acts : G[s][c] <= 1
             /\ ~May(M, D, q, U, A, J, s)
             /\ ~(M[s].st \in {"failed", "refused"} /\ target # "gone")
  <2>1. <<s, a>>[1] = s
    OBVIOUS
  <2>2. /\ May(L, C, p, T, B, K, s) /\ ~May(M, D, q, U, A, J, s)
        /\ M[s].st \notin {"failed", "refused"} \/ target = "gone"
    BY <1>4, <2>1 DEF Given
  <2>3. Ungiven(given[s])
    BY <2>2 DEF Unspent
  <2> QED BY <2>2, <2>3, GaveCounts
<1> QED BY <1>3, <1>4 DEF Unspent
-----------------------------------------------------------------------------
(* A step in these terms, with the words W given in it.                     *)
Orderly(W) ==
    /\ Moved(row, chain, pc, late, batch, carry, row', late')
    /\ Entered(row, chain, pc, late, batch, carry,
               row', chain', pc', late', batch', carry')
    /\ Given(row, chain, pc, late, batch, carry,
             row', chain', pc', late', batch', carry', W)
    /\ given' = Gave(given, W)

(* The types of the state's places, and of its next ones.                   *)
LEMMA PlacesHere ==
    ASSUME TypeInv
    PROVE  /\ Places(row, late, batch, carry)
           /\ given \in [Sends -> [Acts -> Nat]]
           /\ pc \in {"steering", "starting"} => Head(chain).s \in Sends
<1>1. Places(row, late, batch, carry) /\ given \in [Sends -> [Acts -> Nat]]
  BY DEF Places, TypeInv, LedgerOK, RestOK
<1>2. pc \in {"steering", "starting"} => Head(chain).s \in Sends
  BY HeadJob DEF TypeInv, AdmissionOK
<1> QED BY <1>1, <1>2

(* Nothing given leaves the counts as they are.                             *)
LEMMA GaveNone == ASSUME TypeInv, NEW W, \A s \in Sends, a \in Acts : <<s, a>> \notin W
                  PROVE  Gave(given, W) = given
<1>1. given \in [Sends -> [Acts -> Nat]]
  BY PlacesHere
<1>2. \A s \in Sends : \A a \in Acts : Gave(given, W)[s][a] = given[s][a]
  BY <1>1, GaveCounts
<1>3. Gave(given, W) \in [Sends -> [Acts -> Nat]]
  BY <1>1, GaveType
<1>4. \A s \in Sends : Gave(given, W)[s] = given[s]
  BY <1>1, <1>2, <1>3
<1> QED BY <1>1, <1>3, <1>4

(* An orderly step keeps the invariant.                                     *)
LEMMA OnceKept ==
    ASSUME TypeInv, TypeInv', OnceInv, NEW W, Orderly(W),
           UNCHANGED <<backup, target, acked, forgot>>, net' \subseteq net
    PROVE  OnceInv'
<1>1. /\ Places(row, late, batch, carry) /\ given \in [Sends -> [Acts -> Nat]]
      /\ Places(row', late', batch', carry')
      /\ pc' \in {"steering", "starting"} => Head(chain').s \in Sends
  <2>1. Places(row', late', batch', carry')
    BY DEF Places, TypeInv, LedgerOK, RestOK
  <2>2. ASSUME pc' \in {"steering", "starting"} PROVE Head(chain').s \in Sends
    <3>1. chain' \in Seq(Job) /\ chain' # <<>>
      BY <2>2 DEF TypeInv, AdmissionOK
    <3>2. Head(chain') \in Job
      BY <3>1
    <3> QED BY <3>2 DEF Job
  <2> QED BY <2>1, <2>2, PlacesHere
<1>2. /\ Apart(row, chain, pc, late, batch, carry)
      /\ Unspent(row, chain, pc, late, batch, carry, given) /\ Asks /\ SnapOnce
  BY DEF OnceInv
<1>3. Apart(row', chain', pc', late', batch', carry')
  BY <1>1, <1>2, MovedApart DEF Orderly
<1>4. Unspent(row', chain', pc', late', batch', carry', given')
  BY <1>1, <1>2, MovedUnspent DEF Orderly
<1>5. \A s \in Sends : row[s].st = "none" => row'[s].st = "none"
  BY DEF Orderly, Moved, InHand
<1>6. \A r \in net' : row'[r.s].st # "none" \/ row[r.s].st = "none"
  <2>1. \A r \in net' : r.s \in Sends
    BY DEF TypeInv, RestOK, Request
  <2> QED BY <2>1 DEF Orderly, Moved
<1>7. ASSUME NEW s \in Sends \ (forgot \cup acked) PROVE Ungiven(given'[s])
  <2>1. row[s].st = "none" /\ Ungiven(given[s])
    BY <1>2 DEF Asks
  <2>2. \A a \in Acts : <<s, a>> \notin W
    <3>1. \A a \in Acts : <<s, a>>[1] = s
      OBVIOUS
    <3> QED BY <2>1, <3>1 DEF Orderly, Given
  <2>3. \A a \in Acts : Gave(given, W)[s][a] = given[s][a]
    <3>1. s \in Sends /\ given \in [Sends -> [Acts -> Nat]]
      BY <1>1
    <3>2. \A a \in Acts : <<s, a>> \notin W => Gave(given, W)[s][a] = given[s][a]
      BY <3>1, GaveCounts, Zenon
    <3> QED BY <2>2, <3>2
  <2> QED BY <2>1, <2>3 DEF Ungiven, Orderly
<1>8. Asks'
  BY <1>2, <1>5, <1>6, <1>7 DEF Asks
<1>9. SnapOnce'
  BY <1>2, <1>5 DEF SnapOnce, TypeInv, RestOK
<1>10. Apart(row, chain, pc, late, batch, carry)'
  BY <1>3 DEF Apart
<1>11. Unspent(row, chain, pc, late, batch, carry, given)'
  BY <1>4 DEF Unspent
<1> QED BY <1>8, <1>9, <1>10, <1>11 DEF OnceInv
-----------------------------------------------------------------------------
(* A step that gives nothing and only takes from the turn and the steers.   *)
LEMMA TakesOnly ==
    ASSUME TypeInv, late' \subseteq late, carry' \subseteq carry, given' = given,
           Moved(row, chain, pc, late, batch, carry, row', late'),
           \A b \in batch' : b \in batch \/ InHand(row, chain, pc, late, batch, late', b.s),
           pc' \in {"steering", "starting"} => Free(row, chain, pc, batch, Head(chain').s)
    PROVE  Orderly({})
<1>1. Gave(given, {}) = given
  BY GaveNone
<1>2. Entered(row, chain, pc, late, batch, carry, row', chain', pc', late', batch', carry')
  BY DEF Entered
<1>3. Given(row, chain, pc, late, batch, carry, row', chain', pc', late', batch', carry', {})
  BY DEF Given
<1> QED BY <1>1, <1>2, <1>3 DEF Orderly

(* A drain moves only what waits, and starts only that.                     *)
LEMMA DrainMoves ==
    ASSUME LedgerOK, NEW L \in [Sends -> Row], NEW open, NEW d \in Desks,
           Drain(L, open, d) \/ DrainNothing(L, open, d)
    PROVE  /\ \A s \in Sends : \/ row'[s].st = L[s].st
                               \/ L[s].st = "queued" /\ row'[s].st # "none"
           /\ \A b \in batch' : b \in d.batch \/ (b.s \in Sends /\ L[b.s].st = "queued")
<1> DEFINE Goal == /\ \A s \in Sends : \/ row'[s].st = L[s].st
                                       \/ L[s].st = "queued" /\ row'[s].st # "none"
                   /\ \A b \in batch' : b \in d.batch \/ (b.s \in Sends /\ L[b.s].st = "queued")
<1>1. ASSUME NEW e, e.batch = d.batch, DrainNothing(L, open, e) PROVE Goal
  BY <1>1 DEF DrainNothing
<1>2. ASSUME DrainGone(L, open, d) PROVE Goal
  <2>1. PICK kept \in SUBSET Sends :
          row' = [s \in Sends |-> IF L[s].st = "queued" /\ s \notin kept
                                  THEN Refused(L[s]) ELSE L[s]]
    BY <1>2 DEF DrainGone
  <2>2. \A s \in Sends : Refused(L[s]).st = "refused"
    BY StatusOps
  <2>3. batch' = d.batch
    BY <1>2 DEF DrainGone
  <2> QED BY <2>1, <2>2, <2>3
<1> DEFINE M == LateReleased(L, open)
<1>3. M \in [Sends -> Row] /\ \A s \in Sends : M[s].st = L[s].st
  <2>1. M \in [Sends -> Row]
    BY LedgerOps
  <2>2. \A s \in Sends : M[s] = Scrubbed(L[s]) \/ M[s] = L[s]
    BY DEF LateReleased
  <2> QED BY <2>1, <2>2, StatusOps
<1> HIDE DEF M
<1>4. ASSUME DrainUnmarked(M, d) PROVE Goal
  BY <1>3, <1>4 DEF DrainUnmarked
<1>5. ASSUME DrainStarts(M, d) PROVE Goal
  <2>1. PICK passed, fate : Drained(M, Drainable(M, {}), passed, fate)
    BY <1>3, <1>5, DrainIsDrained
  <2> DEFINE D == Drainable(M, {})
             B == DrainBatch(M, D \ passed)
             runs == {s \in B : fate[s] = "ok" \/ M[s].ex}
  <2>2. D \in SUBSET Sends /\ \A s \in D : M[s].st = "queued"
    BY DEF Drainable
  <2>3. ASSUME NEW s \in Sends
        PROVE  row'[s].st = M[s].st \/ (M[s].st = "queued" /\ row'[s].st # "none")
    <3>1. \/ row'[s] = M[s]
          \/ /\ M[s].st = "queued"
             /\ row'[s] \in {Refused(Marked(M[s])), Marked(M[s]),
                             Settled(Marked(M[s]), "started", TRUE)}
      <4> HIDE DEF D
      <4> QED BY <1>3, <2>1, <2>2, DrainedRows DEF D
    <3>2. /\ Marked(M[s]).st = "dispatched"
          /\ Refused(Marked(M[s])).st = "refused"
          /\ Settled(Marked(M[s]), "started", TRUE).st = "started"
      <4>1. Marked(M[s]) \in Row /\ Marked(M[s]).st = "dispatched"
        BY <1>3, RowOps, StatusOps DEF Status
      <4>2. Refused(Marked(M[s])).st = "refused"
        BY <4>1, StatusOps
      <4>3. Settled(Marked(M[s]), "started", TRUE).st = "started"
        BY <4>1 DEF Settled, Row
      <4> QED BY <4>1, <4>2, <4>3
    <3> QED BY <3>1, <3>2
  <2>4. batch' = {[s |-> s, q |-> M[s].seq, a |-> M[s].act] : s \in runs}
    BY <2>1 DEF Drained
  <2>5. \A s \in runs : s \in Sends /\ M[s].st = "queued"
    BY <2>2 DEF DrainBatch
  <2> HIDE DEF runs
  <2>6. \A b \in batch' : b.s \in Sends /\ M[b.s].st = "queued"
    BY <2>4, <2>5
  <2> QED BY <1>3, <2>3, <2>6
<1>6. [d EXCEPT !.watch = d.watch \/ d.retry = "none"].batch = d.batch
  BY DEF Desks
<1> QED BY <1>1, <1>2, <1>4, <1>5, <1>6 DEF Drain, M

(* A drain of the ledger as it is.                                          *)
LEMMA DrainsOnce ==
    ASSUME TypeInv, FlowInv, NEW d \in Desks, d.batch \subseteq batch,
           Drain(row, lateOpen, d) \/ DrainNothing(row, lateOpen, d),
           UNCHANGED <<chain, pc, late, given>>, carry' \subseteq carry
    PROVE  Orderly({})
<1>1. LedgerOK /\ row \in [Sends -> Row]
  BY DEF TypeInv, LedgerOK
<1>2. /\ \A s \in Sends : \/ row'[s].st = row[s].st
                          \/ row[s].st = "queued" /\ row'[s].st # "none"
      /\ \A b \in batch' : b \in d.batch \/ (b.s \in Sends /\ row[b.s].st = "queued")
  BY <1>1, DrainMoves
<1>3. \A s \in Sends : row[s].st = "queued" => InHand(row, chain, pc, late, batch, late', s)
  BY DEF InHand, Free, Undecided
<1>4. Moved(row, chain, pc, late, batch, carry, row', late')
  BY <1>2, <1>3 DEF Moved
<1>5. \A b \in batch' : b \in batch \/ InHand(row, chain, pc, late, batch, late', b.s)
  BY <1>2, <1>3
<1>6. pc' \in {"steering", "starting"} => Free(row, chain, pc, batch, Head(chain').s)
  BY DEF Free, AtHead
<1> QED BY <1>4, <1>5, <1>6, TakesOnly
-----------------------------------------------------------------------------
(* The head of the line is the pipeline's, until its turn has landed.       *)
LEMMA HeadFree ==
    ASSUME TypeInv, FlowInv, chain # <<>>, pc # "landed"
    PROVE  LET s == Head(chain).s IN
           /\ s \in Sends /\ row[s].st # "none" /\ Free(row, chain, pc, batch, s)
           /\ InHand(row, chain, pc, late, batch, late', s)
<1> DEFINE s == Head(chain).s
<1>1. s \in Sends /\ row[s].st = IF pc = "idle" THEN "sending" ELSE "dispatched"
  BY HeadRow
<1>2. pc \in {"idle", "steering", "starting"}
  BY DEF TypeInv, AdmissionOK
<1>3. Free(row, chain, pc, batch, s)
  BY <1>1, <1>2 DEF Free, AtHead, Undecided
<1> QED BY <1>1, <1>3 DEF InHand

(* The head's row gets an outcome; nothing is given.                        *)
LEMMA HeadOnce ==
    ASSUME TypeInv, FlowInv, chain # <<>>, pc # "landed",
           NEW r, Outcome(r), row' = [row EXCEPT ![Head(chain).s] = r],
           UNCHANGED <<late, batch, carry, given>>,
           pc' = "idle" \/ chain' = chain
    PROVE  Orderly({})
<1> DEFINE s == Head(chain).s
<1>1. /\ s \in Sends /\ row[s].st # "none" /\ Free(row, chain, pc, batch, s)
      /\ InHand(row, chain, pc, late, batch, late', s)
  BY HeadFree
<1>2. r.st # "none" /\ row \in [Sends -> Row]
  BY DEF Outcome, TypeInv, LedgerOK
<1>3. Moved(row, chain, pc, late, batch, carry, row', late')
  BY <1>1, <1>2 DEF Moved
<1>4. pc' \in {"steering", "starting"} => Free(row, chain, pc, batch, Head(chain').s)
  BY <1>1
<1> QED BY <1>3, <1>4, TakesOnly

(* The catch block, queueIt and the marker are orderly.                     *)
LEMMA AdmissionOnce ==
    ASSUME TypeInv, FlowInv, chain # <<>>, pc # "landed"
    PROVE  LET j == Head(chain) IN
           /\ \A n : Caught(j, n) => Orderly({})
           /\ \A drains : QueueIt(j, drains) => Orderly({})
           /\ \A next : MarkThen(j, next) => Orderly({})
           /\ NotSteered(j) => Orderly({})
<1> DEFINE j == Head(chain)
<1>1. ASSUME NEW n, Caught(j, n) PROVE Orderly({})
  <2>1. row' = [row EXCEPT ![j.s] = CaughtRow(j)] \/ row' = row
    BY <1>1 DEF Caught, SetRow
  <2>2. j.s \in Sends
    BY HeadRow
  <2>3. \E r : Outcome(r) /\ row' = [row EXCEPT ![j.s] = r]
    BY <2>1, <2>2, Outcomes, RowSame
  <2>4. UNCHANGED <<late, batch, carry, given>> /\ pc' = "idle"
    BY <1>1 DEF Caught, Leave, NoDrain, turnVars
  <2> QED BY <2>3, <2>4, HeadOnce
<1>2. ASSUME NEW drains, QueueIt(j, drains) PROVE Orderly({})
  <2> DEFINE L == [row EXCEPT ![j.s] = Queued(@)]
  <2>1. /\ j.s \in Sends /\ row[j.s].st # "none" /\ Free(row, chain, pc, batch, j.s)
        /\ InHand(row, chain, pc, late, batch, late', j.s)
    BY HeadFree
  <2>2. L \in [Sends -> Row] /\ \A s \in Sends : s # j.s => L[s] = row[s]
    <3>1. Queued(row[j.s]) \in Row
      BY Outcomes DEF Outcome
    <3> QED BY <2>1, <3>1 DEF TypeInv, LedgerOK
  <2>3. /\ UNCHANGED <<late, given>> /\ carry' = carry /\ pc' = "idle"
        /\ \E open : Drain(L, open, Desk) \/ DrainNothing(L, open, Desk)
    BY <1>2, Zenon DEF QueueIt, Leave, turnVars
  <2> HIDE DEF L
  <2>4. /\ \A s \in Sends : \/ row'[s].st = L[s].st
                            \/ L[s].st = "queued" /\ row'[s].st # "none"
        /\ \A b \in batch' : b \in batch \/ (b.s \in Sends /\ L[b.s].st = "queued")
    BY <2>2, <2>3, FoundHere, DrainMoves
  <2>5. L[j.s].st # "none"
    <3>1. L[j.s] = Queued(row[j.s])
      BY <2>1 DEF L, TypeInv, LedgerOK
    <3> QED BY <3>1, Outcomes DEF Outcome
  <2>6. \A s \in Sends : s # j.s /\ L[s].st = "queued"
          => InHand(row, chain, pc, late, batch, late', s)
    BY <2>2 DEF InHand, Free, Undecided
  <2>7. Moved(row, chain, pc, late, batch, carry, row', late')
    BY <2>1, <2>2, <2>4, <2>5, <2>6 DEF Moved
  <2>8. \A b \in batch' : b \in batch \/ InHand(row, chain, pc, late, batch, late', b.s)
    BY <2>1, <2>4, <2>6
  <2> QED BY <2>3, <2>7, <2>8, TakesOnly
<1>3. ASSUME NEW next, MarkThen(j, next) PROVE Orderly({})
  <2>1. row' = [row EXCEPT ![j.s] = Marked(row[j.s])]
    BY <1>3 DEF MarkThen, SetRow
  <2>2. Outcome(Marked(row[j.s]))
    <3>1. /\ row[j.s] \in Row /\ Shape(row[j.s]) /\ row[j.s].st # "none"
          /\ row[j.s].seq = j.q /\ row[j.s].act = j.a
      BY HeadRow
    <3>2. /\ Marked(row[j.s]) \in Row /\ Shape(Marked(row[j.s]))
          /\ Marked(row[j.s]).st = "dispatched"
      BY <3>1, RowOps, ShapeOps, StatusOps DEF Status
    <3>3. Marked(row[j.s]).seq = row[j.s].seq /\ Marked(row[j.s]).act = row[j.s].act
      BY <3>1, SameOps
    <3> QED BY <3>1, <3>2, <3>3 DEF Outcome
  <2>3. UNCHANGED <<late, batch, carry, given>> /\ chain' = chain
    BY <1>3 DEF MarkThen, Stay, NoDrain, turnVars
  <2> QED BY <2>1, <2>2, <2>3, HeadOnce
<1>4. ASSUME NotSteered(j) PROVE Orderly({})
  <2>1. \/ Caught(j, 0) \/ QueueIt(j, TRUE) \/ QueueIt(j, FALSE) \/ MarkThen(j, "starting")
    BY <1>4, Zenon DEF NotSteered
  <2> QED BY <1>1, <1>2, <1>3, <2>1
<1> QED BY <1>1, <1>2, <1>3, <1>4
(* admitDirectSend's decision is orderly.                                   *)
LEMMA DecideOnce == ASSUME TypeInv, FlowInv, Decide PROVE Orderly({})
<1> DEFINE j == Head(chain)
<1>1. chain # <<>> /\ pc # "landed"
  BY DEF Decide
<1>2. \/ Caught(j, 0) \/ Caught(j, 1) \/ QueueIt(j, TRUE) \/ QueueIt(j, FALSE)
      \/ MarkThen(j, "steering") \/ MarkThen(j, "starting") \/ NotSteered(j)
  BY Zenon DEF Decide
<1> QED BY <1>1, <1>2, AdmissionOnce

(* What a steer that may have been taken leaves of its row: with one write  *)
(* failing at most, only a row whose thread is gone is left without a mark. *)
LEMMA SteerEnds ==
    ASSUME MaxFail <= 1, TypeInv, FlowInv, chain # <<>>, pc = "steering",
           NEW st \in {"delivered", "unconfirmed"}, SteerRecorded(Head(chain), st)
    PROVE  \E r : /\ Outcome(r) /\ row' = [row EXCEPT ![Head(chain).s] = r]
                  /\ r.st \notin Undecided
                  /\ r.st \in {st, "unconfirmed"} \/ target = "gone"
<1> DEFINE j == Head(chain)
           lost == IF target = "gone" THEN 0 ELSE 1
<1>1. \/ row' = [row EXCEPT ![j.s] = Settled(row[j.s], st, TRUE)]
      \/ row' = [row EXCEPT ![j.s] = Settled(row[j.s], "unconfirmed", FALSE)]
      \/ /\ Fails(lost + 1) \/ Fails(lost + 2)
         /\ row' = [row EXCEPT ![j.s] = CaughtRow(j)] \/ row' = row
  BY Zenon DEF SteerRecorded, SetRow
<1>2. ASSUME Fails(lost + 1) \/ Fails(lost + 2) PROVE target = "gone"
  <2>1. spent.fail \in Nat /\ MaxFail \in Nat
    BY BoundsAssumption DEF TypeInv, LedgerOK
  <2>2. spent.fail + (lost + 1) <= MaxFail \/ spent.fail + (lost + 2) <= MaxFail
    BY <1>2 DEF Fails, Spend
  <2> QED BY <2>1, <2>2
<1>3. /\ row[j.s] \in Row /\ row[j.s].st = "dispatched" /\ j.s \in Sends
  BY HeadRow
<1>4. /\ Outcome(Settled(row[j.s], st, TRUE)) /\ Settled(row[j.s], st, TRUE).st = st
      /\ Outcome(Settled(row[j.s], "unconfirmed", FALSE))
      /\ Outcome(CaughtRow(j)) /\ Outcome(row[j.s])
      /\ row = [row EXCEPT ![j.s] = row[j.s]]
  BY <1>3, Outcomes, RowSame
<1>5. Settled(row[j.s], "unconfirmed", FALSE).st = "unconfirmed"
  BY <1>3 DEF Settled, Row
<1>6. CaughtRow(j).st \in {"started", "refused", "dispatched"}
  <2>1. Settled(row[j.s], "started", TRUE).st = "started" /\ Refused(row[j.s]).st = "refused"
    BY <1>3 DEF Settled, Refused, Row
  <2>2. CaughtRow(j) \in {Settled(row[j.s], "started", TRUE), Refused(row[j.s]), row[j.s]}
    BY Zenon DEF CaughtRow
  <2> QED BY <1>3, <2>1, <2>2
<1> DEFINE a == Settled(row[j.s], st, TRUE)
           b == Settled(row[j.s], "unconfirmed", FALSE)
           c == CaughtRow(j)
           e == row[j.s]
<1>7. /\ Outcome(a) /\ a.st = st /\ Outcome(b) /\ b.st = "unconfirmed" /\ Outcome(c)
      /\ c.st \in {"started", "refused", "dispatched"} /\ Outcome(e) /\ e.st = "dispatched"
      /\ \/ row' = [row EXCEPT ![j.s] = a] \/ row' = [row EXCEPT ![j.s] = b]
         \/ target = "gone" /\ (row' = [row EXCEPT ![j.s] = c] \/ row' = [row EXCEPT ![j.s] = e])
  BY <1>1, <1>2, <1>3, <1>4, <1>5, <1>6
<1> HIDE DEF a, b, c, e
<1> QED BY <1>7 DEF Undecided, j

(* Where the head's words were not before it left.                          *)
LEMMA HeadAlone ==
    ASSUME TypeInv, FlowInv, OnceInv, chain # <<>>, pc \in {"steering", "starting"}
    PROVE  LET s == Head(chain).s IN
           /\ s \in Sends /\ Free(row, chain, pc, batch, s) /\ row[s].st = "dispatched"
           /\ ~InTurn(carry, s) /\ ~InLate(late, s) /\ batch = {}
<1> DEFINE s == Head(chain).s
<1>1. s \in Sends /\ Free(row, chain, pc, batch, s) /\ row[s].st = "dispatched"
  BY HeadFree, HeadRow
<1>2. batch = {}
  BY DEF FlowInv, Flow, Foremost
<1>3. Apart(row, chain, pc, late, batch, carry)
  BY DEF OnceInv
<1>4. ~InTurn(carry, s) /\ ~InLate(late, s)
  BY <1>1, <1>3 DEF Apart, InTurn, InLate
<1> QED BY <1>1, <1>2, <1>4

(* The engine's answer to a steer is orderly.                               *)
LEMMA SteerAnsweredOnce ==
    ASSUME MaxFail <= 1, TypeInv, FlowInv, OnceInv, SteerAnswered
    PROVE  \E W : Orderly(W)
<1> DEFINE j == Head(chain)
<1>1. chain # <<>> /\ pc = "steering"
  BY DEF SteerAnswered, TypeInv, AdmissionOK
<1>2. /\ j.s \in Sends /\ Free(row, chain, pc, batch, j.s) /\ row[j.s].st = "dispatched"
      /\ ~InTurn(carry, j.s) /\ ~InLate(late, j.s) /\ batch = {} /\ row \in [Sends -> Row]
  BY <1>1, HeadAlone DEF TypeInv, LedgerOK
<1>3. Taken(j) \/ Uncertain(j) \/ NotSteered(j) \/ Caught(j, 1)
  BY Zenon DEF SteerAnswered
<1>4. ASSUME NEW r, row' = [row EXCEPT ![j.s] = r], Outcome(r)
      PROVE  Moved(row, chain, pc, late, batch, carry, row', late')
  BY <1>2, <1>4 DEF Moved, InHand, Outcome
<1>5. ASSUME Taken(j) PROVE \E W : Orderly(W)
  <2> DEFINE W == {<<j.s, j.a>>}
  <2>1. PICK r : /\ Outcome(r) /\ row' = [row EXCEPT ![j.s] = r]
                 /\ r.st \notin Undecided
                 /\ r.st \in {"delivered", "unconfirmed"} \/ target = "gone"
    <3>1. "delivered" \in {"delivered", "unconfirmed"} /\ SteerRecorded(j, "delivered")
      BY <1>5 DEF Taken
    <3> QED BY <1>1, <3>1, SteerEnds
  <2>2. /\ given' = Gave(given, W) /\ UNCHANGED <<late, carry, batch>> /\ pc' = "idle"
    BY <1>5 DEF Taken, Leave, NoDrain, turnVars
  <2>3. Entered(row, chain, pc, late, batch, carry, row', chain', pc', late', batch', carry')
    BY <2>2 DEF Entered
  <2>4. row'[j.s].st \notin Undecided
        /\ (row'[j.s].st \notin {"failed", "refused"} \/ target = "gone")
    BY <1>2, <2>1
  <2>5. ~May(row', chain', pc', late', batch', carry', j.s)
    BY <1>2, <2>2, <2>4 DEF May, Free, AtHead, InBatch
  <2>6. May(row, chain, pc, late, batch, carry, j.s)
    BY <1>2 DEF May
  <2>7. \A w \in W : w = <<j.s, j.a>> /\ w[1] = j.s
    OBVIOUS
  <2>8. Given(row, chain, pc, late, batch, carry, row', chain', pc', late', batch', carry', W)
    <3> HIDE DEF W
    <3>1. \A w \in W : row[w[1]].st # "none"
      BY <1>2, <2>7
    <3> QED BY <1>2, <2>4, <2>5, <2>6, <2>7, <3>1 DEF Given
  <2> QED BY <1>4, <2>1, <2>2, <2>3, <2>8 DEF Orderly
<1>6. ASSUME Uncertain(j) PROVE \E W : Orderly(W)
  <2> DEFINE l == [s |-> j.s, q |-> j.q, a |-> j.a, line |-> lines' # lines]
  <2>1. PICK r : /\ Outcome(r) /\ row' = [row EXCEPT ![j.s] = r]
                 /\ r.st \notin Undecided
                 /\ r.st \in {"unconfirmed"} \/ target = "gone"
    <3>1. "unconfirmed" \in {"delivered", "unconfirmed"} /\ SteerRecorded(j, "unconfirmed")
      BY <1>6 DEF Uncertain
    <3> QED BY <1>1, <3>1, SteerEnds
  <2>2. /\ late' = late \cup {l} /\ UNCHANGED <<given, carry, batch>> /\ pc' = "idle"
    BY <1>6 DEF Uncertain, Leave, NoDrain, turnVars
  <2>3. l.s = j.s
    OBVIOUS
  <2> HIDE DEF l
  <2>4. row'[j.s].st \notin Undecided /\ row'[j.s].st # "none"
        /\ (row'[j.s].st = "unconfirmed" \/ target = "gone")
    BY <1>2, <2>1 DEF Outcome
  <2>5. ~Free(row', chain', pc', batch', j.s)
    BY <1>2, <2>2, <2>4 DEF Free, AtHead, InBatch
  <2>6. \A k \in late' : k.s = j.s => k = l
    BY <1>2, <2>2 DEF InLate
  <2>7. Entered(row, chain, pc, late, batch, carry, row', chain', pc', late', batch', carry')
    BY <1>2, <2>2, <2>3, <2>4, <2>5, <2>6 DEF Entered
  <2>8. given' = Gave(given, {})
    BY <2>2, GaveNone
  <2>9. Given(row, chain, pc, late, batch, carry, row', chain', pc', late', batch', carry', {})
    BY DEF Given
  <2> QED BY <1>4, <2>1, <2>7, <2>8, <2>9 DEF Orderly
<1>7. pc # "landed"
  BY <1>1
<1> QED BY <1>1, <1>3, <1>5, <1>6, <1>7, AdmissionOnce
-----------------------------------------------------------------------------
(* A start refused, landed or recorded is orderly.                          *)
LEMMA RunOnce ==
    ASSUME TypeInv, FlowInv, OnceInv, RunRefused \/ RunAdmitted \/ RunRecorded
    PROVE  Orderly({})
<1> DEFINE j == Head(chain)
<1>1. chain # <<>>
  BY DEF RunRefused, RunAdmitted, RunRecorded, TypeInv, AdmissionOK
<1>2. j.s \in Sends /\ row[j.s].st = (IF pc = "idle" THEN "sending" ELSE "dispatched")
      /\ row \in [Sends -> Row] /\ row[j.s] \in Row
  BY <1>1, HeadRow DEF TypeInv, LedgerOK
<1>3. CASE RunRefused
  <2>1. pc # "landed" /\ Caught(j, 0)
    BY <1>3 DEF RunRefused
  <2> QED BY <1>1, <2>1, AdmissionOnce
<1>4. CASE RunAdmitted
  <2>1. /\ ~InTurn(carry, j.s) /\ ~InLate(late, j.s) /\ batch = {}
        /\ Free(row, chain, pc, batch, j.s) /\ row[j.s].st = "dispatched"
    BY <1>1, <1>4, HeadAlone DEF RunAdmitted
  <2>2. UNCHANGED <<row, late, batch, given>> /\ pc' = "landed"
        /\ (carry' = {<<j.s, j.a>>} \/ carry' = carry)
    BY <1>4 DEF RunAdmitted, Stay, historyVars
  <2>3. ~Free(row', chain', pc', batch', j.s)
    BY <2>1, <2>2 DEF Free, AtHead, InBatch, Undecided
  <2>4. ~InLate(late', j.s)
    BY <2>1, <2>2
  <2>5. Moved(row, chain, pc, late, batch, carry, row', late')
    BY <2>2 DEF Moved
  <2>6. \A w \in carry' \ carry : w[1] = j.s /\ \A v \in carry' : v = w
    BY <2>2
  <2>7. Entered(row, chain, pc, late, batch, carry, row', chain', pc', late', batch', carry')
    <3> HIDE DEF j
    <3>1. \A w \in carry' : \/ w \in carry
             \/ /\ Free(row, chain, pc, batch, w[1]) /\ ~Free(row', chain', pc', batch', w[1])
                /\ row'[w[1]].st \in {"dispatched", "started"} /\ ~InLate(late', w[1])
                /\ \A v \in carry' : v[1] = w[1] => v = w
      BY <2>1, <2>2, <2>3, <2>4, <2>6
    <3> QED BY <2>2, <3>1 DEF Entered
  <2>8. Given(row, chain, pc, late, batch, carry, row', chain', pc', late', batch', carry', {})
    BY DEF Given
  <2>9. given' = Gave(given, {})
    BY <2>2, GaveNone
  <2> QED BY <2>5, <2>7, <2>8, <2>9 DEF Orderly
<1>5. CASE RunRecorded
  <2>1. row[j.s].st = "dispatched"
    BY <1>2, <1>5 DEF RunRecorded
  <2>2. \/ row' = [row EXCEPT ![j.s] = Settled(row[j.s], "started", TRUE)]
        \/ row' = row
    BY <1>5 DEF RunRecorded, SetRow
  <2>3. Settled(row[j.s], "started", TRUE).st = "started"
    BY <1>2 DEF Settled, Row
  <2>4. Moved(row, chain, pc, late, batch, carry, row', late')
    <3> DEFINE r == Settled(row[j.s], "started", TRUE)
    <3> HIDE DEF r
    <3>1. row' = [row EXCEPT ![j.s] = r] \/ row' = row
      BY <2>2 DEF r
    <3>2. r.st = "started"
      BY <2>3 DEF r
    <3> QED BY <1>2, <2>1, <3>1, <3>2 DEF Moved
  <2>5. UNCHANGED <<late, batch, carry, given>> /\ pc' = "idle"
    BY <1>5 DEF RunRecorded, Leave, turnVars, historyVars
  <2> QED BY <2>4, <2>5, TakesOnly
<1> QED BY <1>3, <1>4, <1>5

(* What becomes of a batch, the timers and the other drains are orderly.    *)
LEMMA QueueStepsOnce ==
    ASSUME TypeInv, FlowInv, OnceInv,
           BatchAdmitted \/ BatchRequeued \/ BatchFailed \/ RetryTimer \/ WatchTimer \/ OtherDrain
    PROVE  Orderly({})
<1>1. /\ Desk \in Desks /\ Desk.batch = batch
      /\ row \in [Sends -> Row] /\ batch \subseteq Job
  BY FoundHere DEF Found
<1>2. CASE BatchAdmitted
  <2>1. /\ UNCHANGED <<row, chain, pc, late, given>> /\ batch # {} /\ batch' = {}
        /\ carry' = {<<b.s, b.a>> : b \in batch}
    BY <1>2 DEF BatchAdmitted, ledgerVars, admissionVars, historyVars
  <2>2. ASSUME NEW b \in batch
        PROVE  /\ b.s \in Sends /\ Free(row, chain, pc, batch, b.s)
               /\ row[b.s].st \in {"started", "dispatched"} /\ row[b.s].act = b.a
               /\ ~InLate(late, b.s) /\ pc = "idle"
    <3>1. /\ b.s \in Sends /\ Free(row, chain, pc, batch, b.s)
      BY <1>1 DEF Job, Free, InBatch
    <3>2. row[b.s].st \in {"started", "dispatched"} /\ row[b.s].act = b.a
      BY DEF FlowInv, Flow, Starting
    <3>3. ~InLate(late, b.s)
      BY <3>1 DEF OnceInv, Apart, InLate
    <3>4. pc = "idle"
      BY DEF FlowInv, Flow, Foremost
    <3> QED BY <3>1, <3>2, <3>3, <3>4
  <2>3. ASSUME NEW w \in carry'
        PROVE  /\ Free(row, chain, pc, batch, w[1]) /\ ~Free(row', chain', pc', batch', w[1])
               /\ row'[w[1]].st \in {"dispatched", "started"} /\ ~InLate(late', w[1])
               /\ \A v \in carry' : v[1] = w[1] => v = w
    <3>1. PICK b \in batch : w = <<b.s, b.a>>
      BY <2>1
    <3>2. w[1] = b.s
      BY <3>1
    <3>3. ~Free(row', chain', pc', batch', b.s)
      BY <2>1, <2>2 DEF Free, AtHead, InBatch, Undecided
    <3>4. ASSUME NEW v \in carry', v[1] = w[1] PROVE v = w
      <4>1. PICK c \in batch : v = <<c.s, c.a>>
        BY <2>1
      <4>2. c.s = b.s /\ row[c.s].act = c.a /\ row[b.s].act = b.a
        BY <2>2, <3>2, <3>4, <4>1
      <4> QED BY <3>1, <4>1, <4>2
    <3> QED BY <2>1, <2>2, <3>2, <3>3, <3>4
  <2>4. Entered(row, chain, pc, late, batch, carry, row', chain', pc', late', batch', carry')
    <3>1. pc' \in {"steering", "starting"} => Free(row, chain, pc, batch, Head(chain').s)
      BY <2>1 DEF Free, AtHead
    <3> QED BY <2>1, <2>3, <3>1 DEF Entered
  <2>5. Moved(row, chain, pc, late, batch, carry, row', late')
    BY <2>1 DEF Moved
  <2>6. Given(row, chain, pc, late, batch, carry, row', chain', pc', late', batch', carry', {})
    BY DEF Given
  <2>7. given' = Gave(given, {})
    BY <2>1, GaveNone
  <2> QED BY <2>4, <2>5, <2>6, <2>7 DEF Orderly
<1>3. CASE BatchRequeued
  <2> DEFINE mine == {b.s : b \in {b \in batch : Mine(b) /\ row[b.s].st = "started"}}
  <2>1. PICK back \in SUBSET mine :
          row' = [s \in Sends |-> IF s \in back THEN RequeuedStart(row[s]) ELSE row[s]]
    BY <1>3, Zenon DEF BatchRequeued
  <2>2. \A s \in back : row[s].st = "started" /\ s \in Sends /\ InBatch(batch, s)
    BY <1>1 DEF Job, InBatch
  <2>3. batch' = {} /\ UNCHANGED <<chain, pc, late, carry, given>>
    BY <1>3 DEF BatchRequeued, admissionVars, turnVars, historyVars
  <2> HIDE DEF mine
  <2>4. \A s \in Sends : RequeuedStart(row[s]).st = "queued"
    BY <1>1, StatusOps
  <2>5. Moved(row, chain, pc, late, batch, carry, row', late')
    BY <2>1, <2>2, <2>4 DEF Moved, InHand, Free
  <2>6. pc' \in {"steering", "starting"} => Free(row, chain, pc, batch, Head(chain').s)
    BY <2>3 DEF Free, AtHead
  <2> QED BY <2>3, <2>5, <2>6, TakesOnly
<1>4. CASE BatchFailed
  <2> DEFINE d == [Desk EXCEPT !.batch = {}, !.retry = "none"]
  <2>1. d \in Desks /\ d.batch \subseteq batch
    BY <1>1 DEF Desks
  <2>2. DrainNothing(row, lateOpen, d) \/ Drain(row, lateOpen, d)
    BY <1>4, Zenon DEF BatchFailed
  <2>3. UNCHANGED <<chain, pc, late, given>> /\ carry' \subseteq carry
    BY <1>4 DEF BatchFailed, admissionVars, turnVars, historyVars
  <2> HIDE DEF d
  <2> QED BY <2>1, <2>2, <2>3, DrainsOnce
<1>5. CASE RetryTimer
  <2> DEFINE d == [Desk EXCEPT !.retry = "open"]
  <2>1. d \in Desks /\ d.batch \subseteq batch
    BY <1>1 DEF Desks
  <2>2. /\ Drain(row, lateOpen, d) /\ UNCHANGED <<chain, pc, late, given>>
        /\ carry' \subseteq carry
    BY <1>5 DEF RetryTimer, admissionVars, turnVars, historyVars
  <2> HIDE DEF d
  <2> QED BY <2>1, <2>2, DrainsOnce
<1>6. CASE WatchTimer
  <2> DEFINE d == [Desk EXCEPT !.watch = FALSE]
  <2>1. d \in Desks /\ d.batch \subseteq batch
    BY <1>1 DEF Desks
  <2>2. /\ Drain(row, lateOpen, d) /\ UNCHANGED <<chain, pc, late, given>>
        /\ carry' \subseteq carry
    BY <1>6 DEF WatchTimer, admissionVars, turnVars, historyVars
  <2> HIDE DEF d
  <2> QED BY <2>1, <2>2, DrainsOnce
<1>7. CASE OtherDrain
  <2>1. /\ Drain(row, lateOpen, Desk) /\ UNCHANGED <<chain, pc, late, given>>
        /\ carry' \subseteq carry
    BY <1>7 DEF OtherDrain, admissionVars, turnVars, historyVars
  <2> QED BY <1>1, <2>1, DrainsOnce
<1> QED BY <1>2, <1>3, <1>4, <1>5, <1>6, <1>7
-----------------------------------------------------------------------------
(* Letting go of a row leaves its status.                                   *)
LEMMA ReleaseStatus ==
    ASSUME NEW L \in [Sends -> Row], NEW l \in LateCall
    PROVE  /\ Release(L, l) \in [Sends -> Row]
           /\ \A s \in Sends : Release(L, l)[s].st = L[s].st
<1>1. l.s \in Sends
  BY DEF LateCall
<1>2. Scrubbed(L[l.s]) \in Row /\ Scrubbed(L[l.s]).st = L[l.s].st
  BY <1>1, RowOps, StatusOps DEF Status
<1>3. Release(L, l) = [L EXCEPT ![l.s] = Scrubbed(L[l.s])] \/ Release(L, l) = L
  BY DEF Release
<1> QED BY <1>1, <1>2, <1>3

(* Where the words of a steer without an answer are not.                    *)
LEMMA LateAlone ==
    ASSUME TypeInv, OnceInv, NEW l \in late, late' = late \ {l}
    PROVE  /\ l \in LateCall /\ l.s \in Sends /\ InLate(late, l.s) /\ ~InLate(late', l.s)
           /\ ~Free(row, chain, pc, batch, l.s) /\ ~InTurn(carry, l.s)
           /\ row[l.s].st # "none" /\ (row[l.s].st = "unconfirmed" \/ target = "gone")
           /\ InHand(row, chain, pc, late, batch, late', l.s)
<1>1. l \in LateCall /\ l.s \in Sends
  BY DEF TypeInv, RestOK, LateCall
<1>2. Apart(row, chain, pc, late, batch, carry)
  BY DEF OnceInv
<1>3. InLate(late, l.s) /\ ~InLate(late', l.s) /\ ~Free(row, chain, pc, batch, l.s)
  BY <1>2 DEF Apart, InLate
<1>4. row[l.s].st # "none" /\ (row[l.s].st = "unconfirmed" \/ target = "gone")
  BY <1>2 DEF Apart
<1>5. ~InTurn(carry, l.s)
  BY <1>2, <1>3 DEF Apart, InTurn
<1> QED BY <1>1, <1>3, <1>4, <1>5 DEF InHand

(* Only the answered row's status changes, to one that is not none, and a   *)
(* drain of that ledger may follow.                                         *)
LEMMA LateMoves ==
    ASSUME TypeInv, OnceInv, NEW l \in late, late' = late \ {l}, UNCHANGED <<chain, pc, carry>>,
           NEW L \in [Sends -> Row], L[l.s].st # "none",
           \A s \in Sends : s # l.s => L[s].st = row[s].st,
           \/ row' = L /\ batch' = batch
           \/ \E open : Drain(L, open, Desk) \/ DrainNothing(L, open, Desk)
    PROVE  /\ Moved(row, chain, pc, late, batch, carry, row', late')
           /\ Entered(row, chain, pc, late, batch, carry,
                      row', chain', pc', late', batch', carry')
<1>1. l.s \in Sends /\ InHand(row, chain, pc, late, batch, late', l.s)
  BY LateAlone
<1>2. /\ \A s \in Sends : \/ row'[s].st = L[s].st
                          \/ L[s].st = "queued" /\ row'[s].st # "none"
      /\ \A b \in batch' : b \in batch \/ (b.s \in Sends /\ L[b.s].st = "queued")
  BY FoundHere, DrainMoves
<1>3. \A s \in Sends : L[s].st = "queued" => InHand(row, chain, pc, late, batch, late', s)
  BY <1>1 DEF InHand, Free, Undecided
<1>4. Moved(row, chain, pc, late, batch, carry, row', late')
  BY <1>1, <1>2, <1>3 DEF Moved
<1>5. pc' \in {"steering", "starting"} => Free(row, chain, pc, batch, Head(chain').s)
  BY DEF Free, AtHead
<1> QED BY <1>2, <1>3, <1>4, <1>5 DEF Entered

(* The row of an answer settled and let go of, or only let go of.           *)
LEMMA LateSettledMoves ==
    ASSUME TypeInv, OnceInv, NEW l \in late, late' = late \ {l}, UNCHANGED <<chain, pc, carry>>,
           NEW st \in {"delivered", "failed"}, LateSettled(l, st)
    PROVE  /\ Moved(row, chain, pc, late, batch, carry, row', late')
           /\ Entered(row, chain, pc, late, batch, carry,
                      row', chain', pc', late', batch', carry')
           /\ row'[l.s].st \in {st, row[l.s].st} /\ batch' = batch
<1>1. /\ l \in LateCall /\ l.s \in Sends /\ row[l.s].st # "none"
      /\ row \in [Sends -> Row] /\ row[l.s] \in Row
  BY LateAlone DEF TypeInv, LedgerOK
<1> DEFINE r == Settled(row[l.s], st, TRUE)
           N == [row EXCEPT ![l.s] = r]
<1>2. r \in Row /\ r.st = st
  <2>1. r \in Row
    BY <1>1, RowOps DEF Status
  <2> QED BY <1>1, <2>1 DEF Settled, Row
<1>3. N \in [Sends -> Row] /\ N[l.s].st = st /\ \A s \in Sends : s # l.s => N[s] = row[s]
  <2> HIDE DEF r
  <2> QED BY <1>1, <1>2
<1>4. (row' = Release(N, l) \/ row' = Release(row, l)) /\ batch' = batch
  BY Zenon DEF LateSettled
<1> HIDE DEF N
<1>5. /\ row' \in [Sends -> Row] /\ row'[l.s].st \in {st, row[l.s].st}
      /\ \A s \in Sends : s # l.s => row'[s].st = row[s].st
  <2>1. CASE row' = Release(N, l)
    BY <1>1, <1>3, <2>1, ReleaseStatus
  <2>2. CASE row' = Release(row, l)
    BY <1>1, <2>2, ReleaseStatus
  <2> QED BY <1>4, <2>1, <2>2
<1>6. row'[l.s].st # "none"
  BY <1>1, <1>5
<1> QED BY <1>4, <1>5, <1>6, LateMoves

(* The late answer to a steer is orderly.                                   *)
LEMMA LateAnswerOnce ==
    ASSUME TypeInv, FlowInv, OnceInv, NEW l \in late, LateAnswer(l)
    PROVE  \E W : Orderly(W)
<1> DEFINE W == {<<l.s, l.a>>}
<1>1. late' = late \ {l} /\ UNCHANGED <<chain, pc, carry>>
  BY DEF LateAnswer, admissionVars, turnVars
<1>2. /\ l \in LateCall /\ l.s \in Sends /\ InLate(late, l.s) /\ ~InLate(late', l.s)
      /\ ~Free(row, chain, pc, batch, l.s) /\ ~InTurn(carry, l.s)
      /\ row[l.s].st # "none" /\ (row[l.s].st = "unconfirmed" \/ target = "gone")
      /\ row \in [Sends -> Row] /\ row[l.s] \in Row
  BY <1>1, LateAlone DEF TypeInv, LedgerOK
<1>3. ASSUME row'[l.s].st \in {"delivered", row[l.s].st}, batch' = batch
      PROVE  Given(row, chain, pc, late, batch, carry,
                   row', chain', pc', late', batch', carry', W)
  <2>1. row[l.s].st \notin Undecided /\ ~AtHead(chain, pc, l.s) /\ ~InBatch(batch, l.s)
    BY <1>2 DEF Free
  <2>2. ~May(row', chain', pc', late', batch', carry', l.s)
    BY <1>1, <1>2, <1>3, <2>1 DEF May, Free, AtHead, Undecided
  <2>3. May(row, chain, pc, late, batch, carry, l.s)
    BY <1>2 DEF May
  <2>4. row'[l.s].st \notin {"failed", "refused"} \/ target = "gone"
    BY <1>2, <1>3
  <2>5. \A w \in W : w = <<l.s, l.a>> /\ w[1] = l.s
    OBVIOUS
  <2> HIDE DEF W
  <2> QED BY <1>2, <2>2, <2>3, <2>4, <2>5 DEF Given
<1>4. Given(row, chain, pc, late, batch, carry, row', chain', pc', late', batch', carry', {})
  BY DEF Given
<1> HIDE DEF W
<1>5. ASSUME LateDelivered(l) PROVE \E w : Orderly(w)
  <2>1. LateSettled(l, "delivered") /\ given' = Gave(given, W)
    BY <1>5 DEF LateDelivered, W
  <2>2. /\ Moved(row, chain, pc, late, batch, carry, row', late')
        /\ Entered(row, chain, pc, late, batch, carry,
                   row', chain', pc', late', batch', carry')
        /\ row'[l.s].st \in {"delivered", row[l.s].st} /\ batch' = batch
    BY <1>1, <2>1, LateSettledMoves
  <2> QED BY <1>3, <2>1, <2>2 DEF Orderly
<1>6. ASSUME LateUncertain(l) PROVE \E w : Orderly(w)
  <2>1. row' = row /\ batch' = batch /\ given' \in {given, Gave(given, W)}
    BY <1>6 DEF LateUncertain, drainVars, W
  <2>2. /\ Moved(row, chain, pc, late, batch, carry, row', late')
        /\ Entered(row, chain, pc, late, batch, carry,
                   row', chain', pc', late', batch', carry')
    BY <1>1, <1>2, <2>1, LateMoves
  <2>3. given' = Gave(given, {}) \/ given' = Gave(given, W)
    BY <2>1, GaveNone
  <2> QED BY <1>3, <1>4, <2>1, <2>2, <2>3 DEF Orderly
<1>7. ASSUME LateRejected(l) PROVE \E w : Orderly(w)
  <2>1. given' = Gave(given, {})
    BY <1>7, GaveNone DEF LateRejected
  <2> DEFINE R == Release(row, l)
             Q == [row EXCEPT ![l.s] = QueuedFromLine(row[l.s])]
  <2>2. \/ \E open : DrainNothing(R, open, Desk)
        \/ LateSettled(l, "failed")
        \/ \E open : Drain(Q, open, Desk)
        \/ row' = R /\ batch' = batch
    BY <1>7, Zenon DEF LateRejected
  <2>3. /\ R \in [Sends -> Row] /\ R[l.s].st # "none"
        /\ \A s \in Sends : s # l.s => R[s].st = row[s].st
    <3> HIDE DEF R
    <3> QED BY <1>2, ReleaseStatus DEF R
  <2>4. /\ Q \in [Sends -> Row] /\ Q[l.s].st # "none"
        /\ \A s \in Sends : s # l.s => Q[s].st = row[s].st
    <3>1. QueuedFromLine(row[l.s]) \in Row /\ QueuedFromLine(row[l.s]).st = "queued"
      BY <1>2, RowOps, StatusOps DEF Status
    <3> QED BY <1>2, <3>1
  <2> HIDE DEF R, Q
  <2>5. /\ Moved(row, chain, pc, late, batch, carry, row', late')
        /\ Entered(row, chain, pc, late, batch, carry,
                   row', chain', pc', late', batch', carry')
    <3>1. CASE LateSettled(l, "failed")
      BY <1>1, <3>1, LateSettledMoves
    <3>2. CASE (row' = R /\ batch' = batch) \/ \E open : DrainNothing(R, open, Desk)
      BY <1>1, <2>3, <3>2, LateMoves
    <3>3. CASE \E open : Drain(Q, open, Desk)
      BY <1>1, <2>4, <3>3, LateMoves
    <3> QED BY <2>2, <3>1, <3>2, <3>3
  <2> QED BY <1>4, <2>1, <2>5 DEF Orderly
<1>8. LateDelivered(l) \/ LateRejected(l) \/ LateUncertain(l)
  BY Zenon DEF LateAnswer
<1> QED BY <1>5, <1>6, <1>7, <1>8
-----------------------------------------------------------------------------
(* The turn, the rooms: the engine gets the words of the turn, once.        *)
LEMMA WorldOnce ==
    ASSUME TypeInv, FlowInv, OnceInv, World, target' = target
    PROVE  \E W : Orderly(W)
<1>1. Desk \in Desks /\ Desk.batch = batch
  BY FoundHere
<1>2. CASE OtherTurnStarts \/ RoomTurnStarts \/ TargetMoves
  <2>1. UNCHANGED <<row, chain, pc, late, batch, carry, given>>
    BY <1>2 DEF OtherTurnStarts, RoomTurnStarts, TargetMoves, TurnFrame, ledgerVars,
       admissionVars
  <2>2. Moved(row, chain, pc, late, batch, carry, row', late')
    BY <2>1 DEF Moved
  <2>3. pc' \in {"steering", "starting"} => Free(row, chain, pc, batch, Head(chain').s)
    BY <2>1 DEF Free, AtHead
  <2> QED BY <2>1, <2>2, <2>3, TakesOnly
<1>3. CASE TurnCompleted \/ TurnReleased \/ RoomTurnEnds
  <2>1. /\ Drain(row, lateOpen, Desk) /\ UNCHANGED <<chain, pc, late, given>>
        /\ carry' \subseteq carry
    BY <1>3 DEF TurnCompleted, TurnReleased, RoomTurnEnds, TurnFrame, admissionVars
  <2> QED BY <1>1, <2>1, DrainsOnce
<1>4. CASE EngineGetsTurn
  <2>1. /\ UNCHANGED <<row, chain, pc, late, batch>> /\ carry' = {}
        /\ given' = Gave(given, carry)
    BY <1>4 DEF EngineGetsTurn, TurnFrame, drainVars, admissionVars
  <2>2. Moved(row, chain, pc, late, batch, carry, row', late')
    BY <2>1 DEF Moved
  <2>3. Entered(row, chain, pc, late, batch, carry, row', chain', pc', late', batch', carry')
    BY <2>1 DEF Entered, Free, AtHead
  <2>4. ASSUME NEW w \in carry
        PROVE  /\ w[1] \in Sends /\ row[w[1]].st \in {"dispatched", "started"}
               /\ ~Free(row, chain, pc, batch, w[1]) /\ ~InLate(late, w[1])
               /\ InTurn(carry, w[1]) /\ \A v \in carry : v[1] = w[1] => v = w
    <3>1. w[1] \in Sends
      BY DEF TypeInv, RestOK
    <3>2. Apart(row, chain, pc, late, batch, carry) /\ InTurn(carry, w[1])
      BY DEF OnceInv, InTurn
    <3> QED BY <3>1, <3>2 DEF Apart
  <2>5. Given(row, chain, pc, late, batch, carry,
              row', chain', pc', late', batch', carry', carry)
    <3>1. \A w \in carry : May(row, chain, pc, late, batch, carry, w[1])
      BY <2>4 DEF May
    <3>2. \A w \in carry : ~May(row', chain', pc', late', batch', carry', w[1])
      BY <2>1, <2>4 DEF May, InTurn
    <3>3. \A w \in carry : row'[w[1]].st \notin {"failed", "refused"} /\ row[w[1]].st # "none"
      BY <2>1, <2>4
    <3> QED BY <2>4, <3>1, <3>2, <3>3 DEF Given
  <2> QED BY <2>1, <2>2, <2>3, <2>5 DEF Orderly
<1> QED BY <1>2, <1>3, <1>4 DEF World

(* A crash clears the memory; what the engine got is of what was in doubt.  *)
LEMMA CrashOnce ==
    ASSUME TypeInv, FlowInv, OnceInv, Crash
    PROVE  \E W : Orderly(W)
<1>1. PICK W \in SUBSET InDoubt : given' = Gave(given, W)
  BY DEF Crash
<1>2. row' = row /\ pc' = "idle" /\ late' = {} /\ batch' = {} /\ carry' = {}
  BY DEF Crash, ledgerVars
<1>3. Moved(row, chain, pc, late, batch, carry, row', late')
  BY <1>2 DEF Moved
<1>4. Entered(row, chain, pc, late, batch, carry, row', chain', pc', late', batch', carry')
  BY <1>2 DEF Entered
<1>5. Apart(row, chain, pc, late, batch, carry)
  BY DEF OnceInv
<1> DEFINE h == <<Head(chain).s, Head(chain).a>>
<1>6. \A w \in W : (\E l \in late : w = <<l.s, l.a>>) \/ (pc = "steering" /\ w = h)
  BY DEF InDoubt
<1>7. ASSUME NEW l \in late
      PROVE  /\ l.s \in Sends /\ row[l.s].st # "none"
             /\ row[l.s].st \notin Undecided
             /\ row[l.s].st = "unconfirmed" \/ target = "gone"
             /\ May(row, chain, pc, late, batch, carry, l.s)
             /\ \A k \in late : k.s = l.s => k = l
             /\ pc = "steering" => Head(chain).s # l.s
  <2>1. l.s \in Sends /\ InLate(late, l.s)
    BY DEF TypeInv, RestOK, LateCall, InLate
  <2>2. /\ row[l.s].st = "unconfirmed" \/ (target = "gone" /\ row[l.s].st # "none")
        /\ ~Free(row, chain, pc, batch, l.s) /\ \A k \in late : k.s = l.s => k = l
    BY <1>5 DEF Apart
  <2> QED BY <2>1, <2>2 DEF May, Free, AtHead
<1>8. pc = "steering" =>
        /\ Head(chain).s \in Sends /\ row[Head(chain).s].st = "dispatched"
        /\ May(row, chain, pc, late, batch, carry, Head(chain).s)
  <2>1. pc = "steering" => chain # <<>>
    BY DEF TypeInv, AdmissionOK
  <2> QED BY <2>1, HeadAlone DEF May
<1>9. ASSUME NEW s, row[s].st \notin Undecided
      PROVE  ~May(row', chain', pc', late', batch', carry', s)
  BY <1>2, <1>9 DEF May, Free, AtHead, InBatch, InTurn, InLate
<1>10. ASSUME NEW w \in W
       PROVE  /\ w[1] \in Sends /\ row[w[1]].st # "none"
              /\ May(row, chain, pc, late, batch, carry, w[1])
              /\ ~May(row', chain', pc', late', batch', carry', w[1])
              /\ row'[w[1]].st \notin {"failed", "refused"} \/ target = "gone"
              /\ \A v \in W : v[1] = w[1] => v = w
  <2>1. CASE \E l \in late : w = <<l.s, l.a>>
    <3>1. PICK l \in late : w = <<l.s, l.a>>
      BY <2>1
    <3>2. w[1] = l.s
      BY <3>1
    <3>3. ASSUME NEW v \in W, v[1] = w[1] PROVE v = w
      <4>1. CASE \E k \in late : v = <<k.s, k.a>>
        <5>1. PICK k \in late : v = <<k.s, k.a>>
          BY <4>1
        <5>2. k = l
          BY <1>7, <3>2, <3>3, <5>1
        <5> QED BY <3>1, <5>1, <5>2
      <4>2. CASE pc = "steering" /\ v = h
        BY <1>7, <3>2, <3>3, <4>2
      <4> QED BY <1>6, <4>1, <4>2
    <3>4. ~May(row', chain', pc', late', batch', carry', l.s)
      BY <1>7, <1>9
    <3>5. row'[l.s].st \notin {"failed", "refused"} \/ target = "gone"
      BY <1>2, <1>7
    <3> QED BY <1>7, <3>2, <3>3, <3>4, <3>5
  <2>2. CASE pc = "steering" /\ w = h
    <3>1. w[1] = Head(chain).s
      BY <2>2
    <3>2. ASSUME NEW v \in W, v[1] = w[1] PROVE v = w
      <4>1. ASSUME NEW k \in late, v = <<k.s, k.a>> PROVE FALSE
        BY <1>7, <2>2, <3>1, <3>2, <4>1
      <4> QED BY <1>6, <2>2, <4>1
    <3>3. ~May(row', chain', pc', late', batch', carry', Head(chain).s)
      BY <1>8, <1>9, <2>2 DEF Undecided
    <3>4. row'[Head(chain).s].st = "dispatched"
      BY <1>2, <1>8, <2>2
    <3> QED BY <1>8, <2>2, <3>1, <3>2, <3>3, <3>4
  <2> QED BY <1>6, <2>1, <2>2
<1>11. Given(row, chain, pc, late, batch, carry, row', chain', pc', late', batch', carry', W)
  BY <1>10 DEF Given
<1> QED BY <1>1, <1>3, <1>4, <1>11 DEF Orderly
(* Startup and pruning are orderly.                                         *)
LEMMA StartupOnce ==
    ASSUME TypeInv, FlowInv, OnceInv
    PROVE  /\ Recover \/ Ready => Orderly({})
           /\ \A s \in Sends : CompleteOne(s) \/ Prune(s) => Orderly({})
<1>1. /\ row \in [Sends -> Row] /\ \A s \in Sends : row[s] \in Row /\ Shape(row[s])
      /\ Desk \in Desks /\ Desk.batch = batch
  BY FoundHere DEF Found, FlowInv, Flow, Shaped
<1>2. pc' = pc /\ chain' = chain
      => (pc' \in {"steering", "starting"} => Free(row, chain, pc, batch, Head(chain').s))
  BY DEF Free, AtHead
<1>3. ASSUME Recover PROVE Orderly({})
  <2>1. (row' = Recovered(row) \/ row' = row)
        /\ UNCHANGED <<chain, pc, late, batch, carry, given>>
    BY <1>3 DEF Recover, BootFrame, admissionVars, turnVars, historyVars
  <2>2. ASSUME NEW s \in Sends
        PROVE  \/ Recovered(row)[s].st = row[s].st
               \/ /\ row[s].st \in Undecided
                  /\ Recovered(row)[s].st \in {"refused", "queued"}
    BY <1>1 DEF Recovered, Row, Undecided
  <2>3. Moved(row, chain, pc, late, batch, carry, row', late')
    BY <2>1, <2>2 DEF Moved, InHand, Free, Undecided
  <2> QED BY <1>2, <2>1, <2>3, TakesOnly
<1>4. ASSUME Ready PROVE Orderly({})
  <2>1. /\ Drain(row, lateOpen, Desk) /\ UNCHANGED <<chain, pc, late, given>>
        /\ carry' \subseteq carry
    BY <1>4 DEF Ready, BootFrame, admissionVars, turnVars, historyVars
  <2> QED BY <1>1, <2>1, DrainsOnce
<1>5. ASSUME NEW s \in Sends, CompleteOne(s) PROVE Orderly({})
  <2>1. UNCHANGED <<chain, pc, late, batch, carry, given>> /\ carry = {}
    BY <1>5 DEF CompleteOne, BootFrame, admissionVars, turnVars, historyVars, FlowInv
  <2>2. \/ row' = row
        \/ \E r : /\ row' = [row EXCEPT ![s] = r]
                  /\ \/ row[s].st = "dispatched" /\ r = Settled(row[s], "started", TRUE)
                     \/ r = Scrubbed(row[s])
                     \/ row[s].words /\ r = Scrubbed(Settled(row[s], "unconfirmed", TRUE))
    <3>1. CASE Fails(0) /\ lines[s] > 0
      <4>1. \/ UNCHANGED ledgerVars
            \/ SetRow(s, IF row[s].st = "dispatched"
                         THEN Settled(row[s], "started", TRUE) ELSE Scrubbed(row[s]))
        BY <1>5, <3>1 DEF CompleteOne
      <4> QED BY <4>1 DEF SetRow, ledgerVars
    <3>2. CASE lines[s] > 0 /\ ~Fails(0)
      BY <1>5, <3>2 DEF CompleteOne, ledgerVars
    <3>3. CASE ~(lines[s] > 0)
      BY <1>5, <3>3 DEF CompleteOne, SetRow, ledgerVars
    <3> QED BY <3>1, <3>2, <3>3
  <2>3. ASSUME NEW r, row' = [row EXCEPT ![s] = r],
               \/ row[s].st = "dispatched" /\ r = Settled(row[s], "started", TRUE)
               \/ r = Scrubbed(row[s])
               \/ row[s].words /\ r = Scrubbed(Settled(row[s], "unconfirmed", TRUE))
        PROVE  Moved(row, chain, pc, late, batch, carry, row', late')
    <3>1. \/ r.st = row[s].st
          \/ row[s].st = "dispatched" /\ r.st = "started"
          \/ row[s].st # "none" /\ r.st = "unconfirmed"
      <4>1. CASE row[s].st = "dispatched" /\ r = Settled(row[s], "started", TRUE)
        BY <1>1, <4>1 DEF Settled, Row
      <4>2. CASE r = Scrubbed(row[s])
        BY <1>1, <4>2, StatusOps
      <4>3. CASE row[s].words /\ r = Scrubbed(Settled(row[s], "unconfirmed", TRUE))
        <5> DEFINE m == Settled(row[s], "unconfirmed", TRUE)
        <5>1. m \in Row /\ m.st = "unconfirmed"
          <6>1. m \in Row
            BY <1>1, RowOps DEF Status
          <6> QED BY <1>1, <6>1 DEF Settled, Row
        <5>2. row[s].st # "none"
          BY <1>1, <4>3 DEF Shape, NoRow
        <5> HIDE DEF m
        <5>3. r.st = "unconfirmed"
          BY <4>3, <5>1, StatusOps DEF m
        <5> QED BY <5>2, <5>3
      <4> QED BY <2>3, <4>1, <4>2, <4>3
    <3>2. \A t \in Sends : ~InTurn(carry, t)
      BY <2>1 DEF InTurn
    <3> QED BY <1>1, <2>3, <3>1, <3>2 DEF Moved
  <2>4. Moved(row, chain, pc, late, batch, carry, row', late')
    <3>1. CASE row' = row
      BY <3>1 DEF Moved
    <3> QED BY <2>2, <2>3, <3>1
  <2> QED BY <1>2, <2>1, <2>4, TakesOnly
<1>6. ASSUME NEW s \in Sends, Prune(s) PROVE Orderly({})
  <2>1. /\ row' = [row EXCEPT ![s] = NoRow] /\ late = {} /\ ~InChain(s) /\ Prunable(row[s])
        /\ UNCHANGED <<chain, pc, late, batch, carry, given>>
        /\ net' = {p \in net : p.s # s}
        /\ s \notin {b.s : b \in batch} /\ s \notin {w[1] : w \in carry}
    BY <1>6 DEF Prune, SetRow, admissionVars, turnVars, historyVars
  <2>2. row'[s].st = "none" /\ \A t \in Sends : t # s => row'[t] = row[t]
    BY <1>1, <2>1 DEF NoRow
  <2>3. ~May(row, chain, pc, late, batch, carry, s)
    <3>1. ~InTurn(carry, s) /\ ~InLate(late, s) /\ ~InBatch(batch, s)
      BY <2>1 DEF InTurn, InLate, InBatch
    <3>2. row[s].st \notin Undecided
      BY <2>1 DEF Prunable, Undecided
    <3>3. ~AtHead(chain, pc, s)
      <4>1. ASSUME pc # "idle" PROVE Head(chain) = chain[1] /\ 1 \in DOMAIN chain
        BY <4>1 DEF TypeInv, AdmissionOK
      <4> QED BY <2>1, <4>1 DEF AtHead, InChain
    <3> QED BY <3>1, <3>2, <3>3 DEF May, Free
  <2>4. \A r \in net' : r.s # s
    BY <2>1
  <2>5. Moved(row, chain, pc, late, batch, carry, row', late')
    BY <2>2, <2>3, <2>4 DEF Moved
  <2> QED BY <1>2, <2>1, <2>5, TakesOnly
<1> QED BY <1>3, <1>4, <1>5, <1>6

(* A cancel, a Stop and a repeat of a request in hand are orderly.          *)
LEMMA OwnerActsOnce ==
    ASSUME TypeInv, FlowInv, OnceInv,
           StopPressed \/ (\E s \in Sends : Cancel(s)) \/ (\E p \in net : AcceptAgain(p))
    PROVE  Orderly({})
<1>1. row \in [Sends -> Row] /\ \A s \in Sends : row[s] \in Row
  BY DEF TypeInv, LedgerOK
<1>2. pc' = pc /\ chain' = chain
      => (pc' \in {"steering", "starting"} => Free(row, chain, pc, batch, Head(chain').s))
  BY DEF Free, AtHead
<1>3. ASSUME StopPressed PROVE Orderly({})
  <2>1. /\ row' = StopMarked(row, tokens.stop + 1)
        /\ UNCHANGED <<chain, pc, late, batch, carry, given>>
    BY <1>3 DEF StopPressed, admissionVars, turnVars
  <2>2. \A s \in Sends : StopMarked(row, tokens.stop + 1)[s].st = row[s].st
    BY <1>1 DEF StopMarked, Row
  <2>3. Moved(row, chain, pc, late, batch, carry, row', late')
    BY <2>1, <2>2 DEF Moved
  <2> QED BY <1>2, <2>1, <2>3, TakesOnly
<1>4. ASSUME NEW s \in Sends, Cancel(s) PROVE Orderly({})
  <2>1. /\ row' = [row EXCEPT ![s] = Settled(row[s], "cancelled", FALSE)]
        /\ Cancellable(row[s])
        /\ UNCHANGED <<chain, pc, late, batch, carry, given>>
    BY <1>4 DEF Cancel, SetRow, admissionVars, turnVars
  <2> DEFINE r == Settled(row[s], "cancelled", FALSE)
  <2>2. r.st = "cancelled"
    BY <1>1 DEF Settled, Row
  <2> HIDE DEF r
  <2>3. row'[s].st = "cancelled" /\ \A t \in Sends : t # s => row'[t] = row[t]
    BY <1>1, <2>1, <2>2 DEF r
  <2>4. \/ row[s].st \in {"failed", "refused"}
        \/ InHand(row, chain, pc, late, batch, late', s)
    BY <2>1 DEF Cancellable, Chip, InHand, Free, Undecided
  <2>5. Moved(row, chain, pc, late, batch, carry, row', late')
    BY <2>3, <2>4 DEF Moved
  <2> QED BY <1>2, <2>1, <2>5, TakesOnly
<1>5. ASSUME NEW p \in net, AcceptAgain(p) PROVE Orderly({})
  <2>1. /\ UNCHANGED <<row, pc, late, batch, carry, given>>
        /\ \E j : chain' = Append(chain, j) /\ j \in Job
    <3>1. [s |-> p.s, q |-> row[p.s].seq, a |-> row[p.s].act] \in Job
      BY <1>1 DEF TypeInv, RestOK, Request, Row, Job
    <3> QED BY <1>5, <3>1 DEF AcceptAgain, ledgerVars, turnVars, historyVars
  <2>2. pc # "idle" => Head(chain') = Head(chain)
    BY <2>1 DEF TypeInv, AdmissionOK
  <2>3. pc' \in {"steering", "starting"} => Free(row, chain, pc, batch, Head(chain').s)
    BY <2>1, <2>2 DEF Free, AtHead
  <2>4. Moved(row, chain, pc, late, batch, carry, row', late')
    BY <2>1 DEF Moved
  <2> QED BY <2>1, <2>3, <2>4, TakesOnly
<1> QED BY <1>3, <1>4, <1>5
-----------------------------------------------------------------------------
(* With the ledger and the places as they were, only a request made, or a   *)
(* task deleted, matters.                                                   *)
LEMMA SameOnce ==
    ASSUME TypeInv, OnceInv,
           UNCHANGED <<row, chain, pc, late, batch, carry, given, backup, acked, forgot>>,
           target = "gone" => target' = "gone",
           \A p \in net' \ net : row[p.s].st # "none" \/ p.s \notin acked
    PROVE  OnceInv'
<1>1. Apart(row, chain, pc, late, batch, carry)'
  BY DEF OnceInv, Apart
<1>2. Unspent(row, chain, pc, late, batch, carry, given)'
  BY DEF OnceInv, Unspent
<1>3. Asks'
  BY DEF OnceInv, Asks
<1>4. SnapOnce'
  BY DEF OnceInv, SnapOnce
<1> QED BY <1>1, <1>2, <1>3, <1>4 DEF OnceInv

(* A first request, or Send again on a chip, keeps the invariant.           *)
LEMMA PressOnce ==
    ASSUME TypeInv, OnceInv, NEW s \in Sends, FirstSend(s) \/ SendAgain(s)
    PROVE  OnceInv'
<1>1. UNCHANGED <<row, chain, pc, late, batch, carry, given, backup, acked, forgot, target>>
  BY DEF FirstSend, SendAgain, Press, ledgerVars, admissionVars, turnVars, historyVars
<1>2. \A p \in net' \ net : p.s = s
  BY DEF FirstSend, SendAgain, Press
<1>3. s \notin acked \/ row[s].st # "none"
  BY DEF FirstSend, SendAgain, Chip
<1> QED BY <1>1, <1>2, <1>3, SameOnce

(* The owner's task moves, or is deleted.                                   *)
LEMMA TargetOnce == ASSUME TypeInv, OnceInv, TargetMoves PROVE OnceInv'
<1>1. UNCHANGED <<row, chain, pc, late, batch, carry, given, backup, acked, forgot, net>>
  BY DEF TargetMoves, TurnFrame, ledgerVars, admissionVars, clientVars
<1>2. target # "gone"
  BY DEF TargetMoves
<1> QED BY <1>1, <1>2, SameOnce

(* A request accepted, as a send or as a typed stop, is of a send that was  *)
(* not given: a chip's, or one never accepted.                              *)
LEMMA FreshOnce ==
    ASSUME TypeInv, FlowInv, OnceInv, NEW p \in net, Accept(p) \/ AcceptTypedStop(p)
    PROVE  OnceInv'
<1>1. /\ p.s \in Sends /\ row \in [Sends -> Row] /\ target # "gone"
      /\ row[p.s].st \in {"none", "failed", "refused"}
  BY DEF Accept, AcceptTypedStop, Accepts, Readmits, TypeInv, RestOK, Request, LedgerOK
<1>2. /\ Apart(row, chain, pc, late, batch, carry)
      /\ Unspent(row, chain, pc, late, batch, carry, given) /\ Asks /\ SnapOnce
  BY DEF OnceInv
<1>3. /\ UNCHANGED <<pc, late, batch, carry, given, backup, forgot, target, net>>
      /\ acked' = acked \cup {p.s} /\ ~InChain(p.s)
  BY DEF Accept, AcceptTypedStop, turnVars, bootVars, clientVars, admissionVars
<1>4. /\ \A t \in Sends : t # p.s => row'[t].st = row[t].st
      /\ row'[p.s].st \in {"sending", "cancelled"}
  <2>1. CASE Accept(p)
    <3>1. PICK q : row' = [row EXCEPT ![p.s] = NewRow(p, q)]
      BY <2>1 DEF Accept, SetRow
    <3>2. NewRow(p, q).st = "sending"
      BY DEF NewRow, NoRow
    <3> QED BY <1>1, <3>1, <3>2
  <2>2. CASE AcceptTypedStop(p)
    <3>1. PICK q \in Seqs :
            row' = StopMarked([row EXCEPT ![p.s] = TypedStopRow(p, q)], tokens.stop + 1)
      BY <2>2 DEF AcceptTypedStop
    <3> DEFINE r == TypedStopRow(p, q)
               N == [row EXCEPT ![p.s] = r]
    <3>2. r.st = "cancelled"
      BY DEF TypedStopRow, NewRow, NoRow
    <3>3. r \in Row
      <4>1. p \in Request /\ q \in Nat
        BY SeqsAssumption DEF TypeInv, RestOK
      <4> QED BY <4>1, NewRows
    <3> HIDE DEF r
    <3>4. /\ N \in [Sends -> Row] /\ N[p.s].st = "cancelled"
          /\ \A t \in Sends : t # p.s => N[t] = row[t]
      BY <1>1, <3>2, <3>3
    <3> HIDE DEF N
    <3>5. \A t \in Sends : StopMarked(N, tokens.stop + 1)[t].st = N[t].st
      BY <3>4 DEF StopMarked, Row
    <3> QED BY <1>1, <3>1, <3>4, <3>5 DEF N, r
  <2> QED BY <2>1, <2>2
<1>5. pc # "idle" => Head(chain') = Head(chain) /\ Head(chain).s # p.s
  <2>1. CASE Accept(p)
    <3>1. PICK q : chain' = Append(chain, [s |-> p.s, q |-> q, a |-> NewRow(p, q).act])
                   /\ q \in Seqs
      BY <2>1 DEF Accept
    <3>2. [s |-> p.s, q |-> q, a |-> NewRow(p, q).act] \in Job
      BY <1>1, <3>1, SeqsAssumption DEF Job, NewRow, NoRow, TypeInv, RestOK, Request
    <3> QED BY <1>3, <3>1, <3>2 DEF TypeInv, AdmissionOK, InChain
  <2>2. CASE AcceptTypedStop(p)
    BY <1>3, <2>2 DEF AcceptTypedStop, admissionVars, TypeInv, AdmissionOK, InChain
  <2> QED BY <2>1, <2>2
<1>6. /\ ~InTurn(carry, p.s) /\ ~InLate(late, p.s) /\ ~InBatch(batch, p.s)
      /\ ~AtHead(chain, pc, p.s)
  <2>1. ~InTurn(carry, p.s) /\ ~InLate(late, p.s)
    BY <1>1, <1>2 DEF Apart, InTurn, InLate
  <2>2. ~InBatch(batch, p.s)
    BY <1>1 DEF FlowInv, Flow, Starting, InBatch
  <2> QED BY <1>5, <2>1, <2>2 DEF AtHead
<1>7. p.s \notin forgot => Ungiven(given[p.s])
  <2>1. CASE row[p.s].st = "none"
    BY <1>1, <1>2, <2>1 DEF Asks
  <2>2. CASE row[p.s].st \in {"failed", "refused"}
    BY <1>1, <1>2, <2>2 DEF Unspent
  <2> QED BY <1>1, <2>1, <2>2
<1>8. \A t \in Sends : t # p.s =>
        /\ Free(row', chain', pc', batch', t) => Free(row, chain, pc, batch, t)
        /\ May(row', chain', pc', late', batch', carry', t)
              => May(row, chain, pc, late, batch, carry, t)
  BY <1>3, <1>4, <1>5 DEF May, Free, AtHead
<1>9. \A w \in carry : w[1] \in Sends /\ w[1] # p.s
  BY <1>6 DEF InTurn, TypeInv, RestOK
<1>10. \A l \in late : l.s \in Sends /\ l.s # p.s
  BY <1>6 DEF InLate, TypeInv, RestOK, LateCall
<1>11. Apart(row', chain', pc', late', batch', carry')
  BY <1>2, <1>3, <1>4, <1>8, <1>9, <1>10 DEF Apart
<1>12. Unspent(row', chain', pc', late', batch', carry', given')
  <2>1. ASSUME NEW t \in Sends \ forgot, t # p.s
        PROVE  /\ \A a \in Acts : given'[t][a] <= 1
               /\ \/ May(row', chain', pc', late', batch', carry', t)
                  \/ row'[t].st \in {"failed", "refused"} /\ target # "gone"
                  => Ungiven(given'[t])
    BY <1>2, <1>3, <1>4, <1>8, <2>1 DEF Unspent
  <2>2. p.s \notin forgot => /\ \A a \in Acts : given'[p.s][a] <= 1
                             /\ Ungiven(given'[p.s])
    BY <1>3, <1>7 DEF Ungiven
  <2> QED BY <2>1, <2>2 DEF Unspent
<1>13. Asks'
  <2>1. \A s \in Sends : row'[s].st # "none" => s \in acked'
    BY <1>2, <1>3, <1>4 DEF Asks
  <2>2. \A r \in net : row'[r.s].st # "none" \/ r.s \notin acked'
    <3>1. \A r \in net : r.s \in Sends
      BY DEF TypeInv, RestOK, Request
    <3> QED BY <1>2, <1>3, <1>4, <3>1 DEF Asks
  <2> QED BY <1>2, <1>3, <2>1, <2>2 DEF Asks
<1>14. SnapOnce'
  <2>1. backup # NoBackup => backup.acked \subseteq acked
    BY <1>2 DEF SnapOnce
  <2>2. row[p.s].st = "none" => p.s \notin acked
    BY <1>2 DEF Asks
  <2>3. ASSUME backup # NoBackup, NEW s \in backup.acked, backup.row[s].st = "none"
        PROVE  row'[s].st = "none"
    <3>1. row[s].st = "none" /\ s \in acked /\ s \in Sends
      BY <1>2, <2>1, <2>3 DEF SnapOnce, TypeInv, RestOK
    <3> QED BY <1>4, <2>2, <3>1
  <2> QED BY <1>2, <1>3, <2>3 DEF SnapOnce
<1>15. Apart(row, chain, pc, late, batch, carry)'
  BY <1>3, <1>11 DEF Apart
<1>16. Unspent(row, chain, pc, late, batch, carry, given)'
  BY <1>3, <1>12 DEF Unspent
<1> QED BY <1>13, <1>14, <1>15, <1>16 DEF OnceInv
-----------------------------------------------------------------------------
(* A snapshot taken is as good as the state it is of.                       *)
LEMMA BackupOnce == ASSUME TypeInv, OnceInv, TakeBackup PROVE OnceInv'
<1>1. UNCHANGED <<row, chain, pc, late, batch, carry, given, acked, forgot, target, net>>
  BY DEF TakeBackup, ledgerVars, admissionVars, turnVars, clientVars, historyVars
<1>2. Apart(row, chain, pc, late, batch, carry)'
  BY <1>1 DEF OnceInv, Apart
<1>3. Unspent(row, chain, pc, late, batch, carry, given)'
  BY <1>1 DEF OnceInv, Unspent
<1>4. Asks'
  BY <1>1 DEF OnceInv, Asks
<1>5. SnapOnce'
  <2>1. backup'.row = row /\ backup'.acked = acked /\ backup'.given = given
    BY DEF TakeBackup
  <2>2. \A s \in Sends : row[s].st # "none" => s \in acked
    BY DEF OnceInv, Asks
  <2>3. ASSUME NEW s \in Sends \ forgot,
               \/ row[s].st \in Undecided \/ s \notin acked
               \/ row[s].st \in {"failed", "refused"} /\ target # "gone"
        PROVE  Ungiven(given[s])
    <3>1. CASE s \notin acked
      BY <3>1 DEF OnceInv, Asks
    <3>2. CASE row[s].st \in Undecided
      BY <3>2 DEF OnceInv, Unspent, May, Free
    <3>3. CASE row[s].st \in {"failed", "refused"} /\ target # "gone"
      BY <3>3 DEF OnceInv, Unspent
    <3> QED BY <2>3, <3>1, <3>2, <3>3
  <2> QED BY <1>1, <2>1, <2>2, <2>3 DEF SnapOnce
<1> QED BY <1>2, <1>3, <1>4, <1>5 DEF OnceInv

(* A restore brings back rows that are held or over, and requests only of   *)
(* sends the snapshot knew, or had not given.                               *)
LEMMA RestoreOnce == ASSUME TypeInv, FlowInv, OnceInv, Restore PROVE OnceInv'
<1>1. /\ backup # NoBackup /\ row' = Neutralized(backup.row, tokens.gen + 1)
      /\ acked' = backup.acked
      /\ forgot' = forgot \cup (acked \ backup.acked)
                          \cup {s \in Sends : given[s] # backup.given[s]}
      /\ UNCHANGED <<target, net, given>> /\ backup' = NoBackup
      /\ pc' = "idle" /\ late' = {} /\ batch' = {} /\ carry' = {}
  BY DEF Restore, admissionVars, turnVars, FlowInv
<1>2. /\ \A s \in Sends : backup.row[s] \in Row
      /\ backup.acked \subseteq Sends
  BY <1>1 DEF TypeInv, RestOK, Snapshot
<1>3. ASSUME NEW s \in Sends
      PROVE  /\ row'[s].st \notin Undecided
             /\ row'[s].st # "none" => backup.row[s].st # "none"
             /\ backup.row[s].st # "none" => row'[s].st # "none"
             /\ row'[s].st \in {"failed", "refused"}
                  => backup.row[s].st \in Undecided \cup {"failed", "refused"}
  <2>1. Neutral(backup.row[s]) \in Row
    BY <1>2, RowOps DEF Status
  <2> DEFINE r == Neutral(backup.row[s])
  <2>2. /\ r.st \notin Undecided
        /\ r.st # "none" <=> backup.row[s].st # "none"
        /\ r.st \in {"failed", "refused"}
             => backup.row[s].st \in Undecided \cup {"failed", "refused"}
    BY <1>2 DEF Neutral, Row, Undecided
  <2> HIDE DEF r
  <2>3. r \in Row
    BY <2>1 DEF r
  <2>4. row'[s].st = r.st
    <3>1. row'[s] = IF r.held THEN [r EXCEPT !.gen = tokens.gen + 1] ELSE r
      BY <1>1 DEF Neutralized, r
    <3> QED BY <2>3, <3>1 DEF Row
  <2> QED BY <2>2, <2>4
<1>4. /\ Unspent(row, chain, pc, late, batch, carry, given) /\ Asks
      /\ \A s \in Sends : backup.row[s].st # "none" => s \in backup.acked
      /\ \A s \in backup.acked : backup.row[s].st = "none" => row[s].st = "none"
      /\ backup.acked \subseteq acked
      /\ \A s \in Sends \ forgot :
            \/ backup.row[s].st \in Undecided \/ s \notin backup.acked
            \/ backup.row[s].st \in {"failed", "refused"} /\ target # "gone"
            => Ungiven(backup.given[s])
  BY <1>1 DEF OnceInv, SnapOnce
<1>5. Apart(row, chain, pc, late, batch, carry)'
  BY <1>1 DEF Apart
<1>6. Unspent(row, chain, pc, late, batch, carry, given)'
  <2>1. ASSUME NEW s \in Sends \ forgot'
        PROVE  /\ s \in Sends \ forgot /\ given[s] = backup.given[s]
               /\ \A a \in Acts : given'[s][a] <= 1
    BY <1>1, <1>4 DEF Unspent
  <2>2. ASSUME NEW s \in Sends
        PROVE  ~May(row', chain', pc', late', batch', carry', s)
    BY <1>1, <1>3 DEF May, Free, AtHead, InBatch, InTurn, InLate
  <2>3. ASSUME NEW s \in Sends \ forgot', row'[s].st \in {"failed", "refused"},
               target # "gone"
        PROVE  Ungiven(given'[s])
    <3>1. Ungiven(backup.given[s])
      BY <1>3, <1>4, <2>1, <2>3
    <3> QED BY <1>1, <2>1, <3>1
  <2> QED BY <1>1, <2>1, <2>2, <2>3 DEF Unspent
<1>7. Asks'
  <2>1. \A s \in Sends : row'[s].st # "none" => s \in acked'
    BY <1>1, <1>3, <1>4
  <2>2. ASSUME NEW p \in net, p.s \in backup.acked, row'[p.s].st = "none"
        PROVE  FALSE
    <3>1. p.s \in Sends
      BY DEF TypeInv, RestOK, Request
    <3>2. row[p.s].st = "none" /\ p.s \in acked
      BY <1>3, <1>4, <2>2, <3>1
    <3> QED BY <1>4, <3>2 DEF Asks
  <2>3. ASSUME NEW s \in Sends \ (forgot' \cup acked')
        PROVE  Ungiven(given'[s])
    <3>1. s \in Sends \ forgot /\ s \notin backup.acked /\ given[s] = backup.given[s]
      BY <1>1
    <3>2. Ungiven(backup.given[s])
      BY <1>4, <3>1
    <3> QED BY <1>1, <3>1, <3>2
  <2> QED BY <1>1, <2>1, <2>2, <2>3 DEF Asks
<1>8. SnapOnce'
  BY <1>1 DEF SnapOnce
<1> QED BY <1>5, <1>6, <1>7, <1>8 DEF OnceInv
-----------------------------------------------------------------------------
(* The invariant holds at the start.                                        *)
LEMMA OnceInit == Init => OnceInv
<1> SUFFICES ASSUME Init PROVE OnceInv
  OBVIOUS
<1>1. /\ \A s \in Sends : row[s] = NoRow
      /\ chain = <<>> /\ pc = "idle" /\ late = {} /\ batch = {} /\ carry = {}
      /\ net = {} /\ acked = {} /\ backup = NoBackup
      /\ \A s \in Sends, a \in Acts : given[s][a] = 0
  BY DEF Init
<1>2. NoRow.st = "none"
  BY DEF NoRow
<1>3. Apart(row, chain, pc, late, batch, carry)
  BY <1>1 DEF Apart
<1>4. Unspent(row, chain, pc, late, batch, carry, given)
  BY <1>1 DEF Unspent, Ungiven
<1>5. Asks /\ SnapOnce
  BY <1>1, <1>2 DEF Asks, SnapOnce, Ungiven
<1> QED BY <1>3, <1>4, <1>5 DEF OnceInv

(* Every step keeps it, when one write at most fails.                       *)
LEMMA OnceStep ==
    ASSUME MaxFail <= 1, TypeInv, TypeInv', FlowInv, OnceInv, [Next]_vars
    PROVE  OnceInv'
<1> DEFINE Frame == UNCHANGED <<backup, target, acked, forgot>> /\ net' \subseteq net
<1>1. ASSUME NEW W, Orderly(W), Frame PROVE OnceInv'
  BY <1>1, OnceKept
<1>2. CASE UNCHANGED vars
  <2>1. UNCHANGED <<row, chain, pc, late, batch, carry, given, backup, acked, forgot,
                    target, net>>
    BY <1>2 DEF vars
  <2> QED BY <2>1, SameOnce
<1>3. ASSUME Client PROVE OnceInv'
  <2>1. CASE \E s \in Sends : FirstSend(s) \/ SendAgain(s)
    BY <2>1, PressOnce
  <2>2. CASE \E p \in net : Accept(p) \/ AcceptTypedStop(p)
    BY <2>2, FreshOnce
  <2>3. CASE StopPressed \/ (\E s \in Sends : Cancel(s)) \/ (\E p \in net : AcceptAgain(p))
    <3>1. Frame
      BY <2>3 DEF StopPressed, Cancel, AcceptAgain, turnVars, clientVars, historyVars
    <3>2. Orderly({})
      BY <2>3, OwnerActsOnce
    <3> QED BY <1>1, <3>1, <3>2
  <2>4. \/ \E s \in Sends : FirstSend(s) \/ SendAgain(s)
        \/ \E p \in net : Accept(p) \/ AcceptTypedStop(p)
        \/ StopPressed \/ (\E s \in Sends : Cancel(s)) \/ (\E p \in net : AcceptAgain(p))
    BY <1>3, Zenon DEF Client
  <2> QED BY <2>1, <2>2, <2>3, <2>4
<1>4. ASSUME Admission PROVE OnceInv'
  <2>1. Frame
    <3>1. CASE Decide
      BY <3>1, Zenon DEF Decide, Caught, QueueIt, MarkThen, NotSteered, clientVars, turnVars
    <3>2. CASE SteerAnswered
      BY <3>2, Zenon DEF SteerAnswered, Taken, Uncertain, Caught, QueueIt, MarkThen, NotSteered,
         clientVars, turnVars
    <3>3. CASE RunRefused
      BY <3>3 DEF RunRefused, Caught, clientVars, turnVars
    <3>4. CASE RunAdmitted \/ RunRecorded
      BY <3>4 DEF RunAdmitted, RunRecorded, clientVars, historyVars, turnVars
    <3> QED BY <1>4, <3>1, <3>2, <3>3, <3>4 DEF Admission
  <2>2. \E W : Orderly(W)
    BY <1>4, DecideOnce, SteerAnsweredOnce, RunOnce DEF Admission
  <2> QED BY <1>1, <2>1, <2>2
<1>5. ASSUME Queue PROVE OnceInv'
  <2>1. CASE BatchAdmitted \/ BatchRequeued \/ BatchFailed \/ RetryTimer \/ WatchTimer \/ OtherDrain
    <3>1. Frame
      BY <2>1 DEF BatchAdmitted, BatchRequeued, BatchFailed, RetryTimer, WatchTimer, OtherDrain,
         turnVars, clientVars, historyVars
    <3> QED BY <1>1, <2>1, <3>1, QueueStepsOnce
  <2>2. CASE \E l \in late : LateAnswer(l)
    <3>1. Frame
      BY <2>2 DEF LateAnswer, turnVars, clientVars
    <3>2. \E W : Orderly(W)
      BY <2>2, LateAnswerOnce
    <3> QED BY <1>1, <3>1, <3>2
  <2> QED BY <1>5, <2>1, <2>2 DEF Queue
<1>6. ASSUME World PROVE OnceInv'
  <2>1. UNCHANGED <<backup, acked, forgot, net>>
    BY <1>6 DEF World, OtherTurnStarts, EngineGetsTurn, TurnCompleted, TurnReleased,
       RoomTurnStarts, RoomTurnEnds, TargetMoves, TurnFrame, clientVars
  <2>2. CASE target' = target
    BY <1>1, <1>6, <2>1, <2>2, WorldOnce
  <2>3. CASE target' # target
    <3>1. TargetMoves
      BY <1>6, <2>3 DEF World, OtherTurnStarts, EngineGetsTurn, TurnCompleted, TurnReleased,
         RoomTurnStarts, RoomTurnEnds
    <3> QED BY <3>1, TargetOnce
  <2> QED BY <2>2, <2>3
<1>7. ASSUME Lifecycle PROVE OnceInv'
  <2>1. CASE Crash
    BY <1>1, <2>1, CrashOnce DEF Crash, clientVars
  <2>2. CASE Recover \/ Ready
    <3>1. Frame
      BY <2>2 DEF Recover, Ready, BootFrame, turnVars, clientVars, historyVars
    <3> QED BY <1>1, <2>2, <3>1, StartupOnce
  <2>3. CASE TakeBackup
    BY <2>3, BackupOnce
  <2>4. CASE Restore
    BY <2>4, RestoreOnce
  <2>5. ASSUME NEW s \in Sends, CompleteOne(s) \/ Prune(s) PROVE OnceInv'
    <3>1. Frame
      BY <2>5 DEF CompleteOne, Prune, BootFrame, turnVars, clientVars, historyVars
    <3> QED BY <1>1, <2>5, <3>1, StartupOnce
  <2> QED BY <1>7, <2>1, <2>2, <2>3, <2>4, <2>5 DEF Lifecycle
<1> QED BY <1>2, <1>3, <1>4, <1>5, <1>6, <1>7 DEF Next

(* It holds in every state, beside the others.                              *)
LEMMA OnceHolds ==
    ASSUME MaxFail <= 1 PROVE Spec => [](TypeInv /\ WordsInv /\ FlowInv /\ OnceInv)
<1>1. Init => OnceInv
  BY OnceInit
<1>2. TypeInv /\ FlowInv /\ OnceInv /\ [Next]_vars => OnceInv'
  BY TypeStep, OnceStep
<1>3. Spec => [](TypeInv /\ WordsInv /\ FlowInv)
  BY FlowHolds
<1> QED BY <1>1, <1>2, <1>3, PTL DEF Spec

(* For every set of sends and every bound, but that no more than one write  *)
(* fails, the engine gets the words of one act of the owner at most once,   *)
(* whatever repeats of a request, late answers, declined steers, drains,    *)
(* crashes and restores come together (accept, admitDirectSend,             *)
(* reconcileLateSteer, runQueuedStart, recover).                            *)
THEOREM OncePerActHolds == ASSUME MaxFail <= 1 PROVE Spec => []RunsOncePerAct
<1>1. OnceInv => RunsOncePerAct
  BY DEF OnceInv, Unspent, RunsOncePerAct
<1> QED BY <1>1, OnceHolds, PTL
-----------------------------------------------------------------------------
(* An act of the owner is numbered within the presses a run may make.       *)
ActsOK(L) == \A s \in Sends : L[s].act \in Acts

ActsInv ==
    /\ ActsOK(row) /\ \A p \in net : p.act \in Acts
    /\ backup # NoBackup => ActsOK(backup.row)

(* No method but accept touches a row's act.                                *)
LEMMA ActOps ==
    ASSUME NEW r \in Row
    PROVE  /\ Marked(r).act = r.act /\ Queued(r).act = r.act /\ Refused(r).act = r.act
           /\ Scrubbed(r).act = r.act /\ QueuedFromLine(r).act = r.act
           /\ RequeuedStart(r).act = r.act /\ Neutral(r).act = r.act
           /\ \A st \in Status, withLine \in BOOLEAN : Settled(r, st, withLine).act = r.act
<1>1. /\ Marked(r).act = r.act /\ Queued(r).act = r.act /\ Refused(r).act = r.act
      /\ Scrubbed(r).act = r.act /\ QueuedFromLine(r).act = r.act
      /\ RequeuedStart(r).act = r.act
  BY SameOps
<1>2. Neutral(r).act = r.act
  BY DEF Neutral, Row
<1>3. \A st \in Status, withLine \in BOOLEAN : Settled(r, st, withLine).act = r.act
  BY DEF Settled, Row
<1> QED BY <1>1, <1>2, <1>3

(* A drain leaves the acts.                                                 *)
LEMMA DrainActs ==
    ASSUME LedgerOK, NEW L \in [Sends -> Row], NEW open, NEW d \in Desks, ActsOK(L),
           Drain(L, open, d) \/ DrainNothing(L, open, d)
    PROVE  ActsOK(row')
<1>1. ASSUME NEW e, DrainNothing(L, open, e) PROVE ActsOK(row')
  BY <1>1 DEF DrainNothing
<1>2. ASSUME DrainGone(L, open, d) PROVE ActsOK(row')
  <2>1. PICK kept \in SUBSET Sends :
          row' = [s \in Sends |-> IF L[s].st = "queued" /\ s \notin kept
                                  THEN Refused(L[s]) ELSE L[s]]
    BY <1>2 DEF DrainGone
  <2>2. \A s \in Sends : Refused(L[s]).act = L[s].act
    BY ActOps
  <2> QED BY <2>1, <2>2 DEF ActsOK
<1> DEFINE M == LateReleased(L, open)
<1>3. M \in [Sends -> Row] /\ ActsOK(M)
  <2>1. M \in [Sends -> Row]
    BY LedgerOps
  <2>2. \A s \in Sends : M[s] = Scrubbed(L[s]) \/ M[s] = L[s]
    BY DEF LateReleased
  <2>3. \A s \in Sends : Scrubbed(L[s]).act = L[s].act
    BY ActOps
  <2> HIDE DEF M
  <2> QED BY <2>1, <2>2, <2>3 DEF ActsOK
<1> HIDE DEF M
<1>4. ASSUME DrainUnmarked(M, d) PROVE ActsOK(row')
  BY <1>3, <1>4 DEF DrainUnmarked
<1>5. ASSUME DrainStarts(M, d) PROVE ActsOK(row')
  <2>1. PICK passed, fate : Drained(M, Drainable(M, {}), passed, fate)
    BY <1>3, <1>5, DrainIsDrained
  <2> DEFINE D == Drainable(M, {})
  <2>2. D \in SUBSET Sends /\ \A s \in D : M[s].st = "queued"
    BY DEF Drainable
  <2> HIDE DEF D
  <2>3. ASSUME NEW s \in Sends PROVE row'[s].act = M[s].act
    <3>1. \/ row'[s] = M[s]
          \/ row'[s] \in {Refused(Marked(M[s])), Marked(M[s]),
                          Settled(Marked(M[s]), "started", TRUE)}
      BY <1>3, <2>1, <2>2, DrainedRows DEF D
    <3>2. Marked(M[s]) \in Row /\ Marked(M[s]).act = M[s].act
      BY <1>3, RowOps, ActOps DEF Status
    <3>3. Refused(Marked(M[s])).act = M[s].act
      BY <3>2, ActOps
    <3>4. Settled(Marked(M[s]), "started", TRUE).act = M[s].act
      BY <3>2, ActOps DEF Status
    <3> QED BY <3>1, <3>2, <3>3, <3>4
  <2> QED BY <1>3, <2>3 DEF ActsOK
<1> QED BY <1>1, <1>2, <1>4, <1>5 DEF Drain, M

(* One row replaced by one of the same act leaves the acts.                 *)
LEMMA ActsSame ==
    ASSUME TypeInv, ActsOK(row), NEW s \in Sends, NEW r, r.act = row[s].act,
           NEW L, L = [row EXCEPT ![s] = r]
    PROVE  ActsOK(L)
BY DEF ActsOK, TypeInv, LedgerOK

(* The admission leaves the acts.                                           *)
LEMMA AdmissionActs ==
    ASSUME TypeInv, FlowInv, ActsOK(row), Admission
    PROVE  ActsOK(row')
<1> DEFINE j == Head(chain)
<1>1. chain # <<>>
  BY DEF Admission, Decide, SteerAnswered, RunRefused, RunAdmitted, RunRecorded,
     TypeInv, AdmissionOK
<1>2. /\ j.s \in Sends /\ row \in [Sends -> Row] /\ row[j.s] \in Row /\ Desk \in Desks
      /\ LedgerOK /\ row[j.s].act = j.a
  BY <1>1, HeadRow, FoundHere DEF TypeInv, LedgerOK
<1>3. ASSUME NEW r, Outcome(r), NEW L, L = [row EXCEPT ![j.s] = r] PROVE ActsOK(L)
  BY <1>2, <1>3, ActsSame DEF Outcome
<1>4. ASSUME NEW n, Caught(j, n) PROVE ActsOK(row')
  <2>1. row' = [row EXCEPT ![j.s] = CaughtRow(j)] \/ row' = row
    BY <1>4 DEF Caught, SetRow
  <2> QED BY <1>1, <1>3, <2>1, Outcomes
<1>5. ASSUME NEW drains, QueueIt(j, drains) PROVE ActsOK(row')
  <2> DEFINE L == [row EXCEPT ![j.s] = Queued(row[j.s])]
  <2>1. L \in [Sends -> Row] /\ ActsOK(L)
    <3>1. Outcome(Queued(row[j.s])) /\ Queued(row[j.s]) \in Row
      BY <1>1, Outcomes DEF Outcome
    <3> QED BY <1>2, <1>3, <3>1
  <2>2. \E open : Drain(L, open, Desk) \/ DrainNothing(L, open, Desk)
    BY <1>5, Zenon DEF QueueIt
  <2> HIDE DEF L
  <2> QED BY <1>2, <2>1, <2>2, DrainActs
<1>6. ASSUME NEW next, MarkThen(j, next) PROVE ActsOK(row')
  <2>1. row' = [row EXCEPT ![j.s] = Marked(row[j.s])]
    BY <1>6 DEF MarkThen, SetRow
  <2>2. Marked(row[j.s]).act = row[j.s].act
    BY <1>2, ActOps
  <2> QED BY <1>2, <2>1, <2>2, ActsSame
<1>7. ASSUME NotSteered(j) PROVE ActsOK(row')
  <2>1. \/ Caught(j, 0) \/ QueueIt(j, TRUE) \/ QueueIt(j, FALSE) \/ MarkThen(j, "starting")
    BY <1>7, Zenon DEF NotSteered
  <2> QED BY <1>4, <1>5, <1>6, <2>1
<1>8. CASE Decide
  <2>1. \/ Caught(j, 0) \/ Caught(j, 1) \/ QueueIt(j, TRUE) \/ QueueIt(j, FALSE)
        \/ MarkThen(j, "steering") \/ MarkThen(j, "starting") \/ NotSteered(j)
    BY <1>8, Zenon DEF Decide
  <2> QED BY <1>4, <1>5, <1>6, <1>7, <2>1
<1>9. CASE SteerAnswered
  <2>1. Taken(j) \/ Uncertain(j) \/ NotSteered(j) \/ Caught(j, 1)
    BY <1>9, Zenon DEF SteerAnswered
  <2>2. ASSUME NEW st \in {"delivered", "unconfirmed"}, SteerRecorded(j, st)
        PROVE  ActsOK(row')
    BY <1>1, <1>3, <2>2, SteerOutcome
  <2>3. Taken(j) \/ Uncertain(j) => ActsOK(row')
    BY <2>2 DEF Taken, Uncertain
  <2> QED BY <1>4, <1>7, <2>1, <2>3
<1>10. CASE RunRefused \/ RunAdmitted \/ RunRecorded
  <2>1. \/ Caught(j, 0) \/ row' = row
        \/ row' = [row EXCEPT ![j.s] = Settled(row[j.s], "started", TRUE)]
    BY <1>10 DEF RunRefused, RunAdmitted, RunRecorded, SetRow
  <2>2. Outcome(Settled(row[j.s], "started", TRUE))
    BY <1>1, Outcomes
  <2> QED BY <1>3, <1>4, <2>1, <2>2
<1> QED BY <1>8, <1>9, <1>10 DEF Admission

(* The queue, its timers, the late answers and the turns leave the acts.    *)
LEMMA QueueActs ==
    ASSUME TypeInv, ActsOK(row), Queue \/ World
    PROVE  ActsOK(row')
<1>1. /\ LedgerOK /\ row \in [Sends -> Row] /\ Desk \in Desks
      /\ batch \subseteq Job /\ late \subseteq LateCall
  BY FoundHere DEF Found
<1>2. ASSUME NEW d \in Desks, Drain(row, lateOpen, d) \/ DrainNothing(row, lateOpen, d)
      PROVE  ActsOK(row')
  BY <1>1, <1>2, DrainActs
<1>3. CASE BatchRequeued
  <2> DEFINE mine == {b.s : b \in {b \in batch : Mine(b) /\ row[b.s].st = "started"}}
  <2>1. PICK back \in SUBSET mine :
          row' = [s \in Sends |-> IF s \in back THEN RequeuedStart(row[s]) ELSE row[s]]
    BY <1>3, Zenon DEF BatchRequeued
  <2>2. \A s \in Sends : RequeuedStart(row[s]).act = row[s].act
    BY <1>1, ActOps
  <2> HIDE DEF mine
  <2> QED BY <2>1, <2>2 DEF ActsOK
<1>4. CASE BatchFailed
  <2> DEFINE d == [Desk EXCEPT !.batch = {}, !.retry = "none"]
  <2>1. d \in Desks
    BY <1>1 DEF Desks
  <2>2. DrainNothing(row, lateOpen, d) \/ Drain(row, lateOpen, d)
    BY <1>4, Zenon DEF BatchFailed
  <2> HIDE DEF d
  <2> QED BY <1>2, <2>1, <2>2
<1>5. CASE RetryTimer
  <2> DEFINE d == [Desk EXCEPT !.retry = "open"]
  <2>1. d \in Desks /\ Drain(row, lateOpen, d)
    BY <1>1, <1>5 DEF Desks, RetryTimer
  <2> HIDE DEF d
  <2> QED BY <1>2, <2>1
<1>6. CASE WatchTimer
  <2> DEFINE d == [Desk EXCEPT !.watch = FALSE]
  <2>1. d \in Desks /\ Drain(row, lateOpen, d)
    BY <1>1, <1>6 DEF Desks, WatchTimer
  <2> HIDE DEF d
  <2> QED BY <1>2, <2>1
<1>7. CASE BatchAdmitted
  BY <1>7 DEF BatchAdmitted, ledgerVars
<1>8. CASE OtherDrain
  BY <1>1, <1>2, <1>8 DEF OtherDrain
<1>9. ASSUME NEW l \in late, LateAnswer(l) PROVE ActsOK(row')
  <2>1. l \in LateCall /\ l.s \in Sends /\ row[l.s] \in Row
    BY <1>1 DEF LateCall
  <2> DEFINE N(r) == [row EXCEPT ![l.s] = r]
  <2>2. ASSUME NEW r \in Row, r.act = row[l.s].act
        PROVE  N(r) \in [Sends -> Row] /\ ActsOK(N(r))
    BY <1>1, <2>1, <2>2, ActsSame
  <2>3. ASSUME NEW L \in [Sends -> Row], ActsOK(L)
        PROVE  Release(L, l) \in [Sends -> Row] /\ ActsOK(Release(L, l))
    <3>1. Scrubbed(L[l.s]).act = L[l.s].act
      BY <2>1, ActOps
    <3>2. Release(L, l) = [L EXCEPT ![l.s] = Scrubbed(L[l.s])] \/ Release(L, l) = L
      BY DEF Release
    <3> QED BY <2>1, <2>3, <3>1, <3>2, ReleaseStatus DEF ActsOK
  <2>4. /\ QueuedFromLine(row[l.s]) \in Row
        /\ QueuedFromLine(row[l.s]).act = row[l.s].act
        /\ \A st \in {"delivered", "failed"} :
             /\ Settled(row[l.s], st, TRUE) \in Row
             /\ Settled(row[l.s], st, TRUE).act = row[l.s].act
    <3>1. QueuedFromLine(row[l.s]) \in Row
          /\ QueuedFromLine(row[l.s]).act = row[l.s].act
      BY <2>1, RowOps, ActOps DEF Status
    <3>2. ASSUME NEW st \in {"delivered", "failed"}
          PROVE  /\ Settled(row[l.s], st, TRUE) \in Row
                 /\ Settled(row[l.s], st, TRUE).act = row[l.s].act
      BY ZenonT(40), <2>1, RowOps, ActOps DEF Status
    <3> QED BY <3>1, <3>2
  <2>5. ASSUME NEW st \in {"delivered", "failed"}, LateSettled(l, st) PROVE ActsOK(row')
    <3>1. row' = Release(N(Settled(row[l.s], st, TRUE)), l) \/ row' = Release(row, l)
      BY <2>5, Zenon DEF LateSettled
    <3>2. /\ N(Settled(row[l.s], st, TRUE)) \in [Sends -> Row]
          /\ ActsOK(N(Settled(row[l.s], st, TRUE)))
      BY <2>2, <2>4
    <3> HIDE DEF N
    <3> QED BY <1>1, <2>3, <3>1, <3>2
  <2>6. ASSUME LateRejected(l) PROVE ActsOK(row')
    <3> DEFINE R == Release(row, l)
               Q == N(QueuedFromLine(row[l.s]))
    <3>1. \/ \E open : DrainNothing(R, open, Desk)
          \/ LateSettled(l, "failed")
          \/ \E open : Drain(Q, open, Desk)
          \/ row' = R /\ batch' = batch
      BY <2>6, Zenon DEF LateRejected
    <3>2. R \in [Sends -> Row] /\ ActsOK(R) /\ Q \in [Sends -> Row] /\ ActsOK(Q)
      BY <1>1, <2>2, <2>3, <2>4
    <3> HIDE DEF R, Q
    <3> QED BY <1>1, <2>5, <3>1, <3>2, DrainActs
  <2>7. LateDelivered(l) => LateSettled(l, "delivered")
    BY DEF LateDelivered
  <2>8. LateUncertain(l) => row' = row
    BY DEF LateUncertain, drainVars
  <2>9. LateDelivered(l) \/ LateRejected(l) \/ LateUncertain(l)
    BY <1>9, Zenon DEF LateAnswer
  <2> QED BY <2>5, <2>6, <2>7, <2>8, <2>9
<1>10. CASE World
  <2>1. row' = row \/ Drain(row, lateOpen, Desk)
    BY <1>10 DEF World, OtherTurnStarts, EngineGetsTurn, TurnCompleted, TurnReleased,
       RoomTurnStarts, RoomTurnEnds, TargetMoves, TurnFrame, ledgerVars, drainVars
  <2> QED BY <1>1, <1>2, <2>1
<1> QED BY <1>3, <1>4, <1>5, <1>6, <1>7, <1>8, <1>9, <1>10 DEF Queue

(* Startup, a pruning and a restore leave the acts.                         *)
LEMMA LifecycleActs ==
    ASSUME TypeInv, ActsInv, Lifecycle
    PROVE  ActsOK(row')
<1>1. /\ LedgerOK /\ row \in [Sends -> Row] /\ ActsOK(row) /\ Desk \in Desks
  BY FoundHere DEF Found, ActsInv
<1>2. CASE Crash \/ TakeBackup
  BY <1>1, <1>2 DEF Crash, TakeBackup, ledgerVars
<1>3. CASE Recover
  <2>1. \A s \in Sends : Recovered(row)[s].act = row[s].act
    BY <1>1 DEF Recovered, Row
  <2>2. row' = Recovered(row) \/ row' = row
    BY <1>3 DEF Recover
  <2> QED BY <1>1, <2>1, <2>2 DEF ActsOK
<1>4. CASE Ready
  BY <1>1, <1>4, DrainActs DEF Ready
<1>5. CASE Restore
  <2>1. backup.row \in [Sends -> Row] /\ ActsOK(backup.row)
    BY <1>5 DEF Restore, ActsInv, TypeInv, RestOK, Snapshot
  <2>2. ASSUME NEW s \in Sends
        PROVE  Neutralized(backup.row, tokens.gen + 1)[s].act = backup.row[s].act
    <3> DEFINE r == Neutral(backup.row[s])
    <3>1. r \in Row /\ r.act = backup.row[s].act
      BY <2>1, RowOps, ActOps DEF Status
    <3>2. Neutralized(backup.row, tokens.gen + 1)[s]
            = IF r.held THEN [r EXCEPT !.gen = tokens.gen + 1] ELSE r
      BY DEF Neutralized
    <3> HIDE DEF r
    <3> QED BY <3>1, <3>2 DEF Row
  <2> QED BY <1>5, <2>1, <2>2 DEF Restore, ActsOK
<1>6. ASSUME NEW s \in Sends, CompleteOne(s) PROVE ActsOK(row')
  <2>1. \/ row' = row
        \/ row' = [row EXCEPT ![s] = Settled(row[s], "started", TRUE)]
        \/ row' = [row EXCEPT ![s] = Scrubbed(row[s])]
        \/ row' = [row EXCEPT ![s] = Scrubbed(Settled(row[s], "unconfirmed", TRUE))]
    <3>1. CASE Fails(0) /\ lines[s] > 0
      <4>1. \/ UNCHANGED ledgerVars
            \/ SetRow(s, IF row[s].st = "dispatched"
                         THEN Settled(row[s], "started", TRUE) ELSE Scrubbed(row[s]))
        BY <1>6, <3>1 DEF CompleteOne
      <4> QED BY <4>1 DEF SetRow, ledgerVars
    <3>2. CASE lines[s] > 0 /\ ~Fails(0)
      BY <1>6, <3>2 DEF CompleteOne, ledgerVars
    <3>3. CASE ~(lines[s] > 0)
      BY <1>6, <3>3 DEF CompleteOne, SetRow, ledgerVars
    <3> QED BY <3>1, <3>2, <3>3
  <2>2. /\ Settled(row[s], "started", TRUE).act = row[s].act
        /\ Scrubbed(row[s]).act = row[s].act
    BY <1>1, ActOps DEF Status
  <2>3. Scrubbed(Settled(row[s], "unconfirmed", TRUE)).act = row[s].act
    <3> DEFINE m == Settled(row[s], "unconfirmed", TRUE)
    <3>1. m \in Row /\ m.act = row[s].act
      BY <1>1, RowOps, ActOps DEF Status
    <3> HIDE DEF m
    <3>2. Scrubbed(m).act = m.act
      BY <3>1, ActOps
    <3> QED BY <3>1, <3>2 DEF m
  <2> QED BY <1>1, <2>1, <2>2, <2>3, ActsSame
<1>7. ASSUME NEW s \in Sends, Prune(s) PROVE ActsOK(row')
  <2>1. row' = [row EXCEPT ![s] = NoRow]
    BY <1>7 DEF Prune, SetRow
  <2>2. NoRow.act \in Acts
    BY BoundsAssumption DEF NoRow, Acts
  <2> QED BY <1>1, <2>1, <2>2 DEF ActsOK
<1> QED BY <1>2, <1>3, <1>4, <1>5, <1>6, <1>7 DEF Lifecycle

(* The owner's acts are counted by the presses.                             *)
LEMMA ClientActs ==
    ASSUME TypeInv, ActsInv, Client
    PROVE  ActsOK(row') /\ \A p \in net' : p.act \in Acts
<1>1. /\ row \in [Sends -> Row] /\ ActsOK(row) /\ \A s \in Sends : row[s] \in Row
      /\ \A p \in net : p.act \in Acts /\ p \in Request /\ p.s \in Sends
  BY DEF TypeInv, LedgerOK, RestOK, ActsInv, Request
<1>2. 0 \in Acts
  BY BoundsAssumption DEF Acts
<1>3. ASSUME NEW s \in Sends, FirstSend(s) \/ SendAgain(s)
      PROVE  ActsOK(row') /\ \A p \in net' : p.act \in Acts
  <2>1. row' = row
    BY <1>3 DEF FirstSend, SendAgain, Press, ledgerVars
  <2>2. CASE FirstSend(s)
    BY <1>1, <1>2, <2>1, <2>2 DEF FirstSend, Press
  <2>3. CASE SendAgain(s)
    <3>1. tokens.press + 1 \in Acts
      BY <2>3, BoundsAssumption DEF SendAgain, Acts, TypeInv, RestOK
    <3> DEFINE p0 == [s |-> s, act |-> tokens.press + 1, resend |-> TRUE,
                      gen |-> IF row[s].held THEN row[s].gen ELSE 0,
                      tok |-> IF row[s].stopped THEN row[s].tok ELSE 0]
    <3>2. net' = net \cup {p0}
      BY <2>3, Zenon DEF SendAgain, Press
    <3>3. p0.act = tokens.press + 1
      OBVIOUS
    <3> HIDE DEF p0
    <3> QED BY <1>1, <2>1, <3>1, <3>2, <3>3
  <2> QED BY <1>3, <2>2, <2>3
<1>4. ASSUME NEW p \in net, NEW q \in Seqs
      PROVE  /\ NewRow(p, q).act \in Acts /\ TypedStopRow(p, q).act \in Acts
             /\ TypedStopRow(p, q) \in Row
  <2>1. NewRow(p, q).act \in Acts
    BY <1>1, <1>2 DEF NewRow, NoRow
  <2>2. TypedStopRow(p, q).act = NewRow(p, q).act
    BY DEF TypedStopRow, NewRow, NoRow
  <2>3. TypedStopRow(p, q) \in Row
    BY <1>1, SeqsAssumption, NewRows
  <2> QED BY <2>1, <2>2, <2>3
<1>5. ASSUME NEW L \in [Sends -> Row], ActsOK(L) PROVE ActsOK(StopMarked(L, tokens.stop + 1))
  <2>1. \A s \in Sends : StopMarked(L, tokens.stop + 1)[s].act = L[s].act
    BY <1>5 DEF StopMarked, Row
  <2> QED BY <1>5, <2>1 DEF ActsOK
<1>6. ASSUME NEW p \in net, Accept(p) \/ AcceptAgain(p) \/ AcceptTypedStop(p)
      PROVE  ActsOK(row') /\ net' = net
  <2>1. net' = net
    BY <1>6 DEF Accept, AcceptAgain, AcceptTypedStop, clientVars
  <2>2. CASE Accept(p)
    <3>1. PICK q \in Seqs : row' = [row EXCEPT ![p.s] = NewRow(p, q)]
      BY <2>2 DEF Accept, SetRow
    <3>2. NewRow(p, q).act \in Acts
      BY <1>4
    <3> QED BY <1>1, <2>1, <3>1, <3>2 DEF ActsOK
  <2>3. CASE AcceptAgain(p)
    BY <1>1, <2>1, <2>3 DEF AcceptAgain, ledgerVars
  <2>4. CASE AcceptTypedStop(p)
    <3>1. PICK q \in Seqs :
            row' = StopMarked([row EXCEPT ![p.s] = TypedStopRow(p, q)], tokens.stop + 1)
      BY <2>4 DEF AcceptTypedStop
    <3> DEFINE r == TypedStopRow(p, q)
    <3>2. r \in Row /\ r.act \in Acts
      BY <1>4
    <3> HIDE DEF r
    <3>3. [row EXCEPT ![p.s] = r] \in [Sends -> Row] /\ ActsOK([row EXCEPT ![p.s] = r])
      BY <1>1, <3>2 DEF ActsOK
    <3> QED BY <1>5, <2>1, <3>1, <3>3 DEF r
  <2> QED BY <1>6, <2>2, <2>3, <2>4
<1>7. CASE StopPressed
  BY <1>1, <1>5, <1>7 DEF StopPressed
<1>8. ASSUME NEW s \in Sends, Cancel(s) PROVE ActsOK(row') /\ net' = net
  <2>1. row' = [row EXCEPT ![s] = Settled(row[s], "cancelled", FALSE)] /\ net' = net
    BY <1>8 DEF Cancel, SetRow, clientVars
  <2>2. Settled(row[s], "cancelled", FALSE).act = row[s].act
    BY <1>1, ActOps DEF Status
  <2> QED BY <1>1, <2>1, <2>2, ActsSame
<1> QED BY <1>1, <1>3, <1>6, <1>7, <1>8 DEF Client

(* The acts stay within the presses.                                        *)
LEMMA ActsStep == TypeInv /\ FlowInv /\ ActsInv /\ [Next]_vars => ActsInv'
<1> SUFFICES ASSUME TypeInv, FlowInv, ActsInv, [Next]_vars PROVE ActsInv'
  OBVIOUS
<1>1. ActsOK(row) /\ (\A p \in net : p.act \in Acts)
      /\ (backup # NoBackup => ActsOK(backup.row))
  BY DEF ActsInv
<1>2. ActsOK(row') /\ \A p \in net' : p.act \in Acts
  <2>1. CASE Client
    BY <2>1, ClientActs
  <2>2. CASE UNCHANGED vars
    BY <1>1, <2>2 DEF vars
  <2>3. CASE Admission
    <3>1. net' = net
      BY <2>3 DEF Admission, Decide, SteerAnswered, RunRefused, RunAdmitted, RunRecorded,
         clientVars
    <3> QED BY <1>1, <2>3, <3>1, AdmissionActs
  <2>4. CASE Queue \/ World
    <3>1. net' = net
      BY <2>4 DEF Queue, World, BatchAdmitted, BatchRequeued, BatchFailed, RetryTimer,
         WatchTimer, OtherDrain, LateAnswer, OtherTurnStarts, EngineGetsTurn, TurnCompleted,
         TurnReleased, RoomTurnStarts, RoomTurnEnds, TargetMoves, TurnFrame, clientVars
    <3> QED BY <1>1, <2>4, <3>1, QueueActs
  <2>5. CASE Lifecycle
    <3>1. net' \subseteq net
      BY <2>5 DEF Lifecycle, Crash, Recover, Ready, TakeBackup, Restore, CompleteOne, Prune,
         BootFrame, clientVars
    <3> QED BY <1>1, <2>5, <3>1, LifecycleActs
  <2> QED BY <2>1, <2>2, <2>3, <2>4, <2>5 DEF Next
<1>3. backup' = backup \/ backup' = NoBackup \/ backup'.row = row
  <2>1. CASE Client
    BY <2>1 DEF Client, FirstSend, SendAgain, Press, Cancel, Accept, AcceptAgain,
       AcceptTypedStop, StopPressed
  <2>2. CASE Admission \/ Queue \/ World
    BY <2>2 DEF Admission, Decide, SteerAnswered, RunRefused, RunAdmitted, RunRecorded, Queue,
       World, BatchAdmitted, BatchRequeued, BatchFailed, RetryTimer, WatchTimer, OtherDrain,
       LateAnswer, OtherTurnStarts, EngineGetsTurn, TurnCompleted, TurnReleased, RoomTurnStarts,
       RoomTurnEnds, TargetMoves, TurnFrame
  <2>3. CASE Lifecycle
    <3>1. CASE TakeBackup
      BY <3>1 DEF TakeBackup
    <3>2. CASE Restore
      BY <3>2 DEF Restore
    <3>3. CASE Crash \/ Recover \/ Ready
      BY <3>3 DEF Crash, Recover, Ready, BootFrame
    <3>4. ASSUME NEW s \in Sends, CompleteOne(s) \/ Prune(s) PROVE backup' = backup
      BY <3>4 DEF CompleteOne, Prune, BootFrame
    <3> QED BY <2>3, <3>1, <3>2, <3>3, <3>4 DEF Lifecycle
  <2>4. CASE UNCHANGED vars
    BY <2>4 DEF vars
  <2> QED BY <2>1, <2>2, <2>3, <2>4 DEF Next
<1> QED BY <1>1, <1>2, <1>3 DEF ActsInv

(* For every set of sends and every bound, but that no more than one write  *)
(* fails: what waits, or is shown with Send again, the engine has not got   *)
(* for the act its row was made by (queueIt, refuse, reconcileLateSteer).   *)
THEOREM WaitingHolds == ASSUME MaxFail <= 1 PROVE Spec => []WaitingNotGiven
<1>1. Init => ActsInv
  BY BoundsAssumption DEF Init, ActsInv, ActsOK, Acts, NoRow, NoBackup
<1>2. OnceInv /\ ActsInv => WaitingNotGiven
  <2> SUFFICES ASSUME OnceInv, ActsInv, target # "gone", NEW s \in Sends \ forgot,
                      row[s].st \in Undecided \/ Chip(row[s])
               PROVE  given[s][row[s].act] = 0
    BY DEF WaitingNotGiven
  <2>1. Ungiven(given[s])
    BY DEF OnceInv, Unspent, May, Free, Chip
  <2> QED BY <2>1 DEF ActsInv, ActsOK, Ungiven
<1>3. TypeInv /\ FlowInv /\ ActsInv /\ [Next]_vars => ActsInv'
  BY ActsStep
<1> QED BY <1>1, <1>2, <1>3, OnceHolds, PTL DEF Spec
=============================================================================
