---------------------------- MODULE BotCallsProofs ----------------------------
(***************************************************************************)
(* What BotCalls promises, proved for every set of phones, calls and bots  *)
(* and every bound: its four invariants and three of its action            *)
(* properties.                                                             *)
(*                                                                         *)
(* The inductive invariant says what a database at rest looks like (Sound) *)
(* and what the facts owe it (Unadmitted).  A handler is a chain of        *)
(* operators on that database, ended by a commit, so the proof goes the    *)
(* same way: one lemma for each operator says that it leads a sound        *)
(* database to a sound one, one says that what a commit leaves behind is   *)
(* sound again, and the lemma of an action only strings them together.     *)
(***************************************************************************)
EXTENDS BotCalls, FiniteSetTheorems, TLAPS

-----------------------------------------------------------------------------
(* The push rows *)

Rows == [Keys -> Row]
Spent == {"landed", "dropped"}

(* What the outbox is done with stays as it is from R to Q.                 *)
Keeps(R, Q) == \A k \in Keys : R[k].st \in Spent => Q[k] = R[k]

(* The kinds are five, a key is a phone, a call and a kind, and a key names *)
(* its parts: what the lemmas on rows need of the keys of push_events.      *)
LEMMA KeyParts ==
    /\ \A k \in Keys : /\ k[1] \in Phones /\ k[2] \in Calls /\ k[3] \in Kind
                       /\ k = <<k[1], k[2], k[3]>>
    /\ \A p \in Phones, c \in Calls, j \in Kind :
           /\ <<p, c, j>> \in Keys
           /\ <<p, c, j>>[1] = p /\ <<p, c, j>>[2] = c /\ <<p, c, j>>[3] = j
    /\ "note" \in Kind /\ "ring" \in Kind /\ "stop" \in Kind
    /\ "missed" \in Kind /\ "clear" \in Kind
BY DEF Keys, Kind

(* A fresh row and the absence of one are rows, and differ; neither may     *)
(* have rung (enqueue writes attempts 0 and no acknowledgement).            *)
LEMMA FreshRow ==
    /\ Fresh \in Row /\ NoRow \in Row /\ Fresh # NoRow
    /\ Fresh.st = "pending" /\ Fresh.tries = 0
    /\ NoRow.st = "none" /\ NoRow.tries = 0
BY DEF Fresh, NoRow, Row

(* Enqueuing writes fresh rows of one kind and touches no other.            *)
LEMMA InsertedIs ==
    ASSUME NEW R \in Rows, NEW P, NEW C, NEW kind \in Kind
    PROVE  /\ Inserted(R, P, C, kind) \in Rows
           /\ \A k \in Keys :
                  Inserted(R, P, C, kind)[k] =
                      IF k[1] \in P /\ k[2] \in C /\ k[3] = kind
                      THEN Fresh ELSE R[k]
BY FreshRow DEF Inserted, Rows

(* Enqueuing a kind that these calls do not have yet takes nothing back.    *)
LEMMA InsertedKeeps ==
    ASSUME NEW R \in Rows, NEW P, NEW C, NEW kind \in Kind,
           \A p \in Phones, c \in Calls :
               p \in P /\ c \in C => R[<<p, c, kind>>] = NoRow
    PROVE  Keeps(R, Inserted(R, P, C, kind))
<1> SUFFICES ASSUME NEW k \in Keys, R[k].st \in Spent
             PROVE  Inserted(R, P, C, kind)[k] = R[k]
  BY DEF Keeps
<1>1. ~(k[1] \in P /\ k[2] \in C /\ k[3] = kind)
  BY KeyParts, FreshRow DEF Spent
<1> QED BY <1>1, InsertedIs

(* Resolving a call drops its unsent ring and owes its stop where a phone   *)
(* may have rung; nothing else of it changes, nothing of other calls does.  *)
LEMMA ResolvedIs ==
    ASSUME NEW R \in Rows, NEW C
    PROVE  /\ Resolved(R, C) \in Rows
           /\ Keeps(R, Resolved(R, C))
           /\ \A k \in Keys :
                  /\ k[2] \notin C => Resolved(R, C)[k] = R[k]
                  /\ k[3] \notin {"ring", "stop"} => Resolved(R, C)[k] = R[k]
           /\ \A p \in Phones, c \in Calls :
                  /\ R[<<p, c, "stop">>] # NoRow
                         => Resolved(R, C)[<<p, c, "stop">>] # NoRow
                  /\ c \in C /\ MayHaveRung(R, p, c)
                         => Resolved(R, C)[<<p, c, "stop">>] # NoRow
<1> DEFINE open == {pc \in Phones \X C :
                        /\ R[<<pc[1], pc[2], "ring">>] # NoRow
                        /\ R[<<pc[1], pc[2], "stop">>] = NoRow}
           drop(k) == k[3] = "ring" /\ R[k].st = "pending"
           owe(k) == k[3] = "stop" /\ MayHaveRung(R, k[1], k[2])
           Q == Resolved(R, C)
<1>1. Q = [k \in Keys |->
              IF <<k[1], k[2]>> \notin open THEN R[k]
              ELSE IF drop(k) THEN [R[k] EXCEPT !.st = "dropped", !.by = TRUE]
              ELSE IF owe(k) THEN Fresh ELSE R[k]]
  BY Zenon DEF Resolved
<1>2. \A k \in Keys : R[k] \in Row
  BY DEF Rows
<1>3. \A k \in Keys : <<k[1], k[2]>> \in open
          => /\ k[2] \in C
             /\ R[<<k[1], k[2], "ring">>] # NoRow
             /\ R[<<k[1], k[2], "stop">>] = NoRow
  OBVIOUS
<1>4. \A k \in Keys : drop(k) => [R[k] EXCEPT !.st = "dropped", !.by = TRUE] \in Row
  BY <1>2 DEF Row
<1>5. Q \in Rows
  BY <1>1, <1>2, <1>4, FreshRow DEF Rows
<1>6. ASSUME NEW k \in Keys
      PROVE  /\ k[2] \notin C => Q[k] = R[k]
             /\ k[3] \notin {"ring", "stop"} => Q[k] = R[k]
             /\ R[k].st \in Spent => Q[k] = R[k]
  <2>1. CASE <<k[1], k[2]>> \notin open
    BY <2>1, <1>1
  <2>2. CASE <<k[1], k[2]>> \in open
    <3>1. k[2] \in C
      BY <2>2, <1>3
    <3>2. k[3] = "stop" => R[k] = NoRow
      BY <2>2, <1>3, KeyParts
    <3>3. R[k].st \in Spent => ~drop(k) /\ ~owe(k)
      BY <3>2, FreshRow DEF Spent
    <3>4. Q[k] = IF drop(k) THEN [R[k] EXCEPT !.st = "dropped", !.by = TRUE]
                 ELSE IF owe(k) THEN Fresh ELSE R[k]
      BY <2>2, <1>1
    <3> QED BY <3>1, <3>3, <3>4
  <2> QED BY <2>1, <2>2
<1>7. ASSUME NEW p \in Phones, NEW c \in Calls
      PROVE  /\ R[<<p, c, "stop">>] # NoRow => Q[<<p, c, "stop">>] # NoRow
             /\ c \in C /\ MayHaveRung(R, p, c) => Q[<<p, c, "stop">>] # NoRow
  <2> DEFINE k == <<p, c, "stop">>
  <2>1. k \in Keys /\ k[1] = p /\ k[2] = c /\ k[3] = "stop"
    BY KeyParts
  <2>2. R[k] # NoRow => Q[k] = R[k]
    <3>1. R[k] # NoRow => <<k[1], k[2]>> \notin open
      BY <2>1, <1>3
    <3> QED BY <2>1, <3>1, <1>1
  <2>3. ASSUME c \in C, MayHaveRung(R, p, c), R[k] = NoRow
        PROVE  Q[k] # NoRow
    <3>1. R[<<p, c, "ring">>] # NoRow
      BY <2>3, FreshRow DEF MayHaveRung
    <3>2. <<k[1], k[2]>> \in open
      BY <2>1, <2>3, <3>1
    <3>3. Q[k] = Fresh
      BY <2>1, <2>3, <3>2, <1>1
    <3> QED BY <3>3, FreshRow
  <2> QED BY <2>2, <2>3
<1> HIDE DEF Q
<1>8. Keeps(R, Q)
  BY <1>6 DEF Keeps
<1> QED BY <1>5, <1>6, <1>7, <1>8 DEF Q

(* Dropping the notes of a bot touches its unsent notes only (hang-up).     *)
LEMMA NotesDroppedIs ==
    ASSUME NEW R \in Rows, NEW C
    PROVE  /\ NotesDropped(R, C) \in Rows
           /\ Keeps(R, NotesDropped(R, C))
           /\ \A k \in Keys :
                  /\ k[2] \notin C => NotesDropped(R, C)[k] = R[k]
                  /\ k[3] \notin {"note", "missed"} => NotesDropped(R, C)[k] = R[k]
<1> DEFINE Q == NotesDropped(R, C)
           drop(k) == k[2] \in C /\ k[3] \in {"note", "missed"} /\ R[k].st = "pending"
<1>1. Q = [k \in Keys |-> IF drop(k) THEN [R[k] EXCEPT !.st = "dropped"] ELSE R[k]]
  BY Zenon DEF NotesDropped
<1>2. \A k \in Keys : R[k] \in Row /\ [R[k] EXCEPT !.st = "dropped"] \in Row
  BY DEF Rows, Row
<1>3. Q \in Rows
  BY <1>1, <1>2 DEF Rows
<1>4. \A k \in Keys : ~drop(k) => Q[k] = R[k]
  BY <1>1
<1>5. \A k \in Keys : R[k].st \in Spent => ~drop(k)
  BY DEF Spent
<1> HIDE DEF Q
<1>6. Keeps(R, Q)
  BY <1>4, <1>5 DEF Keeps
<1> QED BY <1>3, <1>4, <1>6 DEF Q

(* An attempt claims pending rows only: it counts a try of each row that    *)
(* goes out and drops each that the fence keeps back.  No row comes or goes *)
(* and none is untried by it.                                               *)
LEMMA AttemptedIs ==
    ASSUME NEW R \in Rows, NEW out, NEW fenced,
           out \cup fenced \subseteq Pending(R)
    PROVE  /\ Attempted(R, out, fenced) \in Rows
           /\ Keeps(R, Attempted(R, out, fenced))
           /\ \A k \in Keys : R[k] = NoRow <=> Attempted(R, out, fenced)[k] = NoRow
           /\ \A p \in Phones, c \in Calls :
                  MayHaveRung(R, p, c) \/ <<p, c, "ring">> \in out
                      => MayHaveRung(Attempted(R, out, fenced), p, c)
<1> DEFINE Q == Attempted(R, out, fenced)
<1>1. Q = [k \in Keys |->
              IF k \in out
                THEN [st |-> "pending", tries |-> R[k].tries + 1, by |-> R[k].by]
              ELSE IF k \in fenced THEN [R[k] EXCEPT !.st = "dropped"]
              ELSE R[k]]
  BY Zenon DEF Attempted
<1>2. \A k \in Keys : R[k] \in Row
  BY DEF Rows
<1>3. \A k \in out \cup fenced : k \in Keys /\ R[k].st = "pending"
  BY DEF Pending
<1>4. ASSUME NEW k \in Keys
      PROVE  /\ Q[k] \in Row
             /\ k \in out => /\ Q[k].st = "pending"
                             /\ Q[k].tries = R[k].tries + 1
             /\ k \notin out /\ k \in fenced => /\ Q[k].st = "dropped"
                                                /\ Q[k].tries = R[k].tries
             /\ k \notin out \cup fenced => Q[k] = R[k]
  <2>1. CASE k \in out
    <3>1. Q[k] = [st |-> "pending", tries |-> R[k].tries + 1, by |-> R[k].by]
      BY <2>1, <1>1
    <3> QED BY <3>1, <2>1, <1>2 DEF Row
  <2>2. CASE k \notin out /\ k \in fenced
    <3>1. Q[k] = [R[k] EXCEPT !.st = "dropped"]
      BY <2>2, <1>1
    <3> QED BY <3>1, <2>2, <1>2 DEF Row
  <2>3. CASE k \notin out /\ k \notin fenced
    BY <2>3, <1>1, <1>2
  <2> QED BY <2>1, <2>2, <2>3
<1>5. Q \in Rows
  BY <1>1, <1>4 DEF Rows
<1> HIDE DEF Q
<1>6. Keeps(R, Q)
  BY <1>3, <1>4 DEF Keeps, Spent
<1>7. \A k \in Keys : R[k] = NoRow <=> Q[k] = NoRow
  BY <1>3, <1>4, FreshRow
<1>8. ASSUME NEW p \in Phones, NEW c \in Calls,
             MayHaveRung(R, p, c) \/ <<p, c, "ring">> \in out
      PROVE  MayHaveRung(Q, p, c)
  <2> DEFINE k == <<p, c, "ring">>
  <2>1. k \in Keys
    BY KeyParts
  <2>2. R[k].tries \in Nat
    BY <2>1, <1>2 DEF Row
  <2>3. k \in out => Q[k].tries > 0
    BY <2>1, <2>2, <1>4
  <2>4. k \notin out /\ R[k].tries > 0 => Q[k].tries > 0
    BY <2>1, <1>4
  <2>5. k \notin out /\ R[k].st = "landed" => Q[k].st = "landed"
    BY <2>1, <1>3, <1>4
  <2> QED BY <1>8, <2>3, <2>4, <2>5 DEF MayHaveRung
<1> QED BY <1>5, <1>6, <1>7, <1>8 DEF Q

(* A row of a phone and a call has a newest one above it: the relay's late  *)
(* answer finds the row whose news the phone shows.                         *)
LEMMA NewestIs ==
    ASSUME NEW R \in Rows, NEW p \in Phones, NEW c \in Calls,
           NEW j \in Kind, R[<<p, c, j>>] # NoRow
    PROVE  /\ Newest(R, p, c) \in Kind
           /\ \A i \in Later[Newest(R, p, c)] : R[<<p, c, i>>] = NoRow
<1> DEFINE top(x) == R[<<p, c, x>>] # NoRow
                         /\ \A i \in Later[x] : R[<<p, c, i>>] = NoRow
<1>1. /\ Later["clear"] = {} /\ Later["missed"] = {"clear"}
      /\ Later["stop"] = {"missed", "clear"}
      /\ Later["ring"] = {"stop", "missed", "clear"}
      /\ Later["note"] = {"ring", "stop", "missed", "clear"}
  BY DEF Later
<1>2. \E x \in Kind : top(x)
  BY <1>1 DEF Kind
<1>3. Newest(R, p, c) = CHOOSE x \in Kind : top(x)
  BY Zenon DEF Newest
<1>4. Newest(R, p, c) \in Kind /\ top(Newest(R, p, c))
  <2> HIDE DEF top
  <2> QED BY <1>2, <1>3, Zenon
<1> QED BY <1>4

(* The relay's answers land pending rows; a late one may add a clearing.    *)
(* No other row comes, none goes, and none is untried.                      *)
LEMMA AnsweredIs ==
    ASSUME NEW R \in Rows, NEW k \in Keys, NEW Q \in {Accepted(R, k), Rejected(R, k)}
    PROVE  /\ Q \in Rows
           /\ Keeps(R, Q)
           /\ \A x \in Keys : x[3] # "clear" => (R[x] = NoRow <=> Q[x] = NoRow)
           /\ \A p \in Phones, c \in Calls :
                  MayHaveRung(R, p, c) => MayHaveRung(Q, p, c)
<1> DEFINE land == [R EXCEPT ![k].st = "landed"]
           x == <<k[1], k[2], "clear">>
           late == [R EXCEPT ![x] = Fresh]
           j == Newest(R, k[1], k[2])
<1>1. /\ x \in Keys /\ x[3] = "clear"
      /\ \A y \in Keys : R[y] \in Row
  BY KeyParts DEF Rows
<1>2. \/ Q = R
      \/ R[k].st = "pending" /\ Q = land
      \/ R[k].st = "dropped" /\ j \notin {"stop", "clear"} /\ Q = late
  BY DEF Accepted, Rejected, LateAccepted
<1>3. CASE Q = R
  BY <1>3 DEF Keeps
<1>4. CASE R[k].st = "pending" /\ Q = land
  <2>1. /\ Q[k].st = "landed" /\ Q[k].tries = R[k].tries /\ Q[k] \in Row
        /\ \A y \in Keys : y # k => Q[y] = R[y]
    BY <1>4, <1>1 DEF Rows, Row
  <2>2. Q \in Rows
    BY <1>4, <2>1, <1>1 DEF Rows
  <2>3. Keeps(R, Q)
    BY <1>4, <2>1 DEF Keeps, Spent
  <2>4. R[k] # NoRow /\ Q[k] # NoRow
    BY <1>4, <2>1, FreshRow
  <2> QED BY <2>1, <2>2, <2>3, <2>4, KeyParts DEF MayHaveRung
<1>5. CASE R[k].st = "dropped" /\ j \notin {"stop", "clear"} /\ Q = late
  <2>1. R[<<k[1], k[2], k[3]>>] # NoRow
    BY <1>5, KeyParts, FreshRow
  <2>2. j \in Kind /\ \A i \in Later[j] : R[<<k[1], k[2], i>>] = NoRow
    BY <2>1, NewestIs, KeyParts
  <2>3. "clear" \in Later[j]
    BY <2>2, <1>5 DEF Kind, Later
  <2>4. R[x] = NoRow
    BY <2>2, <2>3
  <2>5. Q[x] = Fresh /\ \A y \in Keys : y # x => Q[y] = R[y]
    BY <1>5, <1>1 DEF Rows
  <2>6. Q \in Rows
    BY <1>5, <1>1, FreshRow DEF Rows
  <2>7. Keeps(R, Q)
    BY <2>4, <2>5, FreshRow DEF Keeps, Spent
  <2> QED BY <1>1, <2>5, <2>6, <2>7, KeyParts DEF MayHaveRung
<1> QED BY <1>2, <1>3, <1>4, <1>5

(* Pruning leaves the rows it does not take as they are.                    *)
LEMMA WithoutIs ==
    ASSUME NEW R \in Rows, NEW K
    PROVE  /\ Without(R, K) \in Rows
           /\ \A k \in Keys : Without(R, K)[k] = IF k \in K THEN NoRow ELSE R[k]
BY FreshRow DEF Without, Rows
-----------------------------------------------------------------------------
(* The database *)

Database ==
    [call : [Calls -> Call], ses : [Calls -> {"none", "open", "silent", "ended"}],
     own : {"none", "open", "silent"}, row : Rows]

(* A call's state, a database without a silent session of the owner's own.  *)
St(w, c) == w.call[c].st
Awake(w) == w.own # "silent"

(* One call rings or is live at a time.                                     *)
Busy == {"ringing", "live"}
Solo(w) ==
    \A c, d \in Calls : w.call[c].st \in Busy /\ w.call[d].st \in Busy => c = d

(* A call is live exactly while its session has not ended.                  *)
Paired(w) ==
    \A c \in Calls : w.call[c].st = "live" <=> w.ses[c] \in {"open", "silent"}

(* Nothing rings into a call of the owner's own.                            *)
Hushed(w) == (\E c \in Calls : w.call[c].st = "ringing") => w.own = "none"

(* A call owes the rows of what has happened to it, and no others.          *)
Writes == [none |-> {}, pending |-> {}, waiting |-> {"note"},
           ringing |-> {"note", "ring", "stop"},
           live |-> Kind, done |-> Kind]
InOrder(w) ==
    \A k \in Keys : w.row[k] # NoRow =>
        k[3] = "clear" \/ k[3] \in Writes[w.call[k[2]].st]

(* On the phones G of B, which may have rung and not been given up, a call  *)
(* that rings has the ring that did it, and any other has its stop.         *)
Told(w, G, B) ==
    \A p \in B, c \in Calls : <<p, c>> \in G =>
        IF w.call[c].st = "ringing" THEN MayHaveRung(w.row, p, c)
        ELSE w.row[<<p, c, "stop">>] # NoRow

Sound(w, G, B) ==
    /\ w \in Database
    /\ Solo(w) /\ Paired(w) /\ Hushed(w) /\ InOrder(w) /\ Told(w, G, B)

(* From v to w calls go forward and finished rows stay.                     *)
Follows(v, w) ==
    /\ \A c \in Calls : Rank[w.call[c].st] >= Rank[v.call[c].st]
    /\ Keeps(v.row, w.row)

(* A fact that has not been taken has no call yet.                          *)
Unadmitted(f, w) == \A c \in Calls : f[c] # "taken" => w.call[c].st = "none"

(* From v to w the new calls among N are admitted.                          *)
Admits(v, w, N) ==
    \A c \in Calls : IF c \in N /\ St(v, c) = "none"
                     THEN St(w, c) = "pending" ELSE St(w, c) = St(v, c)

(* The moves of a call that do not make it busy.                            *)
Moves(s, t) ==
    t = s \/ t = "done" \/ (s = "none" /\ t = "pending")
          \/ (s = "pending" /\ t = "waiting")

(* Following is a preorder: the operators of a handler can be chained.      *)
LEMMA FollowsChain ==
    ASSUME NEW u \in Database, NEW v \in Database, NEW w \in Database
    PROVE  /\ Follows(u, u)
           /\ Follows(u, v) /\ Follows(v, w) => Follows(u, w)
<1>1. \A x \in Database, c \in Calls : Rank[x.call[c].st] \in Nat
  BY DEF Rank, Database, Call, State
<1>2. Follows(u, u)
  BY <1>1 DEF Follows, Keeps
<1>3. ASSUME Follows(u, v), Follows(v, w)
      PROVE  Follows(u, w)
  <2>1. ASSUME NEW c \in Calls
        PROVE  Rank[w.call[c].st] >= Rank[u.call[c].st]
    BY <1>1, <1>3 DEF Follows
  <2>2. Keeps(u.row, w.row)
    BY <1>3 DEF Follows, Keeps
  <2> QED BY <2>1, <2>2 DEF Follows
<1> QED BY <1>2, <1>3

(* The rows of a call's later states include those of its earlier ones.     *)
LEMMA WritesGrow ==
    ASSUME NEW s \in State, NEW t \in State, Moves(s, t)
    PROVE  Writes[s] \subseteq Writes[t] /\ Rank[t] >= Rank[s]
BY DEF State, Writes, Kind, Moves, Rank

(* A transition that makes no call busy leaves a sound database, if it      *)
(* closes sessions with their calls, writes the rows its moves call for,    *)
(* keeps the stops, and resolves the rings of the calls that stop ringing.  *)
LEMMA Calms ==
    ASSUME NEW G, NEW B \in SUBSET Phones, NEW v, Sound(v, G, B), NEW w \in Database,
           \A c \in Calls : Moves(v.call[c].st, w.call[c].st),
           Paired(w),
           w.own \in {v.own, "none"} \/ \A c \in Calls : w.call[c].st # "ringing",
           Keeps(v.row, w.row),
           \A k \in Keys : v.row[k] = NoRow /\ w.row[k] # NoRow
                               => k[3] \in Writes[w.call[k[2]].st],
           \A p \in Phones, c \in Calls :
               /\ v.row[<<p, c, "stop">>] # NoRow => w.row[<<p, c, "stop">>] # NoRow
               /\ v.call[c].st = "ringing" /\ MayHaveRung(v.row, p, c) =>
                      IF w.call[c].st = "ringing" THEN MayHaveRung(w.row, p, c)
                      ELSE w.row[<<p, c, "stop">>] # NoRow
    PROVE  Sound(w, G, B) /\ Follows(v, w)
<1>1. v \in Database /\ Solo(v) /\ Hushed(v) /\ InOrder(v) /\ Told(v, G, B)
  BY DEF Sound
<1>2. \A c \in Calls : v.call[c].st \in State /\ w.call[c].st \in State
  BY <1>1 DEF Database, Call
<1>3. \A c \in Calls : w.call[c].st \in Busy => v.call[c].st = w.call[c].st
  BY DEF Moves, Busy
<1>4. Solo(w)
  BY <1>1, <1>3 DEF Solo
<1>5. Hushed(w)
  BY <1>1, <1>3 DEF Hushed, Busy
<1>6. InOrder(w)
  <2> SUFFICES ASSUME NEW k \in Keys, w.row[k] # NoRow
               PROVE  k[3] = "clear" \/ k[3] \in Writes[w.call[k[2]].st]
    BY DEF InOrder
  <2>1. k[2] \in Calls
    BY KeyParts
  <2>2. CASE v.row[k] = NoRow
    BY <2>2
  <2>3. CASE v.row[k] # NoRow
    BY <2>1, <2>3, <1>1, <1>2, WritesGrow DEF InOrder
  <2> QED BY <2>2, <2>3
<1>7. Told(w, G, B)
  <2> SUFFICES ASSUME NEW p \in B, NEW c \in Calls, <<p, c>> \in G
               PROVE  IF w.call[c].st = "ringing" THEN MayHaveRung(w.row, p, c)
                      ELSE w.row[<<p, c, "stop">>] # NoRow
    BY DEF Told
  <2>1. IF v.call[c].st = "ringing" THEN MayHaveRung(v.row, p, c)
        ELSE v.row[<<p, c, "stop">>] # NoRow
    BY <1>1 DEF Told
  <2> QED BY <2>1, <1>3 DEF Busy
<1>8. Follows(v, w)
  BY <1>2, WritesGrow DEF Follows
<1> QED BY <1>4, <1>5, <1>6, <1>7, <1>8 DEF Sound

(* What settling the calls C writes into bot_calls (setState).              *)
LEMMA MovedIs ==
    ASSUME NEW w \in Database, NEW C, NEW st \in State
    PROVE  /\ Moved(w, C, st) \in [Calls -> Call]
           /\ \A c \in Calls :
                  Moved(w, C, st)[c].st = IF c \in C THEN st ELSE w.call[c].st
<1>1. \A r \in Call : /\ [r EXCEPT !.st = st, !.due = FALSE] \in Call
                      /\ [r EXCEPT !.st = st, !.due = FALSE].st = st
  BY DEF Call
<1>2. Moved(w, C, st) = [c \in Calls |->
          IF c \in C THEN [w.call[c] EXCEPT !.st = st, !.due = FALSE] ELSE w.call[c]]
  BY Zenon DEF Moved
<1>3. \A c \in Calls : w.call[c] \in Call
  BY DEF Database
<1> QED BY <1>1, <1>2, <1>3

(* The sweep of silent sessions ends them and their calls (finishLive).     *)
LEMMA SweptLeads ==
    ASSUME NEW G, NEW B \in SUBSET Phones, NEW v, Sound(v, G, B)
    PROVE  /\ Sound(Swept(v), G, B) /\ Follows(v, Swept(v))
           /\ \A c \in Calls : St(v, c) # "live" => St(Swept(v), c) = St(v, c)
           /\ Awake(Swept(v))
<1> DEFINE gone == {c \in Calls : v.ses[c] = "silent"}
           over == gone \cap In(v, {"live"})
           w == Swept(v)
<1>1. v \in Database /\ Paired(v)
  BY DEF Sound
<1>2. /\ w.call = Moved(v, over, "done")
      /\ w.ses = [c \in Calls |-> IF c \in gone THEN "ended" ELSE v.ses[c]]
      /\ w.own = IF v.own = "silent" THEN "none" ELSE v.own
      /\ w.row = v.row
      /\ w \in [call : {w.call}, ses : {w.ses}, own : {w.own}, row : {w.row}]
  BY <1>1 DEF Swept, Database
<1>3. /\ w.call \in [Calls -> Call]
      /\ \A c \in Calls : w.call[c].st = IF c \in over THEN "done" ELSE v.call[c].st
  BY <1>1, <1>2, MovedIs DEF State
<1>4. w \in Database
  BY <1>1, <1>2, <1>3 DEF Database
<1>5. \A c \in Calls : c \in over <=> v.ses[c] = "silent"
  BY <1>1 DEF In, Paired
<1>7. \A c \in Calls : Moves(v.call[c].st, w.call[c].st)
  BY <1>3 DEF Moves
<1>8. Paired(w)
  BY <1>1, <1>2, <1>3, <1>5 DEF Paired
<1>9. \A c \in Calls : v.call[c].st = "ringing" => w.call[c].st = "ringing"
  BY <1>3 DEF In
<1>10. Keeps(v.row, w.row)
  BY <1>2 DEF Keeps
<1>11. \A c \in Calls : v.call[c].st # "live" => w.call[c].st = v.call[c].st
  BY <1>3 DEF In
<1>12. w.own \in {v.own, "none"} /\ w.own # "silent"
  BY <1>2
<1> HIDE DEF w
<1>14. Sound(w, G, B) /\ Follows(v, w)
  BY <1>2, <1>4, <1>7, <1>8, <1>9, <1>10, <1>12, Calms
<1> QED BY <1>11, <1>12, <1>14 DEF w, St, Awake

(* Rings end, missed on any phones or on none (endRing).                    *)
LEMMA EndRingLeads ==
    ASSUME NEW G, NEW B \in SUBSET Phones, NEW v, Sound(v, G, B),
           NEW C \in SUBSET Calls, \A c \in C : St(v, c) = "ringing",
           NEW noted
    PROVE  /\ Sound(EndRing(v, C, noted), G, B) /\ Follows(v, EndRing(v, C, noted))
           /\ \A c \in Calls : /\ c \in C => St(EndRing(v, C, noted), c) = "done"
                               /\ c \notin C => St(EndRing(v, C, noted), c) = St(v, c)
<1> DEFINE w == EndRing(v, C, noted)
           R == Resolved(v.row, C)
<1>1. v \in Database /\ Paired(v) /\ InOrder(v)
  BY DEF Sound
<1>2. /\ w.call = Moved(v, C, "done")
      /\ w.ses = v.ses /\ w.own = v.own
      /\ w.row = Inserted(R, noted, C \cap Visible, "missed")
      /\ w \in [call : {w.call}, ses : {w.ses}, own : {w.own}, row : {w.row}]
  BY <1>1 DEF EndRing, Database
<1>3. /\ w.call \in [Calls -> Call]
      /\ \A c \in Calls : w.call[c].st = IF c \in C THEN "done" ELSE v.call[c].st
  BY <1>1, <1>2, MovedIs DEF State
<1>4. v.row \in Rows
  BY <1>1 DEF Database
<1>5. /\ R \in Rows /\ Keeps(v.row, R)
      /\ \A k \in Keys : /\ k[2] \notin C => R[k] = v.row[k]
                         /\ k[3] \notin {"ring", "stop"} => R[k] = v.row[k]
      /\ \A p \in Phones, c \in Calls :
             /\ v.row[<<p, c, "stop">>] # NoRow => R[<<p, c, "stop">>] # NoRow
             /\ c \in C /\ MayHaveRung(v.row, p, c) => R[<<p, c, "stop">>] # NoRow
  BY <1>4, ResolvedIs
<1> HIDE DEF R
<1>6. /\ w.row \in Rows
      /\ \A k \in Keys : w.row[k] = IF k[1] \in noted /\ k[2] \in C \cap Visible
                                       /\ k[3] = "missed" THEN Fresh ELSE R[k]
  BY <1>2, <1>5, KeyParts, InsertedIs
<1>7. \A k \in Keys : w.row[k] = R[k] \/ (k[2] \in C /\ k[3] = "missed")
  BY <1>6
<1>8. w \in Database
  BY <1>1, <1>2, <1>3, <1>6 DEF Database
<1> HIDE DEF w
<1>9. \A c \in C : c \in Calls /\ v.call[c].st = "ringing"
  BY DEF St
<1>10. \A k \in Keys : k[2] \in C /\ k[3] = "missed" => v.row[k] = NoRow
  BY <1>1, <1>9 DEF InOrder, Writes
<1>11. Keeps(v.row, w.row)
  BY <1>5, <1>7, <1>10, FreshRow DEF Keeps, Spent
<1>12. Paired(w)
  BY <1>1, <1>2, <1>3, <1>9 DEF Paired
<1>13. \A c \in Calls : Moves(v.call[c].st, w.call[c].st)
  BY <1>3 DEF Moves
<1>14. ASSUME NEW k \in Keys, v.row[k] = NoRow, w.row[k] # NoRow
       PROVE  k[3] \in Writes[w.call[k[2]].st]
  <2>1. k[2] \in C
    BY <1>5, <1>7, <1>14
  <2>2. w.call[k[2]].st = "done"
    BY <2>1, <1>3, <1>9
  <2> QED BY <2>2, KeyParts DEF Writes
<1>15. ASSUME NEW p \in Phones, NEW c \in Calls
       PROVE  /\ v.row[<<p, c, "stop">>] # NoRow => w.row[<<p, c, "stop">>] # NoRow
              /\ v.call[c].st = "ringing" /\ MayHaveRung(v.row, p, c) =>
                     IF w.call[c].st = "ringing" THEN MayHaveRung(w.row, p, c)
                     ELSE w.row[<<p, c, "stop">>] # NoRow
  <2>1. w.row[<<p, c, "stop">>] = R[<<p, c, "stop">>]
    BY <1>7, KeyParts
  <2>2. c \notin C => w.row[<<p, c, "ring">>] = v.row[<<p, c, "ring">>]
    BY <1>5, <1>7, KeyParts
  <2>3. CASE c \in C
    BY <2>1, <2>3, <1>3, <1>5
  <2>4. CASE c \notin C
    BY <2>1, <2>2, <2>4, <1>3, <1>5 DEF MayHaveRung
  <2> QED BY <2>3, <2>4
<1>16. Sound(w, G, B) /\ Follows(v, w)
  BY <1>2, <1>8, <1>11, <1>12, <1>13, <1>14, <1>15, Calms
<1> QED BY <1>3, <1>16 DEF w, St

(* The verdicts on calls that are pending or waiting: they text or wait,    *)
(* and a pending one that does is noted (commitText, commitWait).           *)
LEMMA RuledLeads ==
    ASSUME NEW G, NEW B \in SUBSET Phones, NEW v, Sound(v, G, B),
           NEW A \in SUBSET Calls, \A c \in A : St(v, c) \in {"pending", "waiting"},
           NEW verdict \in [A -> Verdict],
           Allowed(v, A, verdict), NEW noted
    PROVE  /\ Sound(Ruled(v, A, verdict, noted), G, B)
           /\ Follows(v, Ruled(v, A, verdict, noted))
           /\ \A c \in Calls : c \notin A =>
                  St(Ruled(v, A, verdict, noted), c) = St(v, c)
<1> DEFINE text == {c \in A : verdict[c] = "text"}
           wait == {c \in A : verdict[c] = "wait"}
           told == (text \cap In(v, {"pending"})) \cup wait
           w == Ruled(v, A, verdict, noted)
<1>1. v \in Database /\ Paired(v) /\ InOrder(v)
  BY DEF Sound
<1>2. /\ w.call = [c \in Calls |-> IF c \in wait THEN Moved(v, wait, "waiting")[c]
                                   ELSE Moved(v, text, "done")[c]]
      /\ w.ses = v.ses /\ w.own = v.own
      /\ w.row = Inserted(v.row, noted, told \cap Visible, "note")
      /\ w \in [call : {w.call}, ses : {w.ses}, own : {w.own}, row : {w.row}]
  BY <1>1 DEF Ruled, Noted, Database
<1>3. \A c \in A : c \in Calls /\ v.call[c].st \in {"pending", "waiting"}
  BY DEF St
<1>4. \A c \in wait : c \in A /\ v.call[c].st = "pending"
  BY DEF Allowed
<1>5. \A c \in told : c \in A /\ v.call[c].st = "pending"
  BY <1>4 DEF In
<1>6. /\ w.call \in [Calls -> Call]
      /\ \A c \in Calls : w.call[c].st = IF c \in wait THEN "waiting"
                                         ELSE IF c \in text THEN "done"
                                         ELSE v.call[c].st
  <2>1. /\ Moved(v, wait, "waiting") \in [Calls -> Call]
        /\ \A c \in Calls : Moved(v, wait, "waiting")[c].st =
                                IF c \in wait THEN "waiting" ELSE v.call[c].st
    BY <1>1, MovedIs DEF State
  <2>2. /\ Moved(v, text, "done") \in [Calls -> Call]
        /\ \A c \in Calls : Moved(v, text, "done")[c].st =
                                IF c \in text THEN "done" ELSE v.call[c].st
    BY <1>1, MovedIs DEF State
  <2> HIDE DEF wait, text
  <2> QED BY <1>2, <2>1, <2>2
<1> HIDE DEF told
<1>7. v.row \in Rows
  BY <1>1 DEF Database
<1>8. /\ w.row \in Rows
      /\ \A k \in Keys : w.row[k] = IF k[1] \in noted /\ k[2] \in told \cap Visible
                                       /\ k[3] = "note" THEN Fresh ELSE v.row[k]
  BY <1>2, <1>7, KeyParts, InsertedIs
<1>9. w \in Database
  BY <1>1, <1>2, <1>6, <1>8 DEF Database
<1> HIDE DEF w
<1>10. \A k \in Keys : k[2] \in told /\ k[3] = "note" => v.row[k] = NoRow
  BY <1>1, <1>5 DEF InOrder, Writes
<1>11. Keeps(v.row, w.row)
  BY <1>8, <1>10, FreshRow DEF Keeps, Spent
<1>12. Paired(w)
  BY <1>1, <1>2, <1>3, <1>6 DEF Paired
<1>13. \A c \in Calls : Moves(v.call[c].st, w.call[c].st)
  BY <1>4, <1>6 DEF Moves
<1>14. ASSUME NEW k \in Keys, v.row[k] = NoRow, w.row[k] # NoRow
       PROVE  k[3] \in Writes[w.call[k[2]].st]
  <2>1. k[2] \in told /\ k[3] = "note"
    BY <1>8, <1>14
  <2>2. w.call[k[2]].st \in {"waiting", "done"}
    BY <2>1, <1>3, <1>4, <1>5, <1>6 DEF told
  <2> QED BY <2>1, <2>2, KeyParts DEF Writes
<1>15. \A c \in Calls : v.call[c].st = "ringing" => w.call[c].st = "ringing"
  BY <1>3, <1>6
<1>16. \A p \in Phones, c \in Calls : /\ w.row[<<p, c, "stop">>] = v.row[<<p, c, "stop">>]
                                      /\ w.row[<<p, c, "ring">>] = v.row[<<p, c, "ring">>]
  BY <1>8, KeyParts
<1>17. Sound(w, G, B) /\ Follows(v, w)
  BY ZenonT(40), <1>2, <1>9, <1>11, <1>12, <1>13, <1>14, <1>15, <1>16, Calms DEF MayHaveRung
<1> QED BY <1>6, <1>17 DEF w, St

(* The drain admits facts whose calls are new (admitFact).                  *)
LEMMA DrainedLeads ==
    ASSUME NEW G, NEW B \in SUBSET Phones, NEW v, Sound(v, G, B), NEW T, NEW N
    PROVE  /\ Sound(Drained(v, T, N), G, B) /\ Follows(v, Drained(v, T, N))
           /\ Admits(v, Drained(v, T, N), N)
<1> DEFINE w == Drained(v, T, N)
           new == N \cap In(v, {"none"})
<1>1. v \in Database /\ Paired(v)
  BY DEF Sound
<1>2. /\ w.call = Moved(v, new, "pending")
      /\ w.ses = v.ses /\ w.own = v.own /\ w.row = v.row
      /\ w \in [call : {w.call}, ses : {w.ses}, own : {w.own}, row : {w.row}]
  BY <1>1 DEF Drained, Database
<1>3. /\ w.call \in [Calls -> Call]
      /\ \A c \in Calls : w.call[c].st = IF c \in new THEN "pending" ELSE v.call[c].st
  BY <1>1, <1>2, MovedIs DEF State
<1>4. w \in Database
  BY <1>1, <1>2, <1>3 DEF Database
<1> HIDE DEF w
<1>5. \A c \in Calls : w.call[c].st =
          IF c \in N /\ v.call[c].st = "none" THEN "pending" ELSE v.call[c].st
  BY <1>3 DEF In
<1>6. Paired(w)
  BY <1>1, <1>2, <1>5 DEF Paired
<1>7. Sound(w, G, B) /\ Follows(v, w)
  BY <1>2, <1>4, <1>5, <1>6, Calms DEF Moves, Keeps, MayHaveRung
<1>8. Admits(v, w, N)
  BY <1>5 DEF Admits, St
<1> QED BY <1>7, <1>8 DEF w

(* A pending or waiting call rings, once no call and no session is live and *)
(* none is silent, on phones that are enrolled (ringFrom).                  *)
LEMMA RingLeads ==
    ASSUME NEW G, NEW B \in SUBSET Phones, NEW v, Sound(v, G, B),
           NEW c \in Calls, St(v, c) \in {"pending", "waiting"},
           MayRing(v), Awake(v), NEW P \in SUBSET B
    PROVE  /\ Sound(Ring(v, c, P), G, B) /\ Follows(v, Ring(v, c, P))
           /\ \A d \in Calls : d # c => St(Ring(v, c, P), d) = St(v, d)
<1> DEFINE w == Ring(v, c, P)
<1>1. /\ v \in Database /\ Paired(v) /\ InOrder(v) /\ Told(v, G, B)
      /\ \A d \in Calls : v.call[d].st \notin Busy
      /\ v.own = "none"
      /\ v.call[c].st \in {"pending", "waiting"}
  BY DEF Sound, MayRing, CallIsLive, In, Busy, Database, St, Awake
<1>2. /\ w.call = Moved(v, {c}, "ringing")
      /\ w.ses = v.ses /\ w.own = v.own
      /\ w.row = Inserted(v.row, P, {c} \cap Visible, "ring")
      /\ w \in [call : {w.call}, ses : {w.ses}, own : {w.own}, row : {w.row}]
  BY <1>1 DEF Ring, Database
<1>3. /\ w.call \in [Calls -> Call]
      /\ \A d \in Calls : w.call[d].st = IF d = c THEN "ringing" ELSE v.call[d].st
  BY <1>1, <1>2, MovedIs DEF State
<1>4. v.row \in Rows
  BY <1>1 DEF Database
<1>5. /\ w.row \in Rows
      /\ \A k \in Keys : w.row[k] = IF k[1] \in P /\ k[2] \in {c} \cap Visible
                                       /\ k[3] = "ring" THEN Fresh ELSE v.row[k]
  BY <1>2, <1>4, KeyParts, InsertedIs
<1>6. w \in Database
  BY <1>1, <1>2, <1>3, <1>5 DEF Database
<1> HIDE DEF w
<1>7. \A k \in Keys : k[2] = c /\ k[3] \in {"ring", "stop"} => v.row[k] = NoRow
  BY <1>1 DEF InOrder, Writes
<1>8. Solo(w)
  BY <1>1, <1>3 DEF Solo
<1>9. Paired(w)
  BY <1>1, <1>2, <1>3 DEF Paired
<1>10. Hushed(w)
  BY <1>1, <1>2 DEF Hushed
<1>11. InOrder(w)
  <2> SUFFICES ASSUME NEW k \in Keys, w.row[k] # NoRow
               PROVE  k[3] = "clear" \/ k[3] \in Writes[w.call[k[2]].st]
    BY DEF InOrder
  <2>1. k[2] \in Calls
    BY KeyParts
  <2>2. CASE k[2] = c /\ k[3] = "ring"
    BY <2>2, <1>3 DEF Writes
  <2>3. CASE ~(k[2] = c /\ k[3] = "ring")
    <3>1. k[3] = "clear" \/ k[3] \in Writes[v.call[k[2]].st]
      BY <2>3, <1>1, <1>5 DEF InOrder
    <3> QED BY <2>1, <3>1, <1>1, <1>3 DEF Writes
  <2> QED BY <2>2, <2>3
<1>12. Told(w, G, B)
  <2> SUFFICES ASSUME NEW p \in B, NEW d \in Calls, <<p, d>> \in G
               PROVE  IF w.call[d].st = "ringing" THEN MayHaveRung(w.row, p, d)
                      ELSE w.row[<<p, d, "stop">>] # NoRow
    BY DEF Told
  <2>1. v.row[<<p, d, "stop">>] # NoRow
    BY <1>1 DEF Told, Busy
  <2>2. d # c
    BY <2>1, <1>7, KeyParts
  <2>3. w.row[<<p, d, "stop">>] = v.row[<<p, d, "stop">>]
    BY <1>5, KeyParts
  <2> QED BY <2>1, <2>2, <2>3, <1>1, <1>3 DEF Busy
<1>13. Follows(v, w)
  <2>1. Keeps(v.row, w.row)
    BY <1>5, <1>7, FreshRow DEF Keeps, Spent
  <2>2. \A d \in Calls : Rank[w.call[d].st] >= Rank[v.call[d].st]
    <3>1. \A d \in Calls : v.call[d].st \in State
      BY <1>1 DEF Database, Call
    <3> QED BY <3>1, <1>1, <1>3 DEF Rank, State
  <2> QED BY <2>1, <2>2 DEF Follows
<1>14. Sound(w, G, B)
  BY <1>6, <1>8, <1>9, <1>10, <1>11, <1>12 DEF Sound
<1> QED BY <1>3, <1>13, <1>14 DEF w, St

(* The owner answers a ringing call: it is live, its session opens and its  *)
(* ring is resolved (answerCall).                                           *)
LEMMA AnsweredLeads ==
    ASSUME NEW G, NEW B \in SUBSET Phones, NEW v, Sound(v, G, B),
           NEW c \in Calls, St(v, c) = "ringing"
    PROVE  /\ Sound(Answered(v, c), G, B) /\ Follows(v, Answered(v, c))
           /\ \A d \in Calls : d # c => St(Answered(v, c), d) = St(v, d)
<1> DEFINE w == Answered(v, c)
<1>1. /\ v \in Database /\ Solo(v) /\ Paired(v) /\ InOrder(v) /\ Told(v, G, B)
      /\ v.call[c].st = "ringing"
      /\ \A d \in Calls : d # c => v.call[d].st \notin Busy
  BY DEF Sound, Solo, Busy, St
<1>2. /\ w.call = Moved(v, {c}, "live")
      /\ w.ses = [v.ses EXCEPT ![c] = "open"]
      /\ w.own = v.own
      /\ w.row = Resolved(v.row, {c})
      /\ w \in [call : {w.call}, ses : {w.ses}, own : {w.own}, row : {w.row}]
  BY <1>1 DEF Answered, Database
<1>3. /\ w.call \in [Calls -> Call]
      /\ \A d \in Calls : w.call[d].st = IF d = c THEN "live" ELSE v.call[d].st
  BY <1>1, <1>2, MovedIs DEF State
<1>4. v.row \in Rows
  BY <1>1 DEF Database
<1>5. /\ w.row \in Rows /\ Keeps(v.row, w.row)
      /\ \A k \in Keys : k[2] # c => w.row[k] = v.row[k]
      /\ \A p \in Phones, d \in Calls :
             /\ v.row[<<p, d, "stop">>] # NoRow => w.row[<<p, d, "stop">>] # NoRow
             /\ d = c /\ MayHaveRung(v.row, p, d) => w.row[<<p, d, "stop">>] # NoRow
  BY <1>2, <1>4, ResolvedIs
<1>6. w \in Database
  BY ZenonT(40), <1>1, <1>2, <1>3, <1>5 DEF Database
<1>7. Paired(w)
  BY ZenonT(40), <1>1, <1>2, <1>3 DEF Paired, Database
<1> HIDE DEF w
<1>8. Solo(w)
  BY <1>1, <1>3 DEF Solo
<1>9. Hushed(w)
  BY <1>1, <1>3 DEF Hushed, Busy
<1>10. InOrder(w)
  <2> SUFFICES ASSUME NEW k \in Keys, w.row[k] # NoRow
               PROVE  k[3] = "clear" \/ k[3] \in Writes[w.call[k[2]].st]
    BY DEF InOrder
  <2>1. k[2] \in Calls /\ k[3] \in Kind
    BY KeyParts
  <2>2. CASE k[2] = c
    BY <2>1, <2>2, <1>3 DEF Writes
  <2>3. CASE k[2] # c
    BY <2>1, <2>3, <1>1, <1>3, <1>5 DEF InOrder
  <2> QED BY <2>2, <2>3
<1>11. Told(w, G, B)
  <2> SUFFICES ASSUME NEW p \in B, NEW d \in Calls, <<p, d>> \in G
               PROVE  IF w.call[d].st = "ringing" THEN MayHaveRung(w.row, p, d)
                      ELSE w.row[<<p, d, "stop">>] # NoRow
    BY DEF Told
  <2>1. CASE d = c
    BY <2>1, <1>1, <1>3, <1>5 DEF Told
  <2>2. CASE d # c
    BY <2>2, <1>1, <1>3, <1>5 DEF Told, Busy
  <2> QED BY <2>1, <2>2
<1>12. Follows(v, w)
  BY <1>1, <1>3, <1>5 DEF Follows, Rank, Database, Call, State
<1>13. Sound(w, G, B)
  BY <1>6, <1>7, <1>8, <1>9, <1>10, <1>11 DEF Sound
<1> QED BY <1>3, <1>12, <1>13 DEF w, St

(* The owner has seen a waiting call: it is over (markSeen).                *)
LEMMA SeenLeads ==
    ASSUME NEW G, NEW B \in SUBSET Phones, NEW v, Sound(v, G, B),
           NEW c \in Calls, St(v, c) = "waiting",
           NEW w, w = [v EXCEPT !.call = Moved(v, {c}, "done")]
    PROVE  /\ Sound(w, G, B) /\ Follows(v, w)
           /\ \A d \in Calls : d # c => St(w, d) = St(v, d)
<1>1. v \in Database /\ Paired(v) /\ v.call[c].st = "waiting"
  BY DEF Sound, St
<1>2. /\ w.call = Moved(v, {c}, "done")
      /\ w.ses = v.ses /\ w.own = v.own /\ w.row = v.row
      /\ w \in [call : {w.call}, ses : {w.ses}, own : {w.own}, row : {w.row}]
  BY <1>1 DEF Database
<1>3. /\ w.call \in [Calls -> Call]
      /\ \A d \in Calls : w.call[d].st = IF d = c THEN "done" ELSE v.call[d].st
  BY <1>1, <1>2, MovedIs DEF State
<1>4. w \in Database
  BY <1>1, <1>2, <1>3 DEF Database
<1>5. Paired(w)
  BY SMTT(30), <1>1, <1>2, <1>3 DEF Paired
<1>6. Sound(w, G, B) /\ Follows(v, w)
  BY <1>1, <1>2, <1>3, <1>4, <1>5, Calms DEF Moves, Keeps
<1> QED BY <1>3, <1>6 DEF St

Over(v, c) == [v EXCEPT !.call = Moved(v, {c}, "done"), !.ses[c] = "ended"]

(* A live call ends with its session (endSession).                          *)
LEMMA OverLeads ==
    ASSUME NEW G, NEW B \in SUBSET Phones, NEW v, Sound(v, G, B),
           NEW c \in Calls, v.ses[c] \in {"open", "silent"}
    PROVE  /\ Sound(Over(v, c), G, B) /\ Follows(v, Over(v, c))
           /\ \A d \in Calls : d # c => St(Over(v, c), d) = St(v, d)
<1> DEFINE w == Over(v, c)
<1>1. v \in Database /\ Paired(v) /\ v.call[c].st = "live"
  BY DEF Sound, Paired
<1>2. /\ w.call = Moved(v, {c}, "done")
      /\ w.ses = [v.ses EXCEPT ![c] = "ended"]
      /\ w.own = v.own /\ w.row = v.row
      /\ w \in [call : {w.call}, ses : {w.ses}, own : {w.own}, row : {w.row}]
  BY <1>1 DEF Over, Database
<1>3. /\ w.call \in [Calls -> Call]
      /\ \A d \in Calls : w.call[d].st = IF d = c THEN "done" ELSE v.call[d].st
  BY <1>1, <1>2, MovedIs DEF State
<1>4. w \in Database
  BY <1>1, <1>2, <1>3 DEF Database
<1> HIDE DEF w
<1>5. \A d \in Calls : w.ses[d] = IF d = c THEN "ended" ELSE v.ses[d]
  BY <1>1, <1>2 DEF Database
<1>6. Paired(w)
  BY <1>1, <1>3, <1>5 DEF Paired
<1>7. \A d \in Calls : /\ Moves(v.call[d].st, w.call[d].st)
                       /\ v.call[d].st = "ringing" => w.call[d].st = "ringing"
  BY <1>1, <1>3 DEF Moves
<1>8. Sound(w, G, B) /\ Follows(v, w)
  BY <1>2, <1>4, <1>6, <1>7, Calms DEF Keeps
<1> QED BY <1>3, <1>8 DEF w, St

(* The owner's own session opens once nothing rings, and ends at any time.  *)
LEMMA OwnLeads ==
    ASSUME NEW G, NEW B \in SUBSET Phones, NEW v, Sound(v, G, B),
           NEW o \in {"none", "open", "silent"},
           o # "none" => \A c \in Calls : St(v, c) # "ringing",
           NEW w, w = [v EXCEPT !.own = o]
    PROVE  /\ Sound(w, G, B) /\ Follows(v, w)
           /\ \A c \in Calls : St(w, c) = St(v, c)
<1>1. /\ v \in Database /\ Paired(v)
      /\ o # "none" => \A c \in Calls : v.call[c].st # "ringing"
  BY DEF Sound, St
<1>2. /\ w.call = v.call /\ w.ses = v.ses /\ w.own = o /\ w.row = v.row
      /\ w \in [call : {w.call}, ses : {w.ses}, own : {w.own}, row : {w.row}]
  BY <1>1 DEF Database
<1>3. w \in Database
  BY <1>1, <1>2 DEF Database
<1>4. Paired(w)
  BY <1>1, <1>2 DEF Paired
<1>5. Sound(w, G, B) /\ Follows(v, w)
  BY <1>1, <1>2, <1>3, <1>4, Calms DEF Moves, Keeps
<1> QED BY <1>2, <1>5 DEF St

(* Cancelling calls ends them and resolves their rings, on every phone that *)
(* may have rung (cancelCalls, and the calls of a bot that hangs up).       *)
LEMMA CancelledIs ==
    ASSUME NEW v \in Database, NEW C \in SUBSET Calls
    PROVE  /\ Cancelled(v, C) \in Database
           /\ Cancelled(v, C).ses = v.ses /\ Cancelled(v, C).own = v.own
           /\ \A c \in Calls : Cancelled(v, C).call[c].st =
                                   IF c \in C THEN "done" ELSE v.call[c].st
           /\ Cancelled(v, C).row = Resolved(v.row, C)
<1> DEFINE w == Cancelled(v, C)
<1>1. /\ w.call = Moved(v, C, "done")
      /\ w.ses = v.ses /\ w.own = v.own
      /\ w.row = Resolved(v.row, C)
      /\ w \in [call : {w.call}, ses : {w.ses}, own : {w.own}, row : {w.row}]
  BY DEF Cancelled, Database
<1>2. /\ w.call \in [Calls -> Call]
      /\ \A c \in Calls : w.call[c].st = IF c \in C THEN "done" ELSE v.call[c].st
  BY <1>1, MovedIs DEF State
<1>3. w.row \in Rows
  BY <1>1, ResolvedIs DEF Database
<1>4. w \in Database
  BY <1>1, <1>2, <1>3 DEF Database
<1> QED BY <1>1, <1>2, <1>4

(* Resolving the calls that end is enough to leave a sound database, if the *)
(* notes alone change after it and sessions close with their calls.         *)
LEMMA ResolvesLeads ==
    ASSUME NEW G, NEW B \in SUBSET Phones, NEW v, Sound(v, G, B),
           NEW C \in SUBSET Calls, NEW w \in Database,
           \A c \in Calls : w.call[c].st = IF c \in C THEN "done" ELSE v.call[c].st,
           Paired(w), w.own \in {v.own, "none"},
           Keeps(Resolved(v.row, C), w.row),
           \A k \in Keys :
               \/ w.row[k] = Resolved(v.row, C)[k]
               \/ /\ k[3] \in {"note", "missed"}
                  /\ k[2] \in C \/ Resolved(v.row, C)[k] # NoRow
    PROVE  Sound(w, G, B) /\ Follows(v, w)
<1> DEFINE R == Resolved(v.row, C)
<1>1. v \in Database /\ InOrder(v) /\ v.row \in Rows
  BY DEF Sound, Database
<1>2. /\ Keeps(v.row, R)
      /\ \A k \in Keys : /\ k[2] \notin C => R[k] = v.row[k]
                         /\ k[3] \notin {"ring", "stop"} => R[k] = v.row[k]
      /\ \A p \in Phones, c \in Calls :
             /\ v.row[<<p, c, "stop">>] # NoRow => R[<<p, c, "stop">>] # NoRow
             /\ c \in C /\ MayHaveRung(v.row, p, c) => R[<<p, c, "stop">>] # NoRow
  BY <1>1, ResolvedIs
<1>3. /\ Keeps(R, w.row)
      /\ \A k \in Keys : w.row[k] = R[k] \/ (/\ k[3] \in {"note", "missed"}
                                             /\ k[2] \in C \/ R[k] # NoRow)
  OBVIOUS
<1> HIDE DEF R
<1>4. Keeps(v.row, w.row)
  BY <1>2, <1>3 DEF Keeps
<1>5. \A c \in Calls : Moves(v.call[c].st, w.call[c].st)
  BY DEF Moves
<1>6. ASSUME NEW k \in Keys, v.row[k] = NoRow, w.row[k] # NoRow
      PROVE  k[3] \in Writes[w.call[k[2]].st]
  <2>1. k[2] \in C
    BY <1>2, <1>3, <1>6
  <2>2. w.call[k[2]].st = "done"
    BY <2>1
  <2> QED BY <2>2, KeyParts DEF Writes
<1>7. ASSUME NEW p \in Phones, NEW c \in Calls
      PROVE  /\ v.row[<<p, c, "stop">>] # NoRow => w.row[<<p, c, "stop">>] # NoRow
             /\ v.call[c].st = "ringing" /\ MayHaveRung(v.row, p, c) =>
                    IF w.call[c].st = "ringing" THEN MayHaveRung(w.row, p, c)
                    ELSE w.row[<<p, c, "stop">>] # NoRow
  <2>1. w.row[<<p, c, "stop">>] = R[<<p, c, "stop">>]
    BY <1>3, KeyParts
  <2>2. c \notin C => w.row[<<p, c, "ring">>] = v.row[<<p, c, "ring">>]
    BY <1>2, <1>3, KeyParts
  <2>3. CASE c \in C
    BY <2>1, <2>3, <1>2
  <2>4. CASE c \notin C
    BY <2>1, <2>2, <2>4, <1>2 DEF MayHaveRung
  <2> QED BY <2>3, <2>4
<1> QED BY <1>4, <1>5, <1>6, <1>7, Calms

(* Calls that wait or ring are cancelled.                                   *)
LEMMA CancelledLeads ==
    ASSUME NEW G, NEW B \in SUBSET Phones, NEW v, Sound(v, G, B),
           NEW C \in SUBSET Calls, \A c \in C : St(v, c) # "live"
    PROVE  /\ Sound(Cancelled(v, C), G, B) /\ Follows(v, Cancelled(v, C))
           /\ \A c \in Calls : c \notin C => St(Cancelled(v, C), c) = St(v, c)
<1> DEFINE w == Cancelled(v, C)
<1>1. v \in Database /\ Paired(v) /\ \A c \in C : v.call[c].st # "live"
  BY DEF Sound, St
<1>2. /\ w \in Database /\ w.ses = v.ses /\ w.own = v.own
      /\ \A c \in Calls : w.call[c].st = IF c \in C THEN "done" ELSE v.call[c].st
      /\ w.row = Resolved(v.row, C)
  BY <1>1, CancelledIs
<1> HIDE DEF w
<1>3. Paired(w)
  BY <1>1, <1>2 DEF Paired
<1>4. Sound(w, G, B) /\ Follows(v, w)
  BY <1>2, <1>3, ResolvesLeads DEF Keeps
<1> QED BY <1>2, <1>4 DEF w, St

(* Everything of a bot ends: its calls with their sessions, and its unsent  *)
(* notes (hang-up on Stop, pause, delete, calls off).                       *)
LEMMA HungupLeads ==
    ASSUME NEW G, NEW B \in SUBSET Phones, NEW v, Sound(v, G, B), NEW b
    PROVE  /\ Sound(Hungup(v, b), G, B) /\ Follows(v, Hungup(v, b))
           /\ \A c \in Calls : St(v, c) = "none" => St(Hungup(v, b), c) = "none"
<1> DEFINE mine == {c \in Calls : BotOf[c] = b}
           C == mine \ In(v, {"none", "done"})
           u == Cancelled(v, C)
           w == Hungup(v, b)
<1>1. v \in Database /\ Paired(v)
  BY DEF Sound
<1>2. /\ u \in Database /\ u.ses = v.ses /\ u.own = v.own
      /\ \A c \in Calls : u.call[c].st = IF c \in C THEN "done" ELSE v.call[c].st
      /\ u.row = Resolved(v.row, C)
  BY <1>1, CancelledIs
<1>3. w = [u EXCEPT !.row = NotesDropped(@, mine),
                    !.ses = [c \in Calls |->
                                 IF c \in mine /\ @[c] # "none" THEN "ended" ELSE @[c]],
                    !.own = IF b = OwnBot THEN "none" ELSE @]
  BY Zenon DEF Hungup
<1> HIDE DEF u, w
<1>4. /\ w.call = u.call
      /\ w.ses = [c \in Calls |->
                      IF c \in mine /\ u.ses[c] # "none" THEN "ended" ELSE u.ses[c]]
      /\ w.own = IF b = OwnBot THEN "none" ELSE u.own
      /\ w.row = NotesDropped(u.row, mine)
      /\ w \in [call : {w.call}, ses : {w.ses}, own : {w.own}, row : {w.row}]
  BY <1>2, <1>3 DEF Database
<1>5. /\ w.row \in Rows
      /\ Keeps(u.row, w.row)
      /\ \A k \in Keys : k[3] \notin {"note", "missed"} => w.row[k] = u.row[k]
      /\ \A k \in Keys : u.row[k] = NoRow => w.row[k] = u.row[k]
  <2>1. u.row \in Rows
    BY <1>2 DEF Database
  <2>2. \A k \in Keys : u.row[k] = NoRow => w.row[k] = u.row[k]
    BY <1>4, FreshRow DEF NotesDropped
  <2> QED BY <2>1, <2>2, <1>4, NotesDroppedIs
<1>6. w \in Database
  BY <1>2, <1>4, <1>5 DEF Database
<1>7. \A c \in Calls : c \in C <=> c \in mine /\ v.call[c].st \notin {"none", "done"}
  BY DEF In
<1>8. Paired(w)
  BY <1>1, <1>2, <1>4, <1>7 DEF Paired
<1>9. \A k \in Keys :
          w.row[k] = u.row[k] \/ (k[3] \in {"note", "missed"} /\ u.row[k] # NoRow)
  BY <1>5
<1>10. \A c \in Calls : w.call[c].st = IF c \in C THEN "done" ELSE v.call[c].st
  BY <1>2, <1>4
<1>11. w.own \in {v.own, "none"}
  BY <1>2, <1>4
<1>12. C \in SUBSET Calls
  OBVIOUS
<1> HIDE DEF C
<1>13. /\ Keeps(Resolved(v.row, C), w.row)
       /\ \A k \in Keys :
              \/ w.row[k] = Resolved(v.row, C)[k]
              \/ /\ k[3] \in {"note", "missed"}
                 /\ k[2] \in C \/ Resolved(v.row, C)[k] # NoRow
  BY <1>2, <1>5, <1>9
<1>14. Sound(w, G, B) /\ Follows(v, w)
  BY <1>6, <1>8, <1>10, <1>11, <1>12, <1>13, ResolvesLeads
<1> QED BY <1>7, <1>10, <1>14 DEF w, St

(* The boot gives open sessions their grace (resetGrace).                   *)
LEMMA GracedLeads ==
    ASSUME NEW G, NEW B \in SUBSET Phones, NEW v, Sound(v, G, B)
    PROVE  /\ Sound(Graced(v), G, B) /\ Follows(v, Graced(v))
           /\ \A c \in Calls : St(Graced(v), c) = St(v, c)
<1> DEFINE w == Graced(v)
           Back(s) == IF s = "silent" THEN "open" ELSE s
<1>1. v \in Database /\ Paired(v) /\ Hushed(v)
  BY DEF Sound
<1>2. /\ w.call = v.call
      /\ w.ses = [c \in Calls |-> Back(v.ses[c])]
      /\ w.own = Back(v.own)
      /\ w.row = v.row
      /\ w \in [call : {w.call}, ses : {w.ses}, own : {w.own}, row : {w.row}]
  BY <1>1 DEF Graced, Database
<1>3. w \in Database
  BY <1>1, <1>2 DEF Database
<1> HIDE DEF w
<1>4. Paired(w)
  BY <1>1, <1>2 DEF Paired
<1>5. w.own \in {v.own, "none"} \/ \A c \in Calls : w.call[c].st # "ringing"
  BY <1>1, <1>2 DEF Hushed
<1>6. Sound(w, G, B) /\ Follows(v, w)
  BY <1>2, <1>3, <1>4, <1>5, Calms DEF Moves, Keeps
<1> QED BY <1>2, <1>6 DEF w, St

(* The boot's walk: rings end, late waits are over, pending calls are to be *)
(* decided again under a new generation (bootBotCalls).                     *)
LEMMA WalkedLeads ==
    ASSUME NEW G, NEW B \in SUBSET Phones, NEW v, Sound(v, G, B),
           NEW X \in SUBSET Calls, NEW noted
    PROVE  /\ Sound(Walked(v, X, noted), G, B) /\ Follows(v, Walked(v, X, noted))
           /\ \A c \in Calls : St(v, c) = "none" => St(Walked(v, X, noted), c) = "none"
<1> DEFINE again == X \cap In(v, {"pending"})
           late == {c \in X \cap In(v, {"waiting"}) : v.call[c].due}
           rang == X \cap In(v, {"ringing"})
           q == EndRing(v, rang, noted)
           w == Walked(v, X, noted)
<1>1. v \in Database
  BY DEF Sound
<1>2. rang \in SUBSET Calls /\ \A c \in rang : St(v, c) = "ringing"
  BY DEF In, St
<1>3. \A c \in Calls : c \in rang => v.call[c].st = "ringing"
  BY DEF In
<1>4. \A c \in Calls : c \in late => v.call[c].st = "waiting"
  BY DEF In
<1> HIDE DEF rang, w
<1>5. /\ Sound(q, G, B) /\ Follows(v, q)
      /\ \A c \in Calls : /\ c \in rang => St(q, c) = "done"
                          /\ c \notin rang => St(q, c) = St(v, c)
  BY <1>2, EndRingLeads
<1>6. q \in Database /\ Paired(q)
  BY <1>5 DEF Sound
<1> DEFINE after == [c \in Calls |->
                         IF c \in again THEN [q.call[c] EXCEPT !.gen = @ + 1]
                         ELSE IF c \in late THEN Moved(v, late, "done")[c]
                         ELSE q.call[c]]
<1>7. w = [q EXCEPT !.call = after]
  BY DEF Walked, w, rang
<1> HIDE DEF q, after
<1>8. /\ w.call = after
      /\ w.ses = q.ses /\ w.own = q.own /\ w.row = q.row
      /\ w \in [call : {w.call}, ses : {w.ses}, own : {w.own}, row : {w.row}]
  BY <1>6, <1>7 DEF Database
<1>9. \A r \in Call : /\ [r EXCEPT !.gen = @ + 1] \in Call
                      /\ [r EXCEPT !.gen = @ + 1].st = r.st
  BY DEF Call
<1>10. /\ Moved(v, late, "done") \in [Calls -> Call]
      /\ \A c \in Calls : c \in late => Moved(v, late, "done")[c].st = "done"
  BY <1>1, MovedIs DEF State
<1>11. \A c \in Calls : q.call[c] \in Call
  BY <1>6 DEF Database
<1> HIDE DEF again, late
<1>12. /\ w.call \in [Calls -> Call]
       /\ \A c \in Calls :
              w.call[c].st = IF c \in late /\ c \notin again THEN "done" ELSE q.call[c].st
  BY <1>8, <1>9, <1>10, <1>11 DEF after
<1>13. w \in Database
  BY <1>6, <1>8, <1>12 DEF Database
<1>14. \A c \in Calls : c \in late => q.call[c].st = "waiting" \/ q.call[c].st = "done"
  BY <1>5, <1>4 DEF St
<1>15. Paired(w)
  BY <1>6, <1>8, <1>12, <1>14 DEF Paired
<1>16. /\ \A c \in Calls : Moves(q.call[c].st, w.call[c].st)
       /\ \A c \in Calls : q.call[c].st = "ringing" => w.call[c].st = "ringing"
  BY <1>12, <1>14 DEF Moves
<1>17. Sound(w, G, B) /\ Follows(q, w)
  BY <1>5, <1>8, <1>13, <1>15, <1>16, Calms DEF Keeps
<1>18. Follows(v, w)
  BY <1>1, <1>5, <1>6, <1>13, <1>17, FollowsChain
<1>19. \A c \in Calls : v.call[c].st = "none" => w.call[c].st = "none"
  BY <1>5, <1>3, <1>4, <1>12 DEF St
<1> QED BY <1>17, <1>18, <1>19 DEF w, St
-----------------------------------------------------------------------------
(* The inductive invariant *)

Facts == [Calls -> {"none", "armed", "settled", "owed", "taken"}]

Typed ==
    /\ run \in {"down", "listening", "ready", "fenced"}
    /\ fact \in Facts
    /\ bound \subseteq Phones
    /\ timer \subseteq Calls /\ deciding \subseteq Decision
    /\ wire \subseteq Keys /\ batch \subseteq [k : Keys, tries : Nat]
    /\ rung \subseteq Phones \X Calls /\ lost \subseteq Phones \X Calls
    /\ spent \in [Odd -> Nat]

CallsInv ==
    /\ Typed
    /\ Sound(Now, rung \ lost, bound)
    /\ Unadmitted(fact, Now)

(* What a step promises: the three action properties.                       *)
Forwards == \A c \in Calls : Rank[call'[c].st] >= Rank[call[c].st]
InTime ==
    \A k \in wire' \ wire :
        k[3] = "ring" => /\ run' = "ready"
                         /\ call'[k[2]].st = "ringing" /\ ~call'[k[2]].due
Stays ==
    \A k \in Keys : row[k].st \in Spent => row'[k] \in {row[k], NoRow}
Keeping == CallsInv' /\ Forwards /\ InTime /\ Stays

(* The record of the database is made of its four tables.                   *)
LEMMA NowIs ==
    /\ Now.call = call /\ Now.ses = ses /\ Now.own = own /\ Now.row = row
    /\ (Now').call = call' /\ (Now').ses = ses' /\ (Now').own = own'
    /\ (Now').row = row'
    /\ \A c \in Calls : St(Now, c) = call[c].st
    /\ Now \in Database <=>
           /\ call \in [Calls -> Call]
           /\ ses \in [Calls -> {"none", "open", "silent", "ended"}]
           /\ own \in {"none", "open", "silent"} /\ row \in Rows
    /\ Now' \in Database <=>
           /\ call' \in [Calls -> Call]
           /\ ses' \in [Calls -> {"none", "open", "silent", "ended"}]
           /\ own' \in {"none", "open", "silent"} /\ row' \in Rows
BY DEF Now, Database, St

(* A database whose calls are where they were is as sound as it was, if     *)
(* sessions and calls still go together, no row has come but clearings and  *)
(* who rang is still told.                                                  *)
LEMMA StillSound ==
    ASSUME NEW G, NEW B, NEW w, Sound(w, G, B), NEW H, NEW D, NEW u \in Database,
           \A c \in Calls : u.call[c].st = w.call[c].st,
           Paired(u), w.own = "none" => u.own = "none",
           \A k \in Keys : u.row[k] # NoRow => w.row[k] # NoRow \/ k[3] = "clear",
           Told(u, H, D)
    PROVE  Sound(u, H, D)
<1>1. Solo(w) /\ Hushed(w) /\ InOrder(w)
  BY DEF Sound
<1>2. Solo(u)
  BY <1>1 DEF Solo
<1>3. Hushed(u)
  BY <1>1 DEF Hushed
<1>4. InOrder(u)
  BY <1>1, KeyParts DEF InOrder
<1> QED BY <1>2, <1>3, <1>4 DEF Sound

(* What is attempted: pending rows, among them rings of calls that ring,    *)
(* which from then on may have rung (claim and the dispatch fence).         *)
LEMMA SendsIs ==
    ASSUME NEW C, NEW R \in Rows, NEW K \in SUBSET Pending(R), Typed, Sends(C, R, K)
    PROVE  /\ row' \in Rows /\ wire' \subseteq Keys /\ rung' \subseteq Phones \X Calls
           /\ Keeps(R, row')
           /\ \A k \in Keys : R[k] = NoRow <=> row'[k] = NoRow
           /\ \A p \in Phones, c \in Calls :
                  /\ MayHaveRung(R, p, c) => MayHaveRung(row', p, c)
                  /\ <<p, c>> \in rung' \ rung =>
                         C[c].st = "ringing" /\ MayHaveRung(row', p, c)
           /\ \A k \in wire' \ wire :
                  k[3] = "ring" => run' = "ready" /\ C[k[2]].st = "ringing" /\ ~C[k[2]].due
<1> DEFINE out == {k \in K : k[3] = "ring" => CallRinging(C, k[2])}
           rang == {<<k[1], k[2]>> : k \in {x \in out : x[3] = "ring"}}
<1>1. /\ row' = Attempted(R, out, K \ out)
      /\ wire' = wire \cup out
      /\ rung' = rung \cup rang
  BY Zenon DEF Sends
<1>2. \A k \in out : k \in K /\ k \in Keys /\ (k[3] = "ring" => CallRinging(C, k[2]))
  BY DEF Pending
<1>3. out \cup (K \ out) \subseteq Pending(R)
  OBVIOUS
<1>4. rang \subseteq Phones \X Calls
  BY <1>2, KeyParts
<1>5. \A p \in Phones, c \in Calls : <<p, c>> \in rang =>
          <<p, c, "ring">> \in out /\ CallRinging(C, c)
  <2> SUFFICES ASSUME NEW p \in Phones, NEW c \in Calls, <<p, c>> \in rang
               PROVE  <<p, c, "ring">> \in out /\ CallRinging(C, c)
    OBVIOUS
  <2>1. PICK k \in out : k[3] = "ring" /\ <<p, c>> = <<k[1], k[2]>>
    OBVIOUS
  <2>2. k = <<p, c, "ring">> /\ k[2] = c
    BY <2>1, <1>2, KeyParts
  <2> QED BY <2>1, <2>2, <1>2
<1> HIDE DEF out, rang
<1>6. /\ row' \in Rows /\ Keeps(R, row')
      /\ \A k \in Keys : R[k] = NoRow <=> row'[k] = NoRow
      /\ \A p \in Phones, c \in Calls :
             MayHaveRung(R, p, c) \/ <<p, c, "ring">> \in out
                 => MayHaveRung(row', p, c)
  BY <1>1, <1>3, AttemptedIs
<1>7. wire' \subseteq Keys /\ rung' \subseteq Phones \X Calls
  BY <1>1, <1>2, <1>4 DEF Typed
<1>8. \A p \in Phones, c \in Calls : <<p, c>> \in rung' \ rung =>
          C[c].st = "ringing" /\ MayHaveRung(row', p, c)
  BY <1>1, <1>5, <1>6 DEF CallRinging
<1>9. \A k \in wire' \ wire :
          k[3] = "ring" => run' = "ready" /\ C[k[2]].st = "ringing" /\ ~C[k[2]].due
  BY <1>1, <1>2 DEF CallRinging
<1> QED BY <1>6, <1>7, <1>8, <1>9

(* What a step spends of its bounds stays a count.                          *)
LEMMA SpendsIs ==
    ASSUME Typed, NEW O, Spends(O)
    PROVE  spent' \in [Odd -> Nat]
BY DEF Spends, Typed

(* A commit: a handler that leads the database to a sound one, where facts  *)
(* and calls agree, keeps the invariant and the promises, whether its rows  *)
(* are sent or the process ends between the two (commit, then afterCommit). *)
LEMMA SettlesKeeps ==
    ASSUME CallsInv, NEW r \in {"down", "listening", "ready", "fenced"}, NEW w,
           Sound(w, rung \ lost, bound), Follows(Now, w),
           NEW T \in SUBSET Calls, NEW S, NEW D \in SUBSET Decision, NEW O,
           SettlesAs(r, w, T, S, D, O),
           fact' \in Facts,
           Unadmitted(fact', w)
    PROVE  Keeping
<1>1. /\ w \in Database /\ Paired(w) /\ Told(w, rung \ lost, bound)
      /\ Now \in Database /\ row \in Rows /\ w.row \in Rows
  BY NowIs DEF Sound, CallsInv, Database
<1>2. /\ call' = w.call /\ ses' = w.ses /\ own' = w.own
      /\ bound' = bound /\ lost' = lost
  BY DEF SettlesAs, Commits
<1>3. Forwards /\ Keeps(row, w.row)
  BY <1>2, NowIs DEF Follows, Forwards
<1>4. Unadmitted(fact', Now')
  BY <1>2, NowIs DEF Unadmitted
<1>5. Typed
  BY DEF CallsInv
<1>6. ASSUME run' = r,
             timer' = (T \ S) \cup (S \cap In(w, {"waiting", "ringing"})),
             deciding' = D, batch' = batch, Spends(O),
             NEW K \in SUBSET Pending(w.row), Sends(w.call, w.row, K)
      PROVE  Keeping
  <2>1. /\ row' \in Rows /\ wire' \subseteq Keys /\ rung' \subseteq Phones \X Calls
        /\ Keeps(w.row, row')
        /\ \A k \in Keys : w.row[k] = NoRow <=> row'[k] = NoRow
        /\ \A p \in Phones, c \in Calls :
               /\ MayHaveRung(w.row, p, c) => MayHaveRung(row', p, c)
               /\ <<p, c>> \in rung' \ rung =>
                      w.call[c].st = "ringing" /\ MayHaveRung(row', p, c)
        /\ \A k \in wire' \ wire : k[3] = "ring" =>
               run' = "ready" /\ w.call[k[2]].st = "ringing" /\ ~w.call[k[2]].due
    BY <1>1, <1>6, SendsIs DEF CallsInv
  <2>2. Typed'
    <3>1. In(w, {"waiting", "ringing"}) \subseteq Calls
      BY DEF In
    <3>2. spent' \in [Odd -> Nat]
      BY <1>5, <1>6, SpendsIs
    <3>3. timer' \subseteq Calls
      BY <3>1, <1>6
    <3> QED BY <2>1, <3>2, <3>3, <1>2, <1>5, <1>6 DEF Typed
  <2>3. Now' \in Database
    BY <1>1, <1>2, <2>1, NowIs DEF Database
  <2>4. Told(Now', rung' \ lost', bound')
    <3> SUFFICES ASSUME NEW p \in bound, NEW c \in Calls, <<p, c>> \in rung' \ lost
                 PROVE  IF call'[c].st = "ringing" THEN MayHaveRung(row', p, c)
                        ELSE row'[<<p, c, "stop">>] # NoRow
      BY <1>2, NowIs DEF Told
    <3>1. p \in Phones
      BY DEF CallsInv, Typed
    <3>2. CASE <<p, c>> \in rung
      BY <1>1, <1>2, <2>1, <3>1, <3>2, KeyParts DEF Told
    <3>3. CASE <<p, c>> \notin rung
      BY <1>2, <2>1, <3>1, <3>3
    <3> QED BY <3>2, <3>3
  <2>5. Sound(Now', rung' \ lost', bound')
    <3>1. Paired(Now')
      BY <1>1, <1>2, NowIs DEF Paired
    <3>2. /\ \A c \in Calls : (Now').call[c].st = w.call[c].st
          /\ w.own = "none" => (Now').own = "none"
          /\ \A k \in Keys : (Now').row[k] # NoRow => w.row[k] # NoRow
      BY <1>2, <2>1, NowIs
    <3> QED BY <2>3, <2>4, <3>1, <3>2, StillSound
  <2>6. InTime
    BY <1>2, <2>1 DEF InTime
  <2>7. Stays
    BY <1>3, <2>1 DEF Stays, Keeps
  <2> QED BY <1>3, <1>4, <2>2, <2>5, <2>6, <2>7 DEF Keeping, CallsInv
<1>7. ASSUME Dies, row' = w.row, rung' = rung, Spends(O \cup {"crash"})
      PROVE  Keeping
  <2>1. Typed'
    <3>1. spent' \in [Odd -> Nat]
      BY <1>5, <1>7, SpendsIs
    <3> QED BY <3>1, <1>2, <1>5, <1>7 DEF Typed, Dies
  <2>2. Sound(Now', rung' \ lost', bound')
    <3>1. Now' \in Database
      BY <1>1, <1>2, <1>7, NowIs DEF Database
    <3>2. Paired(Now') /\ Told(Now', rung' \ lost', bound')
      BY <1>1, <1>2, <1>7, NowIs DEF Paired, Told
    <3>3. /\ \A c \in Calls : (Now').call[c].st = w.call[c].st
          /\ w.own = "none" => (Now').own = "none"
          /\ \A k \in Keys : (Now').row[k] # NoRow => w.row[k] # NoRow
      BY <1>2, <1>7, NowIs
    <3> QED BY <3>1, <3>2, <3>3, StillSound
  <2>3. InTime
    BY <1>7 DEF InTime, Dies
  <2>4. Stays
    BY <1>3, <1>7 DEF Stays, Keeps
  <2> QED BY <1>3, <1>4, <2>1, <2>2, <2>3, <2>4 DEF Keeping, CallsInv
<1> DEFINE able == {k \in Pending(w.row) \ wire : k[2] \in S /\ r = "ready"}
           new == {k \in able : w.row[k].tries = 0}
<1>8. CASE /\ run' = r
           /\ timer' = (T \ S) \cup (S \cap In(w, {"waiting", "ringing"}))
           /\ deciding' = D
           /\ UNCHANGED batch
           /\ \E again \in SUBSET (able \ new) : Sends(w.call, w.row, new \cup again)
           /\ Spends(O)
  <2>1. PICK again \in SUBSET (able \ new) : Sends(w.call, w.row, new \cup again)
    BY <1>8
  <2>2. new \cup again \in SUBSET Pending(w.row)
    OBVIOUS
  <2> HIDE DEF able, new
  <2> QED BY <1>6, <1>8, <2>1, <2>2
<1>9. CASE Dies /\ row' = w.row /\ UNCHANGED rung /\ Spends(O \cup {"crash"})
  BY <1>7, <1>9
<1> QED BY <1>8, <1>9 DEF SettlesAs

(* Calls and facts still agree after operators that leave new calls alone.  *)
LEMMA StillUnadmitted ==
    ASSUME NEW f, NEW v, NEW w, Unadmitted(f, v),
           \A c \in Calls : St(v, c) = "none" => St(w, c) = "none"
    PROVE  Unadmitted(f, w)
BY DEF Unadmitted, St

(* Deciding calls that are pending or waiting: the part before the first    *)
(* await sweeps, rules and commits (decide).                                *)
LEMMA DecidesKeeps ==
    ASSUME CallsInv, NEW r \in {"down", "listening", "ready", "fenced"}, NEW w,
           Sound(w, rung \ lost, bound), Follows(Now, w),
           NEW T \in SUBSET Calls, NEW S,
           NEW A \in SUBSET Calls, \A c \in A : St(w, c) \in {"pending", "waiting"},
           NEW noted, NEW O,
           DecidesAs(r, w, T, S, A, noted, O),
           fact' \in Facts,
           Unadmitted(fact', w)
    PROVE  Keeping
<1> DEFINE q == IF A = {} THEN w ELSE Swept(w)
           B == bound
           G == rung \ lost
<1>1. /\ w \in Database /\ Now \in Database /\ Typed /\ B \in SUBSET Phones
  BY DEF Sound, CallsInv, Typed
<1>2. /\ Sound(q, G, B) /\ Follows(w, q)
      /\ \A c \in Calls : St(w, c) # "live" => St(q, c) = St(w, c)
  <2>1. Sound(Swept(w), G, B) /\ Follows(w, Swept(w))
        /\ \A c \in Calls : St(w, c) # "live" => St(Swept(w), c) = St(w, c)
    BY <1>1, SweptLeads
  <2>2. Follows(w, w)
    BY <1>1, FollowsChain
  <2> QED BY <2>1, <2>2
<1>3. PICK v \in [A -> Verdict] :
          /\ Allowed(q, A, v)
          /\ SettlesAs(r, Ruled(q, A, v, noted), T,
                       S \cup {c \in A : v[c] \in {"text", "wait"}},
                       deciding \cup Asks(q, A, v),
                       O \cup {o \in {"fail"} : \E c \in A : v[c] = "fail"})
  BY DEF DecidesAs
<1> HIDE DEF q
<1>4. \A c \in A : St(q, c) \in {"pending", "waiting"}
  BY <1>2
<1> DEFINE u == Ruled(q, A, v, noted)
<1>5. /\ Sound(u, G, B) /\ Follows(q, u)
      /\ \A c \in Calls : c \notin A => St(u, c) = St(q, c)
  BY <1>1, <1>2, <1>3, <1>4, RuledLeads
<1> HIDE DEF u
<1>6. q \in Database /\ u \in Database
  BY <1>2, <1>5 DEF Sound
<1>7. Follows(Now, u)
  <2>1. Follows(Now, q)
    BY <1>1, <1>2, <1>6, FollowsChain
  <2> QED BY <1>1, <1>5, <1>6, <2>1, FollowsChain
<1>8. Unadmitted(fact', u)
  <2>1. \A c \in Calls : St(w, c) = "none" => St(u, c) = "none"
    BY <1>2, <1>5
  <2> QED BY <2>1, StillUnadmitted
<1>9. deciding \cup Asks(q, A, v) \in SUBSET Decision
  <2>1. \A c \in A : q.call[c].st \in {"pending", "waiting"} /\ q.call[c].gen \in Nat
    BY <1>4, <1>6 DEF St, Database, Call
  <2>2. Asks(q, A, v) \subseteq Decision
    <3> SUFFICES ASSUME NEW d \in Asks(q, A, v) PROVE d \in Decision
      OBVIOUS
    <3>1. PICK c \in {a \in A : v[a] = "ask"} :
              d = [c |-> c, entry |-> q.call[c].st, gen |-> q.call[c].gen]
      BY DEF Asks
    <3> QED BY <2>1, <3>1 DEF Decision
  <2> QED BY <1>1, <2>2 DEF Typed
<1>10. SettlesAs(r, u, T, S \cup {c \in A : v[c] \in {"text", "wait"}},
                 deciding \cup Asks(q, A, v),
                 O \cup {o \in {"fail"} : \E c \in A : v[c] = "fail"})
  BY <1>3 DEF u
<1> QED BY <1>5, <1>7, <1>8, <1>9, <1>10, SettlesKeeps
-----------------------------------------------------------------------------
(* The actions that commit *)

(* What the invariant says of the state a handler starts from.              *)
LEMMA AtRest ==
    ASSUME CallsInv
    PROVE  /\ Typed /\ Now \in Database /\ Follows(Now, Now)
           /\ Sound(Now, rung \ lost, bound) /\ Unadmitted(fact, Now)
           /\ bound \in SUBSET Phones /\ timer \in SUBSET Calls
           /\ deciding \in SUBSET Decision
           /\ run \in {"down", "listening", "ready", "fenced"}
<1>1. Now \in Database
  BY DEF CallsInv, Sound
<1> QED BY <1>1, FollowsChain DEF CallsInv, Typed

(* A handler of one operator: it is sound, and new calls stay new.          *)
LEMMA HandlerKeeps ==
    ASSUME CallsInv, NEW w, Sound(w, rung \ lost, bound), Follows(Now, w),
           \A c \in Calls : St(Now, c) = "none" => St(w, c) = "none",
           NEW T \in SUBSET Calls, NEW S, NEW D \in SUBSET Decision, NEW O,
           Settles(w, T, S, D, O), UNCHANGED fact
    PROVE  Keeping
<1>1. Unadmitted(fact, w) /\ fact' = fact
  BY AtRest, StillUnadmitted
<1>2. fact' \in Facts
  BY <1>1, AtRest DEF Typed
<1>3. Unadmitted(fact', w)
  BY <1>1 DEF Unadmitted
<1>4. SettlesAs(run, w, T, S, D, O)
  BY DEF Settles
<1> QED BY <1>2, <1>3, <1>4, AtRest, SettlesKeeps

(* The drain's facts are taken, and their calls admitted: those of the      *)
(* other facts are still new (markFactTaken with the insert of the call).   *)
LEMMA DrainAgrees ==
    ASSUME NEW f \in Facts,
           NEW w, Unadmitted(f, w), NEW X, NEW N \in SUBSET X, NEW q,
           Admits(w, q, N)
    PROVE  /\ Taken(f, X) \in Facts
           /\ Unadmitted(Taken(f, X), q)
BY DEF Taken, Unadmitted, St, Facts, Admits

(* A marked turn ends or a message arrives, and the drain wakes (owe, wake).*)
LEMMA OwesKeeps ==
    ASSUME CallsInv, NEW c \in Calls, Owes(c)
    PROVE  Keeping
<1> DEFINE owed == [fact EXCEPT ![c] = IF c \in Marked THEN "settled" ELSE "owed"]
           all == Owed \cup {c}
<1>1. /\ \/ c \in Marked /\ fact[c] = "armed"
         \/ c \notin Marked /\ fact[c] = "none"
      /\ \E X \in IF run = "ready" THEN SUBSET all ELSE {{}} :
         \E N \in SUBSET X, noted \in Notable :
             /\ fact' = Taken(owed, X)
             /\ Decides(Drained(Now, X, N), timer, {}, N, noted,
                        {o \in {"fail"} : run = "ready" /\ X # all})
  BY DEF Owes
<1>2. PICK X, N, noted :
          /\ X \subseteq all /\ N \in SUBSET X
          /\ fact' = Taken(owed, X)
          /\ Decides(Drained(Now, X, N), timer, {}, N, noted,
                     {o \in {"fail"} : run = "ready" /\ X # all})
  BY <1>1
<1>3. /\ Typed /\ Now \in Database /\ Sound(Now, rung \ lost, bound)
      /\ Unadmitted(fact, Now)
      /\ bound \in SUBSET Phones /\ timer \in SUBSET Calls
      /\ run \in {"down", "listening", "ready", "fenced"}
  BY AtRest
<1> DEFINE q == Drained(Now, X, N)
<1>4. /\ Sound(q, rung \ lost, bound) /\ Follows(Now, q)
      /\ Admits(Now, q, N)
  BY <1>3, DrainedLeads
<1> HIDE DEF q
<1>5. /\ owed \in Facts
      /\ Unadmitted(owed, Now)
  BY <1>1, <1>3 DEF Unadmitted, Typed, Facts
<1>6. \A d \in N : d \in Calls /\ St(Now, d) = "none"
  <2>1. \A d \in all : d \in Calls /\ fact[d] # "taken"
    BY <1>1 DEF Owed
  <2> QED BY <2>1, <1>2, <1>3 DEF Unadmitted, St
<1> HIDE DEF owed, all
<1>7. /\ fact' \in Facts
      /\ Unadmitted(fact', q)
  BY <1>2, <1>4, <1>5, DrainAgrees
<1>8. N \in SUBSET Calls /\ \A d \in N : St(q, d) \in {"pending", "waiting"}
  BY <1>4, <1>6 DEF Admits
<1>9. DecidesAs(run, q, timer, {}, N, noted,
                {o \in {"fail"} : run = "ready" /\ X # all})
  BY <1>2 DEF q, Decides
<1> QED BY <1>3, <1>4, <1>7, <1>8, <1>9, DecidesKeeps

(* A producer's fact is admitted, and decided once the boot is over.        *)
LEMMA TellsKeeps ==
    ASSUME CallsInv, NEW c \in Calls, Tells(c)
    PROVE  Keeping
<1> DEFINE A == {a \in {c} : run = "ready"}
           q == Drained(Now, {c}, {c})
<1>1. PICK noted : Decides(q, timer, {}, A, noted, {})
  BY DEF Tells
<1>2. fact[c] = "none" /\ fact' = [fact EXCEPT ![c] = "taken"]
  BY DEF Tells
<1> HIDE DEF q
<1>3. /\ Typed /\ Now \in Database /\ Sound(Now, rung \ lost, bound)
      /\ Unadmitted(fact, Now) /\ fact \in Facts
      /\ bound \in SUBSET Phones /\ timer \in SUBSET Calls
      /\ run \in {"down", "listening", "ready", "fenced"}
  BY AtRest DEF Typed
<1>4. /\ Sound(q, rung \ lost, bound) /\ Follows(Now, q)
      /\ Admits(Now, q, {c})
  BY <1>3, DrainedLeads DEF q
<1>5. fact' = Taken(fact, {c})
  BY <1>2, <1>3 DEF Taken, Facts
<1>6. fact' \in Facts /\ Unadmitted(fact', q)
  <2>1. {c} \in SUBSET {c}
    OBVIOUS
  <2> QED BY <1>3, <1>4, <1>5, <2>1, DrainAgrees
<1>7. A \in SUBSET Calls /\ \A a \in A : St(q, a) \in {"pending", "waiting"}
  <2>1. St(Now, c) = "none"
    BY <1>2, <1>3 DEF Unadmitted, St
  <2> QED BY <2>1, <1>4 DEF Admits
<1>8. DecidesAs(run, q, timer, {}, A, noted, {})
  BY <1>1 DEF Decides
<1> HIDE DEF A
<1> QED BY <1>3, <1>4, <1>6, <1>7, <1>8, DecidesKeeps

(* A waiting call escalates and a ringing one is missed (the runtime's      *)
(* timers).                                                                 *)
LEMMA TimerFiresKeeps ==
    ASSUME CallsInv, NEW c \in Calls, TimerFires(c)
    PROVE  Keeping
<1>1. /\ Typed /\ Now \in Database /\ Sound(Now, rung \ lost, bound)
      /\ Follows(Now, Now)
      /\ Unadmitted(fact, Now) /\ fact \in Facts /\ fact' = fact
      /\ bound \in SUBSET Phones
      /\ timer \ {c} \in SUBSET Calls /\ deciding \in SUBSET Decision
      /\ run \in {"down", "listening", "ready", "fenced"}
      /\ {c} \in SUBSET Calls
  BY AtRest DEF Typed, TimerFires
<1>2. PICK noted :
          \/ /\ call[c].st = "waiting"
             /\ Decides(Now, timer \ {c}, {}, {c}, noted, {})
          \/ /\ call[c].st = "ringing"
             /\ Settles(EndRing(Now, {c}, noted), timer \ {c}, {c}, deciding, {})
  BY DEF TimerFires
<1>3. CASE /\ call[c].st = "waiting"
           /\ Decides(Now, timer \ {c}, {}, {c}, noted, {})
  <2>1. \A a \in {c} : St(Now, a) \in {"pending", "waiting"}
    BY <1>3, NowIs
  <2>2. DecidesAs(run, Now, timer \ {c}, {}, {c}, noted, {})
    BY <1>3 DEF Decides
  <2>3. fact' \in Facts /\ Unadmitted(fact', Now)
    BY <1>1 DEF Unadmitted
  <2> QED BY <1>1, <2>1, <2>2, <2>3, DecidesKeeps
<1>4. CASE /\ call[c].st = "ringing"
           /\ Settles(EndRing(Now, {c}, noted), timer \ {c}, {c}, deciding, {})
  <2> DEFINE w == EndRing(Now, {c}, noted)
  <2>1. \A a \in {c} : St(Now, a) = "ringing"
    BY <1>4, NowIs
  <2>2. /\ Sound(w, rung \ lost, bound) /\ Follows(Now, w)
        /\ \A a \in Calls : /\ a \in {c} => St(w, a) = "done"
                            /\ a \notin {c} => St(w, a) = St(Now, a)
    BY <1>1, <2>1, EndRingLeads
  <2>3. \A a \in Calls : St(Now, a) = "none" => St(w, a) = "none"
    BY <2>1, <2>2
  <2> HIDE DEF w
  <2>4. Settles(w, timer \ {c}, {c}, deciding, {})
    BY <1>4 DEF w
  <2> QED BY <1>1, <2>2, <2>3, <2>4, HandlerKeeps
<1> QED BY <1>2, <1>3, <1>4

(* Not now and Text me instead end a ring (decline).                        *)
LEMMA DeclineKeeps ==
    ASSUME CallsInv, NEW c \in Calls, DeclineCall(c)
    PROVE  Keeping
<1>1. PICK noted : Settles(EndRing(Now, {c}, noted), timer, {c}, deciding, {})
  BY DEF DeclineCall
<1>2. /\ Now \in Database /\ Sound(Now, rung \ lost, bound)
      /\ bound \in SUBSET Phones /\ timer \in SUBSET Calls
      /\ deciding \in SUBSET Decision /\ {c} \in SUBSET Calls
      /\ fact' = fact
      /\ \A a \in {c} : St(Now, a) = "ringing"
  BY AtRest, NowIs DEF DeclineCall
<1> DEFINE w == EndRing(Now, {c}, noted)
<1>3. /\ Sound(w, rung \ lost, bound) /\ Follows(Now, w)
      /\ \A a \in Calls : /\ a \in {c} => St(w, a) = "done"
                          /\ a \notin {c} => St(w, a) = St(Now, a)
  BY <1>2, EndRingLeads
<1>4. \A a \in Calls : St(Now, a) = "none" => St(w, a) = "none"
  BY <1>2, <1>3
<1> HIDE DEF w
<1>5. Settles(w, timer, {c}, deciding, {})
  BY <1>1 DEF w
<1> QED BY <1>2, <1>3, <1>4, <1>5, HandlerKeeps

(* The owner answers: in time the call is live, past the deadline it was    *)
(* missed, and a session that fell silent is over (answer).                 *)
LEMMA AnswerKeeps ==
    ASSUME CallsInv, NEW c \in Calls, AnswerCall(c)
    PROVE  Keeping
<1>1. PICK noted :
          Settles(IF call[c].st = "ringing"
                    THEN IF call[c].due THEN EndRing(Now, {c}, noted)
                         ELSE Answered(Now, c)
                  ELSE IF ses[c] = "silent"
                    THEN [Now EXCEPT !.call = Moved(Now, {c}, "done"),
                                     !.ses[c] = "ended"]
                  ELSE Now,
                  timer, {c}, deciding, {})
  BY DEF AnswerCall
<1> DEFINE w == IF call[c].st = "ringing"
                  THEN IF call[c].due THEN EndRing(Now, {c}, noted)
                       ELSE Answered(Now, c)
                ELSE IF ses[c] = "silent" THEN Over(Now, c) ELSE Now
<1>2. Settles(w, timer, {c}, deciding, {})
  BY <1>1, Zenon DEF Over
<1>3. /\ Now \in Database /\ Sound(Now, rung \ lost, bound) /\ Follows(Now, Now)
      /\ bound \in SUBSET Phones /\ timer \in SUBSET Calls
      /\ deciding \in SUBSET Decision /\ {c} \in SUBSET Calls
      /\ fact' = fact /\ St(Now, c) # "none"
  BY AtRest, NowIs DEF AnswerCall
<1>4. /\ Sound(w, rung \ lost, bound) /\ Follows(Now, w)
      /\ \A a \in Calls : a # c => St(w, a) = St(Now, a)
  <2>1. CASE call[c].st = "ringing" /\ call[c].due
    <3>1. w = EndRing(Now, {c}, noted)
      BY <2>1
    <3>2. \A a \in {c} : St(Now, a) = "ringing"
      BY <2>1, NowIs
    <3> HIDE DEF w
    <3>3. /\ Sound(w, rung \ lost, bound) /\ Follows(Now, w)
          /\ \A a \in Calls : /\ a \in {c} => St(w, a) = "done"
                              /\ a \notin {c} => St(w, a) = St(Now, a)
      BY <1>3, <3>1, <3>2, EndRingLeads
    <3> QED BY <3>3
  <2>2. CASE call[c].st = "ringing" /\ ~call[c].due
    <3>1. w = Answered(Now, c) /\ St(Now, c) = "ringing"
      BY <2>2, NowIs
    <3> HIDE DEF w
    <3> QED BY <1>3, <3>1, AnsweredLeads
  <2>3. CASE call[c].st # "ringing" /\ ses[c] = "silent"
    <3>1. w = Over(Now, c) /\ Now.ses[c] \in {"open", "silent"}
      BY <2>3, NowIs
    <3> HIDE DEF w
    <3> QED BY <1>3, <3>1, OverLeads
  <2>4. CASE call[c].st # "ringing" /\ ses[c] # "silent"
    <3>1. w = Now
      BY <2>4
    <3> HIDE DEF w
    <3> QED BY <1>3, <3>1
  <2> QED BY <2>1, <2>2, <2>3, <2>4
<1> HIDE DEF w
<1>5. \A a \in Calls : St(Now, a) = "none" => St(w, a) = "none"
  BY <1>3, <1>4
<1> QED BY <1>2, <1>3, <1>4, <1>5, HandlerKeeps

(* The owner has seen a waiting call (markSeen).                            *)
LEMMA MarkSeenKeeps ==
    ASSUME CallsInv, NEW c \in Calls, MarkSeen(c)
    PROVE  Keeping
<1> DEFINE w == [Now EXCEPT !.call = Moved(Now, {c}, "done")]
<1>1. Settles(w, timer, {c}, deciding, {})
  BY DEF MarkSeen
<1>2. /\ Now \in Database /\ Sound(Now, rung \ lost, bound)
      /\ bound \in SUBSET Phones /\ timer \in SUBSET Calls
      /\ deciding \in SUBSET Decision
      /\ fact' = fact /\ St(Now, c) = "waiting"
  BY AtRest, NowIs DEF MarkSeen
<1>3. /\ Sound(w, rung \ lost, bound) /\ Follows(Now, w)
      /\ \A d \in Calls : d # c => St(w, d) = St(Now, d)
  <2>1. w = [Now EXCEPT !.call = Moved(Now, {c}, "done")]
    OBVIOUS
  <2> HIDE DEF w
  <2> QED BY <1>2, <2>1, SeenLeads
<1> HIDE DEF w
<1>4. \A a \in Calls : St(Now, a) = "none" => St(w, a) = "none"
  BY <1>2, <1>3
<1> QED BY <1>1, <1>2, <1>3, <1>4, HandlerKeeps

(* The owner calls a bot: every ring ends first (openOwnerSession).         *)
LEMMA OpenOwnerKeeps ==
    ASSUME CallsInv, OpenOwnerSession
    PROVE  Keeping
<1> DEFINE C == In(Now, {"ringing"})
<1>1. PICK noted : Settles([EndRing(Now, C, noted) EXCEPT !.own = "open"], timer, C,
                           deciding, {"own"})
  BY DEF OpenOwnerSession
<1>2. /\ Now \in Database /\ Sound(Now, rung \ lost, bound)
      /\ bound \in SUBSET Phones /\ timer \in SUBSET Calls
      /\ deciding \in SUBSET Decision
      /\ fact' = fact
  BY AtRest DEF OpenOwnerSession
<1>3. /\ C \in SUBSET Calls /\ \A c \in C : St(Now, c) = "ringing"
      /\ \A c \in Calls : St(Now, c) = "ringing" => c \in C
  BY DEF In, St
<1> HIDE DEF C
<1> DEFINE q == EndRing(Now, C, noted)
           w == [q EXCEPT !.own = "open"]
<1>4. /\ Sound(q, rung \ lost, bound) /\ Follows(Now, q)
      /\ \A c \in Calls : /\ c \in C => St(q, c) = "done"
                          /\ c \notin C => St(q, c) = St(Now, c)
  BY <1>2, <1>3, EndRingLeads
<1> HIDE DEF q
<1>5. \A c \in Calls : St(q, c) # "ringing"
  BY <1>3, <1>4
<1>6. /\ Sound(w, rung \ lost, bound) /\ Follows(q, w)
      /\ \A c \in Calls : St(w, c) = St(q, c)
  BY <1>2, <1>4, <1>5, OwnLeads
<1>7. Settles(w, timer, C, deciding, {"own"})
  BY <1>1 DEF q
<1> HIDE DEF w
<1>8. q \in Database /\ w \in Database
  BY <1>4, <1>6 DEF Sound
<1>9. Follows(Now, w)
  BY <1>2, <1>4, <1>6, <1>8, FollowsChain
<1>10. \A a \in Calls : St(Now, a) = "none" => St(w, a) = "none"
  BY <1>3, <1>4, <1>6
<1> QED BY <1>2, <1>6, <1>7, <1>9, <1>10, HandlerKeeps

(* A session is closed, or traffic ends a silent one (endSession).          *)
LEMMA EndSessionKeeps ==
    ASSUME CallsInv, NEW c \in Calls, EndSession(c)
    PROVE  Keeping
<1> DEFINE w == Over(Now, c)
<1>1. Settles(w, timer, {c}, deciding, {})
  BY DEF EndSession, Over
<1>2. /\ Now \in Database /\ Sound(Now, rung \ lost, bound)
      /\ bound \in SUBSET Phones /\ timer \in SUBSET Calls
      /\ deciding \in SUBSET Decision
      /\ fact' = fact /\ Now.ses[c] \in {"open", "silent"}
  BY AtRest, NowIs DEF EndSession
<1> HIDE DEF w
<1>3. /\ Sound(w, rung \ lost, bound) /\ Follows(Now, w)
      /\ \A d \in Calls : d # c => St(w, d) = St(Now, d)
  BY <1>2, OverLeads DEF w
<1>4. St(Now, c) = "live"
  BY <1>2 DEF Sound, Paired, St
<1>5. \A a \in Calls : St(Now, a) = "none" => St(w, a) = "none"
  BY <1>3, <1>4
<1> QED BY <1>1, <1>2, <1>3, <1>5, HandlerKeeps

(* The owner's own session ends (endOwnerSession).                          *)
LEMMA EndOwnKeeps ==
    ASSUME CallsInv, EndOwnSession
    PROVE  Keeping
<1> DEFINE w == [Now EXCEPT !.own = "none"]
<1>1. Settles(w, timer, {}, deciding, {})
  BY DEF EndOwnSession
<1>2. /\ Now \in Database /\ Sound(Now, rung \ lost, bound)
      /\ bound \in SUBSET Phones /\ timer \in SUBSET Calls
      /\ deciding \in SUBSET Decision
      /\ fact' = fact
  BY AtRest DEF EndOwnSession
<1>3. /\ Sound(w, rung \ lost, bound) /\ Follows(Now, w)
      /\ \A c \in Calls : St(w, c) = St(Now, c)
  BY <1>2, OwnLeads
<1> HIDE DEF w
<1> QED BY <1>1, <1>2, <1>3, HandlerKeeps

(* Everything of a bot ends; switching its calls off takes its marks back   *)
(* (cancelBot, callsOff).                                                   *)
LEMMA CancelBotKeeps ==
    ASSUME CallsInv, NEW b, NEW off, CancelBot(b, off)
    PROVE  Keeping
<1> DEFINE w == Hungup(Now, b)
           ids == {c \in Calls : BotOf[c] = b} \ In(Now, {"none", "done"})
<1>1. /\ fact' = [c \in Calls |->
                     IF off /\ BotOf[c] = b /\ fact[c] \in {"armed", "settled"}
                     THEN "none" ELSE fact[c]]
      /\ Settles(w, timer, ids, deciding, {"stop"})
  BY DEF CancelBot
<1>2. /\ Typed /\ Now \in Database /\ Sound(Now, rung \ lost, bound)
      /\ Unadmitted(fact, Now) /\ fact \in Facts
      /\ bound \in SUBSET Phones /\ timer \in SUBSET Calls
      /\ deciding \in SUBSET Decision
      /\ run \in {"down", "listening", "ready", "fenced"}
  BY AtRest DEF Typed
<1> HIDE DEF w, ids
<1>3. /\ Sound(w, rung \ lost, bound) /\ Follows(Now, w)
      /\ \A c \in Calls : St(Now, c) = "none" => St(w, c) = "none"
  BY <1>2, HungupLeads DEF w
<1>4. fact' \in Facts /\ Unadmitted(fact', Now)
  BY <1>1, <1>2 DEF Facts, Unadmitted
<1>5. Unadmitted(fact', w)
  BY <1>3, <1>4, StillUnadmitted
<1>6. SettlesAs(run, w, timer, ids, deciding, {"stop"})
  BY <1>1 DEF Settles
<1> QED BY <1>2, <1>3, <1>4, <1>5, <1>6, SettlesKeeps

(* Calls that wait or ring are cancelled (cancelCalls).                     *)
LEMMA CancelCallsKeeps ==
    ASSUME CallsInv, NEW C \in SUBSET Calls, CancelCalls(C)
    PROVE  Keeping
<1> DEFINE w == Cancelled(Now, C)
<1>1. Settles(w, timer, C, deciding, {"stop"})
  BY DEF CancelCalls
<1>2. /\ Now \in Database /\ Sound(Now, rung \ lost, bound)
      /\ bound \in SUBSET Phones /\ timer \in SUBSET Calls
      /\ deciding \in SUBSET Decision
      /\ fact' = fact
      /\ \A c \in C : St(Now, c) # "live" /\ St(Now, c) # "none"
  BY AtRest DEF CancelCalls, In, St
<1> HIDE DEF w
<1>3. /\ Sound(w, rung \ lost, bound) /\ Follows(Now, w)
      /\ \A c \in Calls : c \notin C => St(w, c) = St(Now, c)
  BY <1>2, CancelledLeads DEF w
<1>4. \A c \in Calls : St(Now, c) = "none" => St(w, c) = "none"
  BY <1>2, <1>3
<1> QED BY <1>1, <1>2, <1>3, <1>4, HandlerKeeps

(* The calendar's late answer: the call that still asks rings, texts or     *)
(* waits by gates asked again, and any other is left alone (decideAsync).   *)
LEMMA ReturnsKeeps ==
    ASSUME CallsInv, NEW d \in deciding, Returns(d)
    PROVE  Keeping
<1> DEFINE w == Swept(Now)
           rest == deciding \ {d}
           c == d.c
           B == bound
           G == rung \ lost
<1>1. /\ Now \in Database /\ Sound(Now, G, B)
      /\ B \in SUBSET Phones /\ timer \in SUBSET Calls
      /\ rest \in SUBSET Decision
      /\ fact' = fact
      /\ d.c \in Calls /\ d.entry \in {"pending", "waiting"}
  BY AtRest DEF Returns, Decision
<1>2. /\ Sound(w, G, B) /\ Follows(Now, w) /\ Awake(w) /\ w \in Database
      /\ \A a \in Calls : St(Now, a) # "live" => St(w, a) = St(Now, a)
  <2>1. /\ Sound(w, G, B) /\ Follows(Now, w) /\ Awake(w)
        /\ \A a \in Calls : St(Now, a) # "live" => St(w, a) = St(Now, a)
    BY <1>1, SweptLeads
  <2> QED BY <2>1 DEF Sound
<1>3. IF ~StillAsked(w, d) THEN Settles(w, timer, {}, rest, {})
      ELSE \/ /\ MayRing(w)
              /\ \E P \in SUBSET bound : Settles(Ring(w, c, P), timer, {c}, rest, {})
           \/ \E noted \in Notable, v \in {"text", "wait", "fail"} :
                  /\ Allowed(w, {c}, [a \in {c} |-> v])
                  /\ Settles(Ruled(w, {c}, [a \in {c} |-> v], noted), timer,
                             {a \in {c} : v # "fail"}, rest,
                             {o \in {"fail"} : v = "fail"})
  BY Zenon DEF Returns
<1>4. StillAsked(w, d) => St(w, c) \in {"pending", "waiting"}
  BY <1>1 DEF StillAsked, St
<1> HIDE DEF w, rest
<1>5. CASE ~StillAsked(w, d)
  <2>1. \A a \in Calls : St(Now, a) = "none" => St(w, a) = "none"
    BY <1>2
  <2>2. Settles(w, timer, {}, rest, {})
    BY <1>3, <1>5
  <2> QED BY <1>1, <1>2, <2>1, <2>2, HandlerKeeps
<1>6. ASSUME StillAsked(w, d), MayRing(w), NEW P \in SUBSET B,
             Settles(Ring(w, c, P), timer, {c}, rest, {})
      PROVE  Keeping
  <2> DEFINE u == Ring(w, c, P)
  <2>1. /\ Sound(u, G, B) /\ Follows(w, u)
        /\ \A a \in Calls : a # c => St(u, a) = St(w, a)
    BY <1>1, <1>2, <1>4, <1>6, RingLeads
  <2>2. Settles(u, timer, {c}, rest, {})
    BY <1>6
  <2> HIDE DEF u
  <2>3. u \in Database
    BY <2>1 DEF Sound
  <2>4. Follows(Now, u)
    BY <1>1, <1>2, <2>1, <2>3, FollowsChain
  <2>5. \A a \in Calls : St(Now, a) = "none" => St(u, a) = "none"
    BY <1>2, <1>4, <1>6, <2>1
  <2> QED BY <1>1, <2>1, <2>2, <2>4, <2>5, HandlerKeeps
<1>7. ASSUME StillAsked(w, d), NEW noted, NEW v \in {"text", "wait", "fail"},
             Allowed(w, {c}, [a \in {c} |-> v]),
             Settles(Ruled(w, {c}, [a \in {c} |-> v], noted), timer,
                     {a \in {c} : v # "fail"}, rest, {o \in {"fail"} : v = "fail"})
      PROVE  Keeping
  <2> DEFINE f == [a \in {c} |-> v]
             u == Ruled(w, {c}, f, noted)
  <2>1. f \in [{c} -> Verdict]
    BY DEF Verdict
  <2>2. Allowed(w, {c}, f)
    BY <1>7
  <2>3. Settles(u, timer, {a \in {c} : v # "fail"}, rest, {o \in {"fail"} : v = "fail"})
    BY <1>7
  <2> HIDE DEF f
  <2>4. {c} \in SUBSET Calls /\ \A a \in {c} : St(w, a) \in {"pending", "waiting"}
    BY <1>1, <1>4, <1>7
  <2>5. /\ Sound(u, G, B) /\ Follows(w, u)
        /\ \A a \in Calls : a \notin {c} => St(u, a) = St(w, a)
    BY <1>1, <1>2, <2>1, <2>2, <2>4, RuledLeads
  <2> HIDE DEF u
  <2>6. u \in Database
    BY <2>5 DEF Sound
  <2>7. Follows(Now, u)
    BY <1>1, <1>2, <2>5, <2>6, FollowsChain
  <2>8. \A a \in Calls : St(Now, a) = "none" => St(u, a) = "none"
    BY <1>2, <2>4, <2>5
  <2> QED BY <1>1, <2>3, <2>5, <2>7, <2>8, HandlerKeeps
<1> QED BY <1>3, <1>5, <1>6, <1>7

(* The sweep: silent sessions end, lost timers are made up for, owed facts  *)
(* are drained (sweep).                                                     *)
LEMMA SweepKeeps ==
    ASSUME CallsInv, Sweep
    PROVE  Keeping
<1> DEFINE w == Swept(Now)
           ended == {c \in Calls : ses[c] = "silent"}
           L == Untimed(w)
           B == bound
           G == rung \ lost
           rang(E) == E \cap In(w, {"ringing"})
<1>1. PICK E, X, N, noted :
          /\ E \in SUBSET L /\ X \in SUBSET Owed /\ N \in SUBSET X
          /\ fact' = Taken(fact, X)
          /\ Decides(Drained(EndRing(w, rang(E), noted), X, N), timer,
                     ended \cup rang(E), N \cup (E \ rang(E)), noted,
                     {o \in {"fail"} : E # L \/ X # Owed})
  BY Zenon DEF Sweep
<1>2. /\ Now \in Database /\ Sound(Now, G, B)
      /\ Unadmitted(fact, Now) /\ fact \in Facts
      /\ B \in SUBSET Phones /\ timer \in SUBSET Calls
      /\ run \in {"down", "listening", "ready", "fenced"}
  BY AtRest DEF Typed
<1>3. /\ Sound(w, G, B) /\ Follows(Now, w)
      /\ \A a \in Calls : St(Now, a) # "live" => St(w, a) = St(Now, a)
  BY <1>2, SweptLeads
<1>4. \A c \in E : c \in Calls /\ St(w, c) \in {"waiting", "ringing"}
  BY <1>1 DEF Untimed, In, St
<1>5. /\ rang(E) \in SUBSET Calls /\ \A c \in rang(E) : St(w, c) = "ringing"
      /\ \A c \in E \ rang(E) : c \in Calls /\ St(w, c) = "waiting"
  BY <1>4 DEF In, St
<1> DEFINE R == rang(E)
           s == EndRing(w, R, noted)
           u == Drained(s, X, N)
<1>6. Decides(u, timer, ended \cup R, N \cup (E \ R), noted,
              {o \in {"fail"} : E # L \/ X # Owed})
  BY <1>1, Zenon
<1>7. R \in SUBSET Calls /\ \A c \in R : St(w, c) = "ringing"
  BY <1>5
<1>8. \A c \in E \ R : c \in Calls /\ St(w, c) = "waiting"
  BY <1>5
<1> HIDE DEF w, L, R, ended
<1>9. /\ Sound(s, G, B) /\ Follows(w, s)
      /\ \A c \in Calls : /\ c \in R => St(s, c) = "done"
                          /\ c \notin R => St(s, c) = St(w, c)
  BY <1>2, <1>3, <1>7, EndRingLeads
<1> HIDE DEF s
<1>10. /\ Sound(u, G, B) /\ Follows(s, u) /\ Admits(s, u, N)
  BY <1>2, <1>9, DrainedLeads
<1> HIDE DEF u
<1>11. w \in Database /\ s \in Database /\ u \in Database
  BY <1>3, <1>9, <1>10 DEF Sound
<1>12. Follows(Now, u)
  <2>1. Follows(Now, s)
    BY <1>2, <1>3, <1>9, <1>11, FollowsChain
  <2> QED BY <1>2, <1>10, <1>11, <2>1, FollowsChain
<1>13. \A c \in Calls : St(Now, c) = "none" => St(s, c) = "none"
  BY <1>3, <1>7, <1>9
<1>14. fact' \in Facts /\ Unadmitted(fact', u)
  <2>1. Unadmitted(fact, s)
    BY <1>2, <1>13, StillUnadmitted
  <2>2. N \in SUBSET X /\ fact' = Taken(fact, X)
    BY <1>1
  <2> QED BY <1>2, <1>10, <2>1, <2>2, DrainAgrees
<1>15. /\ N \cup (E \ R) \in SUBSET Calls
       /\ \A c \in N \cup (E \ R) : St(u, c) \in {"pending", "waiting"}
  <2>1. \A c \in N : c \in Calls /\ St(Now, c) = "none"
    <3>1. \A c \in N : c \in Calls /\ fact[c] # "taken"
      BY <1>1 DEF Owed
    <3> QED BY <3>1, <1>2 DEF Unadmitted, St
  <2>2. \A c \in N : St(u, c) = "pending"
    BY <2>1, <1>10, <1>13 DEF Admits
  <2>3. \A c \in E \ R : St(s, c) = "waiting"
    BY <1>8, <1>9
  <2>4. \A c \in E \ R : St(u, c) = "waiting"
    BY <1>8, <1>10, <2>3 DEF Admits
  <2> QED BY <1>8, <2>1, <2>2, <2>4
<1>16. DecidesAs(run, u, timer, ended \cup R, N \cup (E \ R), noted,
                 {o \in {"fail"} : E # L \/ X # Owed})
  BY <1>6 DEF Decides
<1> QED BY <1>2, <1>10, <1>12, <1>14, <1>15, <1>16, DecidesKeeps

(* The boot: grace, the drain, the walk and its decisions (bootBotCalls).   *)
LEMMA BootKeeps ==
    ASSUME CallsInv, Boot
    PROVE  Keeping
<1> DEFINE settled == [c \in Calls |-> IF fact[c] = "armed" THEN "settled" ELSE fact[c]]
           all == {c \in Calls : settled[c] \in {"settled", "owed"}}
           g == Graced(Now)
           B == bound
           G == rung \ lost
<1>1. PICK H, X, N, noted :
          /\ H \in SUBSET all /\ X \in SUBSET Calls /\ N \in SUBSET H
          /\ LET w == Drained(g, H, N)
                 q == Walked(w, X, noted)
                 ready == X = Calls
                 ended == In(w, {"waiting", "ringing"}) \cap In(q, {"done"})
             IN  /\ fact' = Taken(settled, H)
                 /\ DecidesAs(IF ready THEN "ready" ELSE "fenced", q,
                              IF ready THEN In(q, {"waiting"}) ELSE {},
                              IF ready THEN ended ELSE {},
                              IF ready THEN In(q, {"pending"}) ELSE {},
                              noted, {o \in {"fail"} : ~ready \/ H # all})
  BY ZenonT(40) DEF Boot
<1> DEFINE w == Drained(g, H, N)
           q == Walked(w, X, noted)
           r == IF X = Calls THEN "ready" ELSE "fenced"
           T == IF X = Calls THEN In(q, {"waiting"}) ELSE {}
           S == IF X = Calls
                THEN In(w, {"waiting", "ringing"}) \cap In(q, {"done"}) ELSE {}
           A == IF X = Calls THEN In(q, {"pending"}) ELSE {}
           O == {o \in {"fail"} : ~(X = Calls) \/ H # all}
<1>2. fact' = Taken(settled, H) /\ DecidesAs(r, q, T, S, A, noted, O)
  BY <1>1, Zenon
<1>3. /\ Now \in Database /\ Sound(Now, G, B)
      /\ Unadmitted(fact, Now) /\ fact \in Facts
      /\ B \in SUBSET Phones
  BY AtRest DEF Typed
<1>4. settled \in Facts /\ Unadmitted(settled, Now)
  BY <1>3 DEF Facts, Unadmitted
<1>5. r \in {"down", "listening", "ready", "fenced"}
  OBVIOUS
<1>6. T \in SUBSET Calls /\ A \in SUBSET Calls
  BY DEF In
<1>7. \A c \in A : St(q, c) \in {"pending", "waiting"}
  BY DEF In, St
<1> HIDE DEF r, T, S, A, O, settled, all
<1>8. /\ Sound(g, G, B) /\ Follows(Now, g)
      /\ \A c \in Calls : St(g, c) = St(Now, c)
  BY <1>3, GracedLeads
<1> HIDE DEF g
<1>9. /\ Sound(w, G, B) /\ Follows(g, w) /\ Admits(g, w, N)
  BY <1>3, <1>8, DrainedLeads
<1> HIDE DEF w
<1>10. /\ Sound(q, G, B) /\ Follows(w, q)
       /\ \A c \in Calls : St(w, c) = "none" => St(q, c) = "none"
  <2>1. X \in SUBSET Calls
    BY <1>1
  <2> QED BY <2>1, <1>3, <1>9, WalkedLeads
<1> HIDE DEF q
<1>11. g \in Database /\ w \in Database /\ q \in Database
  BY <1>8, <1>9, <1>10 DEF Sound
<1>12. Follows(Now, q)
  <2>1. Follows(Now, w)
    BY <1>3, <1>8, <1>9, <1>11, FollowsChain
  <2> QED BY <1>3, <1>10, <1>11, <2>1, FollowsChain
<1>13. fact' \in Facts /\ Unadmitted(fact', q)
  <2>1. Unadmitted(settled, g)
    BY <1>4, <1>8, StillUnadmitted
  <2>2. N \in SUBSET H
    BY <1>1
  <2>3. fact' \in Facts /\ Unadmitted(fact', w)
    BY <1>2, <1>4, <1>9, <2>1, <2>2, DrainAgrees
  <2> QED BY <1>10, <2>3, StillUnadmitted
<1> QED BY <1>2, <1>5, <1>6, <1>7, <1>10, <1>12, <1>13, DecidesKeeps
-----------------------------------------------------------------------------
(* The other actions *)

(* A step that changes neither the rows nor where the calls are keeps all,  *)
(* if what it does to sessions keeps the database sound.                    *)
LEMMA QuietKeeps ==
    ASSUME CallsInv, Typed', Unadmitted(fact', Now'),
           Sound(Now', rung' \ lost', bound'),
           \A c \in Calls : call'[c].st = call[c].st,
           \A k \in Keys : row[k].st \in Spent => row'[k] \in {row[k], NoRow},
           wire' \subseteq wire
    PROVE  Keeping
<1>1. \A c \in Calls : Rank[call[c].st] \in Nat
  BY AtRest, NowIs DEF Rank, Call, State
<1> QED BY <1>1 DEF Keeping, CallsInv, Forwards, InTime, Stays

(* "Call me when this finishes" arms the fact of a new call (markTurnCall). *)
LEMMA MarkKeeps ==
    ASSUME CallsInv, NEW c \in Calls, MarkTurnCall(c)
    PROVE  Keeping
<1>1. /\ fact[c] = "none" /\ fact' = [fact EXCEPT ![c] = "armed"]
      /\ UNCHANGED <<run, call, ses, own, row, bound, timer, deciding, wire, batch,
                     rung, lost, spent>>
  BY DEF MarkTurnCall, memory
<1>2. Typed /\ Sound(Now, rung \ lost, bound) /\ Unadmitted(fact, Now)
  BY AtRest
<1>3. Now' = Now
  BY <1>1 DEF Now
<1>4. Typed'
  BY <1>1, <1>2 DEF Typed, Facts
<1>5. Unadmitted(fact', Now')
  BY <1>1, <1>2, <1>3 DEF Unadmitted, Typed, Facts
<1>6. Sound(Now', rung' \ lost', bound')
  BY <1>1, <1>2, <1>3
<1>7. \A k \in Keys : row[k].st \in Spent => row'[k] \in {row[k], NoRow}
  BY <1>1
<1> QED BY <1>1, <1>4, <1>5, <1>6, <1>7, QuietKeeps

(* A deadline passes.                                                       *)
LEMMA TimePassesKeeps ==
    ASSUME CallsInv, NEW c \in Calls, TimePasses(c)
    PROVE  Keeping
<1>1. /\ call' = [call EXCEPT ![c].due = TRUE]
      /\ UNCHANGED <<run, ses, own, fact, row, bound, timer, deciding, wire, batch,
                     rung, lost, spent>>
  BY DEF TimePasses, memory
<1>2. /\ Typed /\ Sound(Now, rung \ lost, bound) /\ Unadmitted(fact, Now)
      /\ Now \in Database /\ call \in [Calls -> Call]
  BY AtRest, NowIs
<1>3. call' \in [Calls -> Call] /\ \A d \in Calls : call'[d].st = call[d].st
  BY <1>1, <1>2 DEF Call
<1>4. Now' \in Database
  BY <1>1, <1>2, <1>3, NowIs
<1>5. /\ \A d \in Calls : (Now').call[d].st = Now.call[d].st
      /\ (Now').own = Now.own /\ (Now').row = Now.row /\ (Now').ses = Now.ses
  BY <1>1, <1>3, NowIs
<1>6. Paired(Now') /\ Told(Now', rung' \ lost', bound')
  BY <1>1, <1>2, <1>5 DEF Sound, Paired, Told
<1>7. Sound(Now', rung' \ lost', bound')
  BY <1>2, <1>4, <1>5, <1>6, StillSound
<1>8. Typed' /\ Unadmitted(fact', Now')
  BY <1>1, <1>2, <1>5 DEF Typed, Unadmitted
<1>9. \A k \in Keys : row[k].st \in Spent => row'[k] \in {row[k], NoRow}
  BY <1>1
<1> QED BY <1>1, <1>3, <1>7, <1>8, <1>9, QuietKeeps

(* A session falls silent: its call is still live.                          *)
LEMMA FallsSilentKeeps ==
    ASSUME CallsInv, FallsSilent
    PROVE  Keeping
<1>1. /\ UNCHANGED <<run, call, fact, row, bound, timer, deciding, wire, batch,
                     rung, lost, spent>>
      /\ \/ own = "open" /\ own' = "silent" /\ ses' = ses
         \/ /\ own' = own
            /\ \E c \in Calls : ses[c] = "open" /\ ses' = [ses EXCEPT ![c] = "silent"]
  BY DEF FallsSilent, memory
<1>2. /\ Typed /\ Sound(Now, rung \ lost, bound) /\ Unadmitted(fact, Now)
      /\ ses \in [Calls -> {"none", "open", "silent", "ended"}]
      /\ Now \in Database
  BY AtRest, NowIs
<1>3. /\ ses' \in [Calls -> {"none", "open", "silent", "ended"}]
      /\ \A c \in Calls : ses'[c] \in {"open", "silent"} <=> ses[c] \in {"open", "silent"}
      /\ own = "none" => own' = "none"
  BY <1>1, <1>2
<1>4. Now' \in Database
  BY <1>1, <1>2, <1>3, NowIs
<1>5. /\ (Now').call = Now.call /\ (Now').row = Now.row
      /\ Now.own = "none" => (Now').own = "none"
      /\ \A c \in Calls : (Now').ses[c] \in {"open", "silent"}
                              <=> Now.ses[c] \in {"open", "silent"}
  BY <1>1, <1>3, NowIs
<1>6. Paired(Now') /\ Told(Now', rung' \ lost', bound')
  BY <1>1, <1>2, <1>5 DEF Sound, Paired, Told
<1>7. Sound(Now', rung' \ lost', bound')
  BY <1>2, <1>4, <1>5, <1>6, StillSound
<1>8. Typed' /\ Unadmitted(fact', Now')
  BY <1>1, <1>2, <1>5 DEF Typed, Unadmitted
<1>9. \A k \in Keys : row[k].st \in Spent => row'[k] \in {row[k], NoRow}
  BY <1>1
<1> QED BY <1>1, <1>7, <1>8, <1>9, QuietKeeps

(* A step that leaves the database, the facts, the phones and who rang      *)
(* alone keeps the invariant if it keeps the types and sends nothing.       *)
LEMMA IdleKeeps ==
    ASSUME CallsInv, Typed', wire' \subseteq wire,
           UNCHANGED <<call, ses, own, fact, row, bound, rung, lost>>
    PROVE  Keeping
<1>1. Now' = Now
  BY DEF Now
<1>2. Sound(Now, rung \ lost, bound) /\ Unadmitted(fact, Now)
  BY AtRest
<1>3. Sound(Now', rung' \ lost', bound') /\ Unadmitted(fact', Now')
  BY <1>1, <1>2 DEF Unadmitted
<1> QED BY <1>3, QuietKeeps

(* A timer is lost: the sweep will make up for it.                          *)
LEMMA TimerLostKeeps ==
    ASSUME CallsInv, NEW c \in Calls, TimerLost(c)
    PROVE  Keeping
<1>1. /\ timer' = timer \ {c} /\ Spends({"fail"})
      /\ UNCHANGED <<run, call, ses, own, fact, row, bound, deciding, wire, batch,
                     rung, lost>>
  BY DEF TimerLost
<1>2. Typed
  BY AtRest
<1>3. spent' \in [Odd -> Nat]
  BY <1>1, <1>2, SpendsIs
<1>4. Typed'
  BY <1>1, <1>2, <1>3 DEF Typed
<1> QED BY <1>1, <1>4, IdleKeeps

(* The process ends: what was on the wire is forgotten, the rest is kept.   *)
LEMMA CrashKeeps ==
    ASSUME CallsInv, Crash
    PROVE  Keeping
<1>1. /\ Spends({"crash"})
      /\ UNCHANGED <<call, ses, own, fact, row, bound, rung, lost>>
      /\ run' = "down" /\ timer' = {} /\ deciding' = {} /\ wire' = {} /\ batch' = {}
  BY DEF Crash, Dies
<1>2. Typed
  BY AtRest
<1>3. spent' \in [Odd -> Nat]
  BY <1>1, <1>2, SpendsIs
<1>4. Typed'
  BY <1>1, <1>2, <1>3 DEF Typed
<1>5. wire' \subseteq wire
  BY <1>1
<1> QED BY <1>1, <1>4, <1>5, IdleKeeps

(* The port opens.                                                          *)
LEMMA ListensKeeps ==
    ASSUME CallsInv, Listens
    PROVE  Keeping
<1>1. /\ run' = "listening"
      /\ UNCHANGED <<call, ses, own, fact, row, bound, timer, deciding, wire, batch,
                     rung, lost, spent>>
  BY DEF Listens, memory
<1>2. Typed
  BY AtRest
<1>3. Typed' /\ wire' \subseteq wire
  BY <1>1, <1>2 DEF Typed
<1> QED BY <1>1, <1>3, IdleKeeps

(* Nothing happens.                                                         *)
LEMMA StutterKeeps ==
    ASSUME CallsInv, UNCHANGED vars
    PROVE  Keeping
<1>1. UNCHANGED <<run, call, ses, own, fact, row, bound, timer, deciding, wire, batch,
                  rung, lost, spent>>
  BY DEF vars
<1>2. Typed
  BY AtRest
<1>3. Typed' /\ wire' \subseteq wire
  BY <1>1, <1>2 DEF Typed
<1> QED BY <1>1, <1>3, IdleKeeps
-----------------------------------------------------------------------------
(* The outbox *)

(* A step of the outbox, which touches rows only: it keeps the invariant if *)
(* no row comes but clearings, and who rang is still told.                  *)
LEMMA OutboxKeeps ==
    ASSUME CallsInv, Typed', UNCHANGED <<call, ses, own, fact>>,
           row' \in Rows,
           \A k \in Keys : row'[k] # NoRow => row[k] # NoRow \/ k[3] = "clear",
           \A k \in Keys : row[k].st \in Spent => row'[k] \in {row[k], NoRow},
           Told(Now', rung' \ lost', bound'),
           InTime
    PROVE  Keeping
<1>1. /\ Sound(Now, rung \ lost, bound) /\ Unadmitted(fact, Now)
      /\ Now \in Database /\ call \in [Calls -> Call]
      /\ ses \in [Calls -> {"none", "open", "silent", "ended"}]
      /\ own \in {"none", "open", "silent"}
  BY AtRest, NowIs
<1>2. Now' \in Database
  BY <1>1, NowIs
<1>3. /\ (Now').call = Now.call /\ (Now').ses = Now.ses /\ (Now').own = Now.own
      /\ \A k \in Keys : (Now').row[k] # NoRow => Now.row[k] # NoRow \/ k[3] = "clear"
  BY NowIs
<1>4. Paired(Now')
  BY <1>1, <1>3 DEF Sound, Paired
<1>5. Sound(Now', rung' \ lost', bound')
  BY <1>1, <1>2, <1>3, <1>4, StillSound
<1>6. Unadmitted(fact', Now')
  BY <1>1, <1>3 DEF Unadmitted
<1>7. Forwards
  <2>1. \A c \in Calls : Rank[call[c].st] \in Nat
    BY <1>1 DEF Rank, Call, State
  <2> QED BY <2>1 DEF Forwards
<1> QED BY <1>5, <1>6, <1>7 DEF Keeping, CallsInv, Stays

(* A flush prunes the rings that expired: whom it leaves without, lost says *)
(* (run, pruneExpired).                                                     *)
LEMMA FlushStartsKeeps ==
    ASSUME CallsInv, FlushStarts
    PROVE  Keeping
<1> DEFINE dead == Expired(row, {c \in Calls : call[c].due})
           left == Without(row, dead)
           gone == {<<k[1], k[2]>> : k \in {x \in dead : call[x[2]].st = "ringing"}}
<1>1. /\ row' = left
      /\ batch' = {[k |-> k, tries |-> left[k].tries] : k \in Pending(left)}
      /\ lost' = lost \cup gone
      /\ UNCHANGED <<run, call, ses, own, fact, bound, timer, deciding, wire,
                     rung, spent>>
  BY Zenon DEF FlushStarts
<1>2. /\ Typed /\ Told(Now, rung \ lost, bound) /\ row \in Rows
  BY AtRest, NowIs DEF Sound
<1>3. /\ left \in Rows
      /\ \A k \in Keys : left[k] = IF k \in dead THEN NoRow ELSE row[k]
  BY <1>2, WithoutIs
<1>4. \A k \in dead : k \in Keys /\ k[3] = "ring"
  BY DEF Expired
<1> HIDE DEF dead, left
<1>5. gone \subseteq Phones \X Calls
  BY <1>4, KeyParts
<1>6. \A k \in dead : call[k[2]].st = "ringing" => <<k[1], k[2]>> \in gone
  OBVIOUS
<1> HIDE DEF gone
<1>7. batch' \subseteq [k : Keys, tries : Nat]
  <2>1. \A k \in Keys : left[k].tries \in Nat
    BY <1>3 DEF Rows, Row
  <2>2. \A k \in Pending(left) : k \in Keys
    BY DEF Pending
  <2> QED BY <1>1, <2>1, <2>2
<1>8. Typed'
  BY <1>1, <1>2, <1>5, <1>7 DEF Typed
<1>9. Told(Now', rung' \ lost', bound')
  <2> SUFFICES ASSUME NEW p \in bound, NEW c \in Calls, <<p, c>> \in rung \ lost'
               PROVE  IF call[c].st = "ringing" THEN MayHaveRung(row', p, c)
                      ELSE row'[<<p, c, "stop">>] # NoRow
    BY <1>1, NowIs DEF Told
  <2>1. /\ p \in Phones /\ <<p, c>> \in rung \ lost /\ <<p, c>> \notin gone
    BY <1>1, <1>2 DEF Typed
  <2>2. IF call[c].st = "ringing" THEN MayHaveRung(row, p, c)
        ELSE row[<<p, c, "stop">>] # NoRow
    BY <1>2, <2>1, NowIs DEF Told
  <2>3. CASE call[c].st = "ringing"
    <3>1. /\ <<p, c, "ring">> \in Keys
          /\ <<p, c, "ring">>[1] = p /\ <<p, c, "ring">>[2] = c
      BY <2>1, KeyParts
    <3>2. <<p, c, "ring">> \notin dead
      BY <1>6, <2>1, <2>3, <3>1
    <3>3. row'[<<p, c, "ring">>] = row[<<p, c, "ring">>]
      BY <1>1, <1>3, <3>1, <3>2
    <3> QED BY <2>2, <2>3, <3>3 DEF MayHaveRung
  <2>4. CASE call[c].st # "ringing"
    <3>1. <<p, c, "stop">> \in Keys /\ <<p, c, "stop">>[3] = "stop"
      BY <2>1, KeyParts
    <3>2. row'[<<p, c, "stop">>] = row[<<p, c, "stop">>]
      BY <1>1, <1>3, <1>4, <3>1
    <3> QED BY <2>2, <2>4, <3>2
  <2> QED BY <2>3, <2>4
<1>10. InTime
  BY <1>1 DEF InTime
<1>11. /\ UNCHANGED <<call, ses, own, fact>> /\ row' \in Rows
       /\ \A k \in Keys : row'[k] \in {row[k], NoRow}
  BY <1>1, <1>3
<1> QED BY <1>8, <1>9, <1>10, <1>11, OutboxKeeps

(* A row of the list is claimed and sent, or passed over (attempt).         *)
LEMMA FlushNextKeeps ==
    ASSUME CallsInv, NEW k \in Keys, FlushNext(k)
    PROVE  Keeping
<1>1. PICK b \in batch :
          /\ batch' = batch \ {b}
          /\ IF k \notin wire /\ Claimable(row, k, b.tries)
             THEN run' = run /\ Sends(call, row, {k})
             ELSE UNCHANGED <<run, row, wire, rung>>
          /\ UNCHANGED <<call, ses, own, fact, bound, timer, deciding, lost, spent>>
  BY DEF FlushNext
<1>2. Typed /\ Told(Now, rung \ lost, bound) /\ row \in Rows
  BY AtRest, NowIs DEF Sound
<1>3. CASE k \notin wire /\ Claimable(row, k, b.tries)
  <2>1. {k} \in SUBSET Pending(row)
    BY <1>3 DEF Claimable, Pending
  <2>2. run' = run /\ Sends(call, row, {k})
    BY <1>1, <1>3
  <2>3. /\ row' \in Rows /\ wire' \subseteq Keys /\ rung' \subseteq Phones \X Calls
        /\ Keeps(row, row')
        /\ \A x \in Keys : row[x] = NoRow <=> row'[x] = NoRow
        /\ \A p \in Phones, c \in Calls :
               /\ MayHaveRung(row, p, c) => MayHaveRung(row', p, c)
               /\ <<p, c>> \in rung' \ rung =>
                      call[c].st = "ringing" /\ MayHaveRung(row', p, c)
        /\ \A x \in wire' \ wire : x[3] = "ring" =>
               run' = "ready" /\ call[x[2]].st = "ringing" /\ ~call[x[2]].due
    BY <1>2, <2>1, <2>2, SendsIs
  <2>4. Typed'
    BY <1>1, <1>2, <2>2, <2>3 DEF Typed
  <2>5. Told(Now', rung' \ lost', bound')
    <3> SUFFICES ASSUME NEW p \in bound, NEW c \in Calls, <<p, c>> \in rung' \ lost
                 PROVE  IF call[c].st = "ringing" THEN MayHaveRung(row', p, c)
                        ELSE row'[<<p, c, "stop">>] # NoRow
      BY <1>1, NowIs DEF Told
    <3>1. p \in Phones
      BY <1>2 DEF Typed
    <3>2. CASE <<p, c>> \in rung
      <4>1. IF call[c].st = "ringing" THEN MayHaveRung(row, p, c)
            ELSE row[<<p, c, "stop">>] # NoRow
        BY <1>2, <3>2, NowIs DEF Told
      <4> QED BY <2>3, <3>1, <4>1, KeyParts
    <3>3. CASE <<p, c>> \notin rung
      BY <2>3, <3>1, <3>3
    <3> QED BY <3>2, <3>3
  <2>6. InTime
    BY <1>1, <2>3 DEF InTime
  <2> QED BY <1>1, <2>3, <2>4, <2>5, <2>6, OutboxKeeps DEF Keeps
<1>4. CASE ~(k \notin wire /\ Claimable(row, k, b.tries))
  <2>1. UNCHANGED <<run, row, wire, rung>>
    BY <1>1, <1>4
  <2>2. Typed'
    BY <1>1, <1>2, <2>1 DEF Typed
  <2> QED BY <1>1, <2>1, <2>2, IdleKeeps
<1> QED BY <1>3, <1>4

(* The relay answers, perhaps late, or is to be asked again.                *)
LEMMA RelayAnswersKeeps ==
    ASSUME CallsInv, NEW k \in Keys, RelayAnswers(k)
    PROVE  Keeping
<1>1. /\ wire' = wire \ {k}
      /\ \/ row' \in {Accepted(row, k), Rejected(row, k)} /\ spent' = spent
         \/ row' = row /\ Spends({"fail"})
      /\ UNCHANGED <<run, call, ses, own, fact, bound, timer, deciding, batch,
                     rung, lost>>
  BY DEF RelayAnswers
<1>2. Typed /\ Told(Now, rung \ lost, bound) /\ row \in Rows
  BY AtRest, NowIs DEF Sound
<1>3. spent' \in [Odd -> Nat]
  BY <1>1, <1>2, SpendsIs DEF Typed
<1>4. Typed'
  BY <1>1, <1>2, <1>3 DEF Typed
<1>5. CASE row' = row
  BY <1>1, <1>4, <1>5, IdleKeeps
<1>6. CASE row' \in {Accepted(row, k), Rejected(row, k)}
  <2>1. /\ row' \in Rows
        /\ Keeps(row, row')
        /\ \A x \in Keys : x[3] # "clear" => (row[x] = NoRow <=> row'[x] = NoRow)
        /\ \A p \in Phones, c \in Calls :
               MayHaveRung(row, p, c) => MayHaveRung(row', p, c)
    BY <1>2, <1>6, AnsweredIs
  <2>2. Told(Now', rung' \ lost', bound')
    <3> SUFFICES ASSUME NEW p \in bound, NEW c \in Calls, <<p, c>> \in rung \ lost
                 PROVE  IF call[c].st = "ringing" THEN MayHaveRung(row', p, c)
                        ELSE row'[<<p, c, "stop">>] # NoRow
      BY <1>1, NowIs DEF Told
    <3>1. p \in Phones
      BY <1>2 DEF Typed
    <3>2. IF call[c].st = "ringing" THEN MayHaveRung(row, p, c)
          ELSE row[<<p, c, "stop">>] # NoRow
      BY <1>2, NowIs DEF Told
    <3> QED BY <2>1, <3>1, <3>2, KeyParts
  <2>3. InTime
    BY <1>1 DEF InTime
  <2> QED BY <1>1, <1>4, <2>1, <2>2, <2>3, OutboxKeeps DEF Keeps
<1> QED BY <1>1, <1>5, <1>6

(* A phone is removed: it is owed nothing any more.                         *)
LEMMA RemoveBindingKeeps ==
    ASSUME CallsInv, NEW p \in Phones, RemoveBinding(p)
    PROVE  Keeping
<1> DEFINE dead == {k \in Keys : k[1] = p}
<1>1. /\ bound' = bound \ {p}
      /\ row' = Without(row, dead)
      /\ UNCHANGED <<run, call, ses, own, fact, timer, deciding, wire, batch,
                     rung, lost, spent>>
  BY DEF RemoveBinding, memory
<1>2. Typed /\ Told(Now, rung \ lost, bound) /\ row \in Rows
  BY AtRest, NowIs DEF Sound
<1>3. /\ row' \in Rows
      /\ \A k \in Keys : row'[k] = IF k[1] = p THEN NoRow ELSE row[k]
  BY <1>1, <1>2, WithoutIs
<1>4. Typed' /\ InTime
  BY <1>1, <1>2 DEF Typed, InTime
<1>5. Told(Now', rung' \ lost', bound')
  <2> SUFFICES ASSUME NEW q \in bound', NEW c \in Calls, <<q, c>> \in rung \ lost
               PROVE  IF call[c].st = "ringing" THEN MayHaveRung(row', q, c)
                      ELSE row'[<<q, c, "stop">>] # NoRow
    BY <1>1, NowIs DEF Told
  <2>1. q \in bound /\ q \in Phones /\ q # p
    BY <1>1, <1>2 DEF Typed
  <2>2. IF call[c].st = "ringing" THEN MayHaveRung(row, q, c)
        ELSE row[<<q, c, "stop">>] # NoRow
    BY <1>2, <2>1, NowIs DEF Told
  <2>3. \A j \in Kind : row'[<<q, c, j>>] = row[<<q, c, j>>]
    BY <1>3, <2>1, KeyParts
  <2> QED BY <2>2, <2>3, KeyParts DEF MayHaveRung
<1> QED BY <1>1, <1>3, <1>4, <1>5, OutboxKeeps
-----------------------------------------------------------------------------
(* The theorems *)

(* A database with no calls, facts or rows satisfies the invariant.         *)
LEMMA CallsInvInit == Init => CallsInv
<1> SUFFICES ASSUME Init PROVE CallsInv
  OBVIOUS
<1>1. /\ run = "listening"
      /\ call = [c \in Calls |-> [st |-> "none", gen |-> 0, due |-> FALSE]]
      /\ ses = [c \in Calls |-> "none"] /\ own = "none"
      /\ fact = [c \in Calls |-> "none"] /\ row = [k \in Keys |-> NoRow]
      /\ bound = Phones /\ timer = {} /\ deciding = {} /\ wire = {} /\ batch = {}
      /\ rung = {} /\ lost = {} /\ spent = [o \in Odd |-> 0]
  BY DEF Init
<1>2. Typed
  BY <1>1 DEF Typed, Facts
<1>3. Now \in Database
  BY <1>1, NowIs, FreshRow DEF Call, State, Rows
<1>4. \A c \in Calls : Now.call[c].st = "none" /\ Now.ses[c] = "none"
  BY <1>1, NowIs
<1>5. /\ Solo(Now) /\ Paired(Now) /\ Hushed(Now)
      /\ Told(Now, rung \ lost, bound)
  BY <1>1, <1>4 DEF Solo, Busy, Paired, Hushed, Told
<1>6. InOrder(Now)
  BY <1>1, NowIs DEF InOrder
<1>7. Unadmitted(fact, Now)
  BY <1>4 DEF Unadmitted
<1> QED BY <1>2, <1>3, <1>5, <1>6, <1>7 DEF CallsInv, Sound

(* Every step keeps the invariant, and what a step promises.                *)
LEMMA CallsInvNext == CallsInv /\ [Next]_vars => Keeping
<1> SUFFICES ASSUME CallsInv, [Next]_vars PROVE Keeping
  OBVIOUS
<1>1. ASSUME NEW c \in Calls,
             \/ MarkTurnCall(c) \/ Owes(c) \/ Tells(c)
             \/ TimePasses(c) \/ TimerFires(c) \/ TimerLost(c)
             \/ AnswerCall(c) \/ DeclineCall(c) \/ MarkSeen(c) \/ EndSession(c)
      PROVE  Keeping
  BY <1>1, MarkKeeps, OwesKeeps, TellsKeeps, TimePassesKeeps, TimerFiresKeeps,
     TimerLostKeeps, AnswerKeeps, DeclineKeeps, MarkSeenKeeps, EndSessionKeeps
<1>2. ASSUME NEW d \in deciding, Returns(d)
      PROVE  Keeping
  BY <1>2, ReturnsKeeps
<1>3. ASSUME FallsSilent \/ Sweep \/ OpenOwnerSession \/ EndOwnSession
      PROVE  Keeping
  BY <1>3, FallsSilentKeeps, SweepKeeps, OpenOwnerKeeps, EndOwnKeeps
<1>4. ASSUME NEW b \in Bots, NEW off \in BOOLEAN, CancelBot(b, off)
      PROVE  Keeping
  BY <1>4, CancelBotKeeps
<1>5. ASSUME NEW C \in SUBSET Calls, CancelCalls(C)
      PROVE  Keeping
  BY <1>5, CancelCallsKeeps
<1>6. ASSUME NEW k \in Keys, FlushNext(k) \/ RelayAnswers(k)
      PROVE  Keeping
  BY <1>6, FlushNextKeeps, RelayAnswersKeeps
<1>7. ASSUME NEW p \in Phones, RemoveBinding(p)
      PROVE  Keeping
  BY <1>7, RemoveBindingKeeps
<1>8. ASSUME FlushStarts \/ Crash \/ Listens \/ Boot
      PROVE  Keeping
  BY <1>8, FlushStartsKeeps, CrashKeeps, ListensKeeps, BootKeeps
<1>9. CASE UNCHANGED vars
  BY <1>9, StutterKeeps
<1>10. CASE Next
  BY <1>1, <1>2, <1>3, <1>4, <1>5, <1>6, <1>7, <1>8, <1>10 DEF Next
<1> QED BY <1>9, <1>10

(* The invariant holds of every state (bot-calls-machine.ts).               *)
LEMMA CallsInvAlways == Spec => []CallsInv
<1>1. CallsInv /\ [Next]_vars => CallsInv'
  BY CallsInvNext DEF Keeping
<1> QED BY <1>1, CallsInvInit, PTL DEF Spec

(* Types: every value a handler commits is one its table allows.            *)
THEOREM CallTypesHold == Spec => []TypeOK
<1>1. CallsInv => TypeOK
  BY AtRest, NowIs DEF Typed, Facts, Rows, TypeOK
<1> QED BY <1>1, CallsInvAlways, PTL

(* A call is live exactly while its session has not ended, however many     *)
(* calls and bots there are (finishLive, sweepExpired, answer).             *)
THEOREM LiveWithSession == Spec => []LiveHasSession
<1>1. CallsInv => LiveHasSession
  BY AtRest, NowIs DEF Sound, Paired, LiveHasSession
<1> QED BY <1>1, CallsInvAlways, PTL

(* At most one call rings or is live, and none rings into a session         *)
(* (callIsLive, ringFrom, openOwnerSession).                                *)
THEOREM OneAtATime == Spec => []RingsAlone
<1>1. CallsInv => RingsAlone
  <2> SUFFICES ASSUME CallsInv PROVE RingsAlone
    OBVIOUS
  <2> DEFINE S == In(Now, {"ringing", "live"})
  <2>1. Solo(Now) /\ Paired(Now) /\ Hushed(Now)
    BY AtRest DEF Sound
  <2>2. \A c \in S : c \in Calls /\ Now.call[c].st \in Busy
    BY DEF In, Busy
  <2>3. \A c, d \in S : c = d
    BY <2>1, <2>2 DEF Solo
  <2>4. Cardinality(S) <= 1
    <3>1. CASE S = {}
      BY <3>1, FS_EmptySet
    <3>2. CASE S # {}
      <4>1. PICK c \in S : S = {c}
        BY <2>3, <3>2
      <4> HIDE DEF S
      <4>2. Cardinality({c}) = 1
        BY FS_Singleton
      <4>3. Cardinality(S) = 1
        BY <4>1, <4>2
      <4> QED BY <4>3
    <3> QED BY <3>1, <3>2
  <2>5. ASSUME NEW c \in In(Now, {"ringing"})
        PROVE  own = "none" /\ \A d \in Calls : ses[d] \notin {"open", "silent"}
    <3>1. c \in Calls /\ Now.call[c].st = "ringing"
      BY DEF In
    <3>2. own = "none"
      BY <2>1, <3>1, NowIs DEF Hushed
    <3>3. \A d \in Calls : Now.call[d].st # "live"
      BY <2>1, <3>1 DEF Solo, Busy
    <3>4. \A d \in Calls : ses[d] \notin {"open", "silent"}
      BY <2>1, <3>3, NowIs DEF Paired
    <3> QED BY <3>2, <3>4
  <2> QED BY <2>4, <2>5 DEF RingsAlone
<1> QED BY <1>1, CallsInvAlways, PTL

(* A phone that may have rung for a call that no longer rings has its stop  *)
(* (resolveCallRings), over crashes, lost acknowledgements and stale lists  *)
(* of the outbox, but for the one order in which it has none: a flush that  *)
(* prunes the expired ring before its timer or the sweep resolves it.       *)
THEOREM RangAndTold == Spec => []WhoRangIsTold
<1>1. CallsInv => WhoRangIsTold
  <2> SUFFICES ASSUME CallsInv, NEW pc \in rung \ lost,
                      pc[1] \in bound, call[pc[2]].st # "ringing"
               PROVE  row[<<pc[1], pc[2], "stop">>] # NoRow
    BY DEF WhoRangIsTold
  <2>1. Told(Now, rung \ lost, bound) /\ Typed
    BY AtRest DEF Sound
  <2>2. pc[2] \in Calls /\ pc = <<pc[1], pc[2]>>
    BY <2>1 DEF Typed
  <2> QED BY <2>1, <2>2, NowIs DEF Told
<1> QED BY <1>1, CallsInvAlways, PTL

(* A call only moves forward (transition, ringFrom, bootBotCalls).          *)
THEOREM OnlyForward == Spec => Forward
<1>1. CallsInv /\ [Next]_vars =>
          [\A c \in Calls : Rank[call'[c].st] >= Rank[call[c].st]]_vars
  BY CallsInvNext DEF Keeping, Forwards
<1> QED BY <1>1, CallsInvAlways, PTL DEF Spec, Forward

(* A ring goes out only for a call that rings and whose time is not up      *)
(* (the dispatch fence of the outbox's attempt).                            *)
THEOREM RingsOnlyInTime == Spec => RingsInTime
<1>1. CallsInv /\ [Next]_vars =>
          [\A k \in wire' \ wire :
               k[3] = "ring" => /\ run' = "ready"
                                /\ call'[k[2]].st = "ringing" /\ ~call'[k[2]].due]_vars
  BY CallsInvNext DEF Keeping, InTime
<1> QED BY <1>1, CallsInvAlways, PTL DEF Spec, RingsInTime

(* A row the outbox is done with never comes back to be sent again          *)
(* (complete, resolveCallRings, pruneExpired).                              *)
THEOREM DoneStaysDone == Spec => LandedStays
<1>1. CallsInv /\ [Next]_vars =>
          [\A k \in Keys :
               row[k].st \in {"landed", "dropped"} => row'[k] \in {row[k], NoRow}]_vars
  BY CallsInvNext DEF Keeping, Stays, Spent
<1> QED BY <1>1, CallsInvAlways, PTL DEF Spec, LandedStays
=============================================================================
