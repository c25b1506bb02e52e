------------------------------- MODULE PushRows -------------------------------
(***************************************************************************)
(* The push rows of bot calls, as operators on the outbox R: the call      *)
(* paths of server/mobile-push-outbox.ts over server/mobile-push-store.ts. *)
(*                                                                         *)
(* A call owes each phone at most five rows, written in this order of      *)
(* revisions: the note that it texted, its ring, the stop that replaces    *)
(* the ring, the note that it was missed, and the clearing of a note.      *)
(* Refused rows count as landed: the outbox is done with both alike.       *)
(***************************************************************************)
EXTENDS Integers

CONSTANTS Phones, Calls

Kind == {"note", "ring", "stop", "missed", "clear"}
Keys == Phones \X Calls \X Kind

Later ==
    [note |-> {"ring", "stop", "missed", "clear"},
     ring |-> {"stop", "missed", "clear"},
     stop |-> {"missed", "clear"},
     missed |-> {"clear"},
     clear |-> {}]

Row == [st : {"none", "pending", "landed", "dropped"},
        tries : Nat, by : BOOLEAN]
NoRow == [st |-> "none", tries |-> 0, by |-> FALSE]
Fresh == [st |-> "pending", tries |-> 0, by |-> FALSE]

Pending(R) == {k \in Keys : R[k].st = "pending"}
Of(c, K) == {k \in K : k[2] = c}

(* One new row of this kind for each of the calls on each of the phones.    *)
Inserted(R, P, C, kind) ==
    [k \in Keys |->
        IF k[1] \in P /\ k[2] \in C /\ k[3] = kind THEN Fresh ELSE R[k]]

(* Fault: only a ring the relay has accepted counts.                        *)
MayHaveRung_Landed(R, p, c) == R[<<p, c, "ring">>].st = "landed"

MayHaveRung(R, p, c) ==
    LET ring == R[<<p, c, "ring">>] IN ring.tries > 0 \/ ring.st = "landed"

(* The calls no longer ring: on every phone that holds a ring and no stop,  *)
(* an unsent ring is dropped, and one that may have rung gets its stop.     *)
Resolved(R, C) ==
    LET open == {pc \in Phones \X C :
                     /\ R[<<pc[1], pc[2], "ring">>] # NoRow
                     /\ R[<<pc[1], pc[2], "stop">>] = NoRow}
    IN  [k \in Keys |->
            IF <<k[1], k[2]>> \notin open THEN R[k]
            ELSE IF k[3] = "ring" /\ R[k].st = "pending"
              THEN [R[k] EXCEPT !.st = "dropped", !.by = TRUE]
            ELSE IF k[3] = "stop" /\ MayHaveRung(R, k[1], k[2]) THEN Fresh
            ELSE R[k]]

(* The notes of these calls that have not been sent are dropped.            *)
NotesDropped(R, C) ==
    [k \in Keys |->
        IF k[2] \in C /\ k[3] \in {"note", "missed"} /\ R[k].st = "pending"
        THEN [R[k] EXCEPT !.st = "dropped"] ELSE R[k]]

Newest(R, p, c) ==
    CHOOSE j \in Kind :
        /\ R[<<p, c, j>>] # NoRow
        /\ \A i \in Later[j] : R[<<p, c, i>>] = NoRow

(* The relay took a row that was dropped while it was on the wire.  What    *)
(* shows on the phone is cleared, unless it has its stop or newer news.     *)
LateAccepted(R, k) ==
    LET j == Newest(R, k[1], k[2])
    IN  IF /\ R[k].st = "dropped" /\ R[k].by
           /\ j \notin {"stop", "clear"} /\ R[<<k[1], k[2], j>>].st = "dropped"
        THEN [R EXCEPT ![<<k[1], k[2], "clear">>] = Fresh] ELSE R

Accepted(R, k) ==
    IF R[k].st = "pending" THEN [R EXCEPT ![k].st = "landed"]
    ELSE LateAccepted(R, k)

Rejected(R, k) ==
    IF R[k].st = "pending" THEN [R EXCEPT ![k].st = "landed"] ELSE R

(* Attempted rows: those the dispatch fence lets out are claimed, a ring it *)
(* does not let out is dropped.                                             *)
Attempted(R, out, fenced) ==
    [k \in Keys |->
        IF k \in out
          THEN [st |-> "pending", tries |-> R[k].tries + 1, by |-> R[k].by]
        ELSE IF k \in fenced THEN [R[k] EXCEPT !.st = "dropped"]
        ELSE R[k]]

(* Fault: the claim does not look at the row it claims.                     *)
Claimable_Blind(R, k, tries) == R[k] # NoRow

Claimable(R, k, tries) == R[k].st = "pending" /\ R[k].tries = tries

(* A ring lives as long as it rings, everything else much longer.           *)
Expired(R, C) == {k \in Keys : k[3] = "ring" /\ k[2] \in C /\ R[k] # NoRow}
Without(R, K) == [k \in Keys |-> IF k \in K THEN NoRow ELSE R[k]]
=============================================================================
