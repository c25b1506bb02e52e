------------------------------ MODULE SendLedger ------------------------------
(***************************************************************************)
(* The durable ledger of owner sends: the owner_sends table of             *)
(* server/send-store.ts.  This module holds the row and what each SendStore*)
(* method does to it, as operators over a ledger L \in [Sends -> Row].     *)
(* OwnerSends.tla drives them from the server's concurrent actors.         *)
(*                                                                         *)
(* One conversation is modelled: every method is keyed by thread id, so    *)
(* two threads never read each other's rows.  A send id is unique in its   *)
(* thread, so the ledger is a function of the send ids.  "words" stands    *)
(* for text<>'', "line" for message_id and "ex" for existing_message_id    *)
(* being set, "act" for the owner's act that made the row (0 the first     *)
(* send, k the k-th Send again press, whose action_id is k).               *)
(***************************************************************************)
EXTENDS Integers, FiniteSets, Sequences

CONSTANTS Sends,   \* client send ids
          Via,     \* those that are a share or an ask-intent (queue-only rows)
          Seqs     \* row numbers a run may use (bounds SQLite's INTEGER key)

ASSUME SendsAssumption == IsFiniteSet(Sends) /\ Via \subseteq Sends
ASSUME SeqsAssumption == Seqs \subseteq Nat \ {0}

Status == {"none", "sending", "queued", "dispatched", "started", "delivered",
           "unconfirmed", "failed", "refused", "cancelled"}

Row == [st : Status, seq : Nat, act : Nat, words : BOOLEAN, line : BOOLEAN,
        ex : BOOLEAN, disp : BOOLEAN, held : BOOLEAN, gen : Nat,
        stopped : BOOLEAN, tok : Nat]

NoRow == [st |-> "none", seq |-> 0, act |-> 0, words |-> FALSE,
          line |-> FALSE, ex |-> FALSE, disp |-> FALSE, held |-> FALSE,
          gen |-> 0, stopped |-> FALSE, tok |-> 0]

(* A request a client may make, and make again: the first send, or a press  *)
(* of Send again carrying the tokens its chip showed.                       *)
Request == [s : Sends, act : Nat, resend : BOOLEAN, gen : Nat, tok : Nat]

Undecided == {"sending", "queued"}
InFlight == {"sending", "queued", "dispatched"}
-----------------------------------------------------------------------------
(* accept *)

(* The key SQLite gives an inserted row: one past the largest in the table. *)
(* A deleted last row's number is used again.                               *)
IsNextSeq(L, q) ==
    /\ \A s \in Sends : L[s].seq < q
    /\ q = 1 \/ \E s \in Sends : L[s].seq = q - 1

(* The tail of the table once s's old row is deleted by the same accept.    *)
Without(L, s) == [L EXCEPT ![s] = NoRow]

(* Fault: any press of Send again runs it, however old.                     *)
StoppedResendRuns_AnyPress(r, p) == r.stopped => p.resend

(* Whether a held stopped row may run again for this request.               *)
StoppedResendRuns(r, p) ==
    r.stopped => p.resend /\ r.tok # 0 /\ p.tok = r.tok

(* Fault: a press from before a later restore still runs a held row.        *)
Readmits_StaleGeneration(r, p, generation) ==
    /\ r.held => p.resend
    /\ r.st \in {"failed", "refused"}
    /\ StoppedResendRuns(r, p)
    /\ ~(p.resend /\ r.act = p.act)

(* A repeat of a send id whose row may be replaced by a new attempt.        *)
Readmits(r, p, generation) ==
    /\ r.held => p.resend /\ r.gen # 0 /\ p.gen = r.gen /\ p.gen = generation
    /\ r.st \in {"failed", "refused"}
    /\ StoppedResendRuns(r, p)
    /\ ~(p.resend /\ r.act = p.act)

Accepts(r, p, generation) == r.st = "none" \/ Readmits(r, p, generation)

NewRow(p, q) == [NoRow EXCEPT !.st = "sending", !.seq = q, !.words = TRUE,
                              !.act = IF p.resend THEN p.act ELSE 0]

(* Fault: a typed stop gets a status of its own that no table knows.        *)
TypedStopRow_OwnStatus(p, q) ==
    [NewRow(p, q) EXCEPT !.st = "stopped", !.words = FALSE]

TypedStopRow(p, q) == [NewRow(p, q) EXCEPT !.st = "cancelled", !.words = FALSE]
-----------------------------------------------------------------------------
(* one row's transitions *)

Marked(r) == [r EXCEPT !.st = "dispatched", !.disp = TRUE]

Queued(r) == [r EXCEPT !.st = "queued", !.disp = FALSE]

(* Fault: the line the row already has is forgotten.                        *)
QueuedFromLine_NoLine(r) == Queued(r)

QueuedFromLine(r) == [Queued(r) EXCEPT !.ex = TRUE]

RequeuedStart(r) == [QueuedFromLine(r) EXCEPT !.words = TRUE]

(* Fault: a refused row drops its words like any other finished one.        *)
Settled_DropsRefused(r, st, withLine) ==
    LET hold == st = "unconfirmed" \/ (st = "failed" /\ ~withLine)
    IN  [r EXCEPT !.st = st, !.line = r.line \/ withLine,
                  !.disp = r.disp /\ st # "refused", !.words = r.words /\ hold]

Settled(r, st, withLine) ==
    LET hold == \/ st \in {"refused", "unconfirmed"}
                \/ st = "failed" /\ ~withLine
    IN  [r EXCEPT !.st = st,
                  !.line = r.line \/ withLine,
                  !.disp = r.disp /\ st # "refused",
                  !.words = r.words /\ hold]

Refused(r) == Settled(r, "refused", FALSE)

Scrubbed(r) == IF r.st = "unconfirmed" /\ r.line
               THEN [r EXCEPT !.words = FALSE] ELSE r

Chip(r) == \/ r.st = "refused"
           \/ r.st = "failed" /\ ~r.line /\ r.words

(* Fault: a row already handed to the engine can still be cancelled.        *)
Cancellable_InFlight(r) == r.st \in InFlight \/ Chip(r)

Cancellable(r) == (r.st = "queued" /\ ~r.disp) \/ Chip(r)

Prunable(r) ==
    /\ ~r.words
    /\ \/ r.st \in {"started", "delivered", "cancelled"}
       \/ r.st \in {"unconfirmed", "failed"} /\ r.line
-----------------------------------------------------------------------------
(* the whole ledger *)

(* Fault: a send still deciding is not marked.                              *)
StopMarked_QueuedOnly(L, token) ==
    [s \in Sends |->
        IF L[s].st = "queued" /\ ~L[s].disp /\ ~L[s].stopped
        THEN [L[s] EXCEPT !.stopped = TRUE, !.tok = token] ELSE L[s]]

StopMarked(L, token) ==
    [s \in Sends |->
        IF L[s].st \in Undecided /\ ~L[s].disp /\ ~L[s].stopped
        THEN [L[s] EXCEPT !.stopped = TRUE, !.tok = token] ELSE L[s]]

(* Faults: what a Stop found waiting is dropped at the next start; a row    *)
(* with its marker up is put back in line.                                  *)
Recovered_DropsStopped(L) ==
    [s \in Sends |->
        IF L[s].st \in Undecided /\ ~L[s].disp /\ L[s].stopped
        THEN [L[s] EXCEPT !.st = "cancelled"]
        ELSE IF L[s].st = "sending" /\ ~L[s].disp
             THEN [L[s] EXCEPT !.st = "queued"] ELSE L[s]]

Recovered_SendsAgain(L) ==
    [s \in Sends |->
        IF L[s].st \in {"sending", "dispatched"} THEN Queued(L[s]) ELSE L[s]]

Recovered(L) ==
    [s \in Sends |->
        IF L[s].st \in Undecided /\ ~L[s].disp /\ L[s].stopped /\ L[s].words
        THEN [L[s] EXCEPT !.st = "refused", !.ex = FALSE]
        ELSE IF L[s].st = "sending" /\ ~L[s].disp
             THEN [L[s] EXCEPT !.st = "queued"] ELSE L[s]]

Unresolved(L) == {s \in Sends : L[s].st \in {"dispatched", "unconfirmed"}}

(* Fault: a restore cancels what waited, words and all.                     *)
Neutral_Cancels(r) ==
    IF r.st \in Undecided
    THEN [r EXCEPT !.st = "cancelled", !.disp = FALSE, !.words = FALSE]
    ELSE [r EXCEPT !.held = r.held \/ r.st \in {"failed", "refused"}]

(* What a restore leaves of one row, before the generation is stamped.      *)
Neutral(r) ==
    IF r.st \in Undecided /\ r.words
    THEN [r EXCEPT !.st = "refused", !.disp = FALSE, !.ex = FALSE, !.held = TRUE]
    ELSE IF r.st \in Undecided
         THEN [r EXCEPT !.st = "cancelled", !.disp = FALSE]
         ELSE [r EXCEPT !.held = r.held \/ r.st \in {"failed", "refused"}]

(* Fault: only rows still deciding are held; queued ones wait on.           *)
Neutralized_KeepsQueue(L, generation) ==
    [s \in Sends |->
        IF L[s].st # "queued" /\ Neutral(L[s]).held
        THEN [Neutral(L[s]) EXCEPT !.gen = generation] ELSE L[s]]

Neutralized(L, generation) ==
    [s \in Sends |->
        IF Neutral(L[s]).held
        THEN [Neutral(L[s]) EXCEPT !.gen = generation] ELSE Neutral(L[s])]

(* open: the row numbers in lateOpen.                                       *)
Blocks(r, open) == \/ r.st \in InFlight
                   \/ r.st = "unconfirmed" /\ r.seq \in open

(* Fault: an unconfirmed steer is no barrier.                               *)
BlockedByEarlier_IgnoresLate(L, open, q) ==
    \E s \in Sends : L[s].seq < q /\ L[s].st \in InFlight

BlockedByEarlier(L, open, q) ==
    \E s \in Sends : L[s].seq < q /\ Blocks(L[s], open)

HasPassed(L, q) ==
    \E s \in Sends : /\ L[s].seq > q
                     /\ L[s].st \in {"dispatched", "started", "delivered"}

LateReleased(L, open) ==
    [s \in Sends |-> IF L[s].seq \in open THEN Scrubbed(L[s]) ELSE L[s]]

(* Fault: a row in flight is passed over, not a barrier.                    *)
Drainable_PastInFlight(L, open) ==
    {s \in Sends : /\ L[s].st = "queued"
                   /\ \A t \in Sends : L[t].seq < L[s].seq /\ Blocks(L[t], open)
                                         => L[t].st \in {"queued", "dispatched"}}

(* The leading run of waiting rows that may start now.                      *)
Drainable(L, open) ==
    {s \in Sends : /\ L[s].st = "queued"
                   /\ \A t \in Sends : L[t].seq < L[s].seq /\ Blocks(L[t], open)
                                         => L[t].st = "queued"}

(* Fault: the owner's lines go together, over a shared one between them.    *)
DrainBatch_OwnerFirst(L, rows) ==
    IF rows \subseteq Via THEN rows ELSE rows \ Via

(* What one drain runs: the owner's leading rows together, or one via row.  *)
DrainBatch(L, rows) ==
    {s \in rows :
        \/ \A t \in rows : L[s].seq <= L[t].seq
        \/ s \notin Via /\ \A t \in rows : L[t].seq < L[s].seq => t \notin Via}
=============================================================================
