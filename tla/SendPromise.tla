------------------------------ MODULE SendPromise ------------------------------
(***************************************************************************)
(* What the owner is promised about each send of a conversation, without   *)
(* the queue, the steering, the timers and the crashes that keep it: the   *)
(* abstract specification OwnerSends implements between two restores.      *)
(*                                                                         *)
(* A send waits, is out with the engine, or is a chip the owner may press; *)
(* it comes back from being out only while the engine has not got it.      *)
(* Several sends may move in one step (a drained batch, a startup).        *)
(***************************************************************************)
CONSTANT Sends

VARIABLES there,   \* the conversation has not been deleted
          at,      \* where each send is
          got,     \* whether the engine got the words of its present attempt
          kept     \* whether its words are held anywhere

promised == <<there, at, got, kept>>

Place == {"none", "waiting", "out", "chip", "dropped"}

Init ==
    /\ there = TRUE
    /\ at = [s \in Sends |-> "none"]
    /\ got = [s \in Sends |-> FALSE]
    /\ kept = [s \in Sends |-> FALSE]

Moves(s, from, to) == at[s] \in from /\ at'[s] \in to
Ungiven(s) == ~got[s] /\ ~got'[s]
Holds(s) == kept[s] /\ kept'[s]

(* Accepted, for the first time or from a chip: a fresh attempt.            *)
Accepted(s) == Moves(s, {"none", "chip"}, {"waiting"}) /\ ~got'[s] /\ kept'[s]

(* A typed stop is answered at once and never runs.                         *)
Answered(s) == Moves(s, {"none", "chip"}, {"dropped"}) /\ ~got'[s]

(* Given up to the engine; held back; taken back from it.                   *)
GoesOut(s) == Moves(s, {"waiting"}, {"out"}) /\ ~got[s] /\ Holds(s)
HeldBack(s) == Moves(s, {"waiting"}, {"chip"}) /\ Ungiven(s) /\ Holds(s)
ComesBack(s) == Moves(s, {"out"}, {"waiting", "chip"}) /\ Ungiven(s) /\ Holds(s)

(* The engine gets the words, once.                                         *)
Given(s) == Moves(s, {"out"}, {"out"}) /\ ~got[s] /\ got'[s] /\ Holds(s)

(* The owner drops it.  A finished one is forgotten, its line stays.        *)
Dropped(s) == Moves(s, {"waiting", "chip"}, {"dropped"}) /\ Ungiven(s)
Forgotten(s) == Moves(s, {"out", "chip", "dropped"}, {"none"}) /\ kept'[s] = kept[s]

Rests(s) == at'[s] = at[s] /\ got'[s] = got[s] /\ kept'[s] = kept[s]

Lives(s) ==
    \/ Accepted(s) \/ Answered(s)
    \/ GoesOut(s) \/ HeldBack(s) \/ ComesBack(s) \/ Given(s)
    \/ Dropped(s) \/ Forgotten(s)

(* Once the conversation is deleted nothing more is promised.               *)
Next ==
    \/ /\ there /\ there'
       /\ \A s \in Sends : Lives(s) \/ Rests(s)
    \/ ~there'

Spec == Init /\ [][Next]_promised
=============================================================================
