------------------------------- MODULE AskerWake -------------------------------
(***************************************************************************)
(* Asker wakes (server/asker-wake.ts) as server/index.ts drives them, for  *)
(* one asker thread: work handed off to a teammate is acknowledged with    *)
(* its wake kept, on disk unless both tries to write it failed, and the    *)
(* reply then starts one turn of the asker.                                *)
(*                                                                         *)
(* A reply opens a record, or joins one that is still owed.  A record is   *)
(* owed, claimed by one start, and marked started, on disk, before its     *)
(* prompt goes out.  A claim whose engine has no tools is held: a kept     *)
(* item carries it, and each replay of the item is paid for first.  Any    *)
(* write may fail: memory and disk then differ until a later write lands.  *)
(* A crash loses memory; a clean close marks what it cuts.                 *)
(*                                                                         *)
(* Who may hear from whom is left out (every author stays allowed), as are *)
(* the rebuilds of a turn whose memory was refused, deleted bots and       *)
(* conversations, and other threads: they only delay a claim.  The reply   *)
(* line, the receipt and the external updates are written as they are in   *)
(* the database, and those writes do not fail here.                        *)
(***************************************************************************)
EXTENDS Integers, FiniteSets

LOCAL INSTANCE FiniteSetsExt

CONSTANTS Tasks,          \* hand-offs; a record is named by the one opening it
          AuthOf,         \* the authority each was asked under
          MaxAttempts,    \* MAX_ASKER_WAKE_ATTEMPTS
          MaxWakes,       \* MAX_ASKER_WAKES
          MaxResults,     \* MAX_ASKER_RESULTS
          Bounds, Most    \* how often each of Odd happens, and all together

(* What is bounded: crashes, clean closes, writes that fail (and those that *)
(* fail along with another), Stops, and admissions that find the bot on an  *)
(* engine without tools.                                                    *)
Odd == {"crash", "close", "fail", "along", "stop", "hold"}

ASSUME TasksAssumption == IsFiniteSet(Tasks) /\ DOMAIN AuthOf = Tasks
ASSUME CapsAssumption == {MaxAttempts, MaxWakes, MaxResults} \subseteq Nat \ {0}
ASSUME BoundsAssumption == Bounds \in [Odd -> Nat] /\ Most \in Nat

VARIABLES proc,            \* the server: up, closing or down
          intents, wakes,  \* AskerWakes: the asks out, and the records
          doneIds,         \* records whose engine accepted them
          disk, unwritten, \* the task's askerWakes, and whether it lags memory
          kept,            \* hand-offs the disk ever had (history)
          hand, told,      \* each hand-off's receipt, and those still owing
                           \* that this process has already followed up
          upd, item,       \* externalUpdates and the held items (durable)
          starting, turn,  \* startTurn calls not yet admitted, and the turn
          woke,            \* how often a wake with each reply went out
          tries,           \* how often each record was begun, in all
          over,            \* replies nothing is owed for any more
          spent

memory == <<intents, wakes, doneIds, unwritten, told, starting, turn>>
history == <<woke, tries, over>>
vars == <<proc, intents, wakes, doneIds, disk, unwritten, kept, hand, told, upd,
          item, starting, turn, woke, tries, over, spent>>

(* A record, at the place of the hand-off that opened it: a list of records *)
(* is a function of hand-offs, each row with those ahead of it in the list. *)
Record == [st : {"none", "owed", "claimed", "started"}, held : BOOLEAN,
           n : 0 .. MaxAttempts, cut : BOOLEAN, res : SUBSET Tasks,
           ahead : SUBSET Tasks]
NoRecord == [st |-> "none", held |-> FALSE, n |-> 0, cut |-> FALSE,
             res |-> {}, ahead |-> {}]
Start == [id : Tasks, replay : BOOLEAN, res : SUBSET Tasks]
Item == [id : Tasks, res : SUBSET Tasks]
Turn == [at : {"idle", "setup", "sent", "early", "run"}, carries : SUBSET Tasks,
         start : SUBSET Start]
Idle == [at |-> "idle", carries |-> {}, start |-> {}]
Running == [at |-> "run", carries |-> {}, start |-> {}]
NoRecords == [id \in Tasks |-> NoRecord]
Nothing == [intents |-> {}, wakes |-> NoRecords]

Init ==
    /\ proc = "up"
    /\ intents = {} /\ wakes = NoRecords /\ doneIds = {}
    /\ disk = Nothing /\ unwritten = FALSE /\ kept = {}
    /\ hand = [t \in Tasks |-> "none"] /\ told = {}
    /\ upd = {} /\ item = {}
    /\ starting = {} /\ turn = Idle
    /\ woke = [t \in Tasks |-> 0] /\ tries = [t \in Tasks |-> 0] /\ over = {}
    /\ spent = [o \in Odd |-> 0]

Up == proc = "up"
Alive == proc # "down"

(* O happened in this step, and f of its writes failed (together: these     *)
(* are one thing going wrong).                                              *)
Oddities(s) == MapThenSumSet(LAMBDA o : s[o], Odd \ {"along"}) - s["along"]
Spends(O, f) ==
    \/ O = {} /\ f = 0 /\ UNCHANGED spent
    \/ /\ O # {} \/ f > 0
       /\ spent' = [o \in Odd |-> spent[o] + (IF o \in O THEN 1 ELSE 0)
                                  + (IF o = "fail" THEN f ELSE 0)
                                  + (IF o = "along" /\ f > 1 THEN f - 1 ELSE 0)]
       /\ \A o \in Odd : spent'[o] <= Bounds[o]
       /\ Oddities(spent') <= Most
Failed(ok) == IF ok THEN 0 ELSE 1

Carried(w) == UNION {w[id].res : id \in Tasks}
Mentioned(d) == d.intents \cup Carried(d.wakes)

(* flush: the thread's whole state, or nothing when the disk refuses (there *)
(* is no write to refuse when nothing was kept and nothing is left).        *)
Flush(I, w, ok) ==
    /\ ok \/ {disk, [intents |-> I, wakes |-> w]} # {Nothing}
    /\ intents' = I /\ wakes' = w
    /\ disk' = IF ok THEN [intents |-> I, wakes |-> w] ELSE disk
    /\ unwritten' = ~ok /\ kept' = kept \cup Mentioned(disk')
NoWrite == UNCHANGED <<intents, wakes, disk, unwritten, kept>>
-----------------------------------------------------------------------------
(* The records.                                                             *)

Owned(w, id) == w[id].st # "none"
Records(w) == {id \in Tasks : Owned(w, id)}
Kept(w, K) ==
    [id \in Tasks |-> IF id \in K THEN [w[id] EXCEPT !.ahead = @ \cap K] ELSE NoRecord]
Without(w, id) == Kept(w, Records(w) \ {id})
Owing(w) == {id \in Tasks : w[id].st = "owed"}

(* The first and the last of the records K.                                 *)
Oldest(w, K) == {id \in K : w[id].ahead \cap K = {}}
Newest(w, K) == {id \in K : K \ {id} \subseteq w[id].ahead}

(* askerWakeReplyAllowed: no turn has carried the reply yet.                *)
Allowed(r) == r.res \cap upd # {}

(* deliver: the newest owed record asked under the same authority, or a new *)
(* one.                                                                     *)
Joins(t) == {id \in Owing(wakes) : /\ AuthOf[id] = AuthOf[t]
                                   /\ Cardinality(wakes[id].res) < MaxResults}
Opened(t) == [NoRecord EXCEPT !.st = "owed", !.res = {t}, !.ahead = Records(wakes)]
Delivered(t) ==
    IF Joins(t) = {} THEN {[wakes EXCEPT ![t] = Opened(t)]}
    ELSE {[wakes EXCEPT ![id].res = @ \cup {t}] : id \in Newest(wakes, Joins(t))}
Overflows(t) == Joins(t) = {} /\ Cardinality(Records(wakes)) >= MaxWakes

(* Fault: the cap is looked at before the attempt is counted.               *)
Spent_Late(r) == r.n > MaxAttempts

Spent(r) == r.n + 1 >= MaxAttempts

(* Fault: the attempt is counted, and the record stays claimed.             *)
GivenBack_Claimed(w, id) ==
    IF Spent(w[id]) THEN Without(w, id)
    ELSE [w EXCEPT ![id].n = @ + 1]

(* requeue: owed again, or over at the cap.                                 *)
GivenBack(w, id) ==
    IF Spent(w[id]) THEN Without(w, id)
    ELSE [w EXCEPT ![id].st = "owed", ![id].held = FALSE, ![id].n = @ + 1]

IsHeld(w, id) == w[id].st = "claimed" /\ w[id].held

(* The kept items, with the replies their prompt names.                     *)
HasItem(id) == \E x \in item : x.id = id
ItemGone(id) == {x \in item : x.id # id}
ItemKept(p) == ItemGone(p.id) \cup {[id |-> p.id, res |-> p.res]}
-----------------------------------------------------------------------------
(* A hand-off: asked, and returned.                                         *)

(* register, for a hand-off that is then acknowledged: two tries to write   *)
(* its ask, of which f fail.  With both failed only memory has it.          *)
Acknowledged(t, f) ==
    /\ Flush(intents \cup {t}, wakes, f < 2)
    /\ hand' = [hand EXCEPT ![t] = "out"]
    /\ Spends({}, f)

(* admitAskerWake: a hand-off whose ask was not written is dropped, and its *)
(* ask forgotten, unless it runs already.  (Nor does a shared one that      *)
(* answers late look at what register says.)                                *)
Ask(t) ==
    /\ Up /\ turn.at = "run" /\ hand[t] = "none"
    /\ \/ \E f \in 0 .. 2 : Acknowledged(t, f)
       \/ \E ok \in BOOLEAN :
            /\ Flush(intents, wakes, ok)
            /\ hand' = [hand EXCEPT ![t] = "refused"]
            /\ Spends({}, 2 + Failed(ok))
    /\ UNCHANGED <<proc, doneIds, told, upd, item, starting, turn,
                   history>>

(* makeTicket: an ask that was waited for in the turn becomes a hand-off in *)
(* the wait's own timer, whatever register says, and whatever became of the *)
(* turn and the server meanwhile.                                           *)
Ticket(t) ==
    /\ Alive /\ hand[t] = "none"
    /\ \E f \in 0 .. 2 : Acknowledged(t, f)
    /\ UNCHANGED <<proc, doneIds, told, upd, item, starting, turn,
                   history>>

(* consume: what the reply was owed is forgotten, unless it is in flight.   *)
Consumed(t) ==
    LET w == [id \in Tasks |->
                 IF id \in Owing(wakes) THEN [wakes[id] EXCEPT !.res = @ \ {t}]
                 ELSE wakes[id]]
    IN Kept(w, {id \in Tasks : w[id].res # {}})
Consumable(t) == t \in intents \/ \E id \in Owing(wakes) : t \in wakes[id].res
Consume(t, ok) ==
    IF Consumable(t) THEN Flush(intents \ {t}, Consumed(t), ok)
    ELSE ok /\ NoWrite

(* A hand-off that was stopped restarts nobody: its line is written, and    *)
(* its ask consumed.                                                        *)
ReturnStopped(t) ==
    /\ Alive /\ hand[t] = "out"
    /\ hand' = [hand EXCEPT ![t] = "told"]
    /\ over' = over \cup {t}
    /\ upd' = upd \cup {t}
    /\ \E ok \in BOOLEAN : Consume(t, ok) /\ Spends({}, Failed(ok))
    /\ UNCHANGED <<proc, doneIds, told, item, starting, turn, woke,
                   tries>>

(* Fault: an owing receipt wakes its asker, asked for or not.               *)
Intends_Owing(t) == t \in intents \/ hand[t] = "owes"

Intends(t) == t \in intents

(* Fault: the receipt lets go whatever was written.                         *)
Durable_Assumed == TRUE

Durable == ~unwritten'

(* finishHandoff and its follow-up: the reply's line is committed, with a   *)
(* receipt that owes it; it is an external update, and returned() delivers  *)
(* it.  The receipt lets go once what the thread owes is on disk, else a    *)
(* boot follows it up again.                                                *)
Return(t) ==
    /\ Alive /\ hand[t] \in {"out", "owes"} /\ t \notin told
    /\ upd' = upd \cup {t}
    /\ \/ /\ Intends(t) /\ ~Overflows(t)
          /\ \E w \in Delivered(t), ok \in BOOLEAN :
                Flush(intents \ {t}, w, ok) /\ Spends({}, Failed(ok))
          /\ UNCHANGED over
       \/ /\ Intends(t) /\ Overflows(t)
          /\ intents' = intents \ {t}
          /\ over' = over \cup {t}
          /\ UNCHANGED <<wakes, disk, unwritten, kept, spent>>
       \/ ~Intends(t) /\ NoWrite /\ UNCHANGED <<over, spent>>
    /\ IF Durable
       THEN hand' = [hand EXCEPT ![t] = "told"] /\ UNCHANGED told
       ELSE hand' = [hand EXCEPT ![t] = "owes"] /\ told' = told \cup {t}
    /\ UNCHANGED <<proc, doneIds, item, starting, turn, woke, tries>>

(* The asker reads the receipt itself (check_delegation).                   *)
Check(t) ==
    /\ Up /\ turn.at = "run" /\ hand[t] \in {"owes", "told"} /\ Consumable(t)
    /\ \E ok \in BOOLEAN : Consume(t, ok) /\ Spends({}, Failed(ok))
    /\ over' = over \cup {t}
    /\ UNCHANGED <<proc, doneIds, hand, told, upd, item, starting, turn,
                   woke, tries>>
-----------------------------------------------------------------------------
(* A wake: claimed, admitted, held, replayed.                               *)

Tried(id) == tries' = [tries EXCEPT ![id] = @ + 1]

(* wakeAsker, whatever calls it: claim takes the oldest owed record, and    *)
(* undoes it when the write fails; with nothing left to carry it is over.   *)
Claim ==
    /\ Up /\ turn = Idle /\ Owing(wakes) # {}
    /\ \E id \in Oldest(wakes, Owing(wakes)) :
          LET r == wakes[id]
              w == [wakes EXCEPT ![id].st = "claimed"]
          IN \/ /\ Flush(intents, wakes, FALSE)
                /\ Spends({}, 1)
                /\ UNCHANGED <<starting, tries, over>>
             \/ /\ Allowed(r)
                /\ Flush(intents, w, TRUE)
                /\ Tried(id)
                /\ starting' = starting \cup
                      {[id |-> id, replay |-> FALSE, res |-> r.res \cap upd]}
                /\ UNCHANGED <<over, spent>>
             \/ /\ ~Allowed(r)
                /\ over' = over \cup r.res
                /\ intents' = intents /\ wakes' = Without(wakes, id)
                /\ \E ok \in BOOLEAN :
                      /\ disk' = [intents |-> intents,
                                  wakes |-> IF ok THEN wakes' ELSE w]
                      /\ unwritten' = ~ok /\ kept' = kept \cup Mentioned(disk')
                      /\ Spends({}, Failed(ok))
                /\ UNCHANGED <<starting, tries>>
    /\ UNCHANGED <<proc, doneIds, hand, told, upd, item, turn, woke>>

(* A start that will not go ahead, f of its writes having failed.  A wake   *)
(* started from its claim is owed again (requeue) or over; a replay is      *)
(* still carried by its item.  A closing server leaves a claim as it is.    *)
Refused(p, again, f) ==
    LET w == IF again THEN GivenBack(wakes, p.id) ELSE Without(wakes, p.id)
    IN \/ /\ ~p.replay /\ Up
          /\ \E ok \in BOOLEAN :
                Flush(intents, w, ok) /\ Spends({}, f + Failed(ok))
          /\ over' = IF Owned(w, p.id) THEN over ELSE over \cup wakes[p.id].res
          /\ UNCHANGED item
       \/ /\ p.replay \/ ~Up
          /\ IF f > 0 THEN Flush(intents, wakes, FALSE) ELSE NoWrite
          /\ Spends({}, f)
          /\ UNCHANGED <<item, over>>

(* cancel: the record goes, and with a replay its item.                     *)
Cancelled(p) ==
    /\ \E ok \in BOOLEAN :
          Flush(intents, Without(wakes, p.id), ok) /\ Spends({}, Failed(ok))
    /\ over' = over \cup wakes[p.id].res
    /\ item' = IF p.replay THEN ItemGone(p.id) ELSE item

(* startTurn's last wait is over: check, then admission.  The thread may be *)
(* busy, the start may be refused for good, or the engine have no tools;    *)
(* else the turn is being set up, with the updates owed by now.             *)
Admit(p) ==
    /\ Alive /\ p \in starting
    /\ starting' = starting \ {p}
    /\ \/ /\ ~Owned(wakes, p.id)
          /\ item' = IF p.replay THEN ItemGone(p.id) ELSE item
          /\ NoWrite /\ UNCHANGED <<turn, over, spent>>
       \/ /\ Owned(wakes, p.id) /\ ~Allowed(wakes[p.id])
          /\ Cancelled(p)
          /\ UNCHANGED turn
       \/ /\ Owned(wakes, p.id) /\ Allowed(wakes[p.id])
          /\ \/ turn # Idle /\ Refused(p, TRUE, 0)
             \/ turn = Idle /\ Refused(p, FALSE, 0)
          /\ UNCHANGED turn
       \/ /\ Owned(wakes, p.id) /\ Allowed(wakes[p.id])
          /\ turn = Idle
          /\ item' = ItemKept(p)
          /\ \E ok \in BOOLEAN :
                /\ Flush(intents,
                         [wakes EXCEPT ![p.id].held = TRUE], ok)
                /\ Spends({"hold"}, Failed(ok))
          /\ UNCHANGED <<turn, over>>
       \/ /\ Owned(wakes, p.id) /\ Allowed(wakes[p.id])
          /\ turn = Idle
          /\ turn' = [at |-> "setup", carries |-> upd, start |-> {p}]
          /\ NoWrite /\ UNCHANGED <<item, over, spent>>
    /\ UNCHANGED <<proc, doneIds, hand, told, upd, woke, tries>>

(* drainHeldContinuations: an attempt is paid on disk, then the item is     *)
(* replayed.  An item that is not its record's carrier goes.                *)
Drain(x) ==
    /\ Up /\ turn = Idle
    /\ \A p \in starting : ~p.replay
    /\ LET w == [wakes EXCEPT ![x.id].n = @ + 1]
       IN \/ /\ ~IsHeld(wakes, x.id)
             /\ item' = ItemGone(x.id)
             /\ NoWrite /\ UNCHANGED <<starting, tries, over, spent>>
          \/ /\ IsHeld(wakes, x.id) /\ wakes[x.id].n >= MaxAttempts
             /\ Cancelled([id |-> x.id, replay |-> TRUE, res |-> x.res])
             /\ UNCHANGED <<starting, tries>>
          \/ /\ IsHeld(wakes, x.id) /\ wakes[x.id].n < MaxAttempts
             /\ \/ /\ Flush(intents, w, TRUE)
                   /\ starting' = starting \cup
                         {[id |-> x.id, replay |-> TRUE, res |-> x.res]}
                   /\ Tried(x.id)
                   /\ UNCHANGED spent
                \/ /\ Flush(intents, wakes, FALSE)
                   /\ Spends({}, 1)
                   /\ UNCHANGED <<starting, tries>>
             /\ UNCHANGED <<item, over>>
    /\ UNCHANGED <<proc, doneIds, hand, told, upd, turn, woke>>
-----------------------------------------------------------------------------
(* The turn.                                                                *)

(* A turn of the owner's, carrying the updates owed by now.                 *)
OwnTurn ==
    /\ Up /\ turn = Idle
    /\ turn' = [at |-> "setup", carries |-> upd, start |-> {}]
    /\ UNCHANGED <<proc, intents, wakes, doneIds, disk, unwritten, kept, hand,
                   told, upd, item, starting, history, spent>>

Waking == turn.start # {}
Sent(p) == woke' = [t \in Tasks |-> IF t \in p.res THEN woke[t] + 1 ELSE woke[t]]

(* beforeSubmit asks start: the record re-checked and marked, on disk,      *)
(* before the prompt goes out.  A mark that was not written, or a server    *)
(* that is closing, refuses, and that ends the setup.  (Its replies are     *)
(* still allowed: only the thread's own turn could have carried them.)      *)
Fence ==
    /\ Alive /\ turn.at = "setup"
    /\ \E p \in turn.start :
          \/ /\ ~Owned(wakes, p.id)
             /\ turn' = Idle
             /\ item' = IF p.replay THEN ItemGone(p.id) ELSE item
             /\ NoWrite /\ UNCHANGED <<woke, over, spent>>
          \/ /\ Owned(wakes, p.id) /\ Up
             /\ turn' = [turn EXCEPT !.at = "sent"] /\ Sent(p)
             /\ Flush(intents, [wakes EXCEPT ![p.id].st = "started"], TRUE)
             /\ UNCHANGED <<item, over, spent>>
          \/ /\ Owned(wakes, p.id)
             /\ turn' = Idle
             /\ Refused(p, TRUE, IF Up THEN 1 ELSE 0)
             /\ UNCHANGED woke
    /\ UNCHANGED <<proc, doneIds, hand, told, upd, starting, tries>>

(* An engine that accepted before the fence: its id is done, and passes.    *)
(* (It is asked for again only by a rebuild, and forgotten here.)           *)
FenceDone ==
    /\ Alive /\ turn.at = "early"
    /\ \E p \in turn.start :
          IF p.id \in doneIds THEN turn' = Running /\ Sent(p)
          ELSE turn' = Idle /\ UNCHANGED woke
    /\ doneIds' = {}
    /\ UNCHANGED <<proc, intents, wakes, disk, unwritten, kept, hand, told, upd,
                   item, starting, tries, over, spent>>

(* The engine accepted the turn: what it carried is owed no more, and the   *)
(* wake is done.  An engine may hand its turn id back before the fence.     *)
AcceptOwn ==
    /\ Alive /\ ~Waking /\ turn.at = "setup"
    /\ turn' = Running
    /\ upd' = upd \ turn.carries
    /\ UNCHANGED <<proc, intents, wakes, doneIds, disk, unwritten, kept, hand,
                   told, item, starting, history, spent>>

Accept(p) ==
    /\ Alive /\ turn.at \in {"setup", "sent"}
    /\ LET early == turn.at = "setup"
       IN /\ turn' = IF early THEN [turn EXCEPT !.at = "early"] ELSE Running
          /\ upd' = upd \ turn.carries
          /\ item' = IF p.replay THEN ItemGone(p.id) ELSE item
          /\ \/ /\ Owned(wakes, p.id)
                /\ doneIds' = IF early THEN {p.id} ELSE doneIds
                /\ over' = over \cup wakes[p.id].res
                /\ \E ok \in BOOLEAN :
                      Flush(intents, Without(wakes, p.id), ok) /\ Spends({}, Failed(ok))
             \/ ~Owned(wakes, p.id) /\ NoWrite /\ UNCHANGED <<doneIds, over, spent>>
    /\ UNCHANGED <<proc, hand, told, starting, woke, tries>>

(* A setup that fails: submitted, its outcome is uncertain and the wake     *)
(* ends; not submitted, the start is refused.                               *)
SetupFails ==
    /\ Alive /\ turn.at \in {"setup", "sent"}
    /\ turn' = Idle
    /\ \/ \E p \in turn.start :
             \/ wakes[p.id].st = "started" /\ Cancelled(p)
             \/ wakes[p.id].st \in {"owed", "claimed"} /\ Refused(p, TRUE, 0)
             \/ /\ ~Owned(wakes, p.id)
                /\ item' = IF p.replay THEN ItemGone(p.id) ELSE item
                /\ NoWrite /\ UNCHANGED <<over, spent>>
       \/ ~Waking /\ NoWrite /\ UNCHANGED <<item, over, spent>>
    /\ UNCHANGED <<proc, doneIds, hand, told, upd, starting, woke, tries>>

(* failed: nothing this thread asked for restarts it.                       *)
Forget(O) ==
    /\ over' = over \cup intents \cup Carried(wakes)
    /\ \E ok \in BOOLEAN : Flush({}, NoRecords, ok) /\ Spends(O, Failed(ok))

(* turn.completed.  One without success forgets what the thread is owed,    *)
(* unless it is the closing server that ended it.                           *)
TurnEnds ==
    /\ Alive /\ turn.at = "run"
    /\ turn' = Idle
    /\ \/ NoWrite /\ UNCHANGED <<over, spent>>
       \/ Up /\ Forget({})
    /\ UNCHANGED <<proc, doneIds, hand, told, upd, item, starting, woke,
                   tries>>

(* Stop in the conversation: no record, ask or held item is left, and no    *)
(* rebuild passes.  The turn is told to end, and ends as a failed one.      *)
Stop ==
    /\ Up
    /\ Forget({"stop"})
    /\ item' = {} /\ doneIds' = {}
    /\ UNCHANGED <<proc, hand, told, upd, starting, turn, woke, tries>>

(* The parked-delegation sweep writes again what the disk refused.          *)
Sweep ==
    /\ Up /\ unwritten
    /\ \E ok \in BOOLEAN : Flush(intents, wakes, ok) /\ Spends({}, Failed(ok))
    /\ UNCHANGED <<proc, doneIds, hand, told, upd, item, starting, turn,
                   history>>
-----------------------------------------------------------------------------
(* The process.                                                             *)

Lost ==
    /\ intents' = {} /\ wakes' = NoRecords /\ doneIds' = {} /\ unwritten' = FALSE
    /\ told' = {} /\ starting' = {} /\ turn' = Idle

Crash ==
    /\ Alive
    /\ proc' = "down" /\ Lost
    /\ Spends({"crash"}, 0)
    /\ UNCHANGED <<disk, kept, hand, upd, item, history>>

(* The receipt is committed first: a crash may come before the follow-up.   *)
CutReturn(t) ==
    /\ Alive /\ hand[t] = "out"
    /\ hand' = [hand EXCEPT ![t] = "owes"]
    /\ proc' = "down" /\ Lost
    /\ Spends({"crash"}, 0)
    /\ UNCHANGED <<disk, kept, upd, item, history>>

(* The hold is two writes, the item's and then the record's: a crash may    *)
(* come between.                                                            *)
TornHold(p) ==
    /\ Alive /\ p \in starting /\ turn = Idle
    /\ Owned(wakes, p.id) /\ Allowed(wakes[p.id])
    /\ item' = ItemKept(p)
    /\ proc' = "down" /\ Lost
    /\ Spends({"crash", "hold"}, 0)
    /\ UNCHANGED <<disk, kept, hand, upd, history>>

(* closing: every claim is marked, so that the next server does not charge  *)
(* it.                                                                      *)
Close ==
    /\ Up
    /\ proc' = "closing"
    /\ LET w == [id \in Tasks |->
                    [wakes[id] EXCEPT !.cut = @ \/ wakes[id].st = "claimed"]]
       IN IF w # wakes
          THEN \E ok \in BOOLEAN :
                  Flush(intents, w, ok) /\ Spends({"close"}, Failed(ok))
          ELSE NoWrite /\ Spends({"close"}, 0)
    /\ UNCHANGED <<doneIds, hand, told, upd, item, starting, turn, history>>

Exit ==
    /\ proc = "closing"
    /\ proc' = "down" /\ Lost
    /\ UNCHANGED <<disk, kept, hand, upd, item, history, spent>>

Capped(r) == IF r.cut /\ r.n >= MaxAttempts THEN MaxAttempts - 1 ELSE r.n

(* Fault: a claim that a crash cut costs nothing either.                    *)
Charged_Never(r) == FALSE

Charged(r) == r.st = "claimed" /\ ~r.held /\ ~r.cut

(* Fault: what had started is owed again.                                   *)
Survives_Started(id, r) ==
    /\ r.st # "none"
    /\ r.st = "claimed" =>
          /\ r.held => HasItem(id)
          /\ Capped(r) + (IF Charged(r) THEN 1 ELSE 0) < MaxAttempts

(* restore: one carrier per record.  What had started is never run again by *)
(* itself; a held record needs its item; a claim that a crash cut is owed   *)
(* again with its attempt lost, one that a close cut costs nothing.         *)
Survives(id, r) ==
    /\ r.st \in {"owed", "claimed"}
    /\ r.st = "claimed" =>
          /\ r.held => HasItem(id)
          /\ Capped(r) + (IF Charged(r) THEN 1 ELSE 0) < MaxAttempts
Reconciled(r) ==
    [r EXCEPT !.cut = FALSE,
              !.st = IF r.held THEN "claimed" ELSE "owed",
              !.n = Capped(r) + (IF Charged(r) THEN 1 ELSE 0)]

Restored(w) ==
    LET K == {id \in Tasks : Survives(id, w[id])}
    IN [id \in Tasks |-> IF id \in K THEN Reconciled(Kept(w, K)[id]) ELSE NoRecord]

Boot ==
    /\ proc = "down" /\ proc' = "up"
    /\ LET w == Restored(disk.wakes)
       IN /\ IF disk = Nothing
             THEN intents' = {} /\ wakes' = w /\ UNCHANGED <<disk, unwritten, kept, spent>>
             ELSE \E ok \in BOOLEAN :
                     Flush(disk.intents, w, ok) /\ Spends({}, Failed(ok))
          /\ item' = {x \in item : IsHeld(w, x.id)}
          /\ over' = over \cup (Carried(disk.wakes) \ Carried(w))
    /\ UNCHANGED <<doneIds, hand, told, upd, starting, turn, woke, tries>>
-----------------------------------------------------------------------------
Next ==
    \/ \E t \in Tasks :
          Ask(t) \/ Ticket(t) \/ Return(t) \/ ReturnStopped(t) \/ Check(t)
    \/ Claim \/ (\E p \in starting : Admit(p)) \/ (\E x \in item : Drain(x))
    \/ OwnTurn \/ Fence \/ FenceDone \/ AcceptOwn \/ (\E p \in turn.start : Accept(p))
    \/ SetupFails \/ TurnEnds
    \/ Stop \/ Sweep
    \/ Crash \/ (\E t \in Tasks : CutReturn(t))
    \/ (\E p \in starting : TornHold(p)) \/ Close \/ Exit \/ Boot

Spec == Init /\ [][Next]_vars
-----------------------------------------------------------------------------
(* Properties.                                                              *)

(* Every variable has its type (a record never runs over its attempts).     *)
TypeOK ==
    /\ proc \in {"up", "closing", "down"}
    /\ intents \subseteq Tasks /\ wakes \in [Tasks -> Record]
    /\ doneIds \subseteq Tasks
    /\ disk \in [intents : SUBSET Tasks, wakes : [Tasks -> Record]]
    /\ unwritten \in BOOLEAN /\ kept \subseteq Tasks
    /\ hand \in [Tasks -> {"none", "out", "owes", "told", "refused"}]
    /\ told \subseteq Tasks /\ upd \subseteq Tasks /\ item \subseteq Item
    /\ starting \subseteq Start /\ turn \in Turn
    /\ woke \in [Tasks -> Nat] /\ tries \in [Tasks -> Nat]
    /\ over \subseteq Tasks /\ spent \in [Odd -> Nat]

(* A reply starts its asker once: no two prompts of a wake go out with it,  *)
(* whatever is stopped, held, replayed, refused or crashed, with one write  *)
(* that fails.  (With two, and a crash between them, it may: the delivery's *)
(* write fails, so the receipt goes on owing, and so does the one by which  *)
(* an engine that accepted before the fence is done; the record and the     *)
(* receipt then come back, and the receipt makes the reply an update anew.) *)
WokenOnce == spent["fail"] <= 1 => \A t \in Tasks : woke[t] <= 1

(* A record that is taken has one carrier: the start that claimed it, the   *)
(* turn it became, or the item that holds it.  None waits for nobody, and   *)
(* none is carried twice.                                                   *)
Starts(id) == {p \in starting : p.id = id}
Setting(id) == turn.at \in {"setup", "sent"} /\ \E p \in turn.start : p.id = id
Carriers(id) == Cardinality(Starts(id)) + (IF Setting(id) THEN 1 ELSE 0)
OneCarrier ==
    Up => \A id \in Tasks :
        LET r == wakes[id]
        IN /\ r.st = "owed" => Carriers(id) = 0 /\ ~HasItem(id)
           /\ r.st = "claimed" =>
                 IF r.held THEN Carriers(id) <= 1 /\ HasItem(id)
                 ELSE Carriers(id) = 1 /\ ~HasItem(id)
           /\ r.st = "started" => /\ Setting(id) /\ turn.at = "sent"
                                  /\ Carriers(id) = 1

(* A start that kills the server, or that never comes back, is not begun    *)
(* for ever: each is paid for, whatever writes fail, up to the cap and the  *)
(* one that ends held.  A clean close is free, each time.                   *)
TriesBounded == \A t \in Tasks : tries[t] <= MaxAttempts + 1 + spent["close"]

(* What is forgotten on disk stays forgotten: a Stop, an ask the asker      *)
(* answered itself, a wake that is done, once written, comes back with no   *)
(* restart, and starts nothing.  Nor is anything put there that memory has  *)
(* forgotten.  (What two failed writes left in memory alone may come late.) *)
GoneStaysGone ==
    [][\A t \in Tasks :
          /\ hand[t] \notin {"none", "refused"} /\ t \notin Mentioned(disk)
          /\ t \in kept \/ t \notin intents \cup Carried(wakes)
          => t \notin Mentioned(disk')]_vars

(* A hand-off the disk had once is not lost: until its wake went out, or it *)
(* is over, the disk keeps its ask or its reply's record, and the record    *)
(* alone once the receipt has let go of the reply; so does a server that is *)
(* up.  (Not one acknowledged with two failed writes behind it and none     *)
(* since: a server that goes down loses its wake, though asker-wake.ts:282  *)
(* says it is acknowledged only when the wake is on disk.)                  *)
NothingLost ==
    \A t \in kept :
        hand[t] \in {"out", "owes", "told"} /\ woke[t] = 0 /\ t \notin over =>
            /\ t \in IF hand[t] = "told" THEN Carried(disk.wakes)
                    ELSE Mentioned(disk)
            /\ Alive => t \in IF hand[t] = "told" \/ t \in told
                              THEN Carried(wakes)
                              ELSE intents \cup Carried(wakes)
================================================================================
