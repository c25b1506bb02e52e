------------------------------- MODULE BotCalls -------------------------------
(***************************************************************************)
(* Bot calls: the call machine (server/bot-calls-machine.ts) as the        *)
(* runtime drives it (bot-calls-runtime.ts), deciding as bot-calls-policy  *)
(* does, composed with the push outbox that rings the phones and stops     *)
(* them (PushRows).                                                        *)
(*                                                                         *)
(* A fact admits a call.  Deciding it may wait for the calendar; it then   *)
(* texts, waits for the owner to see it, or rings.  One call rings or is   *)
(* live at a time, and none rings while a session is open.  Everything is  *)
(* in one database: a transition and the rows it owes are one commit.      *)
(* Timers, decisions in flight, the sends on the wire and the flush's list *)
(* are lost in a crash.                                                    *)
(*                                                                         *)
(* A rule's gates (its switch, caps, cooldowns, voice, devices, quiet      *)
(* hours and the calendar) may answer anything, and differently each time  *)
(* they are asked.  Clocks are flags: a deadline that has passed, a        *)
(* session silent too long.  Cards, hints and receipts are left out.       *)
(***************************************************************************)
EXTENDS Integers, FiniteSets, PushRows

LOCAL INSTANCE FiniteSetsExt

CONSTANTS Bots, BotOf,   \* the bot of each call
          OwnBot,        \* the bot the owner's own call is with
          Marked,        \* calls asked for with "Call me when this finishes"
          Visible,       \* calls whose conversation phones may see
          Bounds, Most   \* how often each of Odd happens, and all together

(* What is bounded: crashes, writes and sends that fail, Stops and other    *)
(* cancels, the owner's own calls.                                          *)
Odd == {"crash", "fail", "stop", "own"}

ASSUME BotAssumption == BotOf \in [Calls -> Bots] /\ OwnBot \in Bots
ASSUME CallsAssumption == Marked \subseteq Calls /\ Visible \subseteq Calls
ASSUME BoundsAssumption == Bounds \in [Odd -> Nat] /\ Most \in Nat

VARIABLES run,       \* the process: down, listening, ready, or fenced after
                     \* a boot that failed
          call, ses, \* bot_calls, and the session of each call
          own,       \* the session of an ordinary owner call
          fact,      \* what admits the call: bot_call_owed and the producers
          row, bound,            \* push_events, and the phones enrolled
          timer, deciding,       \* the runtime's timers and decisions
          wire, batch,           \* inFlight, and the rest of run()'s list
          rung, lost,            \* phones that may have rung (history), and
                                 \* those whose ring expired unanswered
          spent

memory == <<timer, deciding, wire, batch>>
vars == <<run, call, ses, own, fact, row, bound, timer, deciding, wire, batch,
          rung, lost, spent>>

State == {"none", "pending", "waiting", "ringing", "live", "done"}
Call == [st : State, gen : Nat, due : BOOLEAN]
Decision == [c : Calls, entry : {"pending", "waiting"}, gen : Nat]

Init ==
    /\ run = "listening"
    /\ call = [c \in Calls |-> [st |-> "none", gen |-> 0, due |-> FALSE]]
    /\ ses = [c \in Calls |-> "none"]
    /\ own = "none"
    /\ fact = [c \in Calls |-> "none"]
    /\ row = [k \in Keys |-> NoRow]
    /\ bound = Phones
    /\ timer = {} /\ deciding = {} /\ wire = {} /\ batch = {}
    /\ rung = {} /\ lost = {}
    /\ spent = [o \in Odd |-> 0]

Spends(O) ==
    /\ \A o \in O : spent[o] < Bounds[o]
    /\ Cardinality(O) + MapThenSumSet(LAMBDA o : spent[o], Odd) <= Most
    /\ spent' = [o \in Odd |-> IF o \in O THEN spent[o] + 1 ELSE spent[o]]
-----------------------------------------------------------------------------
(* The database as a transition reads and leaves it.                        *)

Now == [call |-> call, ses |-> ses, own |-> own, row |-> row]
In(w, S) == {c \in Calls : w.call[c].st \in S}
Moved(w, C, st) ==
    [c \in Calls |->
        IF c \in C THEN [w.call[c] EXCEPT !.st = st, !.due = FALSE]
        ELSE w.call[c]]

(* Fault: a silent session ends and its call stays live.                    *)
Swept_SessionsOnly(w) ==
    LET Over(s) == IF s = "silent" THEN "ended" ELSE s
    IN  [w EXCEPT !.ses = [c \in Calls |-> Over(@[c])], !.own = Over(@)]

(* Sessions silent too long end, and their calls with them.                 *)
Swept(w) ==
    LET gone == {c \in Calls : w.ses[c] = "silent"}
    IN  [w EXCEPT !.call = Moved(w, gone \cap In(w, {"live"}), "done"),
                  !.ses = [c \in Calls |-> IF c \in gone THEN "ended" ELSE @[c]],
                  !.own = IF @ = "silent" THEN "none" ELSE @]

CallIsLive(w) ==
    \/ In(w, {"ringing", "live"}) # {}
    \/ \E c \in Calls : w.ses[c] = "open"
    \/ w.own = "open"

(* These calls have stopped ringing; a missed one is noted on the phones    *)
(* noted.                                                                   *)
EndRing(w, C, noted) ==
    [w EXCEPT !.call = Moved(w, C, "done"),
              !.row = Inserted(Resolved(@, C), noted, C \cap Visible, "missed")]

Noted(w, C, noted) == [w EXCEPT !.row = Inserted(@, noted, C \cap Visible, "note")]
Ring(w, c, P) ==
    [w EXCEPT !.call = Moved(w, {c}, "ringing"),
              !.row = Inserted(@, P, {c} \cap Visible, "ring")]
-----------------------------------------------------------------------------
(* What a handler leaves behind *)

(* Fault: the fence does not ask whether the call still rings.              *)
CallRinging_Ready(C, c) == run' = "ready"

(* The dispatch fence.                                                      *)
CallRinging(C, c) == run' = "ready" /\ C[c].st = "ringing" /\ ~C[c].due

(* These rows of R are attempted, with the calls as in C.                   *)
Sends(C, R, K) ==
    LET out == {k \in K : k[3] = "ring" => CallRinging(C, k[2])}
    IN  /\ row' = Attempted(R, out, K \ out)
        /\ wire' = wire \cup out
        /\ rung' = rung \cup {<<k[1], k[2]>> : k \in {x \in out : x[3] = "ring"}}

(* The process ends: only the database is left.                             *)
Dies ==
    /\ run' = "down"
    /\ timer' = {} /\ deciding' = {} /\ wire' = {} /\ batch' = {}

Commits(w) == call' = w.call /\ ses' = w.ses /\ own' = w.own

(* A handler commits w; the timers of the calls it settled are made again   *)
(* from those in T, and their rows are sent: all that are new, and of those *)
(* tried before the ones whose backoff is over.  The process may also end   *)
(* before anything is sent.                                                 *)
SettlesAs(r, w, T, S, D, O) ==
    /\ Commits(w)
    /\ UNCHANGED <<bound, lost>>
    /\ \/ /\ run' = r
          /\ timer' = (T \ S) \cup (S \cap In(w, {"waiting", "ringing"}))
          /\ deciding' = D
          /\ UNCHANGED batch
          /\ LET able == {k \in Pending(w.row) \ wire : k[2] \in S /\ r = "ready"}
                 new == {k \in able : w.row[k].tries = 0}
             IN  \E again \in SUBSET (able \ new) :
                     Sends(w.call, w.row, new \cup again)
          /\ Spends(O)
       \/ /\ Dies
          /\ row' = w.row
          /\ UNCHANGED rung
          /\ Spends(O \cup {"crash"})

Settles(w, T, S, D, O) == SettlesAs(run, w, T, S, D, O)

Notable == {{}, bound}      \* nobody in quiet hours, else every phone
-----------------------------------------------------------------------------
(* Decisions *)

Verdict == {"ask", "text", "wait", "fail"}

(* The part of decide before its first await, for the calls A: silent       *)
(* sessions end, then the gates answer.  A call to text or to wait commits  *)
(* at once; one that may ring asks the calendar first.                      *)
Allowed(w, A, v) ==
    \A c \in A :
        /\ v[c] = "wait" => w.call[c].st = "pending"
        /\ v[c] \in {"ask", "wait"} => ~CallIsLive(w)

Ruled(w, A, v, noted) ==
    LET text == {c \in A : v[c] = "text"}
        wait == {c \in A : v[c] = "wait"}
        told == (text \cap In(w, {"pending"})) \cup wait
    IN  [Noted(w, told, noted) EXCEPT
             !.call = [c \in Calls |->
                           IF c \in wait THEN Moved(w, wait, "waiting")[c]
                           ELSE Moved(w, text, "done")[c]]]

Asks(w, A, v) ==
    {[c |-> c, entry |-> w.call[c].st, gen |-> w.call[c].gen] :
         c \in {a \in A : v[a] = "ask"}}

DecidesAs(r, w, T, S, A, noted, O) ==
    LET q == IF A = {} THEN w ELSE Swept(w)
    IN  \E v \in [A -> Verdict] :
            /\ Allowed(q, A, v)
            /\ SettlesAs(r, Ruled(q, A, v, noted), T,
                         S \cup {c \in A : v[c] \in {"text", "wait"}},
                         deciding \cup Asks(q, A, v),
                         O \cup {o \in {"fail"} : \E c \in A : v[c] = "fail"})

Decides(w, T, S, A, noted, O) == DecidesAs(run, w, T, S, A, noted, O)

(* Fault: the calendar's answer commits whatever happened to the call.      *)
StillAsked_Anyway(w, d) == w.call[d.c].st # "none"

StillAsked(w, d) == w.call[d.c].st = d.entry /\ w.call[d.c].gen = d.gen

(* Fault: the gates are not asked again in the committing transaction.      *)
MayRing_AsBefore(w) == TRUE

MayRing(w) == ~CallIsLive(w)

(* The calendar answered: the gates are asked again in the transaction that *)
(* commits, unless the call is not what it was.                             *)
Returns(d) ==
    LET w == Swept(Now)
        rest == deciding \ {d}
        c == d.c
    IN  /\ d \in deciding
        /\ UNCHANGED fact
        /\ IF ~StillAsked(w, d) THEN Settles(w, timer, {}, rest, {})
           ELSE \/ /\ MayRing(w)
                   /\ \E P \in SUBSET bound :
                          Settles(Ring(w, c, P), timer, {c}, rest, {})
                \/ \E noted \in Notable, v \in {"text", "wait", "fail"} :
                       /\ Allowed(w, {c}, [a \in {c} |-> v])
                       /\ Settles(Ruled(w, {c}, [a \in {c} |-> v], noted), timer,
                                  {a \in {c} : v # "fail"}, rest,
                                  {o \in {"fail"} : v = "fail"})
-----------------------------------------------------------------------------
(* Facts *)

Owed == {c \in Calls : fact[c] \in {"settled", "owed"}}
Up == run # "down"

(* The drain admits these of the owed facts, some of them by no rule.       *)
Drained(w, G, N) ==
    [w EXCEPT !.call = Moved(w, N \cap In(w, {"none"}), "pending")]
Taken(f, G) == [c \in Calls |-> IF c \in G THEN "taken" ELSE f[c]]

(* "Call me when this finishes".                                            *)
MarkTurnCall(c) ==
    /\ Up /\ c \in Marked /\ fact[c] = "none" /\ call[c].st = "none"
    /\ fact' = [fact EXCEPT ![c] = "armed"]
    /\ UNCHANGED <<run, call, ses, own, row, bound, memory, rung, lost, spent>>

(* A marked turn ends, or a message arrives with an owed row in its commit; *)
(* then the drain wakes.  A row it cannot admit stays owed.                 *)
Owes(c) ==
    /\ Up
    /\ \/ c \in Marked /\ fact[c] = "armed"
       \/ c \notin Marked /\ fact[c] = "none"
    /\ LET owed == [fact EXCEPT ![c] = IF c \in Marked THEN "settled" ELSE "owed"]
           all == Owed \cup {c}
       IN  \E G \in IF run = "ready" THEN SUBSET all ELSE {{}} :
           \E N \in SUBSET G, noted \in Notable :
               /\ fact' = Taken(owed, G)
               /\ Decides(Drained(Now, G, N), timer, {}, N, noted,
                          {o \in {"fail"} : run = "ready" /\ G # all})

(* A producer's fact is admitted at once; before the boot nothing decides.  *)
Tells(c) ==
    /\ Up /\ c \notin Marked /\ fact[c] = "none"
    /\ fact' = [fact EXCEPT ![c] = "taken"]
    /\ \E noted \in Notable :
           Decides(Drained(Now, {c}, {c}), timer, {},
                   {a \in {c} : run = "ready"}, noted, {})
-----------------------------------------------------------------------------
(* Timers and the sweep *)

(* The deadline of a wait or of a ring passes; a session falls silent, or   *)
(* reaches its backstop.                                                    *)
TimePasses(c) ==
    /\ call[c].st \in {"waiting", "ringing"} /\ ~call[c].due
    /\ call' = [call EXCEPT ![c].due = TRUE]
    /\ UNCHANGED <<run, ses, own, fact, row, bound, memory, rung, lost, spent>>

FallsSilent ==
    /\ \/ /\ own = "open" /\ own' = "silent"
          /\ UNCHANGED ses
       \/ /\ UNCHANGED own
          /\ \E c \in Calls :
                 ses[c] = "open" /\ ses' = [ses EXCEPT ![c] = "silent"]
    /\ UNCHANGED <<run, call, fact, row, bound, memory, rung, lost, spent>>

(* A waiting call escalates, a ringing one is missed.                       *)
TimerFires(c) ==
    /\ c \in timer /\ call[c].due
    /\ UNCHANGED fact
    /\ \E noted \in Notable :
           \/ /\ call[c].st = "waiting"
              /\ Decides(Now, timer \ {c}, {}, {c}, noted, {})
           \/ /\ call[c].st = "ringing"
              /\ Settles(EndRing(Now, {c}, noted), timer \ {c}, {c}, deciding, {})

(* Its write failed, or it fired before the wall clock had got there.       *)
TimerLost(c) ==
    /\ c \in timer /\ call[c].st = "ringing"
    /\ timer' = timer \ {c}
    /\ Spends({"fail"})
    /\ UNCHANGED <<run, call, ses, own, fact, row, bound, deciding, wire, batch,
                   rung, lost>>

(* Fault: the sweep looks at sessions and owed facts only.                  *)
Untimed_None(w) == {}

(* Waits and rings past their deadline whose timer was lost.                *)
Untimed(w) == {c \in In(w, {"waiting", "ringing"}) \ timer : w.call[c].due}

(* Every ten seconds: silent sessions end, lost timers are made up for and  *)
(* the drain wakes; a write that fails leaves the rest to the next sweep.   *)
Sweep ==
    LET w == Swept(Now)
        ended == {c \in Calls : ses[c] = "silent"}
        L == Untimed(w)
    IN  /\ run = "ready"
        /\ w # Now \/ L # {} \/ Owed # {}
        /\ \E E \in SUBSET L, G \in SUBSET Owed :
           \E N \in SUBSET G, noted \in Notable :
               LET rang == E \cap In(w, {"ringing"})
                   q == Drained(EndRing(w, rang, noted), G, N)
               IN  /\ fact' = Taken(fact, G)
                   /\ Decides(q, timer, ended \cup rang,
                              N \cup (E \ rang), noted,
                              {o \in {"fail"} : E # L \/ G # Owed})
-----------------------------------------------------------------------------
(* The owner *)

(* Answer.  Past the deadline the ring is missed; a session that fell       *)
(* silent is over.  Any other answer only settles the call again.           *)
Answered(w, c) ==
    [w EXCEPT !.call = Moved(w, {c}, "live"), !.ses[c] = "open",
              !.row = Resolved(@, {c})]

AnswerCall(c) ==
    /\ Up /\ call[c].st # "none"
    /\ UNCHANGED fact
    /\ \E noted \in Notable :
           Settles(IF call[c].st = "ringing"
                     THEN IF call[c].due THEN EndRing(Now, {c}, noted)
                          ELSE Answered(Now, c)
                   ELSE IF ses[c] = "silent"
                     THEN [Now EXCEPT !.call = Moved(Now, {c}, "done"),
                                      !.ses[c] = "ended"]
                   ELSE Now,
                   timer, {c}, deciding, {})

(* Not now, and Text me instead, which adds the note.                       *)
DeclineCall(c) ==
    /\ Up /\ call[c].st = "ringing"
    /\ UNCHANGED fact
    /\ \E noted \in Notable :
           Settles(EndRing(Now, {c}, noted), timer, {c}, deciding, {})

(* The owner has seen the card of a waiting call.                           *)
MarkSeen(c) ==
    /\ Up /\ call[c].st = "waiting"
    /\ UNCHANGED fact
    /\ Settles([Now EXCEPT !.call = Moved(Now, {c}, "done")], timer, {c},
               deciding, {})

(* The owner calls a bot; a ring ends, as if they had asked for a text.     *)
OpenOwnerSession ==
    /\ Up /\ own = "none"
    /\ UNCHANGED fact
    /\ \E noted \in Notable :
           LET C == In(Now, {"ringing"})
           IN  Settles([EndRing(Now, C, noted) EXCEPT !.own = "open"], timer, C,
                       deciding, {"own"})

(* A session is closed, or traffic for a silent one arrives and ends it.    *)
EndSession(c) ==
    /\ Up /\ ses[c] \in {"open", "silent"}
    /\ UNCHANGED fact
    /\ Settles([Now EXCEPT !.call = Moved(Now, {c}, "done"), !.ses[c] = "ended"],
               timer, {c}, deciding, {})

EndOwnSession ==
    /\ Up /\ own # "none"
    /\ UNCHANGED fact
    /\ Settles([Now EXCEPT !.own = "none"], timer, {}, deciding, {})

Cancelled(w, C) ==
    [w EXCEPT !.call = Moved(w, C, "done"), !.row = Resolved(@, C)]

(* Fault: the calls end, the sessions stay open.                            *)
Hungup_CallsOnly(w, b) ==
    LET mine == {c \in Calls : BotOf[c] = b}
    IN  [Cancelled(w, mine \ In(w, {"none", "done"})) EXCEPT
             !.row = NotesDropped(@, mine)]

(* Everything of this bot ends: its calls, its sessions and its notes.      *)
Hungup(w, b) ==
    LET mine == {c \in Calls : BotOf[c] = b}
    IN  [Cancelled(w, mine \ In(w, {"none", "done"})) EXCEPT
             !.row = NotesDropped(@, mine),
             !.ses = [c \in Calls |->
                          IF c \in mine /\ @[c] # "none" THEN "ended" ELSE @[c]],
             !.own = IF b = OwnBot THEN "none" ELSE @]

(* Stop, pause, delete; switching the bot's calls off also takes back the   *)
(* marks that wait for their turn.                                          *)
CancelBot(b, off) ==
    LET ids == {c \in Calls : BotOf[c] = b} \ In(Now, {"none", "done"})
    IN  /\ Up
        /\ fact' = [c \in Calls |->
                        IF off /\ BotOf[c] = b /\ fact[c] \in {"armed", "settled"}
                        THEN "none" ELSE fact[c]]
        /\ Settles(Hungup(Now, b), timer, ids, deciding, {"stop"})

(* A rule off, never again, calls off for today: a live call goes on.       *)
CancelCalls(C) ==
    /\ Up /\ C # {} /\ C \cap In(Now, {"none", "live", "done"}) = {}
    /\ UNCHANGED fact
    /\ Settles(Cancelled(Now, C), timer, C, deciding, {"stop"})
-----------------------------------------------------------------------------
(* The push outbox *)

(* run(): expired rows are pruned and the list of pending ones is read.     *)
FlushStarts ==
    LET dead == Expired(row, {c \in Calls : call[c].due})
        left == Without(row, dead)
    IN  /\ Up /\ batch = {}
        /\ row' = left
        /\ batch' = {[k |-> k, tries |-> left[k].tries] : k \in Pending(left)}
        /\ lost' = lost \cup
               {<<k[1], k[2]>> : k \in {x \in dead : call[x[2]].st = "ringing"}}
        /\ UNCHANGED <<run, call, ses, own, fact, bound, timer, deciding, wire,
                       rung, spent>>

(* One row of the list is attempted, if nobody else took it meanwhile.      *)
FlushNext(k) ==
    \E b \in batch :
        /\ b.k = k
        /\ batch' = batch \ {b}
        /\ IF k \notin wire /\ Claimable(row, k, b.tries)
           THEN run' = run /\ Sends(call, row, {k})
           ELSE UNCHANGED <<run, row, wire, rung>>
        /\ UNCHANGED <<call, ses, own, fact, bound, timer, deciding, lost, spent>>

(* The relay accepts, rejects, or is to be asked again.                     *)
RelayAnswers(k) ==
    /\ k \in wire
    /\ wire' = wire \ {k}
    /\ \/ row' \in {Accepted(row, k), Rejected(row, k)} /\ UNCHANGED spent
       \/ UNCHANGED row /\ Spends({"fail"})
    /\ UNCHANGED <<run, call, ses, own, fact, bound, timer, deciding, batch,
                   rung, lost>>

(* A phone is removed, and its rows with it.                                *)
RemoveBinding(p) ==
    /\ Up /\ p \in bound
    /\ bound' = bound \ {p}
    /\ row' = Without(row, {k \in Keys : k[1] = p})
    /\ UNCHANGED <<run, call, ses, own, fact, memory, rung, lost, spent>>
-----------------------------------------------------------------------------
(* Crash and boot *)

Crash ==
    /\ Up /\ Dies
    /\ Spends({"crash"})
    /\ UNCHANGED <<call, ses, own, fact, row, bound, rung, lost>>

(* The port opens before the boot of bot calls.                             *)
Listens ==
    /\ run = "down" /\ run' = "listening"
    /\ UNCHANGED <<call, ses, own, fact, row, bound, memory, rung, lost, spent>>

(* Open sessions get a minute's grace.                                      *)
Graced(w) ==
    LET Back(s) == IF s = "silent" THEN "open" ELSE s
    IN  [w EXCEPT !.ses = [c \in Calls |-> Back(@[c])], !.own = Back(@)]

(* The walk of the calls X: a pending one is to be decided again, a wait    *)
(* whose deadline passed is over, and so is every ring.                     *)
Walked(w, X, noted) ==
    LET again == X \cap In(w, {"pending"})
        late == {c \in X \cap In(w, {"waiting"}) : w.call[c].due}
        q == EndRing(w, X \cap In(w, {"ringing"}), noted)
    IN  [q EXCEPT !.call =
            [c \in Calls |->
                IF c \in again THEN [q.call[c] EXCEPT !.gen = @ + 1]
                ELSE IF c \in late THEN Moved(w, late, "done")[c]
                ELSE q.call[c]]]

(* The boot, before the outbox's timer and the sweep start: marked turns    *)
(* are over, the drain, the walk.  A walk that fails leaves calls fenced.   *)
Boot ==
    /\ run = "listening"
    /\ LET settled == [c \in Calls |-> IF fact[c] = "armed" THEN "settled" ELSE fact[c]]
           all == {c \in Calls : settled[c] \in {"settled", "owed"}}
       IN  \E G \in SUBSET all, X \in SUBSET Calls :
           \E N \in SUBSET G, noted \in Notable :
               LET w == Drained(Graced(Now), G, N)
                   q == Walked(w, X, noted)
                   ready == X = Calls
                   ended == In(w, {"waiting", "ringing"}) \cap In(q, {"done"})
               IN  /\ fact' = Taken(settled, G)
                   /\ DecidesAs(IF ready THEN "ready" ELSE "fenced", q,
                                IF ready THEN In(q, {"waiting"}) ELSE {},
                                IF ready THEN ended ELSE {},
                                IF ready THEN In(q, {"pending"}) ELSE {},
                                noted,
                                {o \in {"fail"} : ~ready \/ G # all})
-----------------------------------------------------------------------------
Next ==
    \/ \E c \in Calls :
           \/ MarkTurnCall(c) \/ Owes(c) \/ Tells(c)
           \/ TimePasses(c) \/ TimerFires(c) \/ TimerLost(c)
           \/ AnswerCall(c) \/ DeclineCall(c) \/ MarkSeen(c) \/ EndSession(c)
    \/ \E d \in deciding : Returns(d)
    \/ FallsSilent \/ Sweep
    \/ OpenOwnerSession \/ EndOwnSession
    \/ \E b \in Bots, off \in BOOLEAN : CancelBot(b, off)
    \/ \E C \in SUBSET Calls : CancelCalls(C)
    \/ FlushStarts
    \/ \E k \in Keys : FlushNext(k) \/ RelayAnswers(k)
    \/ \E p \in Phones : RemoveBinding(p)
    \/ Crash \/ Listens \/ Boot

Spec == Init /\ [][Next]_vars

(* What happens by itself: time passes, timers and the sweep's interval     *)
(* fire, a send has a timeout, and a process that ended is started again.   *)
(* The calendar has a budget of its own, and the outbox's interval may go   *)
(* round and round while a send is on the wire.                             *)
Works ==
    \/ \E c \in Calls : TimePasses(c) \/ TimerFires(c)
    \/ FallsSilent \/ Sweep
    \/ \E k \in Keys : RelayAnswers(k)
    \/ Listens \/ Boot

Answers == \E d \in deciding : Returns(d)
Flushes == FlushStarts \/ \E k \in Keys : FlushNext(k)

Fairness == WF_vars(Works) /\ WF_vars(Answers) /\ WF_vars(Flushes)

FairSpec == Spec /\ Fairness
-----------------------------------------------------------------------------
(* Properties *)

(* Types.                                                                   *)
TypeOK ==
    /\ run \in {"down", "listening", "ready", "fenced"}
    /\ call \in [Calls -> Call]
    /\ ses \in [Calls -> {"none", "open", "silent", "ended"}]
    /\ own \in {"none", "open", "silent"}
    /\ fact \in [Calls -> {"none", "armed", "settled", "owed", "taken"}]
    /\ row \in [Keys -> Row] /\ bound \subseteq Phones
    /\ timer \subseteq Calls /\ deciding \subseteq Decision
    /\ wire \subseteq Keys /\ batch \subseteq [k : Keys, tries : Nat]
    /\ rung \subseteq Phones \X Calls /\ lost \subseteq Phones \X Calls
    /\ spent \in [Odd -> Nat]

(* One call rings or is live at a time, and none rings while a session is   *)
(* open: neither the calendar's late answer, nor the owner's own call, nor  *)
(* a session a crash left behind, gets in between (callIsLive, ringFrom).   *)
RingsAlone ==
    /\ Cardinality(In(Now, {"ringing", "live"})) <= 1
    /\ In(Now, {"ringing"}) # {} =>
           own = "none" /\ \A c \in Calls : ses[c] \notin {"open", "silent"}

(* A call is live exactly while its session has not ended, whichever of the *)
(* two a sweep, a Stop, an answer or a restart touches (finishLive).        *)
LiveHasSession ==
    \A c \in Calls : call[c].st = "live" <=> ses[c] \in {"open", "silent"}

(* A phone that may have rung for a call that no longer rings has been      *)
(* owed the stop, even if the ring's acknowledgement was lost, or the       *)
(* process ended: or its ring is lost, deleted as expired by a flush that   *)
(* came before the timer or the sweep ended the ringing.                    *)
WhoRangIsTold ==
    \A pc \in rung :
        pc[1] \in bound /\ call[pc[2]].st # "ringing" =>
            row[<<pc[1], pc[2], "stop">>] # NoRow \/ pc \in lost

Rank == [none |-> 0, pending |-> 1, waiting |-> 2, ringing |-> 3, live |-> 4,
         done |-> 5]

(* A call only moves forward: no late calendar answer, lost timer, repeated *)
(* wake or restart brings one back, rings it twice or revives it.           *)
Forward == [][\A c \in Calls : Rank[call'[c].st] >= Rank[call[c].st]]_vars

(* A ring goes out, at first or again, only for a call that rings and whose *)
(* time is not up, however old the list and however often it failed.        *)
RingsInTime ==
    [][\A k \in wire' \ wire :
           k[3] = "ring" => /\ run' = "ready"
                            /\ call'[k[2]].st = "ringing" /\ ~call'[k[2]].due]_vars

(* What the outbox is done with it is done with: no stale list, late relay  *)
(* answer or second sender brings a row back to be sent again.              *)
LandedStays ==
    [][\A k \in Keys :
           row[k].st \in {"landed", "dropped"} => row'[k] \in {row[k], NoRow}]_vars

(* What is to come to an end by itself: a fact that is owed, a decision     *)
(* whose write did not fail, a wait, a ring, a live call and a stop.        *)
Unfinished(c) ==
    /\ run # "fenced"
    /\ \/ fact[c] \in {"settled", "owed"}
       \/ call[c].st \in {"waiting", "ringing", "live"}
       \/ call[c].st = "pending" /\ spent["fail"] = 0
       \/ \E p \in Phones : row[<<p, c, "stop">>].st = "pending"

(* Every fact that is owed and every call it admits comes to an end, and    *)
(* every stop reaches the relay, over lost timers, lost answers, failed     *)
(* writes and restarts, unless the boot failed.                             *)
Ends == \A c \in Calls : Unfinished(c) ~> ~Unfinished(c)
=============================================================================
