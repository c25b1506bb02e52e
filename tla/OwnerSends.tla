------------------------------ MODULE OwnerSends ------------------------------
(***************************************************************************)
(* The owner-send pipeline of one direct conversation: acceptance of an    *)
(* HTTP send, the per-thread admission that decides to run, steer or queue *)
(* it, the drain that starts what waited, the late answer to a steer, Stop,*)
(* Send again, crash and startup recovery, backup and restore, pruning.    *)
(* Source: server/send-store.ts, steer-queue.ts, steer-late.ts,            *)
(* ask-turn-device.ts and admitDirectSend / acceptBotSend in index.ts.     *)
(*                                                                         *)
(* An action is one synchronous section of the server: from one await (or  *)
(* callback, or timer) to the next.  The bot's turn, the room it may speak *)
(* in and the engine's answers are its environment.                        *)
(***************************************************************************)
EXTENDS SendLedger

CONSTANTS Typed,      \* sends whose words are a plain "stop"
          Answers,    \* sends that answer a question card
          MaxPress, MaxStop, MaxCrash, MaxFail, MaxOther, MaxRestore

ASSUME BoundsAssumption ==
    /\ {MaxPress, MaxStop, MaxCrash, MaxFail, MaxOther, MaxRestore} \subseteq Nat
    /\ Typed \subseteq Sends /\ Answers \subseteq Sends

VARIABLES
    row, lines,                    \* SQLite: the ledger, and how many transcript lines hold each send's words
    backup,                        \* the snapshot a restore would bring back
    chain, pc,                     \* ThreadAdmission: the sends deciding, and where the first one awaits
    lateOpen, late,                \* SendStore.lateOpen; the onLate callbacks still outstanding
    batch, retry, watch,           \* steer-queue.ts: starting, retries, watches
    turn, carry, room, target,     \* the bot's direct turn and its words, a room turn, the task's selection
    server, todo,                  \* "down", "recovering", "up"; rows completeUnresolved still has to finish
    net, tokens,                   \* every request a client made (any may arrive again); minted tokens
    given,                         \* history: times the engine got the words, per send and owner act
    acked, dismissed, forgot,      \* history: sends accepted; dropped by the owner; changed since a backup now restored
    parked,                        \* history: sends waiting at a Stop, then a crash, or in a restored backup
    since,                         \* history: the first press made after a Stop or a restore held each send
    spent                          \* how much of each bound is used

ledgerVars == <<row, lines>>
drainVars == <<row, lines, lateOpen, batch, watch, spent>>
admissionVars == <<chain, pc>>
turnVars == <<turn, carry, room, target>>
bootVars == <<server, todo>>
clientVars == <<net, tokens>>
historyVars == <<given, acked, dismissed, forgot, parked, since>>
vars == <<row, lines, backup, chain, pc, lateOpen, late, batch, retry, watch,
          turn, carry, room, target, server, todo, net, tokens, given, acked,
          dismissed, forgot, parked, since, spent>>

Acts == 0..MaxPress
Job == [s : Sends, q : Nat, a : Nat]          \* a send, its row's number, the act that made the row
LateCall == [s : Sends, q : Nat, a : Nat, line : BOOLEAN]
Snapshot == [row : [Sends -> Row], lines : [Sends -> Nat],
             acked : SUBSET Sends, dismissed : SUBSET Sends,
             given : [Sends -> [Acts -> Nat]]]
NoBackup == [none |-> TRUE]

TypeOK ==
    /\ row \in [Sends -> Row] /\ lines \in [Sends -> Nat]
    /\ backup \in Snapshot \cup {NoBackup}
    /\ chain \in Seq(Job) /\ pc \in {"idle", "steering", "starting", "landed"}
    /\ lateOpen \subseteq Nat /\ late \subseteq LateCall
    /\ batch \subseteq Job /\ retry \in {"none", "wait", "open"} /\ watch \in BOOLEAN
    /\ turn \in {"idle", "setup", "running", "settling"}
    /\ carry \subseteq Sends \X Nat /\ room \in BOOLEAN
    /\ target \in {"here", "away", "gone"}
    /\ server \in {"down", "recovering", "up"} /\ todo \subseteq Sends
    /\ net \subseteq Request /\ tokens \in [press : Nat, stop : Nat, gen : Nat]
    /\ given \in [Sends -> [Acts -> Nat]]
    /\ acked \subseteq Sends /\ dismissed \subseteq Sends
    /\ {forgot, parked} \subseteq SUBSET Sends /\ since \in [Sends -> Nat]
    /\ spent \in [crash : Nat, fail : Nat, other : Nat, restore : Nat]

Init ==
    /\ row = [s \in Sends |-> NoRow] /\ lines = [s \in Sends |-> 0]
    /\ backup = NoBackup
    /\ chain = <<>> /\ pc = "idle" /\ lateOpen = {} /\ late = {}
    /\ batch = {} /\ retry = "none" /\ watch = FALSE
    /\ turn = "idle" /\ carry = {} /\ room = FALSE /\ target = "here"
    /\ server = "up" /\ todo = {}
    /\ net = {} /\ tokens = [press |-> 0, stop |-> 0, gen |-> 0]
    /\ given = [s \in Sends |-> [a \in Acts |-> 0]]
    /\ acked = {} /\ dismissed = {} /\ forgot = {} /\ parked = {}
    /\ since = [s \in Sends |-> 0]
    /\ spent = [crash |-> 0, fail |-> 0, other |-> 0, restore |-> 0]

Up == server = "up"
Busy(t) == t \in {"setup", "running"}       \* the task's busy flag
Occupied(t) == t # "idle"                   \* directThreadBusy: the flag or the run
Spend(what, n, bound) ==
    /\ spent[what] + n <= bound
    /\ spent' = [spent EXCEPT ![what] = @ + n]
Fails(n) == Spend("fail", n, MaxFail)       \* n database writes fail here
Gave(given0, words) ==
    [s \in Sends |-> [a \in Acts |->
        given0[s][a] + IF <<s, a>> \in words THEN 1 ELSE 0]]
SetRow(s, r) == row' = [row EXCEPT ![s] = r]
-----------------------------------------------------------------------------
(* drainSteeredMessages on this thread.  L and open are the ledger and      *)
(* lateOpen it finds, d the drain's own state: the batch being started, the *)
(* retry entry and the watch timer.  It reads the turn and the room as the  *)
(* calling section leaves them (turn', room').                              *)

Desk == [batch |-> batch, retry |-> retry, watch |-> watch]

DrainNothing(L, open, d) ==
    /\ row' = L /\ lateOpen' = open /\ batch' = d.batch /\ watch' = d.watch
    /\ UNCHANGED <<lines, spent>>

(* The bot is gone: everything waiting becomes a chip, or waits for the     *)
(* next drain to try that again.                                            *)
DrainGone(L, open, d) ==
    /\ \E kept \in SUBSET {s \in Sends : L[s].st = "queued"} :
        /\ Fails(Cardinality(kept))
        /\ row' = [s \in Sends |-> IF L[s].st = "queued" /\ s \notin kept
                                  THEN Refused(L[s]) ELSE L[s]]
    /\ lateOpen' = open /\ batch' = d.batch /\ watch' = d.watch
    /\ UNCHANGED lines

(* Started, refused (its line could not be written, or a via row lost its   *)
(* standing), or left dispatched (that refusal could not be written either).*)
DrainedRow(r, fate) ==
    CASE fate = "ok" -> Settled(Marked(r), "started", TRUE)
      [] fate = "refused" -> Refused(Marked(r))
      [] fate = "stuck" -> Marked(r)

(* The marker for the whole batch, then a line per row, then one start.  A  *)
(* via row refused whole lets the pass go on to the rows behind it.         *)
DrainStarts(L, d) ==
    \E passed \in SUBSET (Drainable(L, {}) \cap Via) :
        LET D == Drainable(L, {})
            B == DrainBatch(L, D \ passed)
        IN  /\ \A v \in passed, t \in D : L[t].seq < L[v].seq => t \in passed
            /\ \E fate \in [B -> {"ok", "refused", "stuck"}] :
                LET failed == {s \in B : fate[s] # "ok"}
                    runs == {s \in B : fate[s] = "ok" \/ L[s].ex}
                    twice == {s \in B : fate[s] = "stuck" /\ ~L[s].ex}
                IN  /\ \A s \in failed : fate[s] = "refused" => ~L[s].ex /\ s \notin Via
                    /\ Fails(Cardinality(failed) + Cardinality(twice) + Cardinality(passed))
                    /\ row' = [s \in Sends |->
                                 IF s \in passed THEN Refused(Marked(L[s]))
                                 ELSE IF s \in B THEN DrainedRow(L[s], fate[s]) ELSE L[s]]
                    /\ lines' = [s \in Sends |-> lines[s] +
                                   IF s \in runs /\ ~L[s].ex THEN 1 ELSE 0]
                    /\ batch' = {[s |-> s, q |-> L[s].seq, a |-> L[s].act] : s \in runs}
    /\ lateOpen' = {} /\ watch' = d.watch

(* The marker could not be written: nothing starts.                         *)
DrainUnmarked(L, d) ==
    /\ Drainable(L, {}) # {} /\ Fails(1)
    /\ row' = L /\ lateOpen' = {} /\ batch' = d.batch /\ watch' = d.watch
    /\ UNCHANGED lines

Drain(L, open, d) ==
    IF ~\E s \in Sends : L[s].st = "queued" THEN DrainNothing(L, open, d)
    ELSE IF target = "gone" THEN DrainGone(L, open, d)
    ELSE IF Busy(turn') \/ room' \/ d.batch # {} \/ d.retry = "wait"
         THEN DrainNothing(L, open, d)
    ELSE IF Occupied(turn')
         THEN DrainNothing(L, open, [d EXCEPT !.watch = d.watch \/ d.retry = "none"])
    ELSE \/ DrainStarts(LateReleased(L, open), d)
         \/ DrainUnmarked(LateReleased(L, open), d)

(* Any other bot's turn end, a config change, a sweep: a drain from elsewhere. *)
OtherDrain ==
    /\ Up
    /\ UNCHANGED <<turnVars, retry>>
    /\ Drain(row, lateOpen, Desk)
    /\ UNCHANGED <<backup, admissionVars, late, bootVars, clientVars, historyVars>>
-----------------------------------------------------------------------------
(* Clients: a send, a Send again on a chip, and any repeat of either.       *)

Press(p) ==
    /\ net' = net \cup {p}
    /\ UNCHANGED <<ledgerVars, backup, admissionVars, lateOpen, late, batch, retry,
                   watch, turnVars, bootVars, historyVars, spent>>

FirstSend(s) ==
    /\ Press([s |-> s, act |-> 0, resend |-> FALSE, gen |-> 0, tok |-> 0])
    /\ net' # net /\ s \notin acked
    /\ UNCHANGED tokens

SendAgain(s) ==
    /\ Up /\ Chip(row[s])
    /\ tokens.press < MaxPress
    /\ tokens' = [tokens EXCEPT !.press = @ + 1]
    /\ Press([s |-> s, act |-> tokens.press + 1, resend |-> TRUE,
              gen |-> IF row[s].held THEN row[s].gen ELSE 0,
              tok |-> IF row[s].stopped THEN row[s].tok ELSE 0])

Waiting == {s \in Sends : row[s].st \in Undecided /\ ~row[s].disp}

(* What a Stop finds waiting is the owner's to run again: by a press made   *)
(* from now on, should a restart or a failure come before it runs.          *)
HeldSince == [s \in Sends |-> IF s \in Waiting THEN tokens.press + 1 ELSE since[s]]

InChain(s) == \E i \in DOMAIN chain : chain[i].s = s

(* acceptBotSend for a plain send: one transaction, then its place in line. *)
Accept(p) ==
    /\ Up /\ target # "gone" /\ p \in net /\ ~InChain(p.s)
    /\ ~(p.s \in Typed /\ Busy(turn))
    /\ row[p.s].st = "none" => lines[p.s] = 0      \* else its line is the answer
    /\ Accepts(row[p.s], p, tokens.gen)
    /\ \E q \in Seqs :
        /\ IsNextSeq(Without(row, p.s), q)
        /\ SetRow(p.s, NewRow(p, q))
        /\ chain' = Append(chain, [s |-> p.s, q |-> q, a |-> NewRow(p, q).act])
    /\ acked' = acked \cup {p.s} /\ parked' = parked \ {p.s}
    /\ since' = [since EXCEPT ![p.s] = 0]
    /\ UNCHANGED <<lines, backup, pc, lateOpen, late, batch, retry, watch, turnVars,
                   bootVars, clientVars, given, dismissed, forgot, spent>>

(* A repeat that finds its row still deciding, with nobody working on it.   *)
AcceptAgain(p) ==
    /\ Up /\ target # "gone" /\ p \in net /\ ~InChain(p.s)
    /\ row[p.s].st = "sending"
    /\ chain' = Append(chain, [s |-> p.s, q |-> row[p.s].seq, a |-> row[p.s].act])
    /\ UNCHANGED <<ledgerVars, backup, pc, lateOpen, late, batch, retry, watch, turnVars,
                   bootVars, clientVars, historyVars, spent>>

(* acceptTypedStop: a row born finished and the waiting rows marked.        *)
AcceptTypedStop(p) ==
    /\ Up /\ target # "gone" /\ p \in net /\ ~InChain(p.s)
    /\ p.s \in Typed /\ Busy(turn)
    /\ row[p.s].st = "none" => lines[p.s] = 0
    /\ Accepts(row[p.s], p, tokens.gen)
    /\ tokens.stop < MaxStop
    /\ tokens' = [tokens EXCEPT !.stop = @ + 1]
    /\ \E q \in Seqs :
        /\ IsNextSeq(Without(row, p.s), q)
        /\ row' = StopMarked([row EXCEPT ![p.s] = TypedStopRow(p, q)], tokens.stop + 1)
    /\ since' = HeldSince
    /\ acked' = acked \cup {p.s} /\ dismissed' = dismissed \cup {p.s}
    /\ parked' = parked \ {p.s}
    /\ UNCHANGED <<lines, backup, admissionVars, lateOpen, late, batch, retry, watch,
                   turnVars, bootVars, net, given, forgot, spent>>

(* The Stop button: the waiting rows are marked; the turn it interrupts     *)
(* ends by TurnCompleted / TurnReleased.                                    *)
StopPressed ==
    /\ Up /\ tokens.stop < MaxStop /\ Waiting # {}
    /\ tokens' = [tokens EXCEPT !.stop = @ + 1]
    /\ row' = StopMarked(row, tokens.stop + 1)
    /\ since' = HeldSince
    /\ UNCHANGED <<lines, backup, admissionVars, lateOpen, late, batch, retry, watch, turnVars,
                   bootVars, net, given, acked, dismissed, forgot, parked, spent>>

(* The owner cancels a waiting message or dismisses a chip.                 *)
Cancel(s) ==
    /\ Up /\ Cancellable(row[s])
    /\ SetRow(s, Settled(row[s], "cancelled", FALSE))
    /\ dismissed' = dismissed \cup {s} /\ parked' = parked \ {s}
    /\ UNCHANGED <<lines, backup, admissionVars, lateOpen, late, batch, retry, watch,
                   turnVars, bootVars, clientVars, given, acked, forgot, since, spent>>
-----------------------------------------------------------------------------
(* admitDirectSend.  The head of chain decides; later sends wait for it.    *)

Mine(j) == row[j.s].seq = j.q
Leave == chain' = Tail(chain) /\ pc' = "idle"
Stay(next) == chain' = chain /\ pc' = next
NoDrain == UNCHANGED <<batch, watch>>

(* Fault: the catch block takes up only rows still deciding.                *)
CaughtRow_SendingOnly(j) ==
    IF Mine(j) /\ row[j.s].st = "sending"
    THEN IF lines[j.s] > 0 THEN Settled(row[j.s], "started", TRUE) ELSE Refused(row[j.s])
    ELSE row[j.s]

(* The catch block: a row nobody works on any more becomes started when a   *)
(* line holds the words, else a chip; or that write fails too.  n writes    *)
(* failed before it.                                                        *)
CaughtRow(j) ==
    IF Mine(j) /\ row[j.s].st \in {"sending", "dispatched"}
    THEN IF lines[j.s] > 0 THEN Settled(row[j.s], "started", TRUE) ELSE Refused(row[j.s])
    ELSE row[j.s]

Caught(j, n) ==
    /\ \/ Fails(n) /\ SetRow(j.s, CaughtRow(j))
       \/ Fails(n + 1) /\ UNCHANGED row
    /\ Leave /\ NoDrain
    /\ UNCHANGED <<lines, lateOpen, late, retry, turnVars, given>>

(* queueIt(), with or without the drain that follows it.                    *)
QueueIt(j, drains) ==
    /\ UNCHANGED <<late, retry, turnVars, given>>
    /\ Leave
    /\ LET L == [row EXCEPT ![j.s] = Queued(@)]
       IN  IF drains THEN Drain(L, lateOpen \ {j.q}, Desk)
           ELSE DrainNothing(L, lateOpen \ {j.q}, Desk)

(* A durable marker, then the engine is asked: a start or a steer.          *)
MarkThen(j, next) ==
    /\ SetRow(j.s, Marked(row[j.s]))
    /\ Stay(next) /\ NoDrain
    /\ UNCHANGED <<lines, lateOpen, late, retry, turnVars, given, spent>>

(* The engine did not take the words and never will.                        *)
NotSteered(j) ==
    IF target # "here" THEN Caught(j, 0)
    ELSE IF j.s \in Answers THEN QueueIt(j, TRUE)
    ELSE IF ~Busy(turn) /\ ~room THEN MarkThen(j, "starting")
    ELSE QueueIt(j, FALSE)

Decide ==
    /\ Up /\ chain # <<>> /\ pc = "idle"
    /\ LET j == Head(chain)
       IN  \/ target # "here" /\ Caught(j, 0)
           \/ target = "here" /\ Caught(j, 1)         \* queue() or the marker threw
           \/ /\ target = "here"
              /\ IF \/ j.s \in Via
                    \/ BlockedByEarlier(row, lateOpen, j.q)
                    \/ batch # {}
                 THEN QueueIt(j, TRUE)
                 ELSE \/ j.s \in Answers /\ QueueIt(j, TRUE)   \* its turn is over
                      \/ /\ Busy(turn)
                         /\ \/ MarkThen(j, "steering")
                            \/ NotSteered(j)          \* this line cannot be steered
                      \/ ~Busy(turn) /\ room /\ j.s \notin Answers /\ QueueIt(j, FALSE)
                      \/ ~Busy(turn) /\ ~room /\ j.s \notin Answers
                         /\ MarkThen(j, "starting")
    /\ UNCHANGED <<backup, bootVars, clientVars, acked, dismissed, forgot, parked, since>>

(* The engine may have the words.  The row and its line are written         *)
(* together; or the row alone keeps the words; or neither write succeeds,   *)
(* and the error this ends in reaches the catch block with its marker up.   *)
SteerRecorded(j, st) ==
    LET lost == IF target = "gone" THEN 0 ELSE 1     \* the write of its line
    IN  \/ /\ target # "gone" /\ Fails(0)
           /\ SetRow(j.s, Settled(row[j.s], st, TRUE))
           /\ lines' = [lines EXCEPT ![j.s] = @ + 1]
        \/ /\ Fails(lost)
           /\ SetRow(j.s, Settled(row[j.s], "unconfirmed", FALSE))
           /\ UNCHANGED lines
        \/ /\ \/ Fails(lost + 1) /\ SetRow(j.s, CaughtRow(j))
              \/ Fails(lost + 2) /\ UNCHANGED row
           /\ UNCHANGED lines

Taken(j) ==
    /\ SteerRecorded(j, "delivered")
    /\ given' = Gave(given, {<<j.s, j.a>>})
    /\ lateOpen' = lateOpen \ {j.q}
    /\ UNCHANGED <<late, retry, turnVars>>
    /\ Leave /\ NoDrain

Uncertain(j) ==
    /\ SteerRecorded(j, "unconfirmed")
    /\ late' = late \cup {[s |-> j.s, q |-> j.q, a |-> j.a, line |-> lines' # lines]}
    /\ lateOpen' = IF row'[j.s].st \in {"refused", "started"}
                   THEN lateOpen \ {j.q} ELSE lateOpen \cup {j.q}
    /\ UNCHANGED <<retry, turnVars, given>>
    /\ Leave /\ NoDrain

SteerAnswered ==
    /\ Up /\ pc = "steering"
    /\ LET j == Head(chain)
       IN  \/ Taken(j)
           \/ Uncertain(j)
           \/ NotSteered(j)
           \/ Caught(j, 1)            \* not taken, and queue() or the marker threw
    /\ UNCHANGED <<backup, bootVars, clientVars, acked, dismissed, forgot, parked, since>>

(* startTurn of runIt(): refused, or the line is written and the turn owns  *)
(* the thread (or failed after writing it).                                 *)
RunRefused ==
    /\ Up /\ pc = "starting"
    /\ Caught(Head(chain), 0)
    /\ UNCHANGED <<backup, bootVars, clientVars, acked, dismissed, forgot, parked, since>>

RunAdmitted ==
    /\ Up /\ pc = "starting"
    /\ ~Occupied(turn) /\ ~room /\ target # "gone"
    /\ LET j == Head(chain)
       IN  /\ lines' = [lines EXCEPT ![j.s] = @ + 1]
           /\ \/ turn' = "setup" /\ carry' = {<<j.s, j.a>>} /\ UNCHANGED spent
              \/ Spend("other", 1, MaxOther) /\ UNCHANGED <<turn, carry>>
    /\ Stay("landed")
    /\ UNCHANGED <<row, backup, lateOpen, late, batch, retry, watch, room, target,
                   bootVars, clientVars, historyVars>>

RunRecorded ==
    /\ Up /\ pc = "landed"
    /\ LET j == Head(chain)
       IN  \/ SetRow(j.s, Settled(row[j.s], "started", TRUE)) /\ UNCHANGED spent
           \/ Fails(1) /\ UNCHANGED row
    /\ Leave
    /\ UNCHANGED <<lines, backup, lateOpen, late, batch, retry, watch, turnVars,
                   bootVars, clientVars, historyVars>>
-----------------------------------------------------------------------------
(* runQueuedStart: what became of a drained batch.                          *)

BatchAdmitted ==
    /\ Up /\ batch # {}
    /\ ~Occupied(turn) /\ ~room /\ target # "gone"
    /\ turn' = "setup" /\ carry' = {<<b.s, b.a>> : b \in batch}
    /\ batch' = {} /\ retry' = "none"
    /\ UNCHANGED <<ledgerVars, backup, admissionVars, lateOpen, late, watch, room, target,
                   bootVars, clientVars, historyVars, spent>>

(* The thread was taken (or the fill timed out): the rows wait again in     *)
(* their places and the thread is tried after a back-off.  A row that could *)
(* not be put back stays started.                                           *)
BatchRequeued ==
    /\ Up /\ batch # {}
    /\ LET mine == {b.s : b \in {b \in batch : Mine(b) /\ row[b.s].st = "started"}}
           taken == Occupied(turn) \/ room
       IN  \E back \in SUBSET mine :
             /\ \/ ~taken /\ back = mine /\ Spend("other", 1, MaxOther)
                \/ taken /\ Fails(Cardinality(mine \ back))
             /\ row' = [s \in Sends |-> IF s \in back THEN RequeuedStart(row[s]) ELSE row[s]]
             /\ lateOpen' = lateOpen \ {row[s].seq : s \in back}
    /\ batch' = {} /\ retry' = "wait" /\ watch' = FALSE
    /\ UNCHANGED <<lines, backup, admissionVars, late, turnVars, bootVars, clientVars,
                   historyVars>>

(* A failure of its own: the lines stay, beside one that says so, and what  *)
(* waits behind them drains now unless a turn holds the thread.             *)
BatchFailed ==
    /\ Up /\ batch # {}
    /\ retry' = "none"
    /\ UNCHANGED turnVars
    /\ LET d == [Desk EXCEPT !.batch = {}, !.retry = "none"]
       IN  IF Occupied(turn) THEN DrainNothing(row, lateOpen, d)
           ELSE Drain(row, lateOpen, d)
    /\ UNCHANGED <<backup, admissionVars, late, bootVars, clientVars, historyVars>>

(* The back-off timer: one look; while lines still wait it looks again.     *)
RetryTimer ==
    /\ Up /\ retry # "none" /\ batch = {}
    /\ UNCHANGED turnVars
    /\ Drain(row, lateOpen, [Desk EXCEPT !.retry = "open"])
    /\ retry' = IF batch' # {} \/ \E s \in Sends : row'[s].st = "queued"
                THEN "open" ELSE "none"
    /\ UNCHANGED <<backup, admissionVars, late, bootVars, clientVars, historyVars>>

WatchTimer ==
    /\ Up /\ watch
    /\ UNCHANGED <<turnVars, retry>>
    /\ Drain(row, lateOpen, [Desk EXCEPT !.watch = FALSE])
    /\ UNCHANGED <<backup, admissionVars, late, bootVars, clientVars, historyVars>>
-----------------------------------------------------------------------------
(* reconcileLateSteer: the engine's answer after the response deadline.     *)

Release(L, l) == IF L[l.s].seq = l.q THEN [L EXCEPT ![l.s] = Scrubbed(@)] ELSE L

(* The row's outcome is written, then the barrier released (the finally).   *)
LateSettled(l, st) ==
    /\ \/ /\ l.line /\ row[l.s].seq = l.q /\ Fails(0)
          /\ row' = Release([row EXCEPT ![l.s] = Settled(@, st, TRUE)], l)
       \/ /\ Fails(IF l.line /\ row[l.s].seq = l.q THEN 1 ELSE 0)
          /\ row' = Release(row, l)
    /\ lateOpen' = lateOpen \ {l.q}
    /\ UNCHANGED <<lines, batch, watch>>

LateDelivered(l) ==
    /\ LateSettled(l, "delivered")
    /\ given' = Gave(given, {<<l.s, l.a>>})

(* The engine proved it never took the words.                               *)
LateRejected(l) ==
    /\ UNCHANGED given
    /\ IF ~l.line \/ row[l.s].seq # l.q
       THEN DrainNothing(Release(row, l), lateOpen \ {l.q}, Desk)
       ELSE IF target = "gone" \/ HasPassed(row, l.q)
       THEN LateSettled(l, "failed")
       ELSE \/ Drain([row EXCEPT ![l.s] = QueuedFromLine(@)], lateOpen \ {l.q}, Desk)
            \/ /\ Fails(1)
               /\ row' = Release(row, l) /\ lateOpen' = lateOpen \ {l.q}
               /\ UNCHANGED <<lines, batch, watch>>

(* Fault: no answer is taken for a refusal.                                 *)
LateUncertain_Requeues(l) ==
    /\ given' \in {given, Gave(given, {<<l.s, l.a>>})}
    /\ IF l.line /\ row[l.s].seq = l.q
       THEN DrainNothing([row EXCEPT ![l.s] = QueuedFromLine(@)], lateOpen \ {l.q}, Desk)
       ELSE UNCHANGED drainVars

(* It took them and its answer is lost, or it never says.                   *)
LateUncertain(l) ==
    /\ given' \in {given, Gave(given, {<<l.s, l.a>>})}
    /\ UNCHANGED drainVars

LateAnswer(l) ==
    /\ Up /\ l \in late
    /\ late' = late \ {l}
    /\ UNCHANGED <<turnVars, retry>>
    /\ LateDelivered(l) \/ LateRejected(l) \/ LateUncertain(l)
    /\ UNCHANGED <<backup, admissionVars, bootVars, clientVars, acked, dismissed, forgot, parked, since>>
-----------------------------------------------------------------------------
(* The bot's turn, the rooms it speaks in, and the task the owner selects.  *)

TurnFrame == UNCHANGED <<backup, admissionVars, late, retry, bootVars, clientVars,
                         acked, dismissed, forgot, parked, since>>

OtherTurnStarts ==
    /\ Up /\ ~Occupied(turn) /\ ~room
    /\ Spend("other", 1, MaxOther)
    /\ turn' = "running"
    /\ UNCHANGED <<ledgerVars, lateOpen, batch, watch, carry, room, target, given>>
    /\ TurnFrame

EngineGetsTurn ==
    /\ Up /\ turn = "setup"
    /\ turn' = "running" /\ carry' = {}
    /\ given' = Gave(given, carry)
    /\ UNCHANGED <<drainVars, room, target>>
    /\ TurnFrame

(* turn.completed: the drain it causes finds the run still held.            *)
TurnCompleted ==
    /\ Up /\ turn = "running"
    /\ turn' = "settling"
    /\ UNCHANGED <<carry, room, target, given>>
    /\ Drain(row, lateOpen, Desk)
    /\ TurnFrame

(* The run is released, or its setup failed before the engine was asked.    *)
TurnReleased ==
    /\ Up /\ Occupied(turn)
    /\ turn' = "idle" /\ carry' = {}
    /\ UNCHANGED <<room, target, given>>
    /\ Drain(row, lateOpen, Desk)
    /\ TurnFrame

RoomTurnStarts ==
    /\ Up /\ ~room
    /\ Spend("other", 1, MaxOther)
    /\ room' = TRUE
    /\ UNCHANGED <<ledgerVars, lateOpen, batch, watch, turn, carry, target, given>>
    /\ TurnFrame

RoomTurnEnds ==
    /\ Up /\ room
    /\ room' = FALSE
    /\ UNCHANGED <<turn, carry, target, given>>
    /\ Drain(row, lateOpen, Desk)
    /\ TurnFrame

(* The owner selects another task of the bot, comes back, or deletes it.    *)
TargetMoves ==
    /\ Up /\ target # "gone"
    /\ Spend("other", 1, MaxOther)
    /\ target' \in {"here", "away", "gone"} \ {target}
    /\ UNCHANGED <<ledgerVars, lateOpen, batch, watch, turn, carry, room, given>>
    /\ TurnFrame
-----------------------------------------------------------------------------
(* Crash, startup recovery, pruning, backup and restore.                    *)

InDoubt == {<<l.s, l.a>> : l \in late} \cup
           IF pc = "steering" THEN {<<Head(chain).s, Head(chain).a>>} ELSE {}

Crash ==
    /\ server # "down" /\ Spend("crash", 1, MaxCrash)
    /\ server' = "down" /\ todo' = {}
    /\ \E took \in SUBSET InDoubt : given' = Gave(given, took)
    /\ parked' = parked \cup {s \in Waiting : since[s] # 0}
    /\ chain' = <<>> /\ pc' = "idle" /\ lateOpen' = {} /\ late' = {}
    /\ batch' = {} /\ retry' = "none" /\ watch' = FALSE
    /\ turn' = "idle" /\ carry' = {} /\ room' = FALSE
    /\ UNCHANGED <<ledgerVars, backup, target, clientVars, acked, dismissed, forgot, since>>

BootFrame == UNCHANGED <<backup, admissionVars, late, turnVars, clientVars, historyVars>>

(* recover(): one transaction; a failure is logged and startup goes on.     *)
Recover ==
    /\ server = "down" /\ server' = "recovering"
    /\ \/ Fails(0) /\ row' = Recovered(row) /\ todo' = Unresolved(row)
       \/ Fails(1) /\ UNCHANGED row /\ todo' = {}
    /\ UNCHANGED <<lines, lateOpen, batch, retry, watch>>
    /\ BootFrame

(* completeUnresolved, one row in its order.                                *)
CompleteOne(s) ==
    /\ server = "recovering" /\ s \in todo
    /\ \A t \in todo : row[s].seq <= row[t].seq
    /\ todo' = todo \ {s}
    /\ \/ /\ Fails(0)
          /\ IF lines[s] > 0
             THEN /\ SetRow(s, IF row[s].st = "dispatched"
                               THEN Settled(row[s], "started", TRUE) ELSE Scrubbed(row[s]))
                  /\ UNCHANGED lines
             ELSE IF ~row[s].words THEN UNCHANGED ledgerVars
             ELSE /\ SetRow(s, Scrubbed(Settled(row[s], "unconfirmed", TRUE)))
                  /\ lines' = [lines EXCEPT ![s] = @ + 1]
       \/ Fails(IF target = "gone" THEN 0 ELSE 1) /\ UNCHANGED ledgerVars
    /\ UNCHANGED <<server, lateOpen, batch, retry, watch>>
    /\ BootFrame

(* Fault: startup does not drain what waited.                               *)
Ready_NoDrain ==
    /\ server = "recovering" /\ todo = {}
    /\ server' = "up" /\ UNCHANGED <<todo, retry>>
    /\ BootFrame
    /\ UNCHANGED drainVars

Ready ==
    /\ server = "recovering" /\ todo = {}
    /\ server' = "up" /\ UNCHANGED todo
    /\ BootFrame
    /\ UNCHANGED retry
    /\ Drain(row, lateOpen, Desk)

(* pruneResolved drops a finished row.  The retention (30 days, 5000 rows)  *)
(* outlives every request for it and every engine answer on its thread.     *)
Prune(s) ==
    /\ Up /\ Prunable(row[s]) /\ row[s].seq \notin lateOpen /\ late = {}
    /\ s \notin {b.s : b \in batch} \cup {w[1] : w \in carry} /\ ~InChain(s)
    /\ SetRow(s, NoRow)
    /\ net' = {p \in net : p.s # s}
    /\ UNCHANGED <<lines, backup, admissionVars, lateOpen, late, batch, retry, watch,
                   turnVars, bootVars, tokens, historyVars, spent>>

TakeBackup ==
    /\ Up /\ backup = NoBackup /\ spent.restore < MaxRestore
    /\ backup' = [row |-> row, lines |-> lines, acked |-> acked, dismissed |-> dismissed,
                  given |-> given]
    /\ UNCHANGED <<ledgerVars, admissionVars, lateOpen, late, batch, retry, watch, turnVars,
                   bootVars, clientVars, historyVars, spent>>

(* A restored installation: neutralizeRestoredSends before its first start. *)
Restore ==
    /\ server = "down" /\ backup # NoBackup
    /\ Spend("restore", 1, MaxRestore)
    /\ tokens' = [tokens EXCEPT !.gen = @ + 1]
    /\ row' = Neutralized(backup.row, tokens.gen + 1)
    /\ lines' = backup.lines
    /\ acked' = backup.acked /\ dismissed' = backup.dismissed
    /\ forgot' = forgot \cup (acked \ backup.acked)
                       \cup {s \in Sends : given[s] # backup.given[s]}
    /\ parked' = {s \in Sends : backup.row[s].st \in Undecided}
    /\ backup' = NoBackup
    /\ since' = [s \in Sends |-> IF row'[s].held THEN tokens.press + 1 ELSE 0]
    /\ UNCHANGED <<admissionVars, lateOpen, late, batch, retry, watch, turnVars, bootVars,
                   net, given>>
-----------------------------------------------------------------------------
Client ==
    \/ \E s \in Sends : FirstSend(s) \/ SendAgain(s) \/ Cancel(s)
    \/ \E p \in net : Accept(p) \/ AcceptAgain(p) \/ AcceptTypedStop(p)
    \/ StopPressed

Admission == Decide \/ SteerAnswered \/ RunRefused \/ RunAdmitted \/ RunRecorded

Queue ==
    \/ BatchAdmitted \/ BatchRequeued \/ BatchFailed
    \/ RetryTimer \/ WatchTimer \/ OtherDrain
    \/ \E l \in late : LateAnswer(l)

World ==
    \/ OtherTurnStarts \/ EngineGetsTurn \/ TurnCompleted \/ TurnReleased
    \/ RoomTurnStarts \/ RoomTurnEnds \/ TargetMoves

Lifecycle ==
    \/ Crash \/ Recover \/ Ready \/ TakeBackup \/ Restore
    \/ \E s \in Sends : CompleteOne(s) \/ Prune(s)

Next == Client \/ Admission \/ Queue \/ World \/ Lifecycle

Spec == Init /\ [][Next]_vars

(* Promises resolve, timers fire, turns and rooms end, startup finishes.    *)
Fairness ==
    /\ WF_vars(Decide) /\ WF_vars(SteerAnswered)
    /\ WF_vars(RunRefused \/ RunAdmitted) /\ WF_vars(RunRecorded)
    /\ WF_vars(BatchAdmitted \/ BatchRequeued \/ BatchFailed)
    /\ WF_vars(RetryTimer) /\ WF_vars(WatchTimer)
    /\ WF_vars(TurnReleased) /\ WF_vars(RoomTurnEnds)
    /\ WF_vars(Recover) /\ WF_vars(Ready)
    /\ \A s \in Sends : WF_vars(CompleteOne(s))

FairSpec == Spec /\ Fairness
-----------------------------------------------------------------------------
(* What the pipeline promises.                                              *)

(* The words of an accepted send are in its row or in a transcript line     *)
(* until the owner drops them: no crash, failed write, retry, restore or    *)
(* pruning loses them (send-store.ts, the state table's invariant).         *)
WordsKept ==
    \A s \in acked : row[s].words \/ lines[s] > 0 \/ s \in dismissed

(* However often a client repeats a request, and however the engine's late  *)
(* answer, a declined steer and the queue meet, the engine gets the words   *)
(* of one act of the owner at most once (accept, admitDirectSend).          *)
RunsOncePerAct ==
    \A s \in Sends \ forgot, a \in Acts : given[s][a] <= 1

(* A send that waits, or is shown as a chip with Send again, is one whose   *)
(* present attempt the engine never got (queueIt, refuse, reconcileLateSteer;*)
(* a chip a restore holds may be older than what really ran).               *)
WaitingNotGiven ==
    target # "gone" => \A s \in Sends \ forgot :
        /\ row[s].st \in Undecided \/ Chip(row[s])
        /\ ~row[s].held
        => given[s][row[s].act] = 0

(* The words reach the engine in the order they were accepted: whatever is  *)
(* submitted, by a steer, a start or a drained batch, no earlier send is    *)
(* still undecided, in flight or open to a late refusal, unless it goes in  *)
(* the same submission (blockedByEarlier, drainable, hasPassed).            *)
Submitted ==
    {w[1] : w \in carry' \ carry} \cup
    IF pc # "steering" /\ pc' = "steering" THEN {Head(chain).s} ELSE {}

OrderKept ==
    [][\A s \in Submitted, t \in Sends :
          row[t].seq \in 1..(row[s].seq - 1) /\ t \notin Submitted
            => ~Blocks(row'[t], lateOpen')]_vars

(* A send held by a Stop or by a restore is accepted again only for a press *)
(* of Send again made after it was held: never by a retry of the first      *)
(* request, nor of an earlier press (accept, stoppedResendRuns).            *)
HeldNeedsNewPress ==
    [][\A s \in Sends :
          row[s].st # "sending" /\ row'[s].st = "sending" => row'[s].act >= since[s]]_vars

(* A send that waited when the owner pressed Stop and then met a restart,   *)
(* or waited in a backup now restored, does not run on its own (recover,    *)
(* neutralizeRestoredSends).  A row whose words are only in its line is the *)
(* exception recover makes: StoppedNeverRuns below.                         *)
Ran(r) == r.disp \/ r.st \in {"dispatched", "started", "delivered"}

ParkedStays == \A s \in parked : Ran(row[s]) => row[s].ex

(* An accepted send is always to be seen by its owner while its thread is   *)
(* there: a line in the transcript, or an item of pending().                *)
Visible ==
    Up /\ target # "gone" =>
        \A s \in acked \ dismissed :
            \/ lines[s] > 0
            \/ row[s].words /\ (row[s].st \in InFlight \/ Chip(row[s]))

(* However often its start is taken back and tried again, and whatever a    *)
(* recovery adds, a row whose words have their line in the transcript never *)
(* adds a second one (requeueStarted, the drain, completeUnresolved).       *)
OneLine ==
    [][\A s \in Sends : lines'[s] > lines[s] => ~row[s].line /\ ~row[s].ex]_vars

(* No send is left deciding with nobody working on it, which would hold up  *)
(* every later send of the thread for good (the catch block, recover).      *)
NobodyStranded ==
    Up /\ target # "gone" =>
        \A s \in Sends : row[s].st \in {"sending", "dispatched"} => InChain(s)

(* A drained batch and a send deciding for itself are never both starting a *)
(* turn on the thread (queuedStartPending, drainable).                      *)
OneStart == batch # {} => pc = "idle"

(* While its thread is there, every send leaves the pipeline: it runs, is   *)
(* folded in, becomes a chip or is marked unconfirmed; no steer, batch,     *)
(* back-off or crash holds the line for good.                               *)
Resolves ==
    \A s \in Sends : row[s].st \in InFlight ~> row[s].st \notin InFlight \/ target = "gone"
-----------------------------------------------------------------------------
(* The pipeline implements SendPromise: a row still undecided waits, one    *)
(* handed to the engine is out until it is taken back.                      *)
PlaceOf(r) ==
    CASE r.st = "none" -> "none"
      [] r.st \in Undecided -> "waiting"
      [] r.st \in {"dispatched", "started", "delivered", "unconfirmed"} -> "out"
      [] r.st \in {"failed", "refused"} -> "chip"
      [] r.st = "cancelled" -> "dropped"

Promise ==
    INSTANCE SendPromise WITH
        there <- target # "gone",
        at <- [s \in Sends |-> PlaceOf(row[s])],
        got <- [s \in Sends |-> row[s].st # "none" /\ given[s][row[s].act] > 0],
        kept <- [s \in Sends |-> row[s].words \/ lines[s] > 0]

(* Whatever the queue, the late answers, the retries, one failed write and  *)
(* a crash do, each send lives as SendPromise says.                         *)
KeepsPromise == Promise!Spec
-----------------------------------------------------------------------------
(* What the comments say and the code does not do.                          *)

(* send-store.ts:875-876: messages waiting when the owner pressed Stop never*)
(* run on their own after a restart.                                        *)
StoppedNeverRuns == \A s \in parked : ~Ran(row[s])
=============================================================================
