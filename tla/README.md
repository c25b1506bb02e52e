# Murage in TLA+

Murage is a local AI-workforce application: a Node server (`server/`) that keeps
conversations in SQLite, runs the turns of many bots on external engines, and is
driven by a desktop shell, a web interface, phones and chat channels. This
directory holds the TLA+ specifications of its concurrent and durable core, the
TLC runs that check them on small instances, and the proofs TLAPS checks.

## 1. The system

| Part | Where | State it keeps | Operations |
|---|---|---|---|
| Owner-send ledger | `send-store.ts` | table `owner_sends` (one row per send of an owner: status, marker `dispatched_at`, words, line ids, hold and stop marks); in memory `lateOpen` | accept, acceptTypedStop, markDispatched, queue, requeueStarted, settle, refuse, markStopped, hold/releaseLateAnswer, drainable, cancel, recover, completeUnresolved, pruneResolved, neutralizeRestoredSends |
| Owner-send admission | `index.ts` (`admitDirectSend`, `acceptBotSend`, `reconcileLateSteer`, `recoverOwnerSends`, Stop route), `send-idempotency.ts` | one promise chain per conversation (`ThreadAdmission`), one per request id | decide to run, steer or queue; record the engine's answer; catch |
| Steer queue | `steer-queue.ts`, `steer-late.ts`, `ask-turn-device.ts` | `starting`, `retries`, `watches` per conversation | drain, start a batch, put it back, back-off and watch timers, late answers, cancel |
| Thread runs | `independent-thread-runs.ts`, `turn-resources.ts`, `index.ts` (`startTurn`, Stop routes, reloads) | one run per thread with its generation and phase; which run has no slot yet or the owner's reserved one; who owns each folder, computer, screen and browser; two waiting lines | admit (and its takeOver), awaitSlot, acquire (take all, go on without, wait), releaseResources, dispatch, accepted, settling, holdForRebuild, cancel, release, recheck, pump |
| Turn dispatch | `turn-dispatch-guard.ts`, `turn-watchdog.ts`, `index.ts` (`startTurn`, `releaseDirect`) | the bot's busy flag, the run that holds the thread | start, complete, time out, release |
| Channel queue | `channel-queue.ts` | pending turns of the bots of a channel | enqueue, merge, run the next |
| Asker wake | `asker-wake.ts`, `index.ts` (`wakeAsker`, admission, fence and acceptance in `startTurn`, `drainHeldContinuations`), `handoff-boundary.ts`, `delegations.ts` (the receipt of a returned hand-off) | per asker thread: the asks still out, and a record per wake (owed, claimed, started, held; attempts; the replies it carries), kept on the task; the external updates and held items beside it | register, deliver, consume, claim, check, start, hold, replayHeld, done, requeue, cancel, failed, drop, closing, restore, retryWrites |
| Bot calls | `bot-calls-*.ts` | tables of calls, of sessions and of owed facts; in memory timers and decisions in flight | admit, decide (with the calendar's await), escalate, ring, answer, decline, miss, end, sweep, cancel, boot |
| Rooms and work | `room-requests.ts`, `room-dispatcher.ts`, `work-admission.ts` | who owes an answer, a lease per turn | ask, answer, hand out a turn, re-ask |
| Delegations | `delegations.ts`, `handoff-*.ts` | durable hand-offs, their evidence and replies | hand off, reply, return, recover |
| Push outbox | `mobile-push-outbox.ts`, `mobile-push-store.ts` | durable rows per device (ring, note, stop; tries, claim, expiry); in memory the sends on the wire and the flush's list | insert, resolve, claim, attempt, fence, accept late, flush, prune |
| App triggers | `app-trigger-*.ts` | durable deliveries | receive, start, retry |
| Routines | `routines.ts`, `routine-runs-journal.ts` | schedules, a journal of runs | fire, catch up, settle |
| Restore and backup | `restore-fence.ts`, `installation-*.ts`, `backup-*.ts` | an activation marker, a restore generation | back up, restore, activate, hold |

`PROJECT.json` lists these and the remaining parts (engines, memory, projects,
skills, browser control, shells, cloud services) with the reason each is or is
not modelled.

How the core parts interact:

* A client posts a send (or the same send again). `acceptBotSend` writes its row
  in one transaction and appends it to the conversation's admission chain. The
  first in the chain decides: **run** it now (`startTurn`), **steer** it into the
  turn that runs (the engine is asked to take the words mid-turn), or **queue** it.
* The marker `dispatched_at` is written before the engine can see the words, the
  transcript line and the row's outcome after. A crash falls anywhere between.
* A steer has a response deadline: an answer after it arrives as a callback,
  while the turn may have ended, the queue drained and other sends passed.
* What is queued is started by a **drain**: at a turn's end, a room's end, a
  start-up, from two timers and after every decision that leaves something
  behind. A drain marks a whole batch, writes its lines, and starts one turn; if
  the thread is taken in between, the rows go back in their places.
* **Stop** marks what waits so that a restart holds it; a **restore** of a backup
  holds everything its snapshot was about to run. A held row runs only for a new
  press of *Send again*.

* A **hand-off** to a teammate is acknowledged with its wake on disk, or, when both
  tries to write it failed and it runs already, with its wake in memory only. The reply
  is committed with a receipt that goes on owing it; the follow-up delivers the
  wake, which later starts one turn of the asker, or joins one that is still owed.
* A **bot call** decides behind an await, then commits its transition and the push
  rows it owes in one transaction; the outbox sends the rows, asks the machine
  again before each ring (`callRinging`), and owes a stop to every phone that may
  have rung.

What is hard here, and is what the properties are for (`PROJECT.json`,
`hazards`, gives each at its line): decisions taken on state read before an
await; answers after their deadline; requests repeated at any time; failures of
one write of several; crashes between marker, line and outcome; restores that
bring back the past; two ways to start a turn on one thread; timers that are the
only thing left to move a queue.

## 2. Modules

| Module | What it is |
|---|---|
| `SendPromise` | What the owner is promised about each send: the abstract specification `OwnerSends` implements. |
| `SendLedger` | The row of `owner_sends` and what each `SendStore` method does to it: operators over a ledger `L \in [Sends -> Row]`. |
| `OwnerSends` | The pipeline of one direct conversation: clients, admission, drain, late answers, turns and rooms, crash, recovery, pruning, backup and restore, with its properties. |
| `OwnerSendsProofs` | Types of `OwnerSends`, and no words lost. |
| `OwnerFlowProofs` | Extends it: one start at a time, one line per send, order. |
| `OwnerOnceProofs` | Extends that: each act of the owner is given once. |
| `OwnerHeldProofs` | Extends that: what a Stop or a restore holds; nothing stranded, hidden or run on its own. |
| `OwnerPromiseProofs` | Extends `OwnerOnceProofs`: `OwnerSends` implements `SendPromise`. |
| `MCOwnerSends` | The small instances TLC checks. |
| `ThreadRuns` | The runs of the bots' threads: slots, resource claims, the two waiting lines, Stop, rebuilds and releases, with its properties. |
| `ThreadRunsProofs` | Claims of `ThreadRuns`: exclusive, live, kept, dropped while waiting; then the two lines, the limit of slots, wake-ups and overtaking. |
| `MCThreadRuns` | The small instances TLC checks. |
| `PushRows` | The push rows of bot calls and what the outbox and its store do to them: operators over `R \in [Keys -> Row]`. |
| `BotCalls` | The call machine and its runtime, composed with the outbox, with its properties. |
| `BotCallsProofs` | Theorems about `BotCalls` and their proofs. |
| `MCBotCalls` | The small instances TLC checks. |
| `AskerWake` | The wakes of one asker thread, from the hand-off to the turn, with its properties. |
| `AskerWakeProofs` | Theorems about `AskerWake` and their proofs. |
| `MCAskerWake` | The small instance TLC checks. |

`OwnerSends` and `ThreadRuns` meet in `startTurn`: the first models it as
`RunAdmitted` / `RunRefused` on one thread, the second as what decides between
the two, over all threads.

### OwnerSends and the code

An action is one synchronous section of the server, from one await, callback or
timer to the next: JavaScript runs it without interruption and SQLite's
transactions inside it commit or fail whole.

| Model | Code |
|---|---|
| `row`, `lines` | the rows of `owner_sends`; how many transcript lines hold each send's words |
| `chain`, `pc` | `ThreadAdmission`: the sends that are deciding, and where the first awaits: the engine's answer to a steer, `startTurn`, or what follows it |
| `lateOpen`, `late` | `SendStore.lateOpen` and the late-answer callbacks that are still to come |
| `batch`, `retry`, `watch` | `starting`, `retries`, `watches` of `steer-queue.ts` |
| `turn`, `room`, `target`, `carry` | the bot's direct turn (idle, being set up, running, settling), a room turn that holds the bot, which task the owner has selected or whether it is deleted, and the words the turn carries to the engine |
| `server`, `todo` | down, recovering, up; the rows `completeUnresolved` has still to finish |
| `net`, `tokens` | every request a client ever made (each may arrive again, any number of times); the action ids, stop tokens and restore generations minted |
| `backup` | a snapshot that a restore may bring back |
| `given` and the other history variables | what really happened: the engine got these words for that act of the owner |

`Decide`, `SteerAnswered`, `RunRefused/Admitted/Recorded` are the sections of
`admitDirectSend` and its catch block; `BatchAdmitted/Requeued/Failed`,
`RetryTimer`, `WatchTimer`, `OtherDrain` those of `steer-queue.ts`; `LateAnswer`
is `reconcileLateSteer`. `Drain(L, open, d)` is `drainSteeredMessages` on this
conversation, called by every action whose code ends in a drain. Database
writes may fail (`Fails(n)`: n of them fail here), wherever the code has a catch
that sees it.

What the model does not distinguish: the text of a message, attachments, phone
tickets and authority; two conversations (every method is keyed by thread id);
a second copy of a request that is still being served (`SendSequencer` joins
them, which is the guard `~InChain`). It assumes that clients mint a fresh
action id for each press (all of them do), and that pruning's retention (30
days, 5000 rows) outlives the requests for a row and the engine's late answers.
Rows of group conversations, chips made by room requests, `retire` and the purge
of a deleted conversation are not modelled. When a row that was put back in line
is replaced by *Send again* and that new attempt is refused, an older retry may
be admitted again: the hold is not carried to the new row, and
`HeldNeedsNewPress` speaks of the first attempt after a hold.

### ThreadRuns and the code

| Model | Code |
|---|---|
| `gen`, `phase`, `kind` | a `ThreadRun` of `IndependentThreadRuns`: its generation, phase, and whether it is plain, queued automation or an owner's send |
| `slotless`, `reserved`, `slotLine` | runs admitted past the limit, the run on the owner's reserved slot, and `slotWaiters` |
| `holder`, `line` | `TurnResources.owners` and its `waiters` |
| `at`, `claims`, `rest`, `need` | where `startTurn`'s setup is: before its slot, going on, or about to claim the rest after a yield; how often it claimed; what it claims after a yield; and (history) what it was promised |
| `person` | turns that wait for the person, which others may go on without |

* A place in a line is the set of threads **ahead** of it, so that a line is a
  function of threads and no sequence has to be kept in step with it.
* `Pump` is one look at both lines: every waiter in order is served, goes on
  without, or stays and holds back whoever overlaps it. `Serves` says which, as
  a relation on the sets of the served and the yielding. The continuation of a
  served waiter is its setup's next action, so anything may happen between the
  grant and what the run does with it.
* `Acquire` keeps the order of the code: a holder does not look at the line,
  and who waits lets go of everything and asks for the whole again.
* Generations are reused once nobody bears them: the code counts them up, and
  two per thread are enough for a call that comes too late (`Release(t, g)`).
* `Release` stands for a failed setup, the engine's close, a late
  `releaseDirect` and a provider's reload; `Stop` for the Stop routes and the
  watchdog.

Left out, because they decide nothing here: the claims admission can take itself
(the server passes none), the deadline of `acquire` (no caller passes one), the
still-waiting notice, and the position and estimate shown.

### BotCalls, PushRows and the code

| Model | Code |
|---|---|
| `call`, `ses`, `own` | `bot_calls`, the session of each call, the session of an ordinary call of the owner's |
| `fact` | what admits a call: armed by *Call me when this finishes*, settled by the turn's end, owed, drained |
| `row`, `bound` | `push_events` of calls, per phone and call: `ring`, `stop`, `missed`, `note`; the phones enrolled |
| `timer`, `deciding` | the runtime's timers and the decisions waiting for the calendar |
| `wire`, `batch` | `inFlight`, and what is left of the list a flush read |
| `rung`, `lost` | history: phones that may have rung, and those whose ring was pruned before it was resolved |

* An action is a transition of `bot-calls-machine.ts` with the rows it owes, one
  commit, followed by the runtime's `settled` (timers anew, the rows sent). A
  commit that fails changes nothing; a crash may come after the commit and
  before anything is sent.
* `Returns` is what follows the calendar's await in `decide`. What the gates
  look at (the rule's switch, caps, cooldowns, quiet hours, voice, devices, the
  calendar) may answer anything, each time it is asked.
* The server listens before it boots the calls (`index.ts` listens, then calls
  `boot`), so routes and the outbox's flush run in a phase `listening`. A boot
  that fails leaves the calls fenced.
* A decision whose write failed stays pending until a restart: nothing else
  takes it up, so `Ends` promises a pending call only without failed writes.
* A Stop drops the note of a missed call while its send is on the wire; the late
  acceptance then inserts a resolved row under the note's key
  (`replaceLateAccept`), which the model keeps.

Left out: rows of approvals and messages, expired device tokens, the flush's
limit and back-off times, the later expiry of rows that are not rings, several
calls of the owner's at once, cards, hints and receipts. A relay's rejection is
as final as an acceptance, and is not told from it.

### AskerWake and the code

| Model | Code |
|---|---|
| `intents`, `wakes`, `doneIds` | the maps of `AskerWakes`, for one thread: the asks that are out, the records, the records an engine accepted before their fence |
| `disk`, `unwritten` | the task's `askerWakes`, and whether the last write of the thread failed |
| `kept` | history: hand-offs the disk ever had; only properties read it |
| `hand`, `told` | each hand-off: not asked, out, its receipt owing the reply, let go; and the owing ones this process has already followed up |
| `upd`, `item` | `externalUpdates`, and the held items `wake:<id>` |
| `starting`, `turn` | calls of `startTurn` that wait for admission, and the thread's turn: being set up, past the fence, accepted early, running; which updates it carries, and the start it came from, if a wake's |
| `woke`, `tries`, `over` | history: prompts sent with each reply, starts of each record, replies nothing is owed for any more |

* A record is named by the hand-off that opened it and keeps the set of those
  **ahead** of it, so that the list is a function of hand-offs: `Oldest` and
  `Newest` are the ends of the part of it one looks at.
* `Acknowledged` is `register` with a hand-off that is then acknowledged: two
  tries to write its ask, of which up to two fail. With both failed its ask is in
  memory alone. `Ask` is `admitAskerWake`, which drops the hand-off then, or not
  when it runs already (`handoff-boundary.ts:888`), and a shared request that
  times out and does not look at what `register` says (`:757`). `Ticket` is a
  timed-out ask that becomes a hand-off in its wait's own timer (`:805`), with
  `register`'s answer ignored as well. The ask being waited for is not tracked:
  a ticket may come at any time while the server runs, whatever the asker's turn
  does, which allows more than the code.
* `Return` is the finalizer's commit with its follow-up, `CutReturn` the crash
  between the two; the boot's follow-up of a receipt that still owes is `Return`
  again.
* `Claim` is `wakeAsker` from every place that calls it. `Admit` is the last
  check and the admission, `Fence` is `start` in `beforeSubmit`, `Accept` the
  accounting after the engine answered a wake (`AcceptOwn` a turn of the owner's).
  An engine may answer before the fence; `doneIds` remembers it for the fence
  that follows (`FenceDone`).
* Any write of the wakes may fail: memory and disk then differ until a later
  write lands. The hold is two writes, and `TornHold` the crash between them.
* `Close` is the closing server: it marks claims, `Exit` then ends the process
  while setups may still be under way.

Left out: who may hear from whom (every author stays allowed), the rebuild of a
turn whose memory was refused, deleted bots and conversations, other threads,
asks beyond `MAX_ASKER_INTENTS`, failing writes of the reply, the updates and
the held items. Whether the engine has tools is open at every look. Nothing is
said of what eventually happens: engines without tools and full limits may hold
a wake back for as long as they last.

### Plan

1. `SendLedger`, `SendPromise`, `OwnerSends` and proofs (done).
2. `ThreadRuns` and proofs (done).
3. `PushRows`, `BotCalls` and proofs (done); `AskerWake` and proofs (done).
4. Candidates after those: `AppTriggers` and the connected-app journal (delivery
   with de-duplication), `RoomRequests` with `WorkAdmission`, the rest of
   `Delegations`.

## 3. Runs

Every run of `OwnerSends` bounds: sends (1 or 2), row numbers (`Seqs`), presses of *Send again*,
Stops, crashes, failing database writes, foreign events (another turn, a room
turn, a task switch, a start that fails after its line), and restores.

| Run | Question | Bounds |
|---|---|---|
| `send_core` | Are words lost or run twice, are chips and waiting rows honest, are a drained batch and a deciding send ever both starting, is order kept, is there one line per attempt? Does each send live as `SendPromise` says? | 2 sends, 1 press, 1 crash, 1 failed write, 1 foreign event |
| `send_held` | Do stopped sends stay parked across a restart, and restored ones until a new press; is every send visible, nobody left deciding? (also `TypeOK`) | 2 sends, one a typed stop, 1 press, 1 Stop, 1 crash, 1 restore |
| `send_open` | Does every send leave the pipeline; do shared rows keep their place? | a plain send and a shared answer, 1 crash, 2 foreign events |

Two sends are enough for an order, a batch and an overtaking; each bound lets
its event meet every other one once. Deadlock is checked in every run: a repeat
of a request and another press are always possible until their bounds are used,
and a system at rest still takes `OtherDrain` steps.

The runs of `ThreadRuns` are bounded by `Gens` (two per thread, reused) and
`MaxClaims` alone, so a run may go on for ever.

| Run | Question | Bounds |
|---|---|---|
| `runs_shared` | Are claims exclusive, live, complete and dropped while waiting; is nobody left waiting for what is free; does only a holder pass the line? (also `TypeOK`) | 3 threads of one bot; a folder and one inside it, a screen, a browser; two claims per turn, spare parts, hand-backs, a turn that waits for the person |
| `runs_slots` | Is the limit of slots kept, the owner's send first, a plain send behind what waits, nobody left waiting beside a free slot? | 4 threads of one bot, limit 1, every kind of start; threads are interchangeable (symmetry) |
| `runs_served` | Does everybody in a line get on, when turns claim once? | 3 threads of two bots, limit 1: one automation, one owner's, one plain; screen and browser |

Three threads are a holder, a waiter and one that overtakes; four of one bot add
one that takes the reserved slot.

The runs of `BotCalls` bound crashes, failed writes or sends, Stops and calls of
the owner's (`Bounds`), and all of them together (`Most`); timers, sweeps, the
flush and the relay's answers are unbounded.

| Run | Question | Bounds |
|---|---|---|
| `calls_alone` | Does one call ring or live at a time, none beside a session; does a live call always have its session; does a call only move forward? (also `TypeOK`) | 2 calls of one bot, one of them marked on a turn, no phone sees them, one of each odd event |
| `calls_phones` | Does a phone ring only in time; is it told when the ringing stops; is a finished row never sent again; does all that is owed come to an end? | 1 call, 1 phone, two odd events |

Two calls are a call and the one that must wait for it; rows of different phones
and calls never meet, so one of each shows what happens to a row.

| Run | Question | Bounds |
|---|---|---|
| `wake_once` | Is a reply's wake sent at most once, and never lost once its hand-off was on disk; does every record have one carrier; are starts bounded, with crashes and failed writes; does what was forgotten on disk stay forgotten? (also `TypeOK`) | 3 hand-offs of one authority (interchangeable), 2 records, 2 replies each, 2 attempts; two of: 2 crashes, a close, 2 failed writes, a Stop, 2 admissions without tools; writes that fail in one step count as one of the two |

Three hand-offs are a record with two replies, a second record, and one that
overflows; the cap of 2 attempts is reached by one failed start and one crash.
An ask whose two writes fail is one of the two odd events (`along` counts the
second failure of a step), so that it still meets a crash, a close, a Stop or an
engine without tools.

Three more runs check what a comment of the source says and TLC refutes
(`PROJECT.json`, `findings`): `send_stopped_runs`, `send_twice_failed`, and
`runs_starve`. In the last, a turn waits for screen and browser; two others that
hold a folder of their own claim the screen and the browser in a second step,
which passes the line, again and again with their holds overlapping, and the
first is never served, while `independent-thread-runs.ts` says that nobody
starves. With one claim per turn (`runs_served`) nobody does.

Three more disagreements were met, and are excepted in the properties that would
show them:

* `lost` in `WhoRangIsTold`: a ring's row expires with its deadline and
  `prune` (`mobile-push-store.ts:452-459`) deletes it at the next flush. When
  that flush runs before the timer or the sweep ends the ring, `resolveCall`
  finds no ring and owes no stop, while `bot-calls-machine.ts:373-374` says it
  stops every binding that may have rung, and `mobile-push-outbox.ts:236-237` that
  such a phone gets a resolved revision.
* `spent["fail"] <= 1` in `WokenOnce`: with two failed writes and a crash one
  reply wakes its asker twice. The delivery's write fails, so the receipt goes on
  owing; the claim's write lands; an engine that accepts before the fence uses up
  the external update, and the write of `done` fails; after a crash the record is
  owed again, and the boot's follow-up of the receipt marks the reply as an update
  once more (`index.ts:16078-16080`), so that the wake passes its checks and goes
  out again, while `delegations.ts:434-435` says that `AskerWakes` dedupes it.
* `kept` in `NothingLost` and `GoneStaysGone`: both writes of a hand-off's ask
  fail, and it is acknowledged all the same, because it runs already
  (`handoff-boundary.ts:888`) or because the caller ignores that `register` failed
  (`:757`, `:805`), while `asker-wake.ts:282` says that a hand-off is acknowledged
  only once its intent is on disk. A server that goes down before a later write
  loses the wake; if the write lands, the disk gets an ask of a hand-off long out.
  Without the exception TLC shows both in a few steps.

### Fairness

`FairSpec` asks only for what the code's scheduling gives: a promise that is
awaited settles (the steer deadline and `startTurn`'s own timeouts see to it), a
timer that is set fires, a turn or a room turn ends (the watchdogs), start-up
goes on. Nothing is asked of clients, of the engine's late answers, or of other
drains.

In `ThreadRuns`, `FairSpec` asks `WF_vars(Ends(t))` of each thread: a run that
waits neither in a line nor for the person ends. Its setup goes on or throws (and
is released), the watchdog interrupts a turn that stalls, an engine told to stop
closes or is killed, and each of these releases the run. Nothing is asked of
admissions, claims or the person. The two liveness properties except the time in
which some turn waits for the person, as nothing in the code limits that.

In `BotCalls`, `FairSpec` asks for three things: `Works`, that one of what
happens by itself happens (deadlines pass, timers and the sweep's interval fire,
a send on the wire is answered or times out, a process that ended is started
again); `Answers`, that a decision's calendar query returns, which has a time
limit of its own; and `Flushes`, that the outbox's interval goes on. The last two
are apart because the first could otherwise be met by the sweep alone.
`AskerWake` states no fairness and no liveness.

### What the refinement covers

`KeepsPromise` says that `OwnerSends` implements `SendPromise`, with the status of a
row, the number of times the engine got the words of its present attempt, and
the lines as the mapping. `send_core` checks it without restores (a snapshot brings
back the past, which no promise about the present survives), up to the deletion
of the conversation, with at most one failed write per behaviour: two break it,
as `send_twice_failed` shows.

## 4. Proofs

`OwnerSendsProofs` proves, for every finite set of sends and every value of the
bounds (`SendsAssumption`, `SeqsAssumption`):

* `TypesHold`: `Spec => []TypeOK`. The inductive invariant `TypeInv` adds that a
  send is at the head of the chain whenever the admission awaits; each action
  has its lemma, and `DrainType` is the one they share.
* `NoWordsLost`: `Spec => []WordsKept`. `WordsKept` is not inductive: a step
  that settles a row as started throws its words away, so the invariant must
  know that a line exists. `WordsInv` says of each row (`Safe`) that a claimed
  line is there, that a row that ran has one, and that otherwise the words are
  in the row unless dismissed; the same of the snapshot a restore would bring
  back; that a send in the chain has its row; that the line was written when the
  admission is past `startTurn`, and for a late call that says so; and that
  nothing of the admission survives in a server that is down. `Grows(L, n)` is
  what a section may make of ledger and transcript, `KeepsWords` shows it
  suffices, and one lemma per handler shows that the handler does no more.

The other four modules about `OwnerSends` go on from there, one inductive
invariant each. Every such invariant was an invariant of a run before it was
proved.

`OwnerFlowProofs` proves `OneStartHolds`, `OneLineHolds` and, while at most one
write fails, `OrderHolds`. `FlowInv` says which shapes a row can have (`Shape`:
one that decides has no line, one that waits has none or adopts it), that row
numbers differ, that what the admission, a late answer or a batch remembers of a
row is still so (`InLine`, `Asked`, `Starting`), and that while the admission
awaits the engine there is no batch and nothing open before it (`Foremost`). The
last is what `OneStart` and the order of a steer rest on; `Starting` is what the
order of a batch rests on. It needs `MaxFail <= 1`: when two writes fail in one drain, the
mark of a row and the note that takes it back, the row stays marked beside the
batch, and what comes after it starts first.

`OwnerOnceProofs` proves `OncePerActHolds` and `WaitingHolds` while at most one
write fails. `OnceInv` says that the words of a send are at one place at a time
(`Apart`: in the pipeline's hands, in a turn being set up, or in a steer whose
answer is out), and that the engine has not got those it may get again, or that
its owner may send again (`Unspent`); `Asks` says the same of the requests under
way, `SnapOnce` of the snapshot a restore brings back. `Orderly` is what a step
of the server may do to all of that; one lemma per handler shows that it does no
more. `MaxFail <= 1` is needed: a steer that was taken, and whose two writes both
fail, leaves a refused chip whose words the engine has, and a press of *Send
again* then gives them twice (`send_twice_failed`). For `WaitingNotGiven`, `ActsInv` adds that
a row's act is one of its owner's.

`OwnerHeldProofs` proves `HeldPressHolds` for every value of the bounds, failed
writes included. `HeldInv` says that the tokens and generations of requests and
rows were minted (`Minted`), that requests are of known sends (`Known`), and of each
send (`Ticketed`) that what waits, or may come back to wait, carries a Stop's mark
exactly when it was held, with a token no request has yet, and that a chip held
since then is opened by no older press. While no write fails it also proves
`StrandedHolds`, `VisibleHolds` and `ParkedHolds`, from `TidyInv`: a row that waits has its
words or its line, an unconfirmed one shows a line (`Tidy`), a row being decided is
in line or on start-up's list (`Worked`), a parked row rests (`ParkedSo`), and the
snapshot is as good. `MaxFail = 0` cannot be raised: one
failed write breaks each. A refused start whose catch block cannot write leaves its
row deciding with nobody working on it until the next start; a steer that was taken
and whose line is not written leaves words nobody shows until then; and a recovery
whose transaction fails lets a parked send be decided again.

`OwnerPromiseProofs` proves `PromiseKept`: with at most one failed write and no
restore, `Spec => KeepsPromise`, that is, initial states map to initial states of
`SendPromise` and every step to a step of it or to none. `PathInv` adds what the
other invariants do not need: what the owner dropped stays dropped, and what
start-up has to finish is a row it may move. Each step of the server is shown to
move only rows it still has in hand, to other rows of the same act, and to add
lines only for those (`Serves`); together with `Orderly` this gives each send a
step of the promise (`Keeping`, `Acting`, which `Maps` translates). The words are
given only of rows that have left the pipeline's hands, which is where the
promise lets the number of times given grow. `MaxRestore = 0` is what the run
assumes as well: a restore takes rows back to their past.

`ThreadRunsProofs` proves, for every set of threads, bots and resources, every
limit, every symmetric and reflexive relation of overlaps and every choice of
claims (`ThreadsAssumption`, `GensAssumption`, `NobodyAssumption`,
`TouchAssumption`, `LimitAssumption`, `UseAssumption`):

* `RunTypesHold`: `TypeOK`.
* `ClaimsExclusive`: two turns never hold one resource or overlapping folders.
* `ClaimsOfLiveRuns`: every claim is the present run's of some thread.
* `WaitersHoldNothing`: who waits holds nothing, is in setup, and stands in one
  line only: the code's reason why waiting cannot deadlock.
* `ClaimsKept`: a turn that goes on holds all that it was promised.

None is inductive. Two waiters served by one look do not collide because the
later one was measured against what the earlier one got, which needs the line to
be a total order (`Ordered`); a served waiter's claim belongs to the present run
because its place does (`Clean`); a claim that was let go of comes back because
what the run needs is held, waited for or claimed next (`Kept`). `RunInv` is the
conjunction (`Typed`, `Excl`, `Alive`, `Ordered`, `Clean`, `Apart`, `Kept`), and
says that only runs in setup wait (`Resting`). Its parts are operators of what a
step makes of the variables, because most actions change them and then look at
the lines: `PumpGood` proves once that a look turns any `Good` intermediate state
into one that satisfies the invariant, and each action's lemma shows only that
its own changes are `Good`.

Its second part proves under the same assumptions:
`WakeUpsKept` (`NoLostWakeup`), `SlotsBounded` (`SlotLimit`), `PlainStaysBehind`
(`PlainWaits`), `NewcomersBehind` (`PassesOnlyHolding`) and `OwnersFirst`
(`OwnerFirst`). `LinesInv` is `RunInv` with what a look at the lines leaves behind:
`SlotsOK` (who is seated past the limit, how many of a bot are, and that the
first of a bot's line has no slot free to it) and `LineOK` (whoever stays in the
line is kept there by a holder or an earlier waiter). Slots are counted by
places: the proofs take the last run that is seated, or the first that is not,
and compare what is ahead of it with the slots that were free.

`BotCallsProofs` proves, for every set of phones, calls and bots, whoever makes a
call, and every bound, all that the runs of `BotCalls` check but what eventually
happens: `CallTypesHold`, `LiveWithSession`, `OneAtATime`, `RangAndTold`,
`OnlyForward`, `RingsOnlyInTime` and `DoneStaysDone`. `CallsInv` says what a database at
rest looks like (`Sound`: of each call, its session and its rows on the phones
together) and what a turn's fact owes it (`Unadmitted`). A handler is a chain of
operators on that database ended by a commit, so there is one lemma for each
operator, one for the commit and what follows it, and the lemma of an action
strings them together.

`AskerWakeProofs` proves, for every finite set of hand-offs, every authority, every
cap and every bound (`TasksAssumption`, `CapsAssumption`, `BoundsAssumption`), all
that the run of `AskerWake` checks:

* `WakeTypesHold`: `TypeOK`, with no record over its attempts.
* `NoHandOffLost`: a hand-off the disk has had once is not lost.
* `WhatIsGoneStaysGone`: what the disk forgot comes back with nothing, and nothing
  is put there that memory has forgotten.
* `CarriedByOne`: a taken record has one carrier, an owed one none.
* `NotBegunForEver`: every begin of a record is paid for.
* `WakesGoOutOnce`: no reply goes out in two wakes, while at most one write fails.

They rest on three inductive invariants, each checked by TLC on small instances
before it was proved.

`WakeInv` has two parts. `BookInv`: the book in memory and the one on disk are each in
order (`Book`: a hand-off is asked for, or in one record, or neither, and its receipt
agrees), what a live server has of hand-offs the disk ever had is on disk, what it has
of others waits for a write (they are out, with their ask in memory), and the records
there differ only while a write is outstanding (`Lasts`). Most steps only take from a book, and what
they take is over (`Fades`); they write the result, something in between, or nothing
(`Wears`), so one lemma says what that keeps and one per operator that it fades.
`Takers`: `TakenOnce` gives each record its carriers (starts, turn, item), and
says that a name that is still asked for has none.

`TriesInv` values a record by the starts it has paid for (`Worth`): its attempts, the
one it is on, and one fewer when a close cut that one. It was begun at most as often
as its row is worth, in memory and on disk, and once more for each clean close: a
claim and a replay pay on disk before they begin, and nothing that gives a record
back, or reads it back after a crash, makes it worth less (`Free`).

`OnceInv` is what `WokenOnce` needs. `Names`: what a start, the turn or an item
names is in its record, in both books. `DoneOnce`: only the turn accepted before its
fence is remembered as done. `Lags`: while no write has failed nothing lags. `HeardOnce`:
while at most one failed, a reply the engine has, or has accepted early, is closed
(`Closed`): not asked for, named by no start and no setup, and in no record that
could still start something with it. A step is `Calm` when it opens no record but for
a reply asked for, claims and marks a record as it is, sets no told reply as an update
again, and starts nothing with what was heard; calm steps keep all of it
(`CalmOnce`), and every action but a boot is one. The fence and the early acceptance
then only have to show that what they send was not heard before, and a boot that
what it reads back was closed on disk. Two failed writes do break it: the comment at
`WokenOnce` gives the run.

A theorem that bounds failing writes or restores says so in its `ASSUME`
(`WakesGoOutOnce` in its property); the other bounds are any natural numbers, and
the sets of sends, threads and hand-offs are finite, of any size.

Only model-checked: what eventually happens, which is out of the prover's reach
(`Resolves` of `OwnerSends`, `NobodyStarves` and `SlotsServed` of `ThreadRuns`, `Ends` of
`BotCalls`), and the three comments that TLC refutes. Every other property of a
passing run is a theorem. Where a run bounds failed writes or restores and the
theorem does too, the bound is part of what is true, as said above.

## 5. Not modelled

`PROJECT.json` gives the reason for each part. In short: engines, file and network
I/O, parsing, signing and encryption are outside what TLC can say something
about; memory, usage limits, approvals and sharing decide on one request at a
time; user interfaces and hosted services are the environment. Of the server's
own protocols the channel queue, rooms and work admission, the dispatch of
hand-offs, app triggers, routines, the connected-app journal and the file-level
restore are still to be modelled.
