------------------------------ MODULE ThreadRuns ------------------------------
(***************************************************************************)
(* The runs of the bots' threads: server/independent-thread-runs.ts with   *)
(* the claims of server/turn-resources.ts, driven as startTurn, the Stop   *)
(* routes and the reloads of server/index.ts drive them.                   *)
(*                                                                         *)
(* A run is one generation on one thread.  It is admitted, waits for one   *)
(* of its bot's slots, claims the folder, computer, screen and browser its *)
(* turn uses, is dispatched, and is released when its engine is done.  It  *)
(* waits in at most two lines, for a slot and for what others hold, and    *)
(* every release, Stop and hand-back looks at both lines again (Pump).     *)
(*                                                                         *)
(* A place in a line is the set of threads ahead of it: what the code's    *)
(* arrays record by position.  The deadline of acquire, the still-waiting  *)
(* notice and the displayed position and estimate are left out: no caller  *)
(* in the server passes a deadline, and the others change no state here.   *)
(***************************************************************************)
EXTENDS Integers, FiniteSets

CONSTANTS Threads,    \* conversations
          Bots, BotOf,
          Gens,       \* names of generations, reused once nobody bears them
          Nobody,     \* the holder of a free resource
          Resources,
          Touch,      \* pairs that cannot have two holders (overlaps)
          Limit,      \* MAX_CONCURRENT_BOT_THREADS
          Kinds,      \* how each thread's turns may be started
          First,      \* what a turn of the thread may ask for at admission
          Later,      \* and may find it needs afterwards
          MaxClaims,  \* bounds the claims of one turn
          Returnable, \* computers and screens, which may be handed back unused
          Asking      \* threads whose turns may wait for the person

Ask == [want : SUBSET Resources, spare : SUBSET Resources]
Kind == {"plain", "auto", "owner"}

ASSUME ThreadsAssumption == IsFiniteSet(Threads) /\ BotOf \in [Threads -> Bots]
ASSUME GensAssumption == Gens \subseteq Nat \ {0}
ASSUME NobodyAssumption == Nobody \notin Threads \X (Gens \cup {0})
ASSUME TouchAssumption ==
    /\ Touch \subseteq Resources \X Resources
    /\ \A r \in Resources : <<r, r>> \in Touch
    /\ \A q, r \in Resources : <<q, r>> \in Touch => <<r, q>> \in Touch
ASSUME LimitAssumption == Limit \in Nat \ {0}
ASSUME UseAssumption ==
    /\ Kinds \in [Threads -> SUBSET Kind]
    /\ First \in [Threads -> SUBSET Ask] /\ Later \in [Threads -> SUBSET Ask]
    /\ MaxClaims \in Nat /\ Returnable \subseteq Resources
    /\ Asking \subseteq Threads

VARIABLES gen,       \* the thread's latest generation, 0 before the first
          phase,     \* the phase of its run, "none" when it has no run
          kind,      \* how the run was started; a rebuild starts it the same
          at,        \* where its setup is: before its slot, going on, or
                     \* about to claim the rest after a yield
          claims,    \* how often it has asked for resources
          rest,      \* what it still claims when it goes on without some
          need,      \* what it was promised to hold (history)
          person,    \* threads whose turn waits for the person
          holder,    \* TurnResources.owners
          slotless, reserved,
          slotLine, line

vars == <<gen, phase, kind, at, claims, rest, need, person, holder, slotless,
          reserved, slotLine, line>>

Phase == {"none", "setup", "dispatching", "running", "stopping", "settling",
          "rebuilding"}
Live == {"setup", "dispatching", "running"}
Entry == [g : Gens \cup {0}, want : SUBSET Resources,
          spare : SUBSET Resources, ahead : SUBSET Threads]
Off == [g |-> 0, want |-> {}, spare |-> {}, ahead |-> {}]

Init ==
    /\ gen = [t \in Threads |-> 0]
    /\ phase = [t \in Threads |-> "none"]
    /\ kind = [t \in Threads |-> "plain"]
    /\ at = [t \in Threads |-> "start"]
    /\ claims = [t \in Threads |-> 0]
    /\ rest = [t \in Threads |-> {}]
    /\ need = [t \in Threads |-> {}]
    /\ person = {} /\ slotless = {} /\ reserved = {}
    /\ holder = [r \in Resources |-> Nobody]
    /\ slotLine = [t \in Threads |-> Off]
    /\ line = [t \in Threads |-> Off]
-----------------------------------------------------------------------------
(* Claims *)

(* Fault: a call of an earlier generation is taken for the present one's.   *)
Current_AnyGeneration(t, g) == phase[t] # "none"

Current(t, g) == phase[t] # "none" /\ gen[t] = g
Own(t) == <<t, gen[t]>>
HeldBy(H, o) == {r \in Resources : H[r] = o}

Touching(V, W) == \E q \in V, r \in W : <<q, r>> \in Touch

(* Fault: a folder inside a held folder is free.                            *)
Away_SameKeyOnly(H, W, o) == {r \in W : H[r] \notin {Nobody, o}}

(* Which of W another owner holds, itself or something that overlaps it.    *)
Away(H, W, o) ==
    {r \in W : \E q \in Resources :
                   <<q, r>> \in Touch /\ H[q] \notin {Nobody, o}}

ClaimAll(H, W, o) == [r \in Resources |-> IF r \in W THEN o ELSE H[r]]
Freed(H, o) == [r \in Resources |-> IF H[r] = o THEN Nobody ELSE H[r]]

(* A turn may go on without what it asked for when all that blocks it is    *)
(* spare and held by runs that wait for the person.                         *)
Yields(H, W, o, spare, P) ==
    /\ Away(H, W, o) \subseteq spare
    /\ \A q \in Resources :
           H[q] \notin {Nobody, o} /\ Touching({q}, W) => H[q][1] \in P
-----------------------------------------------------------------------------
(* The two lines *)

InLine(Q) == {t \in Threads : Q[t].g # 0}

(* Those in line whose run may still claim after this step.                 *)
Waits(Q) ==
    {t \in InLine(Q) : Q[t].g = gen'[t] /\ phase'[t] \in Live}

(* The line once only these stay in it.                                     *)
Left(Q, stay) ==
    [t \in Threads |->
        IF t \in stay THEN [Q[t] EXCEPT !.ahead = @ \cap stay] ELSE Off]

RunsOf(b) == {t \in Threads : BotOf[t] = b /\ phase[t] # "none"}

(* Slots of b in use after this step's release; the reserved one is extra.  *)
InUse(b, S) ==
    {t \in Threads : BotOf[t] = b /\ phase'[t] # "none"
                     /\ t \notin S /\ t \notin reserved'}

(* Fault: everybody in line sees the same free slot.                        *)
Seated_Together(S, Q) ==
    {t \in Waits(Q) : Cardinality(InUse(BotOf[t], S)) < Limit}

(* Who gets a slot: the first of each bot's line, as many as are free.      *)
Seated(S, Q) ==
    {t \in Waits(Q) :
        Cardinality(InUse(BotOf[t], S))
          + Cardinality({u \in Q[t].ahead \cap Waits(Q) : BotOf[u] = BotOf[t]})
        < Limit}

(* Fault: a waiter is served for its thread, whatever run it is on.         *)
Granted_NoGeneration(H, Q, go) ==
    [r \in Resources |->
        IF \E u \in go : r \in Q[u].want
        THEN LET u == CHOOSE u \in go : r \in Q[u].want IN <<u, 0>>
        ELSE H[r]]

(* The claims once these waiters were given all they wait for.              *)
Granted(H, Q, go) ==
    [r \in Resources |->
        IF \E u \in go : r \in Q[u].want
        THEN LET u == CHOOSE u \in go : r \in Q[u].want IN <<u, Q[u].g>>
        ELSE H[r]]

(* Fault: whoever finds its resources free takes them, in any order.        *)
Serves_AnyOrder(H, Q, go, yield) ==
    LET away(t) == Away(Granted(H, Q, Q[t].ahead \cap go), Q[t].want,
                        <<t, Q[t].g>>)
    IN /\ yield = {}
       /\ \A t \in Waits(Q) : t \in go <=> away(t) = {}

(* Going through the line in order: those of go are served and those of     *)
(* yield go on without; the rest stays, and holds back what overlaps it.    *)
Serves(H, Q, go, yield) ==
    LET stay == Waits(Q) \ (go \cup yield)
        before(t) == Granted(H, Q, Q[t].ahead \cap go)
        behind(t) == \E u \in Q[t].ahead \cap stay :
                         Touching(Q[u].want, Q[t].want)
        away(t) == Away(before(t), Q[t].want, <<t, Q[t].g>>)
        yields(t) == Yields(before(t), Q[t].want, <<t, Q[t].g>>, Q[t].spare,
                            person')
    IN \A t \in Waits(Q) :
           /\ t \in go <=> ~behind(t) /\ away(t) = {}
           /\ t \in yield <=> ~behind(t) /\ away(t) # {} /\ yields(t)

(* One look at both lines, after the step's own changes: H, S, A, SL and L  *)
(* are what it made of holder, slotless, at and the lines.                  *)
Pump(H, S, A, SL, L) ==
    /\ slotless' = S \ Seated(S, SL)
    /\ slotLine' = Left(SL, Waits(SL) \ Seated(S, SL))
    /\ \E go \in SUBSET Waits(L) : \E yield \in SUBSET Waits(L) :
           /\ Serves(H, L, go, yield)
           /\ holder' = Granted(H, L, go)
           /\ line' = Left(L, Waits(L) \ (go \cup yield))
           /\ at' = [t \in Threads |-> IF t \in yield THEN "rest" ELSE A[t]]
-----------------------------------------------------------------------------
(* Admission and slots *)

Others(t) == RunsOf(BotOf[t]) \ {t}

(* Fault: only runs that hold a slot count, so a direct send is admitted    *)
(* past the automation that waits for one.                                  *)
NeedsSlot_SeatedOnly(t) == Cardinality(Others(t) \ slotless) >= Limit

NeedsSlot(t) == Cardinality(Others(t)) >= Limit
Reserves(t, k) == NeedsSlot(t) /\ k = "owner" /\ Others(t) \cap reserved = {}

(* The run that admission makes: a generation nobody on the thread bears.   *)
Born(t, k) ==
    /\ \E g \in Gens \ {gen[t]} : gen' = [gen EXCEPT ![t] = g]
    /\ phase' = [phase EXCEPT ![t] = "setup"]
    /\ kind' = [kind EXCEPT ![t] = k]
    /\ claims' = [claims EXCEPT ![t] = 0]
    /\ rest' = [rest EXCEPT ![t] = {}]
    /\ need' = [need EXCEPT ![t] = {}]
    /\ person' = person \ {t}
    /\ reserved' = (reserved \ {t})
                     \cup (IF Reserves(t, k) THEN {t} ELSE {})

SlotlessOnce(t, k) ==
    (slotless \ {t})
      \cup (IF NeedsSlot(t) /\ ~Reserves(t, k) THEN {t} ELSE {})

(* Past the limit a plain start is refused, an owner's takes the reserved   *)
(* slot or waits, a queued one waits.                                       *)
Admit(t, k) ==
    /\ phase[t] = "none"
    /\ k \in Kinds[t]
    /\ NeedsSlot(t) => k # "plain"
    /\ Born(t, k)
    /\ slotless' = SlotlessOnce(t, k)
    /\ at' = [at EXCEPT ![t] = "start"]
    /\ UNCHANGED <<holder, slotLine, line>>

(* Fault: an owner's send joins the line of slots behind the automation.    *)
SlotPlace_Arrival(t) ==
    [u \in Threads |->
        IF u = t THEN [Off EXCEPT !.g = gen[t], !.ahead = InLine(slotLine)]
        ELSE slotLine[u]]

(* The line of slots with t in it: at the end, or an owner's send ahead of  *)
(* every automation run.                                                    *)
SlotPlace(t) ==
    LET passed == IF kind[t] # "owner" THEN {}
                  ELSE {u \in InLine(slotLine) : kind[u] # "owner"}
    IN [u \in Threads |->
           IF u = t
           THEN [Off EXCEPT !.g = gen[t], !.ahead = InLine(slotLine) \ passed]
           ELSE IF u \in passed THEN [slotLine[u] EXCEPT !.ahead = @ \cup {t}]
           ELSE slotLine[u]]

(* Setup reaches its slot; it has one, or joins the line.                   *)
AwaitSlot(t) ==
    /\ phase[t] = "setup" /\ at[t] = "start"
    /\ UNCHANGED <<gen, phase, kind, claims, rest, need, person, reserved>>
    /\ \/ /\ t \notin slotless
          /\ at' = [at EXCEPT ![t] = "setup"]
          /\ UNCHANGED <<holder, slotless, slotLine, line>>
       \/ /\ t \in slotless
          /\ Pump(holder, slotless, [at EXCEPT ![t] = "setup"], SlotPlace(t),
                  line)
-----------------------------------------------------------------------------
(* Claiming while the turn is set up *)

Waiting(t) == slotLine[t].g # 0 \/ line[t].g # 0
SettingUp(t) == phase[t] = "setup" /\ ~Waiting(t)

(* Fault: a newcomer does not look at the line.                             *)
QueuedFor_Nobody(t, W) == {}

(* What of W somebody in line waits for.                                    *)
QueuedFor(t, W) ==
    {r \in W : \E u \in InLine(line) \ {t} : Touching(line[u].want, {r})}

(* Fault: a wait is for the new resources only.                             *)
Wanted_New(t, want) == want

(* Whatever the run holds, together with what it asks for.                  *)
Wanted(t, want) == HeldBy(holder, Own(t)) \cup want

(* Fault: a run waits for what it misses and keeps what it has.             *)
LetGo_Keeps(H, o) == H

LetGo(H, o) == Freed(H, o)

(* acquire: take it all, go on without the spare part, or let go of         *)
(* everything and wait for the whole.  A holder does not look at the line.  *)
Acquire(t, want, spare) ==
    LET o == Own(t)
        W == Wanted(t, want)
        queued == QueuedFor(t, W)
        clear == HeldBy(holder, o) # {} \/ queued = {}
        free == Away(holder, W, o) = {}
        goesOn == queued = {} /\ Yields(holder, W, o, spare, person)
    IN \/ /\ free /\ clear
          /\ holder' = ClaimAll(holder, W, o)
          /\ at' = [at EXCEPT ![t] = "setup"]
          /\ UNCHANGED <<slotless, slotLine, line>>
       \/ /\ ~free /\ goesOn
          /\ at' = [at EXCEPT ![t] = "rest"]
          /\ UNCHANGED <<holder, slotless, slotLine, line>>
       \/ /\ ~(free /\ clear) /\ ~(~free /\ goesOn)
          /\ Pump(LetGo(holder, o), slotless, [at EXCEPT ![t] = "setup"],
                  slotLine,
                  [line EXCEPT ![t] = [g |-> gen[t], want |-> W,
                                       spare |-> spare,
                                       ahead |-> InLine(line)]])

Claim(t, ask) ==
    /\ SettingUp(t) /\ at[t] = "setup"
    /\ claims[t] < MaxClaims
    /\ ask \in IF claims[t] = 0 THEN First[t] ELSE Later[t]
    /\ claims' = [claims EXCEPT ![t] = @ + 1]
    /\ rest' = [rest EXCEPT ![t] =
                   (HeldBy(holder, Own(t)) \cup ask.want) \ ask.spare]
    /\ need' = [need EXCEPT ![t] = (@ \cup ask.want) \ ask.spare]
    /\ UNCHANGED <<gen, phase, kind, person, reserved>>
    /\ Acquire(t, ask.want, ask.spare)

(* After a yield: claim again what it had and still needs.                  *)
ClaimRest(t) ==
    /\ SettingUp(t) /\ at[t] = "rest"
    /\ UNCHANGED <<gen, phase, kind, claims, rest, need, person, reserved>>
    /\ \/ /\ rest[t] = {}
          /\ at' = [at EXCEPT ![t] = "setup"]
          /\ UNCHANGED <<holder, slotless, slotLine, line>>
       \/ /\ rest[t] # {}
          /\ Acquire(t, rest[t], {})

(* The destination is known: a computer or screen it does not use goes      *)
(* back, and whoever waits for it is let in.                                *)
GiveBack(t, R) ==
    /\ SettingUp(t) /\ at[t] = "setup"
    /\ R # {} /\ R \subseteq Returnable \cap HeldBy(holder, Own(t))
    /\ need' = [need EXCEPT ![t] = @ \ R]
    /\ UNCHANGED <<gen, phase, kind, claims, rest, person, reserved>>
    /\ Pump([r \in Resources |-> IF r \in R THEN Nobody ELSE holder[r]],
            slotless, at, slotLine, line)
-----------------------------------------------------------------------------
(* The turn *)

Moves(t, p) ==
    /\ phase' = [phase EXCEPT ![t] = p]
    /\ UNCHANGED <<gen, kind, claims, rest, need, person, reserved>>

Keeps == UNCHANGED <<at, holder, slotless, slotLine, line>>

Looks == Pump(holder, slotless, at, slotLine, line)

Dispatch(t) == SettingUp(t) /\ at[t] = "setup" /\ Moves(t, "dispatching") /\ Keeps

Accepted(t) == phase[t] = "dispatching" /\ Moves(t, "running") /\ Keeps

(* The engine's terminal event; a stopped run stays stopping.               *)
Settling(t) ==
    phase[t] \in {"dispatching", "running"} /\ Moves(t, "settling") /\ Keeps

(* The turn starts or stops waiting for the person, which frees nothing:    *)
(* the lines are looked at again.                                           *)
AsksPerson(t) ==
    /\ t \in Asking \ person
    /\ phase[t] = "running"
    /\ person' = person \cup {t}
    /\ UNCHANGED <<gen, phase, kind, claims, rest, need, reserved>>
    /\ Looks

PersonAnswers(t) ==
    /\ t \in person
    /\ person' = person \ {t}
    /\ UNCHANGED <<gen, phase, kind, claims, rest, need, reserved>>
    /\ Looks

(* Fault: the lines are looked at while the run still has its slot.         *)
Released_Silent(t, g) ==
    /\ phase' = [phase EXCEPT ![t] = "none"]
    /\ kind' = [kind EXCEPT ![t] = "plain"]
    /\ claims' = [claims EXCEPT ![t] = 0]
    /\ rest' = [rest EXCEPT ![t] = {}]
    /\ need' = [need EXCEPT ![t] = {}]
    /\ person' = person \ {t} /\ reserved' = reserved \ {t}
    /\ slotless' = slotless \ {t}
    /\ holder' = Freed(holder, <<t, g>>)
    /\ at' = [at EXCEPT ![t] = "start"]
    /\ slotLine' = Left(slotLine, InLine(slotLine) \ {t})
    /\ line' = Left(line, InLine(line) \ {t})
    /\ UNCHANGED gen

(* The run and what this generation of it has are gone.                     *)
Released(t, g) ==
    /\ phase' = [phase EXCEPT ![t] = "none"]
    /\ kind' = [kind EXCEPT ![t] = "plain"]
    /\ claims' = [claims EXCEPT ![t] = 0]
    /\ rest' = [rest EXCEPT ![t] = {}]
    /\ need' = [need EXCEPT ![t] = {}]
    /\ person' = person \ {t}
    /\ reserved' = reserved \ {t}
    /\ UNCHANGED gen
    /\ Pump(Freed(holder, <<t, g>>), slotless \ {t},
            [at EXCEPT ![t] = "start"], slotLine, line)

(* Its setup failed, its engine has closed, or a reload retired it; the     *)
(* caller may be late, with a generation that is no longer there.           *)
Release(t, g) == Current(t, g) /\ Released(t, g)

(* Fault: the lines are not looked at after a Stop.                         *)
Stop_Silent(t) ==
    /\ phase[t] \in Live \cup {"settling"}
    /\ Moves(t, "stopping") /\ Keeps

(* Stop retires the run's claim to dispatch; what it holds stays held until *)
(* its engine has closed.  A run held for its rebuild has no engine.        *)
Stop(t) ==
    \/ /\ phase[t] \in Live \cup {"settling"}
       /\ Moves(t, "stopping") /\ Looks
    \/ /\ phase[t] = "rebuilding"
       /\ Released(t, gen[t])

(* A turn refused over memory, nothing of it written, keeps its thread.     *)
HoldForRebuild(t) ==
    /\ \/ phase[t] \in {"dispatching", "settling"}
       \/ SettingUp(t) /\ at[t] = "setup"
    /\ Moves(t, "rebuilding") /\ Looks

(* The rebuilt turn takes the run over, or is refused at the limit.         *)
TakeOver(t) ==
    /\ phase[t] = "rebuilding"
    /\ \/ /\ NeedsSlot(t) /\ kind[t] = "plain"
          /\ Released(t, gen[t])
       \/ /\ NeedsSlot(t) => kind[t] # "plain"
          /\ Born(t, kind[t])
          /\ Pump(Freed(holder, Own(t)), SlotlessOnce(t, kind[t]),
                  [at EXCEPT ![t] = "start"], slotLine, line)

Next ==
    \E t \in Threads :
        \/ \E k \in Kind : Admit(t, k)
        \/ AwaitSlot(t)
        \/ \E ask \in First[t] \cup Later[t] : Claim(t, ask)
        \/ ClaimRest(t)
        \/ \E R \in SUBSET Returnable : GiveBack(t, R)
        \/ Dispatch(t) \/ Accepted(t) \/ Settling(t)
        \/ AsksPerson(t) \/ PersonAnswers(t)
        \/ Stop(t)
        \/ \E g \in Gens : Release(t, g)
        \/ HoldForRebuild(t) \/ TakeOver(t)

Spec == Init /\ [][Next]_vars

(* What does not wait in a line or for the person ends: setup goes on or    *)
(* fails, a turn is completed or interrupted by the watchdog, and an engine *)
(* that was told to stop closes.                                            *)
Ends(t) == t \notin person /\ ~Waiting(t) /\ Release(t, gen[t])

FairSpec == Spec /\ \A t \in Threads : WF_vars(Ends(t))
-----------------------------------------------------------------------------
(* Properties *)

(* The run table, the claims and both lines have the types of their maps.   *)
TypeOK ==
    /\ gen \in [Threads -> Gens \cup {0}]
    /\ phase \in [Threads -> Phase]
    /\ kind \in [Threads -> Kind]
    /\ at \in [Threads -> {"start", "setup", "rest"}]
    /\ claims \in [Threads -> Nat]
    /\ rest \in [Threads -> SUBSET Resources]
    /\ need \in [Threads -> SUBSET Resources]
    /\ person \subseteq Threads
    /\ slotless \subseteq Threads /\ reserved \subseteq Threads
    /\ holder \in [Resources -> (Threads \X Gens) \cup {Nobody}]
    /\ slotLine \in [Threads -> Entry]
    /\ line \in [Threads -> Entry]

(* Two turns never hold one resource, nor a folder and a folder inside it:  *)
(* claimAll, whatever waits, yields, hand-backs and rebuilds came before.   *)
Exclusive ==
    \A q, r \in Resources :
        <<q, r>> \in Touch /\ Nobody \notin {holder[q], holder[r]}
            => holder[q] = holder[r]

(* Nothing is held for a run that is gone: a late release, a Stop, a        *)
(* replaced generation or a served waiter never leaves a claim behind.      *)
ClaimsLive ==
    \A r \in Resources :
        holder[r] # Nobody =>
            \E t \in Threads : phase[t] # "none" /\ holder[r] = Own(t)

(* "A waiter never holds a claim, so waiting cannot deadlock", and only a   *)
(* live run in its setup waits, in one of the two lines.                    *)
WaitsEmptyHanded ==
    \A t \in Threads : Waiting(t) =>
        /\ HeldBy(holder, Own(t)) = {}
        /\ phase[t] = "setup"
        /\ {slotLine[t].g, line[t].g} = {0, gen[t]}

(* A bot has at most Limit turns at work, and one more of its owner's.      *)
SlotLimit ==
    \A b \in Bots :
        /\ Cardinality(RunsOf(b) \ (slotless \cup reserved)) <= Limit
        /\ Cardinality(RunsOf(b) \cap reserved) <= 1

(* No wake-up is lost: whoever is in a line is kept there by a full bot, by *)
(* a holder it may not go on without, or by an earlier waiter.              *)
NoLostWakeup ==
    \A t \in Threads :
        /\ slotLine[t].g # 0 =>
              Cardinality(RunsOf(BotOf[t]) \ (slotless \cup reserved)) >= Limit
        /\ line[t].g # 0 =>
              \/ \E u \in line[t].ahead :
                     phase[u] \in Live /\ Touching(line[u].want, line[t].want)
              \/ /\ Away(holder, line[t].want, Own(t)) # {}
                 /\ ~Yields(holder, line[t].want, Own(t), line[t].spare, person)

(* A run never gets what an earlier waiter waits for, unless it holds       *)
(* something already: newcomers stay behind the line.                       *)
PassesOnlyHolding ==
    [][\A t, u \in Threads :
          /\ line[t].g # 0 /\ line'[t].g = line[t].g
          /\ Touching(HeldBy(holder', Own(u)) \ HeldBy(holder, Own(u)),
                      line[t].want)
          => HeldBy(holder, Own(u)) # {} \/ u \in line[t].ahead]_vars

(* An automation run gets no slot while an owner's send waits for one.      *)
OwnerFirst ==
    [][\A t, u \in Threads :
          /\ slotLine[t].g # 0 /\ kind[t] = "auto"
          /\ slotLine[u].g # 0 /\ kind[u] = "owner" /\ BotOf[u] = BotOf[t]
          /\ t \in slotless /\ t \notin slotless' /\ phase'[t] # "none"
          => u \notin slotless']_vars

(* "A direct send counts every admitted run, so it never overtakes a queued *)
(* one": a plain start leaves a slot for each run that was admitted without *)
(* one, whether it has joined the line yet or not.                          *)
PlainWaits ==
    [][\A t \in Threads :
          phase[t] = "none" /\ phase'[t] = "setup" /\ kind'[t] = "plain"
          => \A u \in slotless' :
                 BotOf[u] = BotOf[t] =>
                     Cardinality(InUse(BotOf[t], slotless')
                                   \cup {v \in slotless' : BotOf[v] = BotOf[t]})
                     <= Limit]_vars

(* A turn that goes on or is dispatched holds all it was promised: neither  *)
(* waiting nor a yield loses what it claimed before.                        *)
KeepsClaims ==
    \A t \in Threads :
        /\ phase[t] \in Live \ {"setup"} \/ SettingUp(t)
        /\ at[t] = "setup"
        => need[t] \subseteq HeldBy(holder, Own(t))

(* "A later waiter is skipped while an earlier waiter with an overlapping   *)
(* set is still blocked, so nobody starves": who waits for resources gets   *)
(* them, goes on without or is stopped, unless some turn waits for the      *)
(* person.                                                                  *)
NobodyStarves ==
    \A t \in Threads :
        (line[t].g # 0) ~> (line[t].g = 0 \/ person # {})

(* Who waits for a slot gets it or is stopped; automation may be kept       *)
(* waiting only by owner's sends that wait too.                             *)
SlotsServed ==
    \A t \in Threads :
        (slotLine[t].g # 0) ~>
            \/ slotLine[t].g = 0
            \/ person # {}
            \/ kind[t] = "auto" /\ \E u \in InLine(slotLine) : kind[u] = "owner"
=============================================================================
