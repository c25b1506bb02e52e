--------------------------- MODULE ThreadRunsProofs ---------------------------
(***************************************************************************)
(* Theorems about ThreadRuns, for every set of threads, bots and resources, *)
(* every relation of overlaps and every limit.                             *)
(***************************************************************************)
EXTENDS ThreadRuns, TLAPS, FiniteSetTheorems

Owner == Threads \X Gens
Place == {"start", "setup", "rest"}

(* The parts of the invariant, over what a step makes of the variables: H   *)
(* the holders, S the slotless, A and P where each run is, G the            *)
(* generations, SL and L the lines, N and R what runs need and what they    *)
(* claim after a yield.                                                     *)
Typed(H, S, A, SL, L, G, P) ==
    /\ H \in [Resources -> Owner \cup {Nobody}] /\ S \in SUBSET Threads
    /\ A \in [Threads -> Place]
    /\ SL \in [Threads -> Entry] /\ L \in [Threads -> Entry]
    /\ G \in [Threads -> Gens \cup {0}] /\ P \in [Threads -> Phase]
    /\ \A t \in Threads : P[t] # "none" => G[t] \in Gens

Excl(H) ==
    \A q, r \in Resources :
        <<q, r>> \in Touch /\ H[q] # Nobody /\ H[r] # Nobody => H[q] = H[r]

Alive(H, G, P) ==
    \A r \in Resources :
        H[r] # Nobody => \E t \in Threads : P[t] # "none" /\ H[r] = <<t, G[t]>>

(* The line is total, and nobody is ahead of itself.                        *)
Ordered(L) ==
    \A t, u \in Threads :
        /\ t \notin L[t].ahead
        /\ L[t].g # 0 /\ L[u].g # 0 /\ t # u => t \in L[u].ahead \/ u \in L[t].ahead

(* A place in line is the present run's, and if that may claim it is in     *)
(* setup and holds nothing.                                                 *)
Clean(Q, H, G, P) ==
    \A t \in Threads : Q[t].g # 0 =>
        /\ Q[t].g = G[t]
        /\ P[t] \in Live => P[t] = "setup" /\ \A r \in Resources : H[r] # <<t, G[t]>>

Apart(SL, L) == \A t \in Threads : SL[t].g = 0 \/ L[t].g = 0

(* What a run needs is held, waited for, or claimed next.                   *)
Kept(H, A, L, G, P, N, R) ==
    \A t \in Threads :
        /\ A[t] = "start" => N[t] = {}
        /\ A[t] = "start" /\ P[t] \in Live => \A r \in Resources : H[r] # <<t, G[t]>>
        /\ A[t] = "rest" => N[t] \subseteq R[t]
        /\ L[t].g # 0 /\ P[t] \in Live => A[t] = "setup" /\ N[t] \subseteq L[t].want \cap R[t]
        /\ P[t] \in Live /\ A[t] = "setup" /\ L[t].g = 0
               => \A r \in N[t] : r \in Resources /\ H[r] = <<t, G[t]>>

Good(H, S, A, SL, L, G, P, N, R) ==
    /\ Typed(H, S, A, SL, L, G, P)
    /\ Excl(H) /\ Alive(H, G, P) /\ Ordered(L)
    /\ Clean(SL, H, G, P) /\ Clean(L, H, G, P) /\ Apart(SL, L)
    /\ Kept(H, A, L, G, P, N, R)

(* Only runs in setup wait.                                                 *)
Resting(Q, P) == \A t \in Threads : Q[t].g # 0 => P[t] = "setup"

GoodNow == Good(holder, slotless, at, slotLine, line, gen, phase, need, rest)

TableOK ==
    /\ kind \in [Threads -> Kind] /\ claims \in [Threads -> Nat]
    /\ rest \in [Threads -> SUBSET Resources]
    /\ need \in [Threads -> SUBSET Resources]
    /\ person \in SUBSET Threads /\ reserved \in SUBSET Threads

(* The inductive invariant.                                                 *)
RunInv == GoodNow /\ TableOK /\ Resting(slotLine, phase) /\ Resting(line, phase)
-----------------------------------------------------------------------------
(* One look at the lines                                                    *)

(* A resource a look hands out goes to a waiter of go that wants it.        *)
LEMMA GrantedIs ==
    ASSUME NEW H, NEW Q, NEW go, NEW r \in Resources
    PROVE  \/ \E u \in go : r \in Q[u].want /\ Granted(H, Q, go)[r] = <<u, Q[u].g>>
           \/ /\ \A u \in go : r \notin Q[u].want
              /\ Granted(H, Q, go)[r] = H[r]
<1>1. CASE \E u \in go : r \in Q[u].want
  <2> DEFINE c == CHOOSE u \in go : r \in Q[u].want
  <2>1. c \in go /\ r \in Q[c].want
    BY <1>1, Zenon
  <2>2. Granted(H, Q, go)[r] = <<c, Q[c].g>>
    BY <1>1, Zenon DEF Granted
  <2> QED BY <2>1, <2>2
<1>2. CASE ~ \E u \in go : r \in Q[u].want
  BY <1>2 DEF Granted
<1> QED BY <1>1, <1>2

(* A served waiter wants nothing that touches what another run holds, or    *)
(* what a waiter served before it wants.                                    *)
LEMMA ServedApart ==
    ASSUME NEW H \in [Resources -> Owner \cup {Nobody}],
           NEW L \in [Threads -> Entry], Ordered(L),
           NEW go, NEW t \in go, go \subseteq Threads,
           \A u \in go : L[u].g \in Gens,
           Away(Granted(H, L, L[t].ahead \cap go), L[t].want, <<t, L[t].g>>) = {},
           NEW r \in L[t].want, NEW q \in Resources, <<q, r>> \in Touch
    PROVE  /\ H[q] \in {Nobody, <<t, L[t].g>>}
           /\ \A u \in L[t].ahead \cap go : q \notin L[u].want
<1> DEFINE B == Granted(H, L, L[t].ahead \cap go)
<1>1. B[q] \in {Nobody, <<t, L[t].g>>}
  BY DEF Away
<1>2. ASSUME NEW u \in L[t].ahead \cap go, B[q] = <<u, L[u].g>> PROVE FALSE
  <2>1. u # t
    BY DEF Ordered
  <2>2. <<u, L[u].g>> # Nobody
    BY NobodyAssumption
  <2>3. <<u, L[u].g>> # <<t, L[t].g>>
    BY <2>1
  <2> HIDE DEF B
  <2> QED BY <1>1, <1>2, <2>2, <2>3
<1>3. (\A u \in L[t].ahead \cap go : q \notin L[u].want) /\ B[q] = H[q]
  BY <1>2, GrantedIs
<1> QED BY <1>1, <1>3

(* One look at both lines (pump) turns what a step made of                  *)
(* the variables into a state where only runs in setup wait, and keeps      *)
(* claims exclusive, live and promised.                                     *)
LEMMA PumpGood ==
    ASSUME NEW H, NEW S, NEW A, NEW SL, NEW L,
           Good(H, S, A, SL, L, gen', phase', need', rest'),
           Pump(H, S, A, SL, L)
    PROVE  GoodNow' /\ Resting(slotLine', phase') /\ Resting(line', phase')
<1> USE DEF Good
<1>1. PICK go \in SUBSET Waits(L) : \E yield \in SUBSET Waits(L) :
          /\ Serves(H, L, go, yield)
          /\ holder' = Granted(H, L, go)
          /\ line' = Left(L, Waits(L) \ (go \cup yield))
          /\ at' = [t \in Threads |-> IF t \in yield THEN "rest" ELSE A[t]]
  BY DEF Pump
<1>2. PICK yield \in SUBSET Waits(L) :
          /\ Serves(H, L, go, yield)
          /\ holder' = Granted(H, L, go)
          /\ line' = Left(L, Waits(L) \ (go \cup yield))
          /\ at' = [t \in Threads |-> IF t \in yield THEN "rest" ELSE A[t]]
  BY <1>1
<1> DEFINE W == Waits(L)
           stay == W \ (go \cup yield)
<1>3. slotless' = S \ Seated(S, SL) /\ slotLine' = Left(SL, Waits(SL) \ Seated(S, SL))
  BY DEF Pump
<1>4. \A t \in W : /\ t \in Threads /\ L[t].g # 0 /\ L[t].g = gen'[t] /\ L[t].g \in Gens
                   /\ phase'[t] = "setup"
                   /\ \A r \in Resources : H[r] # <<t, gen'[t]>>
  BY DEF Waits, InLine, Clean, Typed, Live
<1>5. \A t \in go : Away(Granted(H, L, L[t].ahead \cap go), L[t].want, <<t, L[t].g>>) = {}
  BY <1>2 DEF Serves
<1>6. \A t \in go : \A r \in L[t].want : \A q \in Resources : <<q, r>> \in Touch =>
          /\ H[q] \in {Nobody, <<t, L[t].g>>}
          /\ \A u \in L[t].ahead \cap go : q \notin L[u].want
  BY <1>4, <1>5, ServedApart DEF Typed
<1>7. \A t \in go : L[t].want \subseteq Resources
  BY <1>4 DEF Typed, Entry
<1>8. \A t, u \in go : \A q \in L[u].want, r \in L[t].want : <<q, r>> \in Touch => t = u
  <2> SUFFICES ASSUME NEW t \in go, NEW u \in go, NEW q \in L[u].want,
                      NEW r \in L[t].want, <<q, r>> \in Touch, t # u
               PROVE  FALSE
    OBVIOUS
  <2>1. q \in Resources /\ r \in Resources /\ <<r, q>> \in Touch
    BY <1>7, TouchAssumption
  <2>2. t \in L[u].ahead \/ u \in L[t].ahead
    BY <1>4 DEF Ordered
  <2> QED BY <1>6, <2>1, <2>2
<1>9. \A r \in Resources :
          \/ \E u \in go : r \in L[u].want /\ holder'[r] = <<u, L[u].g>>
          \/ (\A u \in go : r \notin L[u].want) /\ holder'[r] = H[r]
  BY <1>2, GrantedIs
<1>10. Typed(holder', slotless', at', slotLine', line', gen', phase')
  <2>1. holder' \in [Resources -> Owner \cup {Nobody}]
    <3>1. \A r \in Resources : holder'[r] \in Owner \cup {Nobody}
      <4> TAKE r \in Resources
      <4>1. \A u \in go : <<u, L[u].g>> \in Owner
        BY <1>4 DEF Owner
      <4>2. H[r] \in Owner \cup {Nobody}
        BY DEF Typed
      <4> QED BY <1>9, <4>1, <4>2
    <3> QED BY <1>2, <3>1 DEF Granted
  <2>2. \A X : \A Q \in [Threads -> Entry] : Left(Q, X) \in [Threads -> Entry]
    BY DEF Left, Entry, Off
  <2>3. at' \in [Threads -> Place]
    BY <1>2 DEF Typed, Place
  <2> QED BY <1>2, <1>3, <2>1, <2>2, <2>3 DEF Typed
<1>11. Excl(holder')
  <2> SUFFICES ASSUME NEW q \in Resources, NEW r \in Resources, <<q, r>> \in Touch,
                      holder'[q] # Nobody, holder'[r] # Nobody
               PROVE  holder'[q] = holder'[r]
    BY DEF Excl
  <2>1. <<r, q>> \in Touch
    BY TouchAssumption
  <2>2. CASE \E u \in go : q \in L[u].want /\ holder'[q] = <<u, L[u].g>>
    BY <1>6, <1>8, <1>9, <2>1, <2>2
  <2>3. CASE holder'[q] = H[q] /\ \A u \in go : q \notin L[u].want
    BY <1>6, <1>9, <2>3 DEF Excl
  <2> QED BY <1>9, <2>2, <2>3
<1>12. Alive(holder', gen', phase')
  BY <1>4, <1>9 DEF Alive
<1>13. \A t \in Threads : line'[t].g # 0 =>
           /\ t \in stay /\ line'[t].g = L[t].g /\ line'[t].want = L[t].want
           /\ line'[t].ahead = L[t].ahead \cap stay
  <2>1. SUFFICES ASSUME NEW t \in Threads, line'[t].g # 0
                 PROVE  /\ t \in stay /\ line'[t].g = L[t].g /\ line'[t].want = L[t].want
                        /\ line'[t].ahead = L[t].ahead \cap stay
    OBVIOUS
  <2>2. t \in stay /\ line'[t] = [L[t] EXCEPT !.ahead = @ \cap stay]
    BY <1>2, <2>1 DEF Left, Off
  <2>3. L[t] \in Entry
    BY DEF Typed
  <2> QED BY <2>2, <2>3 DEF Entry
<1>14. Ordered(line')
  <2>1. \A t \in Threads : line'[t].ahead \subseteq L[t].ahead
    BY <1>2 DEF Left, Off, Typed, Entry
  <2>2. \A t \in Threads : line'[t].g # 0 => line'[t].ahead = L[t].ahead \cap stay /\ L[t].g # 0
    BY <1>13
  <2> QED BY <1>13, <2>1, <2>2 DEF Ordered
<1>15. Clean(line', holder', gen', phase')
  <2> SUFFICES ASSUME NEW t \in Threads, line'[t].g # 0
               PROVE  /\ line'[t].g = gen'[t] /\ phase'[t] = "setup"
                      /\ \A r \in Resources : holder'[r] # <<t, gen'[t]>>
    BY DEF Clean
  <2>1. t \in W /\ t \notin go /\ line'[t].g = L[t].g
    BY <1>13
  <2> QED BY <1>4, <1>9, <2>1
<1>16. \A t \in Threads : slotLine'[t].g # 0 =>
           t \in Waits(SL) /\ slotLine'[t].g = SL[t].g
  BY <1>3 DEF Left, Off, Typed, Entry
<1>17. Apart(slotLine', line')
  <2>1. \A t \in Waits(SL) : SL[t].g # 0
    BY DEF Waits, InLine
  <2> QED BY <1>4, <1>13, <1>16, <2>1 DEF Apart
<1>18. Clean(slotLine', holder', gen', phase')
  <2>1. \A t \in Waits(SL) : /\ SL[t].g = gen'[t] /\ SL[t].g # 0 /\ phase'[t] = "setup"
                             /\ \A r \in Resources : H[r] # <<t, gen'[t]>>
    BY DEF Waits, InLine, Clean
  <2>2. \A t \in Waits(SL) : t \notin go
    BY <1>4, <2>1 DEF Apart, Waits, InLine
  <2> QED BY <1>9, <1>16, <2>1, <2>2 DEF Clean
<1>19. Kept(holder', at', line', gen', phase', need', rest')
  <2> SUFFICES ASSUME NEW t \in Threads
               PROVE  /\ at'[t] = "start" => need'[t] = {}
                      /\ at'[t] = "start" /\ phase'[t] \in Live =>
                            \A r \in Resources : holder'[r] # <<t, gen'[t]>>
                      /\ at'[t] = "rest" => need'[t] \subseteq rest'[t]
                      /\ line'[t].g # 0 /\ phase'[t] \in Live =>
                            at'[t] = "setup" /\ need'[t] \subseteq line'[t].want \cap rest'[t]
                      /\ phase'[t] \in Live /\ at'[t] = "setup" /\ line'[t].g = 0
                            => \A r \in need'[t] :
                                   r \in Resources /\ holder'[r] = <<t, gen'[t]>>
    BY DEF Kept
  <2>1. CASE t \in yield
    <3>1. at'[t] = "rest" /\ line'[t].g = 0
      BY <1>2, <1>13, <2>1
    <3> QED BY <1>4, <2>1, <3>1 DEF Kept, Live
  <2>2. CASE t \in go /\ t \notin yield
    <3>1. at'[t] = A[t] /\ line'[t].g = 0
      BY <1>2, <1>13, <2>2
    <3>2. \A r \in L[t].want : holder'[r] = <<t, gen'[t]>>
      BY ZenonT(40), <1>4, <1>7, <1>8, <1>9, <2>2, TouchAssumption
    <3> QED BY <1>4, <1>7, <2>2, <3>1, <3>2 DEF Kept, Live
  <2>3. CASE t \in stay
    <3>1. at'[t] = A[t] /\ line'[t].want = L[t].want /\ line'[t].g # 0
      BY <1>2, <1>4, <2>3 DEF Left, Typed, Entry
    <3> QED BY <1>4, <2>3, <3>1 DEF Kept, Live
  <2>4. CASE t \notin W
    <3>1. at'[t] = A[t] /\ line'[t].g = 0
      BY <1>2, <1>13, <2>4
    <3>2. L[t].g # 0 => phase'[t] \notin Live
      BY <2>4 DEF Waits, InLine, Clean
    <3>3. phase'[t] \in Live =>
              \A r \in Resources : H[r] = <<t, gen'[t]>> => holder'[r] = <<t, gen'[t]>>
      <4> SUFFICES ASSUME phase'[t] \in Live, NEW r \in Resources, H[r] = <<t, gen'[t]>>, NEW u \in go,
                          r \in L[u].want
                   PROVE  FALSE
        BY <1>9
      <4>1. <<r, r>> \in Touch /\ u # t
        BY <2>4, TouchAssumption
      <4>2. H[r] \in {Nobody, <<u, L[u].g>>}
        BY <1>6, <4>1
      <4>3. gen'[t] \in Gens
        BY DEF Typed, Live
      <4>4. <<t, gen'[t]>> # Nobody
        BY <4>3, NobodyAssumption
      <4>5. <<t, gen'[t]>> # <<u, L[u].g>>
        BY <4>1
      <4> QED BY <4>2, <4>4, <4>5
    <3>4. \A r \in Resources : H[r] # <<t, gen'[t]>> => holder'[r] # <<t, gen'[t]>>
      BY <1>9, <2>4
    <3> QED BY <3>1, <3>2, <3>3, <3>4 DEF Kept
  <2> QED BY <2>1, <2>2, <2>3, <2>4
<1>20. GoodNow'
  BY <1>10, <1>11, <1>12, <1>14, <1>15, <1>17, <1>18, <1>19 DEF GoodNow
<1>21. Resting(slotLine', phase')
  BY <1>16 DEF Waits, InLine, Clean, Resting
<1>22. Resting(line', phase')
  BY <1>4, <1>13 DEF Resting
<1> QED BY <1>20, <1>21, <1>22
-----------------------------------------------------------------------------
(* The actions                                                              *)

(* What every action reads off the invariant.                               *)
LEMMA NowFacts ==
    ASSUME RunInv
    PROVE  /\ Typed(holder, slotless, at, slotLine, line, gen, phase)
           /\ Excl(holder) /\ Alive(holder, gen, phase) /\ Ordered(line)
           /\ Clean(slotLine, holder, gen, phase) /\ Clean(line, holder, gen, phase)
           /\ Apart(slotLine, line) /\ Kept(holder, at, line, gen, phase, need, rest)
           /\ TableOK /\ Resting(slotLine, phase) /\ Resting(line, phase)
BY DEF RunInv, GoodNow, Good

(* A phase change that keeps what a waiter and a working run rely on.       *)
LEMMA MovesGood ==
    ASSUME RunInv, NEW t \in Threads, NEW p \in Phase \ {"none"}, Moves(t, p),
           phase[t] # "none", p \in Live => phase[t] \in Live /\ ~Waiting(t)
    PROVE  /\ Good(holder, slotless, at, slotLine, line, gen', phase', need', rest')
           /\ TableOK'
<1> USE NowFacts
<1>1. phase' = [phase EXCEPT ![t] = p] /\ gen' = gen /\ need' = need /\ rest' = rest
  BY DEF Moves
<1>2. Typed(holder, slotless, at, slotLine, line, gen', phase')
  BY <1>1 DEF Typed
<1>3. Alive(holder, gen', phase')
  BY <1>1 DEF Alive, Typed
<1>4. Clean(slotLine, holder, gen', phase') /\ Clean(line, holder, gen', phase')
  BY <1>1 DEF Clean, Typed, Waiting, Live
<1>5. Kept(holder, at, line, gen', phase', need', rest')
  BY <1>1 DEF Kept, Typed, Live
<1>6. TableOK'
  BY DEF Moves, TableOK
<1> QED BY <1>2, <1>3, <1>4, <1>5, <1>6 DEF Good

(* ... and then leaves the lines alone.                                     *)
LEMMA MovesKeeps ==
    ASSUME RunInv, NEW t \in Threads, NEW p \in Phase \ {"none"}, Moves(t, p), Keeps,
           phase[t] # "none", p \in Live => phase[t] \in Live, ~Waiting(t)
    PROVE  RunInv'
<1>1. /\ Good(holder, slotless, at, slotLine, line, gen', phase', need', rest')
      /\ TableOK'
  BY MovesGood
<1>2. Resting(slotLine, phase') /\ Resting(line, phase')
  BY NowFacts DEF Moves, Resting, Waiting, Typed
<1> QED BY <1>1, <1>2 DEF Keeps, RunInv, GoodNow

(* ... or looks at them.                                                    *)
LEMMA MovesLooks ==
    ASSUME RunInv, NEW t \in Threads, NEW p \in Phase \ {"none"}, Moves(t, p), Looks,
           phase[t] # "none", p \notin Live
    PROVE  RunInv'
<1>1. /\ Good(holder, slotless, at, slotLine, line, gen', phase', need', rest')
      /\ TableOK'
  BY MovesGood
<1>2. Pump(holder, slotless, at, slotLine, line)
  BY DEF Looks
<1> QED BY <1>1, <1>2, PumpGood DEF RunInv

(* A run past its setup waits in no line.                                   *)
LEMMA OnlySetupWaits ==
    ASSUME RunInv, NEW t \in Threads, phase[t] # "setup"
    PROVE  ~Waiting(t)
BY NowFacts DEF Resting, Waiting

(* Dispatch, acceptance, the engine's terminal event and the hold for a     *)
(* rebuild move a run past its setup and claim nothing.                     *)
LEMMA TurnSteps ==
    ASSUME RunInv, NEW t \in Threads,
           Dispatch(t) \/ Accepted(t) \/ Settling(t) \/ HoldForRebuild(t)
    PROVE  RunInv'
<1>1. CASE Dispatch(t)
  BY <1>1, MovesKeeps DEF Dispatch, SettingUp, Phase, Live
<1>2. CASE Accepted(t)
  BY <1>2, MovesKeeps, OnlySetupWaits DEF Accepted, Phase, Live
<1>3. CASE Settling(t)
  BY <1>3, MovesKeeps, OnlySetupWaits DEF Settling, Phase, Live
<1>4. CASE HoldForRebuild(t)
  BY <1>4, MovesLooks DEF HoldForRebuild, SettingUp, Phase, Live
<1> QED BY <1>1, <1>2, <1>3, <1>4

(* The person's part changes no run.                                        *)
LEMMA PersonSteps ==
    ASSUME RunInv, NEW t \in Threads, AsksPerson(t) \/ PersonAnswers(t)
    PROVE  RunInv'
<1>1. /\ gen' = gen /\ phase' = phase /\ need' = need /\ rest' = rest
      /\ Pump(holder, slotless, at, slotLine, line)
  BY DEF AsksPerson, PersonAnswers, Looks
<1>2. Good(holder, slotless, at, slotLine, line, gen', phase', need', rest')
  BY <1>1 DEF RunInv, GoodNow
<1>3. TableOK'
  BY NowFacts DEF AsksPerson, PersonAnswers, TableOK
<1> QED BY <1>1, <1>2, <1>3, PumpGood DEF RunInv

(* A run that goes leaves nothing behind.                                   *)
LEMMA ReleasedInv ==
    ASSUME RunInv, NEW t \in Threads, phase[t] # "none", Released(t, gen[t])
    PROVE  RunInv'
<1> USE NowFacts
<1> DEFINE H == Freed(holder, <<t, gen[t]>>)
           A == [at EXCEPT ![t] = "start"]
<1>1. /\ phase' = [phase EXCEPT ![t] = "none"] /\ gen' = gen
      /\ need' = [need EXCEPT ![t] = {}] /\ rest' = [rest EXCEPT ![t] = {}]
      /\ Pump(H, slotless \ {t}, A, slotLine, line)
  BY DEF Released
<1>2. \A r \in Resources : H[r] = IF holder[r] = <<t, gen[t]>> THEN Nobody ELSE holder[r]
  BY DEF Freed
<1>3. Typed(H, slotless \ {t}, A, slotLine, line, gen', phase')
  <2>1. H \in [Resources -> Owner \cup {Nobody}]
    BY DEF Freed, Typed
  <2>2. A \in [Threads -> Place]
    BY DEF Typed, Place
  <2>3. phase' \in [Threads -> Phase]
    BY <1>1 DEF Typed, Phase
  <2> QED BY <1>1, <2>1, <2>2, <2>3 DEF Typed
<1>4. Excl(H)
  BY <1>2 DEF Excl
<1>5. Alive(H, gen', phase')
  BY <1>1, <1>2 DEF Alive, Typed
<1>6. Clean(slotLine, H, gen', phase') /\ Clean(line, H, gen', phase')
  <2>1. \A u \in Threads : gen[u] \in Gens => <<u, gen[u]>> # Nobody
    BY NobodyAssumption
  <2>2. \A u \in Threads : phase'[u] \in Live => phase[u] = phase'[u] /\ gen[u] \in Gens
    BY <1>1 DEF Typed, Live
  <2> QED BY <1>1, <1>2, <2>1, <2>2 DEF Clean
<1>7. Kept(H, A, line, gen', phase', need', rest')
  <2> SUFFICES ASSUME NEW u \in Threads
               PROVE  /\ A[u] = "start" => need'[u] = {}
                      /\ A[u] = "start" /\ phase'[u] \in Live =>
                            \A r \in Resources : H[r] # <<u, gen'[u]>>
                      /\ A[u] = "rest" => need'[u] \subseteq rest'[u]
                      /\ line[u].g # 0 /\ phase'[u] \in Live =>
                            A[u] = "setup" /\ need'[u] \subseteq line[u].want \cap rest'[u]
                      /\ phase'[u] \in Live /\ A[u] = "setup" /\ line[u].g = 0
                            => \A r \in need'[u] : r \in Resources /\ H[r] = <<u, gen'[u]>>
    BY DEF Kept
  <2>1. CASE u = t
    <3>1. need'[u] = {} /\ A[u] = "start" /\ phase'[u] = "none"
      BY <1>1, <2>1 DEF Typed, TableOK
    <3> QED BY <3>1 DEF Live
  <2>2. CASE u # t
    <3>1. need'[u] = need[u] /\ rest'[u] = rest[u] /\ A[u] = at[u] /\ phase'[u] = phase[u]
      BY <1>1, <2>2 DEF Typed, TableOK
    <3>2. \A r \in Resources : holder[r] = <<u, gen[u]>> => H[r] = <<u, gen[u]>>
      BY <1>2, <2>2
    <3>3. phase[u] \in Live =>
              \A r \in Resources : holder[r] # <<u, gen[u]>> => H[r] # <<u, gen[u]>>
      BY <1>2, NobodyAssumption DEF Typed, Live
    <3> QED BY <1>1, <3>1, <3>2, <3>3 DEF Kept
  <2> QED BY <2>1, <2>2
<1>8. TableOK'
  BY DEF Released, TableOK, Kind
<1>9. Good(H, slotless \ {t}, A, slotLine, line, gen', phase', need', rest')
  BY <1>3, <1>4, <1>5, <1>6, <1>7 DEF Good
<1> QED BY <1>1, <1>8, <1>9, PumpGood DEF RunInv

(* The run admission makes holds nothing and needs nothing, once what its   *)
(* thread held is freed.                                                    *)
LEMMA BornGood ==
    ASSUME RunInv, NEW t \in Threads, NEW k \in Kind, Born(t, k),
           line[t].g = 0, slotLine[t].g = 0,
           NEW H, H = Freed(holder, <<t, gen[t]>>) \/ (H = holder /\ phase[t] = "none")
    PROVE  /\ Good(H, SlotlessOnce(t, k), [at EXCEPT ![t] = "start"], slotLine, line,
                    gen', phase', need', rest')
           /\ TableOK'
<1> USE NowFacts
<1> DEFINE A == [at EXCEPT ![t] = "start"]
<1>1. PICK g \in Gens \ {gen[t]} : gen' = [gen EXCEPT ![t] = g]
  BY DEF Born
<1>2. /\ phase' = [phase EXCEPT ![t] = "setup"]
      /\ need' = [need EXCEPT ![t] = {}] /\ rest' = [rest EXCEPT ![t] = {}]
  BY DEF Born
<1>3. \A r \in Resources :
          H[r] = IF holder[r] = <<t, gen[t]>> THEN Nobody ELSE holder[r]
  BY DEF Freed, Alive, Typed
<1>4. \A u \in Threads : u # t => gen'[u] = gen[u] /\ phase'[u] = phase[u]
                                /\ need'[u] = need[u] /\ rest'[u] = rest[u] /\ A[u] = at[u]
  BY <1>1, <1>2 DEF Typed, TableOK
<1>5. phase'[t] = "setup" /\ need'[t] = {} /\ A[t] = "start"
  BY <1>2 DEF Typed, TableOK
<1>6. Typed(H, SlotlessOnce(t, k), A, slotLine, line, gen', phase')
  <2>1. H \in [Resources -> Owner \cup {Nobody}]
    BY DEF Freed, Typed
  <2>2. A \in [Threads -> Place]
    BY DEF Typed, Place
  <2>3. phase' \in [Threads -> Phase] /\ gen' \in [Threads -> Gens \cup {0}]
    BY <1>1, <1>2 DEF Typed, Phase
  <2>4. \A u \in Threads : phase'[u] # "none" => gen'[u] \in Gens
    BY <1>1, <1>4 DEF Typed
  <2>5. SlotlessOnce(t, k) \in SUBSET Threads
    BY DEF SlotlessOnce, Typed
  <2> QED BY <2>1, <2>2, <2>3, <2>4, <2>5 DEF Typed
<1>7. Excl(H)
  BY <1>3 DEF Excl
<1>8. Alive(H, gen', phase')
  <2> SUFFICES ASSUME NEW r \in Resources, H[r] # Nobody
               PROVE  \E u \in Threads : phase'[u] # "none" /\ H[r] = <<u, gen'[u]>>
    BY DEF Alive
  <2>1. PICK u \in Threads : phase[u] # "none" /\ holder[r] = <<u, gen[u]>>
    BY <1>3 DEF Alive
  <2>2. u # t /\ H[r] = holder[r]
    BY <1>3, <2>1
  <2> QED BY <1>4, <2>1, <2>2
<1>9. Clean(slotLine, H, gen', phase') /\ Clean(line, H, gen', phase')
  <2>1. \A u \in Threads : phase[u] \in Live => <<u, gen[u]>> # Nobody
    BY NobodyAssumption DEF Typed, Live
  <2> QED BY <1>3, <1>4, <2>1 DEF Clean
<1>10. Kept(H, A, line, gen', phase', need', rest')
  <2> SUFFICES ASSUME NEW u \in Threads
               PROVE  /\ A[u] = "start" => need'[u] = {}
                      /\ A[u] = "start" /\ phase'[u] \in Live =>
                            \A r \in Resources : H[r] # <<u, gen'[u]>>
                      /\ A[u] = "rest" => need'[u] \subseteq rest'[u]
                      /\ line[u].g # 0 /\ phase'[u] \in Live =>
                            A[u] = "setup" /\ need'[u] \subseteq line[u].want \cap rest'[u]
                      /\ phase'[u] \in Live /\ A[u] = "setup" /\ line[u].g = 0
                            => \A r \in need'[u] : r \in Resources /\ H[r] = <<u, gen'[u]>>
    BY DEF Kept
  <2>1. CASE u = t
    <3>1. \A r \in Resources : H[r] # <<t, gen'[t]>>
      <4> SUFFICES ASSUME NEW r \in Resources, H[r] = <<t, gen'[t]>> PROVE FALSE
        OBVIOUS
      <4>1. gen'[t] \in Gens /\ gen'[t] # gen[t]
        BY <1>1 DEF Typed
      <4>2. H[r] # Nobody
        BY <4>1, NobodyAssumption
      <4>3. PICK v \in Threads : holder[r] = <<v, gen[v]>> /\ H[r] = holder[r]
        BY <1>3, <4>2 DEF Alive
      <4> QED BY <4>1, <4>3
    <3> QED BY <1>5, <2>1, <3>1
  <2>2. CASE u # t
    <3>1. \A r \in Resources : holder[r] = <<u, gen[u]>> => H[r] = <<u, gen[u]>>
      BY <1>3, <2>2
    <3>2. phase[u] \in Live =>
              \A r \in Resources : holder[r] # <<u, gen[u]>> => H[r] # <<u, gen[u]>>
      BY <1>3, NobodyAssumption DEF Typed, Live
    <3> QED BY <1>4, <2>2, <3>1, <3>2 DEF Kept
  <2> QED BY <2>1, <2>2
<1>11. TableOK'
  BY DEF Born, TableOK
<1> QED BY <1>6, <1>7, <1>8, <1>9, <1>10, <1>11 DEF Good

(* Admission (admitFree) makes a run that holds nothing.                    *)
LEMMA AdmitInv ==
    ASSUME RunInv, NEW t \in Threads, NEW k \in Kind, Admit(t, k)
    PROVE  RunInv'
<1>1. /\ phase[t] = "none" /\ Born(t, k) /\ slotless' = SlotlessOnce(t, k)
      /\ at' = [at EXCEPT ![t] = "start"]
      /\ holder' = holder /\ slotLine' = slotLine /\ line' = line
  BY DEF Admit
<1>2. line[t].g = 0 /\ slotLine[t].g = 0
  BY <1>1, NowFacts DEF Resting
<1>3. GoodNow' /\ TableOK'
  BY <1>1, <1>2, BornGood DEF GoodNow
<1>4. Resting(slotLine', phase') /\ Resting(line', phase')
  BY <1>1, <1>2, NowFacts DEF Resting, Born, Typed
<1> QED BY <1>3, <1>4 DEF RunInv

(* The rebuilt turn replaces the run it was held for, whose claims go.      *)
LEMMA TakeOverInv ==
    ASSUME RunInv, NEW t \in Threads, TakeOver(t)
    PROVE  RunInv'
<1>1. phase[t] = "rebuilding"
  BY DEF TakeOver
<1>2. CASE Released(t, gen[t])
  BY <1>1, <1>2, ReleasedInv
<1>3. CASE /\ Born(t, kind[t])
           /\ Pump(Freed(holder, Own(t)), SlotlessOnce(t, kind[t]),
                   [at EXCEPT ![t] = "start"], slotLine, line)
  <2>1. line[t].g = 0 /\ slotLine[t].g = 0
    BY <1>1, NowFacts DEF Resting
  <2>2. kind[t] \in Kind
    BY NowFacts DEF TableOK
  <2>3. /\ Good(Freed(holder, <<t, gen[t]>>), SlotlessOnce(t, kind[t]),
                [at EXCEPT ![t] = "start"], slotLine, line, gen', phase', need', rest')
        /\ TableOK'
    <3> DEFINE F == Freed(holder, <<t, gen[t]>>)
    <3>1. F = Freed(holder, <<t, gen[t]>>)
      OBVIOUS
    <3> HIDE DEF F
    <3>2. /\ Good(F, SlotlessOnce(t, kind[t]), [at EXCEPT ![t] = "start"], slotLine, line,
                  gen', phase', need', rest')
          /\ TableOK'
      BY <1>3, <2>1, <2>2, <3>1, BornGood
    <3> QED BY <3>1, <3>2
  <2> QED BY <1>3, <2>3, PumpGood DEF RunInv, Own
<1> QED BY <1>2, <1>3 DEF TakeOver

(* Stop, of a run with an engine or of one held for its rebuild.            *)
LEMMA StopInv ==
    ASSUME RunInv, NEW t \in Threads, Stop(t)
    PROVE  RunInv'
<1>1. CASE phase[t] \in Live \cup {"settling"} /\ Moves(t, "stopping") /\ Looks
  BY <1>1, MovesLooks DEF Phase, Live
<1>2. CASE phase[t] = "rebuilding" /\ Released(t, gen[t])
  BY <1>2, ReleasedInv
<1> QED BY <1>1, <1>2 DEF Stop

(* With t in the line of slots the others keep their place's run.           *)
LEMMA PlaceTyped ==
    ASSUME RunInv, NEW t \in Threads, phase[t] = "setup"
    PROVE  /\ SlotPlace(t) \in [Threads -> Entry]
           /\ \A u \in Threads :
                  SlotPlace(t)[u].g = IF u = t THEN gen[t] ELSE slotLine[u].g
<1> USE NowFacts
<1> DEFINE SL == SlotPlace(t)
<1>1. \A u \in Threads :
          /\ SL[u] \in Entry
          /\ SL[u].g = IF u = t THEN gen[t] ELSE slotLine[u].g
  <2> SUFFICES ASSUME NEW u \in Threads
               PROVE  /\ SL[u] \in Entry
                      /\ SL[u].g = IF u = t THEN gen[t] ELSE slotLine[u].g
    OBVIOUS
  <2>1. CASE u = t
    <3>1. \E X \in SUBSET InLine(slotLine) : SL[t] = [Off EXCEPT !.g = gen[t], !.ahead = X]
      BY DEF SlotPlace
    <3>2. InLine(slotLine) \subseteq Threads /\ gen[t] \in Gens
      BY DEF InLine, Typed
    <3> QED BY <2>1, <3>1, <3>2 DEF Off, Entry
  <2>2. CASE u # t
    <3>1. \/ SL[u] = slotLine[u]
          \/ SL[u] = [slotLine[u] EXCEPT !.ahead = @ \cup {t}]
      BY <2>2 DEF SlotPlace
    <3>2. slotLine[u] \in Entry
      BY DEF Typed
    <3> QED BY <2>2, <3>1, <3>2 DEF Entry
  <2> QED BY <2>1, <2>2
<1>2. SL \in [Threads -> Entry]
  BY <1>1 DEF SlotPlace
<1> QED BY <1>1, <1>2

(* Setup goes on with its slot, or stands in line for one.                  *)
LEMMA AwaitSlotInv ==
    ASSUME RunInv, NEW t \in Threads, AwaitSlot(t)
    PROVE  RunInv'
<1> USE NowFacts
<1> DEFINE A == [at EXCEPT ![t] = "setup"]
<1>1. /\ phase[t] = "setup" /\ at[t] = "start"
      /\ gen' = gen /\ phase' = phase /\ need' = need /\ rest' = rest
  BY DEF AwaitSlot
<1>2. TableOK'
  BY DEF AwaitSlot, TableOK
<1>3. need[t] = {} /\ line[t].g = 0
  BY <1>1 DEF Kept, Live
<1>4. A \in [Threads -> Place]
  BY DEF Typed, Place
<1>5. Kept(holder, A, line, gen', phase', need', rest')
  BY <1>1, <1>3 DEF Kept, Typed
<1>6. CASE /\ at' = A
           /\ UNCHANGED <<holder, slotless, slotLine, line>>
  <2>1. Good(holder, slotless, A, slotLine, line, gen', phase', need', rest')
    BY <1>1, <1>4, <1>5 DEF Good, Typed
  <2> QED BY <1>1, <1>2, <1>6, <2>1 DEF RunInv, GoodNow
<1>7. CASE Pump(holder, slotless, A, SlotPlace(t), line)
  <2> DEFINE SL == SlotPlace(t)
  <2>1. /\ SL \in [Threads -> Entry]
        /\ \A u \in Threads : SL[u].g = IF u = t THEN gen[t] ELSE slotLine[u].g
    BY <1>1, PlaceTyped
  <2>2. SL \in [Threads -> Entry]
    BY <2>1
  <2>3. \A r \in Resources : holder[r] # <<t, gen[t]>>
    BY <1>1 DEF Kept, Live
  <2>4. Clean(SL, holder, gen', phase')
    BY <1>1, <2>1, <2>3 DEF Clean
  <2>5. Apart(SL, line)
    BY <1>3, <2>1 DEF Apart
  <2>6. Good(holder, slotless, A, SL, line, gen', phase', need', rest')
    BY <1>1, <1>4, <1>5, <2>2, <2>4, <2>5 DEF Good, Typed
  <2> QED BY <1>2, <1>7, <2>6, PumpGood DEF RunInv
<1> QED BY <1>6, <1>7 DEF AwaitSlot

(* acquire: all of it, without the spare part, or nothing and a place in    *)
(* line.                                                                    *)
LEMMA AcquireInv ==
    ASSUME RunInv, NEW t \in Threads, SettingUp(t), at[t] # "start",
           gen' = gen, phase' = phase, TableOK',
           NEW want \in SUBSET Resources, NEW spare \in SUBSET Resources,
           \A u \in Threads : u # t => need'[u] = need[u] /\ rest'[u] = rest[u],
           need'[t] \subseteq Wanted(t, want) \cap rest'[t],
           Acquire(t, want, spare)
    PROVE  RunInv'
<1> USE NowFacts
<1> DEFINE o == <<t, gen[t]>>
           W == Wanted(t, want)
           A == [at EXCEPT ![t] = "setup"]
<1>1. /\ phase[t] = "setup" /\ line[t].g = 0 /\ slotLine[t].g = 0
      /\ gen[t] \in Gens /\ o # Nobody
  BY NobodyAssumption DEF SettingUp, Waiting, Typed
<1>2. W \in SUBSET Resources
  BY DEF Wanted, HeldBy
<1>3. \A u \in Threads : u # t => A[u] = at[u]
  BY DEF Typed
<1>4. A \in [Threads -> Place] /\ A[t] = "setup"
  BY DEF Typed, Place
<1>5. CASE /\ Away(holder, W, o) = {}
           /\ holder' = ClaimAll(holder, W, o) /\ at' = A
           /\ UNCHANGED <<slotless, slotLine, line>>
  <2> DEFINE H == ClaimAll(holder, W, o)
  <2>1. \A r \in Resources : H[r] = IF r \in W THEN o ELSE holder[r]
    BY DEF ClaimAll
  <2>2. \A r \in W : \A q \in Resources : <<q, r>> \in Touch => holder[q] \in {Nobody, o}
    BY <1>5 DEF Away
  <2>3. Typed(H, slotless, A, slotLine, line, gen, phase)
    <3>1. H \in [Resources -> Owner \cup {Nobody}]
      BY <1>1 DEF ClaimAll, Typed, Owner
    <3> QED BY <1>4, <3>1 DEF Typed
  <2>4. Excl(H)
    <3> SUFFICES ASSUME NEW q \in Resources, NEW r \in Resources, <<q, r>> \in Touch,
                        H[q] # Nobody, H[r] # Nobody
                 PROVE  H[q] = H[r]
      BY DEF Excl
    <3>1. <<r, q>> \in Touch
      BY TouchAssumption
    <3> QED BY <2>1, <2>2, <3>1 DEF Excl
  <2>5. Alive(H, gen, phase)
    BY <1>1, <2>1 DEF Alive
  <2>6. Clean(slotLine, H, gen, phase) /\ Clean(line, H, gen, phase)
    BY <1>1, <2>1 DEF Clean
  <2>7. Kept(H, A, line, gen, phase, need', rest')
    <3> SUFFICES ASSUME NEW u \in Threads
                 PROVE  /\ A[u] = "start" => need'[u] = {}
                        /\ A[u] = "start" /\ phase[u] \in Live =>
                              \A r \in Resources : H[r] # <<u, gen[u]>>
                        /\ A[u] = "rest" => need'[u] \subseteq rest'[u]
                        /\ line[u].g # 0 /\ phase[u] \in Live =>
                              A[u] = "setup" /\ need'[u] \subseteq line[u].want \cap rest'[u]
                        /\ phase[u] \in Live /\ A[u] = "setup" /\ line[u].g = 0
                              => \A r \in need'[u] : r \in Resources /\ H[r] = <<u, gen[u]>>
      BY DEF Kept
    <3>1. CASE u = t
      BY <1>1, <1>2, <1>4, <2>1, <3>1
    <3>2. CASE u # t
      <4>1. phase[u] \in Live => <<u, gen[u]>> \notin {Nobody, o}
        BY <3>2, NobodyAssumption DEF Typed, Live
      <4>2. phase[u] \in Live =>
                \A r \in Resources : holder[r] = <<u, gen[u]>> => H[r] = holder[r]
        BY <2>1, <2>2, <4>1, TouchAssumption
      <4>3. phase[u] \in Live =>
                \A r \in Resources : holder[r] # <<u, gen[u]>> => H[r] # <<u, gen[u]>>
        BY <2>1, <4>1
      <4> QED BY <1>3, <3>2, <4>2, <4>3 DEF Kept
    <3> QED BY <3>1, <3>2
  <2>8. Good(H, slotless, A, slotLine, line, gen, phase, need', rest')
    BY <2>3, <2>4, <2>5, <2>6, <2>7 DEF Good
  <2> QED BY <1>5, <2>8 DEF RunInv, GoodNow
<1>6. CASE /\ at' = [at EXCEPT ![t] = "rest"]
           /\ UNCHANGED <<holder, slotless, slotLine, line>>
  <2>1. at' \in [Threads -> Place]
    BY <1>6 DEF Typed, Place
  <2>2. \A u \in Threads : at'[u] = IF u = t THEN "rest" ELSE at[u]
    BY <1>6 DEF Typed
  <2>3. Kept(holder, at', line, gen, phase, need', rest')
    BY <1>1, <2>2 DEF Kept
  <2>4. Good(holder, slotless, at', slotLine, line, gen, phase, need', rest')
    BY <2>1, <2>3 DEF Good, Typed
  <2> QED BY <1>6, <2>4 DEF RunInv, GoodNow
<1>7. CASE Pump(LetGo(holder, o), slotless, A, slotLine,
                [line EXCEPT ![t] = [g |-> gen[t], want |-> W, spare |-> spare,
                                     ahead |-> InLine(line)]])
  <2> DEFINE H == LetGo(holder, o)
             L == [line EXCEPT ![t] = [g |-> gen[t], want |-> W, spare |-> spare,
                                       ahead |-> InLine(line)]]
  <2>1. \A r \in Resources : H[r] = IF holder[r] = o THEN Nobody ELSE holder[r]
    BY DEF LetGo, Freed
  <2>2. /\ L[t] = [g |-> gen[t], want |-> W, spare |-> spare, ahead |-> InLine(line)]
        /\ \A u \in Threads : u # t => L[u] = line[u]
    BY DEF Typed
  <2>3. Typed(H, slotless, A, slotLine, L, gen', phase')
    <3>1. H \in [Resources -> Owner \cup {Nobody}]
      BY DEF LetGo, Freed, Typed
    <3>2. L \in [Threads -> Entry]
      BY <1>1, <1>2 DEF Typed, Entry, InLine
    <3> QED BY <1>4, <3>1, <3>2 DEF Typed
  <2>4. Excl(H)
    BY <2>1 DEF Excl
  <2>5. Alive(H, gen', phase')
    BY <2>1 DEF Alive
  <2>6. Ordered(L)
    BY <1>1, <2>2 DEF Ordered, InLine
  <2>7. \A u \in Threads : phase[u] \in Live =>
            \A r \in Resources : holder[r] # <<u, gen[u]>> => H[r] # <<u, gen[u]>>
    BY <2>1, NobodyAssumption DEF Typed, Live
  <2>8. \A r \in Resources : H[r] # o
    BY <1>1, <2>1
  <2>9. Clean(slotLine, H, gen', phase') /\ Clean(L, H, gen', phase')
    BY <1>1, <2>2, <2>7, <2>8 DEF Clean
  <2>10. Apart(slotLine, L)
    BY <1>1, <2>2 DEF Apart
  <2>11. Kept(H, A, L, gen', phase', need', rest')
    <3> SUFFICES ASSUME NEW u \in Threads
                 PROVE  /\ A[u] = "start" => need'[u] = {}
                        /\ A[u] = "start" /\ phase'[u] \in Live =>
                              \A r \in Resources : H[r] # <<u, gen'[u]>>
                        /\ A[u] = "rest" => need'[u] \subseteq rest'[u]
                        /\ L[u].g # 0 /\ phase'[u] \in Live =>
                              A[u] = "setup" /\ need'[u] \subseteq L[u].want \cap rest'[u]
                        /\ phase'[u] \in Live /\ A[u] = "setup" /\ L[u].g = 0
                              => \A r \in need'[u] : r \in Resources /\ H[r] = <<u, gen'[u]>>
      BY DEF Kept
    <3>1. CASE u = t
      <4>1. L[t].g \in Gens /\ L[t].want = W
        BY <1>1, <2>2
      <4>2. L[t].g # 0
        BY <4>1, GensAssumption
      <4> QED BY <1>4, <3>1, <4>1, <4>2
    <3>2. CASE u # t
      <4>1. \A r \in Resources : holder[r] = <<u, gen[u]>> => H[r] = holder[r]
        BY <2>1, <3>2
      <4> QED BY <1>3, <2>2, <2>7, <3>2, <4>1 DEF Kept
    <3> QED BY <3>1, <3>2
  <2>12. Good(H, slotless, A, slotLine, L, gen', phase', need', rest')
    BY <2>3, <2>4, <2>5, <2>6, <2>9, <2>10, <2>11 DEF Good
  <2> HIDE DEF H, L
  <2> QED BY <1>7, <2>12, PumpGood DEF RunInv, H, L
<1> QED BY <1>5, <1>6, <1>7 DEF Acquire, Own

(* A claim of the turn's setup, its first or a later one.                   *)
LEMMA ClaimInv ==
    ASSUME RunInv, NEW t \in Threads, NEW ask \in First[t] \cup Later[t], Claim(t, ask)
    PROVE  RunInv'
<1> USE NowFacts
<1>1. /\ SettingUp(t) /\ at[t] = "setup" /\ gen' = gen /\ phase' = phase
      /\ Acquire(t, ask.want, ask.spare)
  BY DEF Claim
<1>2. ask.want \in SUBSET Resources /\ ask.spare \in SUBSET Resources
  BY UseAssumption DEF Ask
<1>3. \A u \in Threads : u # t => need'[u] = need[u] /\ rest'[u] = rest[u]
  BY DEF Claim, TableOK
<1>4. need'[t] \subseteq Wanted(t, ask.want) \cap rest'[t]
  <2>1. need[t] \subseteq HeldBy(holder, Own(t))
    BY <1>1 DEF Kept, SettingUp, Waiting, Live, HeldBy, Own
  <2>2. /\ need'[t] = (need[t] \cup ask.want) \ ask.spare
        /\ rest'[t] = (HeldBy(holder, Own(t)) \cup ask.want) \ ask.spare
    BY DEF Claim, TableOK
  <2> QED BY <2>1, <2>2 DEF Wanted
<1>5. TableOK'
  <2>1. HeldBy(holder, Own(t)) \in SUBSET Resources
    BY DEF HeldBy
  <2> QED BY <1>2, <2>1 DEF Claim, TableOK
<1> QED BY <1>1, <1>2, <1>3, <1>4, <1>5, AcquireInv

(* After a yield the run claims again what it had and still needs.          *)
LEMMA ClaimRestInv ==
    ASSUME RunInv, NEW t \in Threads, ClaimRest(t)
    PROVE  RunInv'
<1> USE NowFacts
<1>1. /\ SettingUp(t) /\ at[t] = "rest" /\ gen' = gen /\ phase' = phase
      /\ need' = need /\ rest' = rest
  BY DEF ClaimRest
<1>2. TableOK'
  BY DEF ClaimRest, TableOK
<1>3. need[t] \subseteq rest[t] /\ rest[t] \in SUBSET Resources
  BY <1>1 DEF Kept, TableOK
<1>4. CASE /\ rest[t] = {} /\ at' = [at EXCEPT ![t] = "setup"]
           /\ UNCHANGED <<holder, slotless, slotLine, line>>
  <2>1. at' \in [Threads -> Place]
    BY <1>4 DEF Typed, Place
  <2>2. Kept(holder, at', line, gen, phase, need, rest)
    BY <1>1, <1>3, <1>4 DEF Kept, Typed, SettingUp, Waiting
  <2>3. Good(holder, slotless, at', slotLine, line, gen, phase, need, rest)
    BY <2>1, <2>2 DEF Good, Typed
  <2> QED BY <1>1, <1>2, <1>4, <2>3 DEF RunInv, GoodNow
<1>5. CASE Acquire(t, rest[t], {})
  BY <1>1, <1>2, <1>3, <1>5, AcquireInv DEF Wanted
<1> QED BY <1>4, <1>5 DEF ClaimRest

(* What goes back is not needed any more.                                   *)
LEMMA GiveBackInv ==
    ASSUME RunInv, NEW t \in Threads, NEW R \in SUBSET Returnable, GiveBack(t, R)
    PROVE  RunInv'
<1> USE NowFacts
<1> DEFINE H == [r \in Resources |-> IF r \in R THEN Nobody ELSE holder[r]]
<1>1. /\ SettingUp(t) /\ at[t] = "setup" /\ gen' = gen /\ phase' = phase /\ rest' = rest
      /\ R \subseteq HeldBy(holder, Own(t)) /\ need' = [need EXCEPT ![t] = @ \ R]
      /\ Pump(H, slotless, at, slotLine, line)
  BY DEF GiveBack
<1>2. TableOK'
  BY DEF GiveBack, TableOK
<1>3. \A r \in Resources : H[r] = IF r \in R THEN Nobody ELSE holder[r]
  OBVIOUS
<1>4. \A r \in R : r \in Resources /\ holder[r] = <<t, gen[t]>>
  BY <1>1 DEF HeldBy, Own
<1>5. Typed(H, slotless, at, slotLine, line, gen', phase')
  BY <1>1 DEF Typed
<1>6. Excl(H) /\ Alive(H, gen', phase')
  BY <1>1, <1>3 DEF Excl, Alive
<1>7. \A u \in Threads : phase[u] \in Live =>
          \A r \in Resources : holder[r] # <<u, gen[u]>> => H[r] # <<u, gen[u]>>
  <2>1. \A u \in Threads : gen[u] \in Gens \cup {0}
    BY DEF Typed
  <2>2. \A u \in Threads : Nobody # <<u, gen[u]>>
    BY <2>1, NobodyAssumption
  <2> HIDE DEF H
  <2> QED BY <1>3, <2>2
<1>8. Clean(slotLine, H, gen', phase') /\ Clean(line, H, gen', phase')
  BY <1>1, <1>7 DEF Clean
<1>9. Kept(H, at, line, gen', phase', need', rest')
  <2>1. need'[t] = need[t] \ R /\ \A u \in Threads : u # t => need'[u] = need[u]
    BY <1>1 DEF TableOK
  <2>2. \A u \in Threads : u # t =>
            \A r \in Resources : holder[r] = <<u, gen[u]>> => H[r] = holder[r]
    BY <1>3, <1>4
  <2>3. line[t].g = 0 /\ phase[t] = "setup"
    BY <1>1 DEF SettingUp, Waiting
  <2> QED BY <1>1, <1>3, <1>7, <2>1, <2>2, <2>3 DEF Kept
<1>10. Good(H, slotless, at, slotLine, line, gen', phase', need', rest')
  BY <1>5, <1>6, <1>8, <1>9 DEF Good
<1> QED BY <1>1, <1>2, <1>10, PumpGood DEF RunInv
-----------------------------------------------------------------------------
(* The theorems                                                             *)

(* The server starts with no run, no claim and empty lines.                 *)
LEMMA RunInit == Init => RunInv
<1> SUFFICES ASSUME Init PROVE RunInv
  OBVIOUS
<1>1. Typed(holder, slotless, at, slotLine, line, gen, phase)
  BY DEF Init, Typed, Place, Entry, Off, Phase
<1>2. Excl(holder) /\ Alive(holder, gen, phase)
  BY DEF Init, Excl, Alive
<1>3. Ordered(line) /\ Apart(slotLine, line) /\ Resting(slotLine, phase) /\ Resting(line, phase)
  BY DEF Init, Ordered, Apart, Resting, Off
<1>4. Clean(slotLine, holder, gen, phase) /\ Clean(line, holder, gen, phase)
  BY DEF Init, Clean, Off
<1>5. Kept(holder, at, line, gen, phase, need, rest)
  BY DEF Init, Kept, Live, Off
<1>6. TableOK
  BY DEF Init, TableOK, Kind
<1> QED BY <1>1, <1>2, <1>3, <1>4, <1>5, <1>6 DEF RunInv, GoodNow, Good

(* Every handler preserves the invariant.                                   *)
LEMMA RunStep == RunInv /\ [Next]_vars => RunInv'
<1> SUFFICES ASSUME RunInv, [Next]_vars PROVE RunInv'
  OBVIOUS
<1>1. ASSUME NEW t \in Threads, NEW k \in Kind, Admit(t, k) PROVE RunInv'
  BY <1>1, AdmitInv
<1>2. ASSUME NEW t \in Threads, AwaitSlot(t) PROVE RunInv'
  BY <1>2, AwaitSlotInv
<1>3. ASSUME NEW t \in Threads, NEW ask \in First[t] \cup Later[t], Claim(t, ask) PROVE RunInv'
  BY <1>3, ClaimInv
<1>4. ASSUME NEW t \in Threads, ClaimRest(t) PROVE RunInv'
  BY <1>4, ClaimRestInv
<1>5. ASSUME NEW t \in Threads, NEW R \in SUBSET Returnable, GiveBack(t, R) PROVE RunInv'
  BY <1>5, GiveBackInv
<1>6. ASSUME NEW t \in Threads,
             Dispatch(t) \/ Accepted(t) \/ Settling(t) \/ HoldForRebuild(t)
      PROVE  RunInv'
  BY <1>6, TurnSteps
<1>7. ASSUME NEW t \in Threads, AsksPerson(t) \/ PersonAnswers(t) PROVE RunInv'
  BY <1>7, PersonSteps
<1>8. ASSUME NEW t \in Threads, Stop(t) PROVE RunInv'
  BY <1>8, StopInv
<1>9. ASSUME NEW t \in Threads, NEW g \in Gens, Release(t, g) PROVE RunInv'
  BY <1>9, ReleasedInv DEF Release, Current
<1>10. ASSUME NEW t \in Threads, TakeOver(t) PROVE RunInv'
  BY <1>10, TakeOverInv
<1>11. CASE UNCHANGED vars
  BY <1>11 DEF vars, RunInv, GoodNow, TableOK
<1> QED BY <1>1, <1>2, <1>3, <1>4, <1>5, <1>6, <1>7, <1>8, <1>9, <1>10, <1>11 DEF Next

(* The invariant holds in every state of the thread runs.                   *)
LEMMA RunAlways == Spec => []RunInv
BY RunInit, RunStep, PTL DEF Spec

(* The run table, the claims and both lines keep their types.               *)
THEOREM RunTypesHold == Spec => []TypeOK
<1>1. RunInv => TypeOK
  BY NowFacts DEF Typed, TableOK, TypeOK, Owner, Place
<1> QED BY <1>1, RunAlways, PTL

(* Two turns never hold one resource or overlapping folders, for any        *)
(* relation of overlaps: whatever waited, yielded, was handed back, stopped *)
(* or rebuilt before (TurnResources.claimAll and the line).                 *)
THEOREM ClaimsExclusive == Spec => []Exclusive
<1>1. RunInv => Exclusive
  BY NowFacts DEF Excl, Exclusive
<1> QED BY <1>1, RunAlways, PTL

(* Every claim belongs to a run that is there.                              *)
THEOREM ClaimsOfLiveRuns == Spec => []ClaimsLive
<1>1. RunInv => ClaimsLive
  BY NowFacts DEF Alive, ClaimsLive, Own
<1> QED BY <1>1, RunAlways, PTL

(* A waiter holds nothing, so no two runs wait for each other.              *)
THEOREM WaitersHoldNothing == Spec => []WaitsEmptyHanded
<1>1. ASSUME RunInv PROVE WaitsEmptyHanded
  <2> USE NowFacts, <1>1
  <2> SUFFICES ASSUME NEW t \in Threads, Waiting(t)
               PROVE  /\ HeldBy(holder, Own(t)) = {}
                      /\ phase[t] = "setup"
                      /\ {slotLine[t].g, line[t].g} = {0, gen[t]}
    BY DEF WaitsEmptyHanded
  <2>1. phase[t] = "setup"
    BY DEF Waiting, Resting
  <2>2. \A r \in Resources : holder[r] # <<t, gen[t]>>
    BY <2>1 DEF Waiting, Clean, Live
  <2>3. {slotLine[t].g, line[t].g} = {0, gen[t]}
    BY DEF Waiting, Clean, Apart
  <2> QED BY <2>1, <2>2, <2>3 DEF HeldBy, Own
<1> QED BY <1>1, RunAlways, PTL

(* A turn that goes on or is dispatched holds all it claimed and did not    *)
(* give back, whatever it waited for or went on without.                    *)
THEOREM ClaimsKept == Spec => []KeepsClaims
<1>1. ASSUME RunInv PROVE KeepsClaims
  <2> USE NowFacts, <1>1
  <2> SUFFICES ASSUME NEW t \in Threads, at[t] = "setup",
                      phase[t] \in Live \ {"setup"} \/ SettingUp(t)
               PROVE  need[t] \subseteq HeldBy(holder, Own(t))
    BY DEF KeepsClaims
  <2>1. phase[t] \in Live /\ line[t].g = 0
    BY DEF SettingUp, Waiting, Resting, Live
  <2> QED BY <2>1 DEF Kept, HeldBy, Own
<1> QED BY <1>1, RunAlways, PTL
-----------------------------------------------------------------------------
(***************************************************************************)
(* The two lines: a bot's turns stay within its limit, no wake-up is lost, *)
(* and who waits is passed by nobody who should not pass.                  *)
(*                                                                         *)
(* What a look at the lines (Pump) leaves behind is proved from what the   *)
(* step made of the run table, in two parts: the line of slots (SlotsGood) *)
(* and the line for resources.  Who is seated is counted by its place, so  *)
(* the proofs about slots pick the last one seated, or the first that is   *)
(* not, and compare what is ahead of it with the slots that are free.      *)
(***************************************************************************)

-----------------------------------------------------------------------------
(* The line of slots *)

(* The runs of b that use a slot, and those that use the extra one, when    *)
(* the runs are in the phases P, S have no slot yet and V the extra one.    *)
AtWork(b, P, S, V) ==
    {t \in Threads : BotOf[t] = b /\ P[t] # "none" /\ t \notin S /\ t \notin V}
Extra(b, P, V) == {t \in Threads : BotOf[t] = b /\ P[t] # "none" /\ t \in V}

(* The line is a strict order, total, and an owner's send, by the kinds K,  *)
(* is ahead of every automation run and behind none.                        *)
SlotOrder(Q, K) ==
    \A t, u \in Threads : Q[t].g # 0 =>
        /\ u \in Q[t].ahead => u # t /\ Q[u].g # 0 /\ Q[u].ahead \subseteq Q[t].ahead
        /\ Q[u].g # 0 /\ u # t => u \in Q[t].ahead \/ t \in Q[u].ahead
        /\ Q[u].g # 0 /\ K[u] = "owner" /\ K[t] # "owner" => u \in Q[t].ahead
        /\ u \in Q[t].ahead /\ K[t] = "owner" => K[u] = "owner"

(* What a look needs to find: who waits for a slot has none, and the limit  *)
(* is kept.                                                                 *)
SlotsGood(Q, S, P, V, K) ==
    /\ SlotOrder(Q, K)
    /\ \A t \in Threads : Q[t].g # 0 /\ P[t] \in Live => t \in S
    /\ S \in SUBSET Threads /\ S \cap V = {}
    /\ \A t \in S : P[t] # "none"
    /\ \A b \in Bots : /\ Cardinality(AtWork(b, P, S, V)) <= Limit
                       /\ Cardinality(Extra(b, P, V)) <= 1

(* Who waits for a slot has a bot with none free.                           *)
SlotWake ==
    \A t \in Threads : slotLine[t].g # 0 =>
        Cardinality(AtWork(BotOf[t], phase, slotless, reserved)) >= Limit

SlotsOK == SlotsGood(slotLine, slotless, phase, reserved, kind) /\ SlotWake

(* Of finite sets there is a least one: no other is inside it.              *)
LEMMA LeastSet ==
    ASSUME NEW U, IsFiniteSet(U), NEW T, T \subseteq SUBSET U, T # {}
    PROVE  \E X \in T : \A Y \in T : Y \subseteq X => Y = X
<1>1. T \subseteq FiniteSubsetsOf(U)
  BY FS_Subset DEF FiniteSubsetsOf
<1>2. IsWellFoundedOn(StrictSubsetOrdering(U), FiniteSubsetsOf(U))
  BY FS_StrictSubsetOrderingWellFounded
<1>3. PICK X \in T : \A Y \in T : <<Y, X>> \notin StrictSubsetOrdering(U)
  BY <1>1, <1>2, WFMin
<1>4. ASSUME NEW Y \in T, Y \subseteq X, Y # X
      PROVE  FALSE
  <2>1. <<Y, X>> \in StrictSubsetOrdering(U)
    BY <1>4 DEF StrictSubsetOrdering
  <2> QED BY <2>1, <1>3
<1> QED BY <1>4

(* So among those of N one has a least set f[t].                            *)
LEMMA LeastBy ==
    ASSUME NEW U, IsFiniteSet(U), NEW N, N # {}, NEW f, \A t \in N : f[t] \in SUBSET U
    PROVE  \E x \in N : \A y \in N : f[y] \subseteq f[x] => f[y] = f[x]
<1> DEFINE T == {f[t] : t \in N}
<1>1. T \subseteq SUBSET U /\ T # {}
  OBVIOUS
<1>2. \A t \in N : f[t] \in T
  OBVIOUS
<1>3. \A X \in T : \E t \in N : X = f[t]
  OBVIOUS
<1> HIDE DEF T
<1>4. \E X \in T : \A Y \in T : Y \subseteq X => Y = X
  BY <1>1, LeastSet
<1> QED BY <1>2, <1>3, <1>4

(* Every set of threads is finite: its size is a number, and no smaller     *)
(* than that of its subsets.                                                *)
LEMMA Sizes ==
    ASSUME NEW X \in SUBSET Threads
    PROVE  /\ IsFiniteSet(X) /\ Cardinality(X) \in Nat
           /\ \A Y \in SUBSET X : Cardinality(Y) <= Cardinality(X)
<1>1. IsFiniteSet(X)
  BY ThreadsAssumption, FS_Subset
<1> QED BY <1>1, FS_CardinalityType, FS_Subset

(* Two sets of threads together are no more than both, and as many as both  *)
(* if they have none in common.                                             *)
LEMMA UnionSizes ==
    ASSUME NEW X \in SUBSET Threads, NEW Y \in SUBSET Threads
    PROVE  /\ Cardinality(X \cup Y) <= Cardinality(X) + Cardinality(Y)
           /\ X \cap Y = {} => Cardinality(X \cup Y) = Cardinality(X) + Cardinality(Y)
<1>1. IsFiniteSet(X) /\ IsFiniteSet(Y) /\ Cardinality(X) \in Nat /\ Cardinality(Y) \in Nat
  BY Sizes
<1>2. Cardinality(X \cap Y) \in Nat /\ (X \cap Y = {} => Cardinality(X \cap Y) = 0)
  BY Sizes, FS_EmptySet
<1>3. Cardinality(X \cup Y) = Cardinality(X) + Cardinality(Y) - Cardinality(X \cap Y)
  BY <1>1, FS_Union
<1> QED BY <1>1, <1>2, <1>3

(* Those of the same bot that wait ahead of t.                              *)
Before(Q, t) == {u \in Q[t].ahead \cap Waits(Q) : BotOf[u] = BotOf[t]}

(* What a look leaves at work for b: who was, and who is seated.            *)
LEMMA SeatedWork ==
    ASSUME NEW Q, NEW S, SlotsGood(Q, S, phase', reserved', kind), NEW b \in Bots
    PROVE  AtWork(b, phase', S \ Seated(S, Q), reserved') =
               InUse(b, S) \cup {t \in Seated(S, Q) : BotOf[t] = b}
<1>1. \A t \in Seated(S, Q) : /\ t \in Threads /\ t \in S /\ t \notin reserved'
                              /\ phase'[t] # "none"
  BY DEF Seated, Waits, InLine, SlotsGood
<1> QED BY <1>1 DEF AtWork, InUse

(* No more are seated than there are slots: the last one seated had all the *)
(* others ahead of it, and a slot left (pumpOnce).                          *)
LEMMA SeatsWithin ==
    ASSUME NEW Q, NEW S, SlotsGood(Q, S, phase', reserved', kind), NEW b \in Bots
    PROVE  Cardinality(AtWork(b, phase', S \ Seated(S, Q), reserved')) <= Limit
<1> DEFINE N == {t \in Seated(S, Q) : BotOf[t] = b}
           I == InUse(b, S)
<1>1. AtWork(b, phase', S \ Seated(S, Q), reserved') = I \cup N
  BY SeatedWork
<1>2. Cardinality(I) <= Limit
  <2>1. I = AtWork(b, phase', S, reserved')
    BY DEF InUse, AtWork
  <2> QED BY <2>1 DEF SlotsGood
<1>3. /\ I \in SUBSET Threads /\ N \in SUBSET Threads
      /\ N \subseteq Waits(Q)
      /\ \A t \in N : BotOf[t] = b /\ Cardinality(I) + Cardinality(Before(Q, t)) < Limit
  BY DEF InUse, Seated, Waits, InLine, Before
<1> HIDE DEF N, I
<1>4. CASE N = {}
  BY <1>1, <1>2, <1>4
<1>5. CASE N # {}
  <2> DEFINE f == [t \in N |-> Threads \ Q[t].ahead]
  <2>1. \A t \in N : f[t] = Threads \ Q[t].ahead /\ f[t] \in SUBSET Threads
    OBVIOUS
  <2> HIDE DEF f
  <2>2. PICK x \in N : \A y \in N :
            Threads \ Q[y].ahead \subseteq Threads \ Q[x].ahead
                => Threads \ Q[y].ahead = Threads \ Q[x].ahead
    <3>1. \E x \in N : \A y \in N : f[y] \subseteq f[x] => f[y] = f[x]
      BY SMTT(30), <1>5, <2>1, ThreadsAssumption, LeastBy
    <3> QED BY <2>1, <3>1
  <2>3. \A y \in N : y \in Threads /\ Q[y].g # 0
    BY <1>3 DEF Waits, InLine
  <2>4. ASSUME NEW y \in N, y # x
        PROVE  y \in Q[x].ahead
    <3>1. y \in Q[x].ahead \/ x \in Q[y].ahead
      BY <2>3, <2>4 DEF SlotsGood, SlotOrder
    <3>2. CASE x \in Q[y].ahead
      <4>1. Q[x].ahead \subseteq Q[y].ahead /\ x \notin Q[x].ahead
        BY <2>3, <3>2 DEF SlotsGood, SlotOrder
      <4>2. Threads \ Q[y].ahead \subseteq Threads \ Q[x].ahead
        BY <4>1
      <4>3. x \in Threads \ Q[x].ahead /\ x \notin Threads \ Q[y].ahead
        BY <2>3, <3>2, <4>1
      <4> QED BY <2>2, <4>2, <4>3
    <3> QED BY <3>1, <3>2
  <2>5. N \subseteq Before(Q, x) \cup {x}
    BY <1>3, <2>4 DEF Before
  <2>6. Before(Q, x) \in SUBSET Threads /\ {x} \in SUBSET Threads
    BY <2>3 DEF Before, Waits, InLine
  <2>7. Cardinality(N) <= Cardinality(Before(Q, x)) + 1
    <3>1. Cardinality(Before(Q, x) \cup {x}) <= Cardinality(Before(Q, x)) + 1
      BY <2>6, UnionSizes, FS_Singleton
    <3>2. Before(Q, x) \cup {x} \in SUBSET Threads
      BY <2>6
    <3>3. /\ Cardinality(N) <= Cardinality(Before(Q, x) \cup {x})
          /\ Cardinality(Before(Q, x) \cup {x}) \in Nat
      BY <2>5, <3>2, Sizes
    <3>4. Cardinality(N) \in Nat /\ Cardinality(Before(Q, x)) \in Nat
      BY <1>3, <2>6, Sizes
    <3> QED BY <3>1, <3>3, <3>4
  <2>8. /\ Cardinality(I \cup N) <= Cardinality(I) + Cardinality(N)
        /\ Cardinality(I) \in Nat /\ Cardinality(N) \in Nat
        /\ Cardinality(Before(Q, x)) \in Nat /\ Cardinality(I \cup N) \in Nat
    <3>1. I \cup N \in SUBSET Threads
      BY <1>3
    <3> QED BY <1>3, <2>6, <3>1, UnionSizes, Sizes
  <2>9. Cardinality(I) + Cardinality(Before(Q, x)) < Limit
    BY <1>3
  <2>10. Cardinality(I \cup N) <= Limit
    <3> DEFINE i == Cardinality(I)
               n == Cardinality(N)
               m == Cardinality(Before(Q, x))
               u == Cardinality(I \cup N)
    <3> HIDE DEF i, n, m, u
    <3>1. i \in Nat /\ n \in Nat /\ m \in Nat /\ u \in Nat /\ Limit \in Nat
      BY <2>8, LimitAssumption DEF i, n, m, u
    <3>2. n <= m + 1 /\ u <= i + n /\ i + m < Limit
      BY <2>7, <2>8, <2>9 DEF i, n, m, u
    <3>3. u <= Limit
      BY <3>1, <3>2
    <3> QED BY <3>3 DEF u
  <2> QED BY <1>1, <2>10
<1> QED BY <1>4, <1>5

(* Nobody is left standing beside a free slot: the first who is not seated  *)
(* finds none left by those ahead of it, who are.                           *)
LEMMA SeatsFull ==
    ASSUME NEW Q, NEW S, SlotsGood(Q, S, phase', reserved', kind),
           NEW x \in Waits(Q) \ Seated(S, Q)
    PROVE  Cardinality(AtWork(BotOf[x], phase', S \ Seated(S, Q), reserved')) >= Limit
<1> DEFINE b == BotOf[x]
           N == {t \in Waits(Q) \ Seated(S, Q) : BotOf[t] = b}
           f == [t \in N |-> Q[t].ahead \cap Threads]
           I == InUse(b, S)
<1>1. x \in Threads /\ b \in Bots /\ x \in N
  BY ThreadsAssumption DEF Waits, InLine
<1>2. \A t \in N : f[t] = Q[t].ahead \cap Threads /\ f[t] \in SUBSET Threads
  OBVIOUS
<1>3. PICK y \in N : \A z \in N :
          Q[z].ahead \cap Threads \subseteq Q[y].ahead \cap Threads
              => Q[z].ahead \cap Threads = Q[y].ahead \cap Threads
  <2> HIDE DEF f, N
  <2>1. \E y \in N : \A z \in N : f[z] \subseteq f[y] => f[z] = f[y]
    BY <1>1, <1>2, ThreadsAssumption, LeastBy
  <2> QED BY <1>2, <2>1
<1>4. \A z \in N : z \in Threads /\ Q[z].g # 0 /\ z \in Waits(Q) /\ BotOf[z] = b
  BY DEF Waits, InLine
<1>5. Cardinality(I) + Cardinality(Before(Q, y)) >= Limit
  <2>1. y \in Waits(Q) /\ y \notin Seated(S, Q) /\ BotOf[y] = b
    OBVIOUS
  <2>2. ~(Cardinality(I) + Cardinality(Before(Q, y)) < Limit)
    BY <2>1 DEF Seated, Before
  <2>3. I \in SUBSET Threads /\ Before(Q, y) \in SUBSET Threads
    BY DEF InUse, Before, Waits, InLine
  <2>4. Cardinality(I) \in Nat /\ Cardinality(Before(Q, y)) \in Nat
    BY <2>3, Sizes
  <2> QED BY <2>2, <2>4, LimitAssumption
<1>6. ASSUME NEW z \in Before(Q, y)
      PROVE  z \in Seated(S, Q)
  <2>1. z \in Q[y].ahead /\ z \in Waits(Q) /\ z \in Threads /\ BotOf[z] = b
    BY <1>4 DEF Before, Waits, InLine
  <2>2. Q[z].ahead \subseteq Q[y].ahead /\ z \notin Q[z].ahead
    <3>1. Q[z].g # 0
      BY <2>1 DEF Waits, InLine
    <3> QED BY <1>4, <2>1, <3>1 DEF SlotsGood, SlotOrder
  <2>3. z \notin N
    BY <1>3, <2>1, <2>2
  <2> QED BY <2>1, <2>3
<1>7. AtWork(b, phase', S \ Seated(S, Q), reserved') =
          I \cup {t \in Seated(S, Q) : BotOf[t] = b}
  BY <1>1, SeatedWork
<1> HIDE DEF N, f
<1>8. I \cup Before(Q, y) \subseteq AtWork(b, phase', S \ Seated(S, Q), reserved')
  BY <1>4, <1>6, <1>7 DEF Before
<1>9. I \cap Before(Q, y) = {}
  BY DEF InUse, Before, Waits, InLine, SlotsGood
<1>10. /\ I \in SUBSET Threads /\ Before(Q, y) \in SUBSET Threads
       /\ AtWork(b, phase', S \ Seated(S, Q), reserved') \in SUBSET Threads
  BY DEF InUse, Before, Waits, InLine, AtWork
<1>11. Cardinality(I \cup Before(Q, y)) = Cardinality(I) + Cardinality(Before(Q, y))
  BY <1>9, <1>10, UnionSizes
<1>12. /\ Cardinality(I \cup Before(Q, y))
              <= Cardinality(AtWork(b, phase', S \ Seated(S, Q), reserved'))
       /\ Cardinality(AtWork(b, phase', S \ Seated(S, Q), reserved')) \in Nat
       /\ Cardinality(I) \in Nat /\ Cardinality(Before(Q, y)) \in Nat
  BY <1>8, <1>10, Sizes
<1> QED BY <1>5, <1>11, <1>12, LimitAssumption

(* A place in the line of slots that a look leaves is one it found.         *)
LEMMA LeftIs ==
    ASSUME NEW Q \in [Threads -> Entry], NEW stay
    PROVE  \A t \in Threads :
               /\ Left(Q, stay)[t].g # 0 =>
                      /\ t \in stay /\ Left(Q, stay)[t].g = Q[t].g
                      /\ Left(Q, stay)[t].want = Q[t].want
                      /\ Left(Q, stay)[t].spare = Q[t].spare
                      /\ Left(Q, stay)[t].ahead = Q[t].ahead \cap stay
               /\ Left(Q, stay)[t].g = 0 /\ Q[t].g # 0 => t \notin stay
               /\ t \notin stay => Left(Q, stay)[t] = Off
<1> SUFFICES ASSUME NEW t \in Threads
             PROVE  /\ Left(Q, stay)[t].g # 0 =>
                           /\ t \in stay /\ Left(Q, stay)[t].g = Q[t].g
                           /\ Left(Q, stay)[t].want = Q[t].want
                           /\ Left(Q, stay)[t].spare = Q[t].spare
                           /\ Left(Q, stay)[t].ahead = Q[t].ahead \cap stay
                    /\ Left(Q, stay)[t].g = 0 /\ Q[t].g # 0 => t \notin stay
                    /\ t \notin stay => Left(Q, stay)[t] = Off
  OBVIOUS
<1>1. Q[t] \in Entry
  OBVIOUS
<1>2. CASE t \in stay
  <2>1. Left(Q, stay)[t] = [Q[t] EXCEPT !.ahead = @ \cap stay]
    BY <1>2 DEF Left
  <2> QED BY <1>1, <1>2, <2>1 DEF Entry
<1>3. CASE t \notin stay
  <2>1. Left(Q, stay)[t] = Off
    BY <1>3 DEF Left
  <2> QED BY <1>3, <2>1 DEF Off
<1> QED BY <1>2, <1>3

(* One look at the line of slots (pump): the limit holds again, and who is  *)
(* kept waiting finds its bot full.                                         *)
LEMMA PumpSlots ==
    ASSUME NEW H, NEW S, NEW A, NEW SL \in [Threads -> Entry], NEW L,
           SlotsGood(SL, S, phase', reserved', kind),
           \A t \in Waits(SL) : kind'[t] = kind[t],
           Pump(H, S, A, SL, L)
    PROVE  SlotsOK'
<1> DEFINE Z == Seated(S, SL)
           stay == Waits(SL) \ Z
<1>1. slotless' = S \ Z /\ slotLine' = Left(SL, stay)
  BY DEF Pump
<1>2. Waits(SL) \subseteq Threads /\ \A t \in Waits(SL) : SL[t].g # 0 /\ phase'[t] \in Live
  BY DEF Waits, InLine
<1>3. \A t \in Threads : slotLine'[t].g # 0 =>
          /\ t \in stay /\ SL[t].g # 0 /\ phase'[t] \in Live /\ kind'[t] = kind[t]
          /\ slotLine'[t].ahead = SL[t].ahead \cap stay
  <2> HIDE DEF stay
  <2>1. \A t \in Threads : slotLine'[t].g # 0 =>
            /\ t \in stay /\ slotLine'[t].g = SL[t].g
            /\ slotLine'[t].ahead = SL[t].ahead \cap stay
    BY <1>1, LeftIs
  <2> QED BY <1>2, <2>1 DEF stay
<1>4. \A t \in Threads : t \in stay => slotLine'[t].g # 0
  BY <1>1, <1>2, LeftIs
<1>5. SlotOrder(SL, kind)
  BY DEF SlotsGood
<1> HIDE DEF Z, stay
<1>6. SlotOrder(slotLine', kind')
  <2> SUFFICES ASSUME NEW t \in Threads, NEW u \in Threads, slotLine'[t].g # 0
               PROVE  LET Q == slotLine' K == kind' IN
                      /\ u \in Q[t].ahead =>
                            u # t /\ Q[u].g # 0 /\ Q[u].ahead \subseteq Q[t].ahead
                      /\ Q[u].g # 0 /\ u # t => u \in Q[t].ahead \/ t \in Q[u].ahead
                      /\ Q[u].g # 0 /\ K[u] = "owner" /\ K[t] # "owner" => u \in Q[t].ahead
                      /\ u \in Q[t].ahead /\ K[t] = "owner" => K[u] = "owner"
    BY Zenon DEF SlotOrder
  <2>1. /\ t \in stay /\ SL[t].g # 0 /\ kind'[t] = kind[t]
        /\ slotLine'[t].ahead = SL[t].ahead \cap stay
    BY <1>3
  <2>2. slotLine'[u].g # 0 =>
            /\ u \in stay /\ SL[u].g # 0 /\ kind'[u] = kind[u]
            /\ slotLine'[u].ahead = SL[u].ahead \cap stay
    BY <1>3
  <2>3. u \in stay => slotLine'[u].g # 0
    BY <1>4
  <2> QED BY <1>5, <2>1, <2>2, <2>3 DEF SlotOrder
<1>7. \A t \in Threads : slotLine'[t].g # 0 => t \in slotless'
  BY <1>1, <1>3 DEF stay, SlotsGood
<1>8. \A b \in Bots : /\ Cardinality(AtWork(b, phase', slotless', reserved')) <= Limit
                      /\ Cardinality(Extra(b, phase', reserved')) <= 1
  BY <1>1, SeatsWithin DEF Z, SlotsGood
<1>9. SlotsGood(slotLine', slotless', phase', reserved', kind')
  BY <1>1, <1>6, <1>7, <1>8 DEF SlotsGood
<1>10. SlotWake'
  <2> SUFFICES ASSUME NEW t \in Threads, slotLine'[t].g # 0
               PROVE  Cardinality(AtWork(BotOf[t], phase', slotless', reserved')) >= Limit
    BY DEF SlotWake
  <2>1. t \in Waits(SL) \ Seated(S, SL)
    BY <1>3 DEF stay, Z
  <2> QED BY <1>1, <2>1, SeatsFull DEF Z
<1> QED BY <1>9, <1>10 DEF SlotsOK
-----------------------------------------------------------------------------
(* The line for resources *)

(* What keeps t waiting: an earlier waiter whose resources touch its own,   *)
(* or a holder it may not go on without.                                    *)
LineWake ==
    \A t \in Threads : line[t].g # 0 =>
        \/ \E u \in line[t].ahead :
               phase[u] \in Live /\ Touching(line[u].want, line[t].want)
        \/ /\ Away(holder, line[t].want, Own(t)) # {}
           /\ ~Yields(holder, line[t].want, Own(t), line[t].spare, person)

(* Who is not in line wants nothing, and only turns past their dispatch     *)
(* wait for the person.                                                     *)
LineOK ==
    /\ LineWake
    /\ \A t \in Threads : line[t].g = 0 => line[t].want = {}
    /\ \A t \in person : phase[t] \notin {"none", "setup", "dispatching"}

(* One look at the line for resources (pump): nobody is left in it who      *)
(* could be served or could go on without.                                  *)
LEMMA PumpLine ==
    ASSUME NEW H, NEW S, NEW A, NEW SL, NEW L \in [Threads -> Entry],
           gen' \in [Threads -> Gens \cup {0}],
           \A t \in Threads : phase'[t] # "none" => gen'[t] \in Gens,
           \A t \in Waits(L) : phase'[t] = "setup",
           \A t \in person' : phase'[t] \notin {"none", "setup", "dispatching"},
           Pump(H, S, A, SL, L)
    PROVE  LineOK'
<1>1. PICK go \in SUBSET Waits(L) : \E yield \in SUBSET Waits(L) :
          /\ Serves(H, L, go, yield)
          /\ holder' = Granted(H, L, go)
          /\ line' = Left(L, Waits(L) \ (go \cup yield))
  BY DEF Pump
<1>2. PICK yield \in SUBSET Waits(L) :
          /\ Serves(H, L, go, yield)
          /\ holder' = Granted(H, L, go)
          /\ line' = Left(L, Waits(L) \ (go \cup yield))
  BY <1>1
<1> DEFINE stay == Waits(L) \ (go \cup yield)
<1>3. \A t \in Waits(L) : /\ t \in Threads /\ L[t].g # 0 /\ L[t].g = gen'[t]
                          /\ phase'[t] = "setup" /\ phase'[t] \in Live /\ L[t].g \in Gens
  BY DEF Waits, InLine, Live
<1>4. line' = Left(L, stay)
  BY <1>2
<1> HIDE DEF stay
<1>5. \A t \in Threads :
          /\ line'[t].g # 0 =>
                 /\ t \in stay /\ line'[t].g = L[t].g /\ line'[t].want = L[t].want
                 /\ line'[t].spare = L[t].spare
                 /\ line'[t].ahead = L[t].ahead \cap stay
          /\ t \in stay /\ L[t].g # 0 => line'[t].g # 0
          /\ t \notin stay => line'[t] = Off
  BY <1>4, LeftIs
<1>6. \A t \in Threads : line'[t].g = 0 => line'[t].want = {}
  BY <1>3, <1>5 DEF Off, stay
<1>7. LineWake'
  <2> SUFFICES ASSUME NEW t \in Threads, line'[t].g # 0
               PROVE  \/ \E u \in line'[t].ahead :
                             /\ phase'[u] \in Live
                             /\ Touching(line'[u].want, line'[t].want)
                      \/ /\ Away(holder', line'[t].want, <<t, gen'[t]>>) # {}
                         /\ ~Yields(holder', line'[t].want, <<t, gen'[t]>>,
                                    line'[t].spare, person')
    BY DEF LineWake, Own
  <2> DEFINE o == <<t, L[t].g>>
             B == Granted(H, L, L[t].ahead \cap go)
  <2>1. /\ t \in Waits(L) /\ t \notin go /\ t \notin yield /\ L[t].g = gen'[t]
        /\ line'[t].want = L[t].want /\ line'[t].spare = L[t].spare
        /\ line'[t].ahead = L[t].ahead \cap stay
    BY <1>3, <1>5 DEF stay
  <2>2. \/ \E u \in L[t].ahead \cap stay : Touching(L[u].want, L[t].want)
        \/ Away(B, L[t].want, o) # {} /\ ~Yields(B, L[t].want, o, L[t].spare, person')
    BY <1>2, <2>1 DEF Serves, stay
  <2>3. CASE \E u \in L[t].ahead \cap stay : Touching(L[u].want, L[t].want)
    <3>1. PICK u \in L[t].ahead \cap stay : Touching(L[u].want, L[t].want)
      BY <2>3
    <3>2. u \in Waits(L)
      BY DEF stay
    <3>3. line'[u].want = L[u].want /\ phase'[u] \in Live
      BY <1>3, <1>5, <3>2
    <3> QED BY <2>1, <3>1, <3>3
  <2>4. CASE /\ Away(B, L[t].want, o) # {}
             /\ ~Yields(B, L[t].want, o, L[t].spare, person')
    <3>1. ASSUME NEW q \in Resources, B[q] \notin {Nobody, o}
          PROVE  /\ holder'[q] \notin {Nobody, o}
                 /\ holder'[q][1] \in go \/ holder'[q] = B[q]
      <4>1. CASE \E u \in go : q \in L[u].want /\ holder'[q] = <<u, L[u].g>>
        BY <1>3, <2>1, <4>1, NobodyAssumption
      <4>2. CASE (\A u \in go : q \notin L[u].want) /\ holder'[q] = H[q]
        <5>1. B[q] = H[q]
          BY <4>2, GrantedIs
        <5> QED BY <3>1, <4>2, <5>1
      <4> QED BY <1>2, <4>1, <4>2, GrantedIs
    <3>2. Away(B, L[t].want, o) \subseteq Away(holder', L[t].want, o)
      BY <3>1 DEF Away
    <3>3. ~Yields(holder', L[t].want, o, L[t].spare, person')
      <4>1. CASE ~(Away(B, L[t].want, o) \subseteq L[t].spare)
        BY <3>2, <4>1 DEF Yields
      <4>2. CASE \E q \in Resources : /\ B[q] \notin {Nobody, o}
                                      /\ Touching({q}, L[t].want) /\ B[q][1] \notin person'
        <5>1. PICK q \in Resources : /\ B[q] \notin {Nobody, o}
                                     /\ Touching({q}, L[t].want) /\ B[q][1] \notin person'
          BY <4>2
        <5>2. holder'[q] \notin {Nobody, o} /\ holder'[q][1] \notin person'
          BY <1>3, <3>1, <5>1
        <5> QED BY <5>1, <5>2 DEF Yields
      <4> QED BY <2>4, <4>1, <4>2 DEF Yields
    <3> QED BY <2>1, <2>4, <3>2, <3>3
  <2> QED BY <2>2, <2>3, <2>4
<1> QED BY <1>6, <1>7 DEF LineOK
-----------------------------------------------------------------------------
(* The actions *)

(* A run that has not come to its slot is not in the line of slots.         *)
StartsOut == \A t \in Threads : at[t] = "start" => slotLine[t].g = 0

(* The invariant with both lines.                                           *)
LinesInv == RunInv /\ SlotsOK /\ LineOK /\ StartsOut

(* A look at the lines puts nobody in one who was not in it.                *)
LEMMA PumpStarts ==
    ASSUME NEW H, NEW S, NEW A, NEW SL \in [Threads -> Entry], NEW L,
           Pump(H, S, A, SL, L),
           \A t \in Threads : A[t] = "start" => SL[t].g = 0 \/ t \notin Waits(SL)
    PROVE  StartsOut'
<1> DEFINE stay == Waits(SL) \ Seated(S, SL)
<1>1. slotLine' = Left(SL, stay)
  BY DEF Pump
<1>2. \A t \in Threads : at'[t] = "start" => A[t] = "start"
  <2>1. PICK yield : at' = [t \in Threads |-> IF t \in yield THEN "rest" ELSE A[t]]
    BY DEF Pump
  <2> QED BY <2>1
<1>3. \A t \in stay : t \in Waits(SL)
  OBVIOUS
<1> HIDE DEF stay
<1>4. \A t \in Threads : slotLine'[t].g # 0 => t \in stay /\ slotLine'[t].g = SL[t].g
  BY <1>1, LeftIs
<1> QED BY <1>2, <1>3, <1>4 DEF StartsOut

(* A change of phase that ends no run and begins none moves no slot.        *)
LEMMA SameWork ==
    ASSUME NEW P, NEW R, \A t \in Threads : R[t] = "none" <=> P[t] = "none",
           NEW b, NEW S, NEW V
    PROVE  AtWork(b, R, S, V) = AtWork(b, P, S, V) /\ Extra(b, R, V) = Extra(b, P, V)
BY DEF AtWork, Extra

(* What the invariant says of the lines before a step.                      *)
LEMMA LinesNow ==
    ASSUME LinesInv
    PROVE  /\ slotLine \in [Threads -> Entry] /\ line \in [Threads -> Entry]
           /\ phase \in [Threads -> Phase] /\ gen \in [Threads -> Gens \cup {0}]
           /\ holder \in [Resources -> Owner \cup {Nobody}]
           /\ kind \in [Threads -> Kind] /\ slotless \in SUBSET Threads
           /\ \A t \in Threads : phase[t] # "none" => gen[t] \in Gens
           /\ \A t \in Threads : slotLine[t].g # 0 \/ line[t].g # 0 => phase[t] = "setup"
           /\ SlotsGood(slotLine, slotless, phase, reserved, kind)
           /\ SlotWake /\ LineWake
           /\ \A t \in Threads : line[t].g = 0 => line[t].want = {}
           /\ \A t \in person : phase[t] \notin {"none", "setup", "dispatching"}
BY NowFacts DEF LinesInv, Typed, TableOK, Resting, SlotsOK, LineOK

(* A step that only changes phases, the person and holders, and then looks  *)
(* at the lines, keeps both in order.                                       *)
LEMMA LookKeeps ==
    ASSUME LinesInv, NEW H, NEW A, NEW L \in [Threads -> Entry],
           Pump(H, slotless, A, slotLine, L),
           UNCHANGED <<gen, kind, reserved>>,
           \A t \in Threads : /\ phase'[t] = "none" <=> phase[t] = "none"
                              /\ phase'[t] \in Live => phase'[t] = phase[t],
           \A t \in Threads : L[t].g # 0 => phase[t] = "setup",
           \A t \in person' : phase'[t] \notin {"none", "setup", "dispatching"}
    PROVE  SlotsOK' /\ LineOK'
<1>1. \A b \in Bots : /\ AtWork(b, phase', slotless, reserved) = AtWork(b, phase, slotless, reserved)
                      /\ Extra(b, phase', reserved) = Extra(b, phase, reserved)
  <2>1. \A t \in Threads : phase'[t] = "none" <=> phase[t] = "none"
    OBVIOUS
  <2> QED BY <2>1, SameWork
<1> USE LinesNow
<1>2. SlotsGood(slotLine, slotless, phase', reserved', kind)
  <2>1. \A t \in Threads : slotLine[t].g # 0 => phase[t] \in Live
    BY DEF Live
  <2> QED BY <1>1, <2>1 DEF SlotsGood
<1>3. \A t \in Waits(slotLine) : kind'[t] = kind[t]
  OBVIOUS
<1>4. SlotsOK'
  BY <1>2, <1>3, PumpSlots
<1>5. \A t \in Waits(L) : phase'[t] = "setup"
  BY DEF Waits, InLine
<1>6. /\ gen' \in [Threads -> Gens \cup {0}]
      /\ \A t \in Threads : phase'[t] # "none" => gen'[t] \in Gens
  OBVIOUS
<1>7. LineOK'
  BY <1>5, <1>6, PumpLine
<1> QED BY <1>4, <1>7

(* A step that leaves the lines alone keeps them in order, if it takes no   *)
(* resource from its holder and moves no waiter.                            *)
LEMMA AloneKeeps ==
    ASSUME LinesInv,
           UNCHANGED <<gen, kind, person, reserved, slotless, slotLine, line>>,
           \A r \in Resources : holder[r] # Nobody => holder'[r] = holder[r],
           \A t \in Threads : /\ phase'[t] = "none" <=> phase[t] = "none"
                              /\ Waiting(t) => phase'[t] = phase[t],
           \A t \in person : phase'[t] \notin {"none", "setup", "dispatching"}
    PROVE  SlotsOK' /\ LineOK'
<1> USE LinesNow
<1>1. \A b \in Bots : /\ AtWork(b, phase', slotless, reserved) = AtWork(b, phase, slotless, reserved)
                      /\ Extra(b, phase', reserved) = Extra(b, phase, reserved)
  BY SMTT(30), SameWork
<1>2. \A t \in Threads : slotLine[t].g # 0 => phase[t] \in Live
  BY DEF Live
<1>3. SlotsGood(slotLine, slotless, phase', reserved, kind)
  BY <1>1, <1>2 DEF SlotsGood
<1>4. SlotWake'
  <2>1. \A t \in Threads : BotOf[t] \in Bots
    BY ThreadsAssumption
  <2> QED BY <1>1, <2>1 DEF SlotWake
<1>5. LineWake'
  <2> SUFFICES ASSUME NEW t \in Threads, line[t].g # 0
               PROVE  \/ \E u \in line[t].ahead :
                             phase'[u] \in Live /\ Touching(line[u].want, line[t].want)
                      \/ /\ Away(holder', line[t].want, Own(t)) # {}
                         /\ ~Yields(holder', line[t].want, Own(t), line[t].spare, person)
    BY DEF LineWake, Own
  <2>1. CASE \E u \in line[t].ahead :
                 phase[u] \in Live /\ Touching(line[u].want, line[t].want)
    <3>1. PICK u \in line[t].ahead :
              phase[u] \in Live /\ Touching(line[u].want, line[t].want)
      BY <2>1
    <3>2. u \in Threads /\ line[u].want # {}
      BY <3>1 DEF Entry, Touching
    <3>3. phase'[u] = phase[u]
      BY <3>2 DEF Waiting
    <3> QED BY <3>1, <3>3
  <2>2. CASE /\ Away(holder, line[t].want, Own(t)) # {}
             /\ ~Yields(holder, line[t].want, Own(t), line[t].spare, person)
    <3>1. \A q \in Resources : holder[q] \notin {Nobody, Own(t)} => holder'[q] = holder[q]
      OBVIOUS
    <3>2. Away(holder, line[t].want, Own(t)) \subseteq Away(holder', line[t].want, Own(t))
      BY <3>1 DEF Away
    <3>3. ~Yields(holder', line[t].want, Own(t), line[t].spare, person)
      BY <2>2, <3>1, <3>2 DEF Yields
    <3> QED BY <2>2, <3>2, <3>3
  <2> QED BY <2>1, <2>2 DEF LineWake
<1> QED BY <1>3, <1>4, <1>5 DEF SlotsOK, LineOK

(* Dispatch, acceptance, the terminal event, Stop, the hold for a rebuild   *)
(* and the person's part.                                                   *)
LEMMA TurnLines ==
    ASSUME LinesInv, NEW t \in Threads,
           \/ Dispatch(t) \/ Accepted(t) \/ Settling(t) \/ HoldForRebuild(t)
           \/ AsksPerson(t) \/ PersonAnswers(t)
           \/ phase[t] \in Live \cup {"settling"} /\ Moves(t, "stopping") /\ Looks
    PROVE  SlotsOK' /\ LineOK'
<1> USE LinesNow
<1>1. ASSUME NEW p \in {"dispatching", "running", "settling"}, Moves(t, p), Keeps,
             phase[t] # "none", ~Waiting(t), t \notin person \/ p = "running" \/ p = "settling"
      PROVE  SlotsOK' /\ LineOK'
  <2>1. \A u \in Threads : phase'[u] = IF u = t THEN p ELSE phase[u]
    BY <1>1 DEF Moves
  <2>2. person \subseteq Threads
    BY DEF LinesInv, RunInv, TableOK
  <2> QED BY <1>1, <2>1, <2>2, AloneKeeps DEF Moves, Keeps
<1>2. ASSUME NEW p \in {"stopping", "rebuilding"}, Moves(t, p), Looks, phase[t] # "none"
      PROVE  SlotsOK' /\ LineOK'
  <2>1. \A u \in Threads : phase'[u] = IF u = t THEN p ELSE phase[u]
    BY <1>2 DEF Moves
  <2>2. person \subseteq Threads
    BY DEF LinesInv, RunInv, TableOK
  <2>3. \A u \in person' : phase'[u] \notin {"none", "setup", "dispatching"}
    BY <1>2, <2>1, <2>2 DEF Moves
  <2>4. \A u \in Threads : /\ phase'[u] = "none" <=> phase[u] = "none"
                           /\ phase'[u] \in Live => phase'[u] = phase[u]
    BY <1>2, <2>1 DEF Live
  <2>5. Pump(holder, slotless, at, slotLine, line) /\ UNCHANGED <<gen, kind, reserved>>
    BY <1>2 DEF Looks, Moves
  <2> QED BY <2>3, <2>4, <2>5, LookKeeps
<1>3. CASE Dispatch(t)
  BY <1>1, <1>3 DEF Dispatch, SettingUp
<1>4. CASE Accepted(t)
  BY <1>1, <1>4 DEF Accepted, Waiting
<1>5. CASE Settling(t)
  BY <1>1, <1>5 DEF Settling, Waiting
<1>6. CASE HoldForRebuild(t)
  BY <1>2, <1>6 DEF HoldForRebuild, SettingUp
<1>7. CASE phase[t] \in Live \cup {"settling"} /\ Moves(t, "stopping") /\ Looks
  BY <1>2, <1>7 DEF Live
<1>8. CASE AsksPerson(t) \/ PersonAnswers(t)
  <2>1. /\ UNCHANGED <<gen, phase, kind, reserved>>
        /\ Pump(holder, slotless, at, slotLine, line)
        /\ \A u \in person' : u \in person \/ phase[u] = "running"
    BY <1>8 DEF AsksPerson, PersonAnswers, Looks
  <2> QED BY <2>1, LookKeeps
<1> QED BY <1>3, <1>4, <1>5, <1>6, <1>7, <1>8

(* Claiming: who takes what is free takes it from nobody, who waits lets go *)
(* and the lines are looked at.                                             *)
LEMMA AcquireLines ==
    ASSUME LinesInv, NEW t \in Threads, SettingUp(t),
           UNCHANGED <<gen, phase, kind, person, reserved>>,
           NEW want \in SUBSET Resources, NEW spare \in SUBSET Resources,
           Acquire(t, want, spare)
    PROVE  SlotsOK' /\ LineOK'
<1> USE LinesNow
<1> DEFINE o == Own(t)
           W == Wanted(t, want)
<1>1. CASE /\ Away(holder, W, o) = {} /\ holder' = ClaimAll(holder, W, o)
           /\ UNCHANGED <<slotless, slotLine, line>>
  <2>1. \A r \in W : holder[r] # Nobody /\ r \in Resources => holder[r] = o
    BY <1>1, TouchAssumption DEF Away
  <2>2. \A r \in Resources : holder[r] # Nobody => holder'[r] = holder[r]
    BY <1>1, <2>1 DEF ClaimAll
  <2> QED BY <1>1, <2>2, AloneKeeps
<1>2. CASE UNCHANGED <<holder, slotless, slotLine, line>>
  BY <1>2, AloneKeeps
<1>3. CASE Pump(LetGo(holder, o), slotless, [at EXCEPT ![t] = "setup"], slotLine,
                [line EXCEPT ![t] = [g |-> gen[t], want |-> W, spare |-> spare,
                                     ahead |-> InLine(line)]])
  <2> DEFINE L == [line EXCEPT ![t] = [g |-> gen[t], want |-> W, spare |-> spare,
                                       ahead |-> InLine(line)]]
             H == LetGo(holder, o)
             A == [at EXCEPT ![t] = "setup"]
  <2>1. phase[t] = "setup" /\ gen[t] \in Gens
    BY DEF SettingUp
  <2>2. W \in SUBSET Resources /\ InLine(line) \in SUBSET Threads
    BY DEF Wanted, HeldBy, InLine
  <2>3. L \in [Threads -> Entry]
    BY <2>1, <2>2 DEF Entry
  <2>4. \A u \in Threads : L[u].g # 0 => phase[u] = "setup"
    BY <2>1
  <2>5. Pump(H, slotless, A, slotLine, L)
    BY <1>3
  <2>6. \A u \in person' : phase'[u] \notin {"none", "setup", "dispatching"}
    OBVIOUS
  <2> HIDE DEF L, H, A
  <2> QED BY <2>3, <2>4, <2>5, <2>6, LookKeeps
<1> QED BY <1>1, <1>2, <1>3 DEF Acquire

(* A claim, the claim of the rest, and the hand-back of what is not used.   *)
LEMMA ClaimLines ==
    ASSUME LinesInv, NEW t \in Threads,
           \/ \E ask \in First[t] \cup Later[t] : Claim(t, ask)
           \/ ClaimRest(t)
           \/ \E R \in SUBSET Returnable : GiveBack(t, R)
    PROVE  SlotsOK' /\ LineOK'
<1>1. CASE \E ask \in First[t] \cup Later[t] : Claim(t, ask)
  <2>1. PICK ask \in First[t] \cup Later[t] : Claim(t, ask)
    BY <1>1
  <2>2. ask.want \in SUBSET Resources /\ ask.spare \in SUBSET Resources
    BY UseAssumption DEF Ask
  <2>3. /\ SettingUp(t) /\ UNCHANGED <<gen, phase, kind, person, reserved>>
        /\ Acquire(t, ask.want, ask.spare)
    BY <2>1 DEF Claim
  <2> QED BY <2>2, <2>3, AcquireLines
<1>2. CASE ClaimRest(t)
  <2>1. SettingUp(t) /\ UNCHANGED <<gen, phase, kind, person, reserved>>
    BY <1>2 DEF ClaimRest
  <2>2. CASE UNCHANGED <<holder, slotless, slotLine, line>>
    BY <2>1, <2>2, LinesNow, AloneKeeps
  <2>3. CASE Acquire(t, rest[t], {})
    <3>1. rest[t] \in SUBSET Resources /\ {} \in SUBSET Resources
      BY DEF LinesInv, RunInv, TableOK
    <3> QED BY <2>1, <2>3, <3>1, AcquireLines
  <2> QED BY <1>2, <2>2, <2>3 DEF ClaimRest
<1>3. CASE \E R \in SUBSET Returnable : GiveBack(t, R)
  <2>1. PICK R \in SUBSET Returnable : GiveBack(t, R)
    BY <1>3
  <2> DEFINE H == [r \in Resources |-> IF r \in R THEN Nobody ELSE holder[r]]
  <2>2. Pump(H, slotless, at, slotLine, line)
    BY <2>1 DEF GiveBack
  <2>3. UNCHANGED <<gen, phase, kind, person, reserved>>
    BY <2>1 DEF GiveBack
  <2> HIDE DEF H
  <2> QED BY <2>2, <2>3, LinesNow, LookKeeps
<1> QED BY <1>1, <1>2, <1>3

(* A run that goes takes its place in both lines with it.                   *)
LEMMA ReleasedLines ==
    ASSUME LinesInv, NEW t \in Threads, phase[t] # "none", Released(t, gen[t])
    PROVE  SlotsOK' /\ LineOK'
<1> USE LinesNow
<1> DEFINE H == Freed(holder, <<t, gen[t]>>)
           A == [at EXCEPT ![t] = "start"]
           S == slotless \ {t}
<1>1. /\ phase' = [phase EXCEPT ![t] = "none"] /\ gen' = gen
      /\ kind' = [kind EXCEPT ![t] = "plain"]
      /\ person' = person \ {t} /\ reserved' = reserved \ {t}
      /\ Pump(H, S, A, slotLine, line)
  BY DEF Released
<1>2. /\ phase'[t] = "none"
      /\ \A u \in Threads : u # t => phase'[u] = phase[u] /\ kind'[u] = kind[u]
  BY <1>1
<1>3. \A b \in Bots : /\ AtWork(b, phase', S, reserved') \subseteq AtWork(b, phase, slotless, reserved)
                      /\ Extra(b, phase', reserved') \subseteq Extra(b, phase, reserved)
  BY <1>1, <1>2 DEF AtWork, Extra
<1>4. \A b \in Bots : /\ Cardinality(AtWork(b, phase', S, reserved')) <= Limit
                      /\ Cardinality(Extra(b, phase', reserved')) <= 1
  <2> TAKE b \in Bots
  <2> DEFINE w == Cardinality(AtWork(b, phase, slotless, reserved))
             x == Cardinality(Extra(b, phase, reserved))
             v == Cardinality(AtWork(b, phase', S, reserved'))
             y == Cardinality(Extra(b, phase', reserved'))
  <2>1. /\ AtWork(b, phase, slotless, reserved) \in SUBSET Threads
        /\ Extra(b, phase, reserved) \in SUBSET Threads
        /\ AtWork(b, phase', S, reserved') \in SUBSET Threads
        /\ Extra(b, phase', reserved') \in SUBSET Threads
    BY DEF AtWork, Extra
  <2>2. v <= w /\ y <= x /\ w \in Nat /\ x \in Nat /\ v \in Nat /\ y \in Nat
    BY <1>3, <2>1, Sizes
  <2>3. w <= Limit /\ x <= 1
    BY DEF SlotsGood
  <2> HIDE DEF w, x, v, y
  <2>4. v <= Limit /\ y <= 1
    BY <2>2, <2>3, LimitAssumption
  <2> QED BY <2>4 DEF v, y
<1>5. SlotsGood(slotLine, S, phase', reserved', kind)
  BY <1>1, <1>2, <1>4 DEF SlotsGood, Live
<1>6. \A u \in Waits(slotLine) \cup Waits(line) : u \in Threads /\ u # t
  BY <1>2 DEF Waits, InLine, Live
<1>7. SlotsOK'
  <2> HIDE DEF S, H, A
  <2>1. \A u \in Waits(slotLine) : kind'[u] = kind[u]
    BY <1>2, <1>6
  <2> QED BY <1>1, <1>5, <2>1, PumpSlots
<1>8. LineOK'
  <2>1. \A u \in Waits(line) : phase'[u] = "setup"
    BY <1>2, <1>6 DEF Waits, InLine
  <2>2. \A u \in person' : phase'[u] \notin {"none", "setup", "dispatching"}
    <3>1. person \subseteq Threads
      BY DEF LinesInv, RunInv, TableOK
    <3> QED BY <1>1, <1>2, <3>1
  <2>3. /\ gen' \in [Threads -> Gens \cup {0}]
        /\ \A u \in Threads : phase'[u] # "none" => gen'[u] \in Gens
    BY <1>1, <1>2
  <2> HIDE DEF S, H, A
  <2> QED BY <1>1, <2>1, <2>2, <2>3, PumpLine
<1> QED BY <1>7, <1>8

(* Of a set of one there are no two: the extra slot has one user at most.   *)
LEMMA AtMostOne ==
    ASSUME NEW x, NEW Y, Y \subseteq {x}
    PROVE  Cardinality(Y) <= 1
<1>1. CASE Y = {}
  BY <1>1, FS_EmptySet
<1>2. CASE Y = {x}
  BY SMTT(30), <1>2, FS_Singleton
<1> QED BY <1>1, <1>2

(* The run admission makes: it has a slot only if its bot had one left, or  *)
(* the extra one if nobody had it.                                          *)
LEMMA BornSlots ==
    ASSUME LinesInv, NEW t \in Threads, NEW k \in Kind, Born(t, k),
           slotLine[t].g = 0
    PROVE  SlotsGood(slotLine, SlotlessOnce(t, k), phase', reserved', kind)
<1> USE LinesNow
<1> DEFINE S == SlotlessOnce(t, k)
<1>1. /\ phase' = [phase EXCEPT ![t] = "setup"]
      /\ reserved' = (reserved \ {t}) \cup (IF Reserves(t, k) THEN {t} ELSE {})
      /\ S = (slotless \ {t}) \cup (IF NeedsSlot(t) /\ ~Reserves(t, k) THEN {t} ELSE {})
  BY DEF Born, SlotlessOnce
<1>2. /\ phase'[t] = "setup"
      /\ \A u \in Threads : u # t => /\ phase'[u] = phase[u]
                                     /\ u \in reserved' <=> u \in reserved
                                     /\ u \in S <=> u \in slotless
      /\ t \in reserved' <=> Reserves(t, k)
      /\ t \in S <=> NeedsSlot(t) /\ ~Reserves(t, k)
  BY <1>1
<1> HIDE DEF S
<1>3. S \in SUBSET Threads /\ S \cap reserved' = {}
  <2>1. S \subseteq Threads
    BY <1>1
  <2>2. \A u \in S : u \notin reserved'
    BY <1>2, <2>1 DEF SlotsGood
  <2> QED BY <2>1, <2>2
<1>4. \A u \in S : phase'[u] # "none"
  BY <1>2, <1>3 DEF SlotsGood
<1>5. \A u \in Threads : slotLine[u].g # 0 /\ phase'[u] \in Live => u \in S
  BY <1>2 DEF SlotsGood
<1>6. Others(t) \in SUBSET Threads /\ {t} \in SUBSET Threads
  BY DEF Others, RunsOf
<1>7. ASSUME NEW b \in Bots
      PROVE  /\ Cardinality(AtWork(b, phase', S, reserved')) <= Limit
             /\ Cardinality(Extra(b, phase', reserved')) <= 1
  <2> DEFINE W == AtWork(b, phase, slotless, reserved)
             X == Extra(b, phase, reserved)
             V == AtWork(b, phase', S, reserved')
             Y == Extra(b, phase', reserved')
  <2>1. /\ W \in SUBSET Threads /\ X \in SUBSET Threads
        /\ V \in SUBSET Threads /\ Y \in SUBSET Threads
    BY DEF AtWork, Extra
  <2>2. Cardinality(W) <= Limit /\ Cardinality(X) <= 1
    BY DEF SlotsGood
  <2>3. V \subseteq W \/ (V \subseteq Others(t) \cup {t} /\ ~NeedsSlot(t))
    <3>1. CASE t \notin V
      BY <1>2, <3>1 DEF AtWork
    <3>2. CASE t \in V
      <4>1. b = BotOf[t] /\ ~NeedsSlot(t)
        BY <1>2, <3>2 DEF AtWork, Reserves
      <4>2. V \subseteq Others(t) \cup {t}
        BY <1>2, <4>1 DEF AtWork, Others, RunsOf
      <4> QED BY <4>1, <4>2
    <3> QED BY <3>1, <3>2
  <2>4. Y \subseteq X \/ Y \subseteq {t}
    <3>1. CASE t \notin Y
      BY <1>2, <3>1 DEF Extra
    <3>2. CASE t \in Y
      <4>1. b = BotOf[t] /\ Others(t) \cap reserved = {}
        BY <1>2, <3>2 DEF Extra, Reserves
      <4> QED BY <1>2, <4>1 DEF Extra, Others, RunsOf
    <3> QED BY <3>1, <3>2
  <2> HIDE DEF W, X, V, Y
  <2>5. Cardinality(V) <= Limit
    <3>1. CASE V \subseteq W
      <4>1. Cardinality(V) <= Cardinality(W) /\ Cardinality(V) \in Nat /\ Cardinality(W) \in Nat
        BY <2>1, <3>1, Sizes
      <4> QED BY <2>2, <4>1, LimitAssumption
    <3>2. CASE V \subseteq Others(t) \cup {t} /\ ~NeedsSlot(t)
      <4>1. Others(t) \cup {t} \in SUBSET Threads
        BY <1>6
      <4>2. /\ Cardinality(V) <= Cardinality(Others(t) \cup {t})
            /\ Cardinality(Others(t) \cup {t}) <= Cardinality(Others(t)) + 1
        BY <1>6, <2>1, <3>2, <4>1, Sizes, UnionSizes, FS_Singleton
      <4>3. /\ Cardinality(V) \in Nat /\ Cardinality(Others(t)) \in Nat
            /\ Cardinality(Others(t) \cup {t}) \in Nat
        BY <1>6, <2>1, <4>1, Sizes
      <4>4. ~(Cardinality(Others(t)) >= Limit)
        BY <3>2 DEF NeedsSlot
      <4> QED BY <4>2, <4>3, <4>4, LimitAssumption
    <3> QED BY <2>3, <3>1, <3>2
  <2>6. Cardinality(Y) <= 1
    <3>1. CASE Y \subseteq X
      <4>1. Cardinality(Y) <= Cardinality(X) /\ Cardinality(Y) \in Nat /\ Cardinality(X) \in Nat
        BY <2>1, <3>1, Sizes
      <4> QED BY <2>2, <4>1
    <3>2. CASE Y \subseteq {t}
      BY <3>2, AtMostOne
    <3> QED BY <2>4, <3>1, <3>2
  <2> QED BY <2>5, <2>6 DEF V, Y
<1>8. SlotOrder(slotLine, kind)
  BY DEF SlotsGood
<1> QED BY <1>3, <1>4, <1>5, <1>7, <1>8 DEF SlotsGood, S

(* Admission leaves the lines alone.                                        *)
LEMMA AdmitLines ==
    ASSUME LinesInv, NEW t \in Threads, NEW k \in Kind, Admit(t, k)
    PROVE  SlotsOK' /\ LineOK'
<1> USE LinesNow
<1>1. /\ phase[t] = "none" /\ Born(t, k) /\ slotless' = SlotlessOnce(t, k)
      /\ holder' = holder /\ slotLine' = slotLine /\ line' = line
  BY DEF Admit
<1>2. slotLine[t].g = 0 /\ line[t].g = 0
  BY <1>1
<1>3. SlotsGood(slotLine, slotless', phase', reserved', kind)
  BY <1>1, <1>2, BornSlots
<1>4. /\ phase' = [phase EXCEPT ![t] = "setup"] /\ kind' = [kind EXCEPT ![t] = k]
      /\ person' = person \ {t}
      /\ \E g \in Gens \ {gen[t]} : gen' = [gen EXCEPT ![t] = g]
      /\ slotless' = (slotless \ {t})
                         \cup (IF NeedsSlot(t) /\ ~Reserves(t, k) THEN {t} ELSE {})
      /\ reserved' = (reserved \ {t}) \cup (IF Reserves(t, k) THEN {t} ELSE {})
  BY <1>1 DEF Born, SlotlessOnce
<1>5. \A u \in Threads : u # t => /\ phase'[u] = phase[u] /\ kind'[u] = kind[u]
                                  /\ gen'[u] = gen[u]
                                  /\ u \in slotless' <=> u \in slotless
                                  /\ u \in reserved' <=> u \in reserved
  BY <1>4
<1>6. SlotOrder(slotLine, kind')
  BY <1>2, <1>3, <1>5 DEF SlotsGood, SlotOrder
<1>7. SlotsGood(slotLine', slotless', phase', reserved', kind')
  BY <1>1, <1>3, <1>6 DEF SlotsGood
<1>8. SlotWake'
  <2> SUFFICES ASSUME NEW u \in Threads, slotLine[u].g # 0
               PROVE  Cardinality(AtWork(BotOf[u], phase', slotless', reserved')) >= Limit
    BY <1>1 DEF SlotWake
  <2> DEFINE W == AtWork(BotOf[u], phase, slotless, reserved)
             V == AtWork(BotOf[u], phase', slotless', reserved')
  <2>1. W \in SUBSET Threads /\ V \in SUBSET Threads /\ W \subseteq V
    BY <1>1, <1>5 DEF AtWork
  <2>2. Cardinality(W) >= Limit
    BY DEF SlotWake
  <2> HIDE DEF W, V
  <2>3. Cardinality(W) <= Cardinality(V) /\ Cardinality(W) \in Nat /\ Cardinality(V) \in Nat
    BY <2>1, Sizes
  <2>4. Cardinality(V) >= Limit
    BY <2>2, <2>3, LimitAssumption
  <2> QED BY <2>4 DEF V
<1>9. LineOK'
  <2>1. LineWake'
    <3> SUFFICES ASSUME NEW x \in Threads, line[x].g # 0
                 PROVE  \/ \E u \in line[x].ahead :
                               phase'[u] \in Live /\ Touching(line[u].want, line[x].want)
                        \/ /\ Away(holder, line[x].want, <<x, gen'[x]>>) # {}
                           /\ ~Yields(holder, line[x].want, <<x, gen'[x]>>,
                                      line[x].spare, person')
      BY <1>1 DEF LineWake, Own
    <3>1. gen'[x] = gen[x]
      BY <1>2, <1>5
    <3>2. CASE \E u \in line[x].ahead :
                   phase[u] \in Live /\ Touching(line[u].want, line[x].want)
      <4>1. PICK u \in line[x].ahead :
                phase[u] \in Live /\ Touching(line[u].want, line[x].want)
        BY <3>2
      <4>2. u \in Threads /\ u # t
        BY <1>1, <4>1 DEF Entry, Live
      <4> QED BY <1>5, <4>1, <4>2
    <3>3. CASE /\ Away(holder, line[x].want, Own(x)) # {}
               /\ ~Yields(holder, line[x].want, Own(x), line[x].spare, person)
      BY <1>4, <3>1, <3>3 DEF Yields, Own
    <3> QED BY <3>2, <3>3 DEF LineWake
  <2>2. \A u \in person' : phase'[u] \notin {"none", "setup", "dispatching"}
    <3>1. person \subseteq Threads
      BY DEF LinesInv, RunInv, TableOK
    <3> QED BY <1>4, <1>5, <3>1
  <2> QED BY <1>1, <2>1, <2>2 DEF LineOK
<1> QED BY <1>7, <1>8, <1>9 DEF SlotsOK

(* The rebuilt turn is admitted anew, and what the refused one held goes.   *)
LEMMA TakeOverLines ==
    ASSUME LinesInv, NEW t \in Threads, TakeOver(t)
    PROVE  SlotsOK' /\ LineOK'
<1> USE LinesNow
<1>1. phase[t] = "rebuilding" /\ slotLine[t].g = 0 /\ line[t].g = 0
  BY DEF TakeOver
<1>2. CASE Released(t, gen[t])
  BY <1>1, <1>2, ReleasedLines
<1>3. CASE /\ Born(t, kind[t])
           /\ Pump(Freed(holder, Own(t)), SlotlessOnce(t, kind[t]),
                   [at EXCEPT ![t] = "start"], slotLine, line)
  <2> DEFINE H == Freed(holder, Own(t))
             S == SlotlessOnce(t, kind[t])
             A == [at EXCEPT ![t] = "start"]
  <2>1. kind[t] \in Kind
    OBVIOUS
  <2>2. SlotsGood(slotLine, S, phase', reserved', kind)
    BY <1>1, <1>3, <2>1, BornSlots
  <2>3. Pump(H, S, A, slotLine, line)
    BY <1>3
  <2>4. PICK g \in Gens \ {gen[t]} : gen' = [gen EXCEPT ![t] = g]
    BY <1>3 DEF Born
  <2>5. /\ kind' = [kind EXCEPT ![t] = kind[t]] /\ phase' = [phase EXCEPT ![t] = "setup"]
        /\ person' = person \ {t}
    BY <1>3 DEF Born
  <2> HIDE DEF H, S, A
  <2>6. SlotsOK'
    <3>1. \A u \in Waits(slotLine) : kind'[u] = kind[u]
      BY <2>5 DEF Waits, InLine
    <3> QED BY <2>2, <2>3, <3>1, PumpSlots
  <2>7. LineOK'
    <3>1. \A u \in Waits(line) : phase'[u] = "setup"
      BY <1>1, <2>5 DEF Waits, InLine
    <3>2. \A u \in person' : phase'[u] \notin {"none", "setup", "dispatching"}
      <4>1. person \subseteq Threads
        BY DEF LinesInv, RunInv, TableOK
      <4> QED BY <2>5, <4>1
    <3>3. /\ gen' \in [Threads -> Gens \cup {0}]
          /\ \A u \in Threads : phase'[u] # "none" => gen'[u] \in Gens
      BY <2>4, <2>5
    <3> QED BY <2>3, <3>1, <3>2, <3>3, PumpLine
  <2> QED BY <2>6, <2>7
<1> QED BY <1>2, <1>3 DEF TakeOver

(* A place in the line of slots: an owner's send goes ahead of automation,  *)
(* and the line stays an order (awaitSlot's insertion by position).         *)
LEMMA PlaceOrder ==
    ASSUME LinesInv, NEW t \in Threads, phase[t] = "setup", slotLine[t].g = 0
    PROVE  SlotOrder(SlotPlace(t), kind)
<1> USE LinesNow
<1> DEFINE F == InLine(slotLine)
           late == IF kind[t] # "owner" THEN {} ELSE {u \in F : kind[u] # "owner"}
           Q == SlotPlace(t)
<1>1. SlotOrder(slotLine, kind)
  BY DEF SlotsGood
<1>2. /\ \A u \in F : u \in Threads /\ u # t /\ slotLine[u].g # 0
      /\ \A u \in Threads : slotLine[u].g # 0 => u \in F
  BY DEF InLine
<1>3. Q[t].g = gen[t] /\ Q[t].ahead = F \ late
  <2>1. Q[t] = [Off EXCEPT !.g = gen[t], !.ahead = F \ late]
    BY Zenon DEF SlotPlace
  <2> QED BY <2>1 DEF Off
<1>4. ASSUME NEW u \in Threads, u # t
      PROVE  /\ Q[u].g = slotLine[u].g
             /\ u \in late => Q[u].ahead = slotLine[u].ahead \cup {t}
             /\ u \notin late => Q[u].ahead = slotLine[u].ahead
  <2>1. Q[u] = IF u \in late THEN [slotLine[u] EXCEPT !.ahead = @ \cup {t}]
               ELSE slotLine[u]
    BY <1>4, Zenon DEF SlotPlace
  <2>2. slotLine[u] \in Entry
    OBVIOUS
  <2> QED BY <2>1, <2>2 DEF Entry
<1>5. \A u \in F : u \in late <=> kind[t] = "owner" /\ kind[u] # "owner"
  OBVIOUS
<1>6. late \subseteq F
  OBVIOUS
<1> HIDE DEF Q, late, F
<1>7. t \notin F /\ F \subseteq Threads
  BY <1>2 DEF F, InLine
<1> DEFINE B(u) == slotLine[u].ahead
<1>8. \A u, v \in F : /\ u \in B(v) => u # v /\ B(u) \subseteq B(v)
                      /\ u # v => u \in B(v) \/ v \in B(u)
                      /\ kind[u] = "owner" /\ kind[v] # "owner" => u \in B(v)
                      /\ u \in B(v) /\ kind[v] = "owner" => kind[u] = "owner"
  BY <1>1, <1>2 DEF SlotOrder
<1>9. \A v \in F : B(v) \subseteq F
  <2>1. \A v \in Threads : B(v) \subseteq Threads
    BY DEF Entry
  <2> QED BY <1>1, <1>2, <2>1 DEF SlotOrder
<1> DEFINE C(u) == Q[u].ahead
<1>10. /\ \A v \in Threads : v \in F => (Q[v].g # 0 /\ C(v) = IF v \in late THEN B(v) \cup {t} ELSE B(v))
       /\ \A v \in Threads : v # t /\ v \notin F => Q[v].g = 0
       /\ C(t) = F \ late
  BY <1>2, <1>3, <1>4, <1>6
<1> HIDE DEF B, C
<1>11. ASSUME NEW x \in F, NEW u \in F
       PROVE  /\ u \in C(x) => u # x /\ C(u) \subseteq C(x)
              /\ u # x => u \in C(x) \/ x \in C(u)
              /\ kind[u] = "owner" /\ kind[x] # "owner" => u \in C(x)
              /\ u \in C(x) /\ kind[x] = "owner" => kind[u] = "owner"
  <2>1. /\ C(x) = IF x \in late THEN B(x) \cup {t} ELSE B(x)
        /\ C(u) = IF u \in late THEN B(u) \cup {t} ELSE B(u)
    BY <1>7, <1>10
  <2>2. u \in C(x) <=> u \in B(x)
    BY <1>7, <2>1
  <2>3. x \in C(u) <=> x \in B(u)
    BY <1>7, <2>1
  <2>4. u \in B(x) /\ u \in late => x \in late
    BY <1>5, <1>8
  <2>5. u \in B(x) => C(u) \subseteq C(x)
    BY <1>8, <2>1, <2>4
  <2> QED BY <1>8, <2>2, <2>3, <2>5
<1>12. ASSUME NEW u \in F
       PROVE  /\ u \in C(t) <=> u \notin late
              /\ t \in C(u) <=> u \in late
              /\ u \notin late => C(u) \subseteq C(t)
              /\ u \in late => C(t) \subseteq C(u)
  <2>1. /\ C(u) = IF u \in late THEN B(u) \cup {t} ELSE B(u)
        /\ C(t) = F \ late
    BY <1>7, <1>10
  <2>2. t \notin B(u)
    BY <1>7, <1>9
  <2>3. ASSUME u \notin late, NEW v \in B(u)
        PROVE  v \in F \ late
    BY <1>5, <1>8, <1>9, <2>3
  <2>4. ASSUME u \in late, NEW v \in F \ late
        PROVE  v \in B(u)
    BY <1>5, <1>8, <2>4
  <2> QED BY <2>1, <2>2, <2>3, <2>4
<1>13. ASSUME NEW x \in Threads, NEW u \in Threads, x \in F \/ x = t
       PROVE  /\ u \in C(x) => u # x /\ (u \in F \/ u = t) /\ C(u) \subseteq C(x)
              /\ (u \in F \/ u = t) /\ u # x => u \in C(x) \/ x \in C(u)
              /\ (u \in F \/ u = t) /\ kind[u] = "owner" /\ kind[x] # "owner"
                     => u \in C(x)
              /\ u \in C(x) /\ kind[x] = "owner" => kind[u] = "owner"
  <2>1. u \in C(x) => u \in F \/ u = t
    BY <1>9, <1>10, <1>13
  <2>2. CASE x \in F /\ u \in F
    BY <1>11, <2>2
  <2>3. CASE x = t /\ u \in F
    BY <1>5, <1>7, <1>12, <2>3
  <2>4. CASE x \in F /\ u = t
    BY <1>5, <1>7, <1>12, <2>4
  <2>5. CASE x = t /\ u = t
    BY <1>7, <1>10, <2>5
  <2> QED BY <1>13, <2>1, <2>2, <2>3, <2>4, <2>5
<1>14. \A u \in Threads : Q[u].g # 0 => u \in F \/ u = t
  BY <1>10
<1>15. ASSUME NEW u \in Threads, u \in F
       PROVE  Q[u].g # 0
  BY <1>10, <1>15
<1>16. Q[t].g # 0
  BY <1>3, GensAssumption
<1>17. \A u \in Threads : Q[u].g # 0 <=> u \in F \/ u = t
  BY <1>14, <1>15, <1>16
<1> QED BY <1>13, <1>17 DEF SlotOrder, C, Q

(* Setup comes to its slot: it has one, or takes its place in the line.     *)
LEMMA AwaitSlotLines ==
    ASSUME LinesInv, NEW t \in Threads, AwaitSlot(t)
    PROVE  SlotsOK' /\ LineOK' /\ StartsOut'
<1> USE LinesNow
<1>1. /\ phase[t] = "setup" /\ at[t] = "start" /\ slotLine[t].g = 0
      /\ UNCHANGED <<gen, phase, kind, claims, rest, need, person, reserved>>
  BY DEF AwaitSlot, LinesInv, StartsOut
<1>2. at \in [Threads -> Place]
  BY NowFacts DEF LinesInv, Typed
<1>3. CASE /\ at' = [at EXCEPT ![t] = "setup"]
           /\ UNCHANGED <<holder, slotless, slotLine, line>>
  <2>1. SlotsOK' /\ LineOK'
    BY <1>1, <1>3, AloneKeeps
  <2>2. StartsOut'
    BY <1>2, <1>3 DEF LinesInv, StartsOut
  <2> QED BY <2>1, <2>2
<1>4. CASE /\ t \in slotless
           /\ Pump(holder, slotless, [at EXCEPT ![t] = "setup"], SlotPlace(t), line)
  <2> DEFINE A == [at EXCEPT ![t] = "setup"]
             SL == SlotPlace(t)
  <2>1. Pump(holder, slotless, A, SL, line)
    BY <1>4
  <2>2. /\ SL \in [Threads -> Entry]
        /\ \A u \in Threads : SL[u].g = IF u = t THEN gen[t] ELSE slotLine[u].g
    BY <1>1, PlaceTyped DEF LinesInv
  <2>3. SlotOrder(SL, kind)
    BY <1>1, PlaceOrder
  <2>4. \A u \in Threads : A[u] = "start" => u # t /\ at[u] = "start"
    BY <1>2
  <2> HIDE DEF A, SL
  <2>5. SlotsGood(SL, slotless, phase, reserved, kind)
    BY <1>4, <2>2, <2>3 DEF SlotsGood
  <2>6. SlotsOK'
    <3>1. SlotsGood(SL, slotless, phase', reserved', kind)
      BY <1>1, <2>5
    <3>2. \A u \in Waits(SL) : kind'[u] = kind[u]
      BY <1>1
    <3> QED BY <2>1, <2>2, <3>1, <3>2, PumpSlots
  <2>7. LineOK'
    <3>1. \A u \in Waits(line) : phase'[u] = "setup"
      BY <1>1 DEF Waits, InLine
    <3>2. \A u \in person' : phase'[u] \notin {"none", "setup", "dispatching"}
      BY <1>1
    <3>3. /\ gen' \in [Threads -> Gens \cup {0}]
          /\ \A u \in Threads : phase'[u] # "none" => gen'[u] \in Gens
      BY <1>1
    <3> QED BY <2>1, <3>1, <3>2, <3>3, PumpLine
  <2>8. StartsOut'
    <3>1. \A u \in Threads : A[u] = "start" => SL[u].g = 0 \/ u \notin Waits(SL)
      BY <2>2, <2>4 DEF LinesInv, StartsOut
    <3> QED BY <2>1, <2>2, <3>1, PumpStarts
  <2> QED BY <2>6, <2>7, <2>8
<1> QED BY <1>3, <1>4 DEF AwaitSlot

(* Every other step that looks at the lines finds no newcomer in them.      *)
LEMMA StartsKept ==
    ASSUME LinesInv, NEW t \in Threads,
           \/ \E k \in Kind : Admit(t, k)
           \/ \E ask \in First[t] \cup Later[t] : Claim(t, ask)
           \/ ClaimRest(t)
           \/ \E R \in SUBSET Returnable : GiveBack(t, R)
           \/ Dispatch(t) \/ Accepted(t) \/ Settling(t) \/ HoldForRebuild(t)
           \/ AsksPerson(t) \/ PersonAnswers(t)
           \/ Stop(t)
           \/ \E g \in Gens : Release(t, g)
           \/ TakeOver(t)
    PROVE  StartsOut'
<1> USE LinesNow
<1>1. at \in [Threads -> Place] /\ StartsOut
  BY NowFacts DEF LinesInv, Typed
<1>2. ASSUME NEW H, NEW L, Pump(H, slotless, at, slotLine, L)
      PROVE  StartsOut'
  BY <1>1, <1>2, PumpStarts DEF StartsOut
<1>3. ASSUME NEW H, NEW L, Pump(H, slotless, [at EXCEPT ![t] = "setup"], slotLine, L)
      PROVE  StartsOut'
  <2> DEFINE A == [at EXCEPT ![t] = "setup"]
  <2>1. \A u \in Threads : A[u] = "start" => at[u] = "start"
    BY <1>1
  <2>2. Pump(H, slotless, A, slotLine, L)
    BY <1>3
  <2> HIDE DEF A
  <2> QED BY <1>1, <2>1, <2>2, PumpStarts DEF StartsOut
<1>4. ASSUME NEW H, NEW S, NEW L, Pump(H, S, [at EXCEPT ![t] = "start"], slotLine, L),
             slotLine[t].g = 0 \/ phase' = [phase EXCEPT ![t] = "none"]
      PROVE  StartsOut'
  <2> DEFINE A == [at EXCEPT ![t] = "start"]
  <2>1. \A u \in Threads : A[u] = "start" => u = t \/ at[u] = "start"
    BY <1>1
  <2>2. slotLine[t].g = 0 \/ t \notin Waits(slotLine)
    BY <1>4 DEF Waits, InLine, Live
  <2>3. Pump(H, S, A, slotLine, L)
    BY <1>4
  <2> HIDE DEF A
  <2> QED BY <1>1, <2>1, <2>2, <2>3, PumpStarts DEF StartsOut
<1>5. ASSUME NEW p \in Place, at' = [at EXCEPT ![t] = p] \/ at' = at,
             p # "start" \/ slotLine[t].g = 0, slotLine' = slotLine
      PROVE  StartsOut'
  BY <1>1, <1>5 DEF StartsOut
<1>6. ASSUME NEW g \in Gens \cup {0}, Released(t, g)
      PROVE  StartsOut'
  BY <1>4, <1>6 DEF Released
<1>7. ASSUME NEW want, NEW spare, Acquire(t, want, spare)
      PROVE  StartsOut'
  BY <1>3, <1>5, <1>7 DEF Acquire, Place
<1>8. CASE \E k \in Kind : Admit(t, k)
  <2>1. phase[t] = "none" /\ at' = [at EXCEPT ![t] = "start"] /\ slotLine' = slotLine
    BY <1>8 DEF Admit
  <2>2. slotLine[t].g = 0
    BY <2>1
  <2> QED BY <1>5, <2>1, <2>2 DEF Place
<1>9. CASE \E ask \in First[t] \cup Later[t] : Claim(t, ask)
  BY <1>7, <1>9 DEF Claim
<1>10. CASE ClaimRest(t)
  BY <1>5, <1>7, <1>10 DEF ClaimRest, Place
<1>11. CASE \E R \in SUBSET Returnable : GiveBack(t, R)
  BY <1>2, <1>11 DEF GiveBack
<1>12. CASE Dispatch(t) \/ Accepted(t) \/ Settling(t)
  <2>1. at' = at /\ slotLine' = slotLine
    BY <1>12 DEF Dispatch, Accepted, Settling, Keeps
  <2> QED BY <1>1, <2>1 DEF StartsOut
<1>13. CASE HoldForRebuild(t) \/ AsksPerson(t) \/ PersonAnswers(t)
  BY <1>2, <1>13 DEF HoldForRebuild, AsksPerson, PersonAnswers, Looks
<1>14. CASE Stop(t)
  BY <1>2, <1>6, <1>14 DEF Stop, Looks
<1>15. CASE \E g \in Gens : Release(t, g)
  BY <1>6, <1>15 DEF Release
<1>16. CASE TakeOver(t)
  <2>1. slotLine[t].g = 0
    BY <1>16 DEF TakeOver
  <2>2. CASE Released(t, gen[t])
    BY <1>6, <2>2
  <2>3. CASE Pump(Freed(holder, Own(t)), SlotlessOnce(t, kind[t]),
                  [at EXCEPT ![t] = "start"], slotLine, line)
    BY <1>4, <2>1, <2>3
  <2> QED BY <1>16, <2>2, <2>3 DEF TakeOver
<1> QED BY <1>8, <1>9, <1>10, <1>11, <1>12, <1>13, <1>14, <1>15, <1>16

(* In the first state the lines are empty.                                  *)
LEMMA LinesInit == Init => LinesInv
<1> SUFFICES ASSUME Init PROVE LinesInv
  OBVIOUS
<1>1. RunInv
  BY RunInit
<1>2. \A t \in Threads : /\ slotLine[t].g = 0 /\ line[t].g = 0 /\ line[t].want = {}
                         /\ phase[t] = "none"
  BY DEF Init, Off
<1>3. \A b \in Bots : /\ AtWork(b, phase, slotless, reserved) = {}
                      /\ Extra(b, phase, reserved) = {}
  BY <1>2 DEF AtWork, Extra
<1>4. SlotsGood(slotLine, slotless, phase, reserved, kind)
  <2>1. slotless = {} /\ reserved = {}
    BY DEF Init
  <2>2. Cardinality({}) = 0
    BY FS_EmptySet
  <2>3. SlotOrder(slotLine, kind)
    BY <1>2 DEF SlotOrder
  <2>4. \A b \in Bots : /\ Cardinality(AtWork(b, phase, slotless, reserved)) <= Limit
                        /\ Cardinality(Extra(b, phase, reserved)) <= 1
    BY <1>3, <2>2, LimitAssumption
  <2> QED BY <1>2, <2>1, <2>3, <2>4 DEF SlotsGood
<1>5. SlotWake /\ LineOK /\ StartsOut
  BY <1>2 DEF SlotWake, LineOK, LineWake, StartsOut, Init
<1> QED BY <1>1, <1>4, <1>5 DEF LinesInv, SlotsOK

(* Every step keeps both lines in order.                                    *)
LEMMA LinesStep == LinesInv /\ [Next]_vars => LinesInv'
<1> SUFFICES ASSUME LinesInv, [Next]_vars PROVE LinesInv'
  OBVIOUS
<1>1. RunInv'
  BY RunStep DEF LinesInv
<1>2. ASSUME NEW t \in Threads, NEW k \in Kind, Admit(t, k)
      PROVE  SlotsOK' /\ LineOK' /\ StartsOut'
  BY <1>2, AdmitLines, StartsKept
<1>3. ASSUME NEW t \in Threads,
             \/ \E ask \in First[t] \cup Later[t] : Claim(t, ask)
             \/ ClaimRest(t)
             \/ \E R \in SUBSET Returnable : GiveBack(t, R)
      PROVE  SlotsOK' /\ LineOK' /\ StartsOut'
  BY <1>3, ClaimLines, StartsKept
<1>4. ASSUME NEW t \in Threads,
             \/ Dispatch(t) \/ Accepted(t) \/ Settling(t) \/ HoldForRebuild(t)
             \/ AsksPerson(t) \/ PersonAnswers(t)
      PROVE  SlotsOK' /\ LineOK' /\ StartsOut'
  BY <1>4, TurnLines, StartsKept
<1>5. ASSUME NEW t \in Threads, Stop(t)
      PROVE  SlotsOK' /\ LineOK' /\ StartsOut'
  <2>1. StartsOut'
    BY <1>5, StartsKept
  <2>2. CASE phase[t] \in Live \cup {"settling"} /\ Moves(t, "stopping") /\ Looks
    BY <2>1, <2>2, TurnLines
  <2>3. CASE phase[t] = "rebuilding" /\ Released(t, gen[t])
    BY <2>1, <2>3, ReleasedLines
  <2> QED BY <1>5, <2>2, <2>3 DEF Stop
<1>6. ASSUME NEW t \in Threads, NEW g \in Gens, Release(t, g)
      PROVE  SlotsOK' /\ LineOK' /\ StartsOut'
  <2>1. phase[t] # "none" /\ Released(t, gen[t])
    BY <1>6 DEF Release, Current
  <2> QED BY <1>6, <2>1, ReleasedLines, StartsKept
<1>7. ASSUME NEW t \in Threads, TakeOver(t)
      PROVE  SlotsOK' /\ LineOK' /\ StartsOut'
  BY <1>7, TakeOverLines, StartsKept
<1>8. CASE UNCHANGED vars
  <2> USE <1>8 DEF vars
  <2>1. SlotsGood(slotLine', slotless', phase', reserved', kind')
    BY LinesNow
  <2>2. SlotWake'
    BY LinesNow DEF SlotWake, AtWork
  <2>3. LineOK'
    BY LinesNow DEF LineOK, LineWake, Own, Yields, Away
  <2>4. StartsOut'
    BY DEF LinesInv, StartsOut
  <2> QED BY <1>1, <2>1, <2>2, <2>3, <2>4 DEF LinesInv, SlotsOK
<1>9. ASSUME NEW t \in Threads, AwaitSlot(t)
      PROVE  SlotsOK' /\ LineOK' /\ StartsOut'
  BY <1>9, AwaitSlotLines
<1> QED BY <1>1, <1>2, <1>3, <1>4, <1>5, <1>6, <1>7, <1>8, <1>9 DEF Next, LinesInv

(* The invariant holds in every state of the thread runs.                   *)
LEMMA LinesAlways == Spec => []LinesInv
BY LinesInit, LinesStep, PTL DEF Spec

(* No wake-up is lost: a full bot keeps a turn in the line of slots, a      *)
(* holder it may not go on without or an earlier waiter in the line for     *)
(* resources, and nothing else (pump after every release, hand-back, Stop   *)
(* and answer).                                                             *)
THEOREM WakeUpsKept == Spec => []NoLostWakeup
<1>1. ASSUME LinesInv PROVE NoLostWakeup
  <2>1. SlotWake /\ LineWake
    BY <1>1, LinesNow
  <2>2. \A b : AtWork(b, phase, slotless, reserved) = RunsOf(b) \ (slotless \cup reserved)
    BY DEF AtWork, RunsOf
  <2> QED BY <2>1, <2>2 DEF SlotWake, LineWake, NoLostWakeup
<1> QED BY <1>1, LinesAlways, PTL

(* A bot has at most Limit turns at work and one more of its owner's,       *)
(* whatever was admitted, seated, stopped or taken over (admitFree, pump).  *)
THEOREM SlotsBounded == Spec => []SlotLimit
<1>1. ASSUME LinesInv PROVE SlotLimit
  <2>1. SlotsGood(slotLine, slotless, phase, reserved, kind)
    BY <1>1, LinesNow
  <2>2. \A b : /\ AtWork(b, phase, slotless, reserved) = RunsOf(b) \ (slotless \cup reserved)
               /\ Extra(b, phase, reserved) = RunsOf(b) \cap reserved
    BY DEF AtWork, Extra, RunsOf
  <2> QED BY <2>1, <2>2 DEF SlotsGood, SlotLimit
<1> QED BY <1>1, LinesAlways, PTL
-----------------------------------------------------------------------------
(* Who passes whom *)

(* In this step no run gets what an earlier waiter waits for, unless it     *)
(* holds something already.                                                 *)
NobodyPasses ==
    \A t, u \in Threads :
        /\ line[t].g # 0 /\ line'[t].g = line[t].g
        /\ Touching(HeldBy(holder', Own(u)) \ HeldBy(holder, Own(u)),
                    line[t].want)
        => HeldBy(holder, Own(u)) # {} \/ u \in line[t].ahead

(* Whoever a look serves before one that stays was ahead of it (the blocked *)
(* waiter holds back what overlaps its own).                                *)
LEMMA PumpPasses ==
    ASSUME NEW H, NEW S, NEW A, NEW SL, NEW L \in [Threads -> Entry],
           Ordered(L), Pump(H, S, A, SL, L),
           \A t \in Threads : line[t].g # 0 => L[t] = line[t],
           \A r \in Resources : H[r] = holder[r] \/ H[r] = Nobody,
           gen \in [Threads -> Gens \cup {0}]
    PROVE  NobodyPasses
<1>1. PICK go \in SUBSET Waits(L) : \E yield \in SUBSET Waits(L) :
          /\ Serves(H, L, go, yield)
          /\ holder' = Granted(H, L, go)
          /\ line' = Left(L, Waits(L) \ (go \cup yield))
  BY DEF Pump
<1>2. PICK yield \in SUBSET Waits(L) :
          /\ Serves(H, L, go, yield)
          /\ holder' = Granted(H, L, go)
          /\ line' = Left(L, Waits(L) \ (go \cup yield))
  BY <1>1
<1> DEFINE stay == Waits(L) \ (go \cup yield)
<1>3. \A u \in go : ~ \E v \in L[u].ahead \cap stay : Touching(L[v].want, L[u].want)
  BY <1>2 DEF Serves
<1>4. \A u \in Waits(L) : u \in Threads /\ L[u].g # 0
  BY DEF Waits, InLine
<1> SUFFICES ASSUME NEW t \in Threads, NEW u \in Threads,
                    line[t].g # 0, line'[t].g = line[t].g,
                    NEW q \in HeldBy(holder', Own(u)) \ HeldBy(holder, Own(u)),
                    NEW r \in line[t].want, <<q, r>> \in Touch
             PROVE  u \in line[t].ahead
  BY Zenon DEF NobodyPasses, Touching
<1>5. L[t] = line[t]
  OBVIOUS
<1>6. t \in stay
  <2> HIDE DEF stay
  <2>1. line' = Left(L, stay)
    BY <1>2 DEF stay
  <2> QED BY <2>1, LeftIs
<1>7. q \in Resources /\ holder'[q] = <<u, gen[u]>> /\ holder[q] # <<u, gen[u]>>
  BY DEF HeldBy, Own
<1>8. <<u, gen[u]>> # Nobody
  BY NobodyAssumption
<1>9. u \in go /\ q \in L[u].want
  <2>1. CASE \E v \in go : q \in L[v].want /\ Granted(H, L, go)[q] = <<v, L[v].g>>
    BY <1>2, <1>7, <2>1
  <2>2. CASE Granted(H, L, go)[q] = H[q]
    BY <1>2, <1>7, <1>8, <2>2
  <2> QED BY <1>7, <2>1, <2>2, GrantedIs
<1>10. t # u
  BY <1>6, <1>9
<1>11. Touching(L[t].want, L[u].want)
  BY <1>5, <1>9, TouchAssumption DEF Touching
<1>12. t \notin L[u].ahead
  BY <1>3, <1>6, <1>9, <1>11
<1>13. L[t].g # 0 /\ L[u].g # 0
  BY <1>4, <1>6, <1>9
<1> QED BY <1>5, <1>10, <1>12, <1>13 DEF Ordered

(* A newcomer that takes what is free has looked at the line, and joins it  *)
(* at the end.                                                              *)
LEMMA AcquirePasses ==
    ASSUME LinesInv, NEW t \in Threads, SettingUp(t), NEW want, NEW spare,
           want \in SUBSET Resources, spare \in SUBSET Resources,
           Acquire(t, want, spare)
    PROVE  NobodyPasses
<1> USE LinesNow
<1> DEFINE o == Own(t)
           W == Wanted(t, want)
<1>1. CASE holder' = holder
  BY <1>1 DEF NobodyPasses, HeldBy, Touching
<1>2. CASE /\ HeldBy(holder, o) # {} \/ QueuedFor(t, W) = {}
           /\ holder' = ClaimAll(holder, W, o)
  <2> SUFFICES ASSUME NEW v \in Threads, NEW u \in Threads, line[v].g # 0,
                      NEW q \in HeldBy(holder', Own(u)) \ HeldBy(holder, Own(u)),
                      NEW r \in line[v].want, <<q, r>> \in Touch,
                      HeldBy(holder, Own(u)) = {}
               PROVE  FALSE
    BY Zenon DEF NobodyPasses, Touching
  <2>1. q \in Resources /\ holder'[q] = Own(u) /\ holder[q] # Own(u)
    BY DEF HeldBy
  <2>2. q \in W /\ o = Own(u)
    BY <1>2, <2>1 DEF ClaimAll
  <2>3. QueuedFor(t, W) = {}
    BY <1>2, <2>2
  <2>4. v \in InLine(line) \ {t}
    BY DEF InLine, SettingUp, Waiting
  <2>5. Touching(line[v].want, {q})
    BY TouchAssumption DEF Touching
  <2> QED BY <2>2, <2>3, <2>4, <2>5 DEF QueuedFor
<1>3. CASE Pump(LetGo(holder, o), slotless, [at EXCEPT ![t] = "setup"], slotLine,
                [line EXCEPT ![t] = [g |-> gen[t], want |-> W, spare |-> spare,
                                     ahead |-> InLine(line)]])
  <2> DEFINE L == [line EXCEPT ![t] = [g |-> gen[t], want |-> W, spare |-> spare,
                                       ahead |-> InLine(line)]]
             H == LetGo(holder, o)
             A == [at EXCEPT ![t] = "setup"]
  <2>1. phase[t] = "setup" /\ gen[t] \in Gens /\ line[t].g = 0
    BY DEF SettingUp, Waiting
  <2>2. W \in SUBSET Resources /\ InLine(line) \in SUBSET Threads
    BY DEF Wanted, HeldBy, InLine
  <2>3. L \in [Threads -> Entry]
    BY <2>1, <2>2 DEF Entry
  <2>4. Ordered(line)
    BY NowFacts DEF LinesInv
  <2>5. Ordered(L)
    BY <2>1, <2>4 DEF Ordered, InLine
  <2>6. \A u \in Threads : line[u].g # 0 => L[u] = line[u]
    BY <2>1
  <2>7. \A r \in Resources : H[r] = holder[r] \/ H[r] = Nobody
    BY DEF LetGo, Freed
  <2>8. Pump(H, slotless, A, slotLine, L)
    BY <1>3
  <2> HIDE DEF L, H, A
  <2> QED BY <2>3, <2>5, <2>6, <2>7, <2>8, PumpPasses
<1> QED BY <1>1, <1>2, <1>3 DEF Acquire

(* No step lets a newcomer pass.                                            *)
LEMMA StepPasses == LinesInv /\ [Next]_vars => [NobodyPasses]_vars
<1> SUFFICES ASSUME LinesInv, [Next]_vars PROVE [NobodyPasses]_vars
  OBVIOUS
<1> USE LinesNow
<1>1. Ordered(line)
  BY NowFacts DEF LinesInv
<1>2. ASSUME holder' = holder PROVE NobodyPasses
  BY <1>2 DEF NobodyPasses, HeldBy, Touching
<1>3. ASSUME NEW H, NEW S, NEW A, NEW SL, Pump(H, S, A, SL, line),
             \A r \in Resources : H[r] = holder[r] \/ H[r] = Nobody
      PROVE  NobodyPasses
  BY <1>1, <1>3, PumpPasses
<1>4. ASSUME NEW t \in Threads, NEW g, Released(t, g)
      PROVE  NobodyPasses
  <2>1. PICK S, A : Pump(Freed(holder, <<t, g>>), S, A, slotLine, line)
    BY <1>4 DEF Released
  <2> QED BY <1>3, <2>1 DEF Freed
<1>5. ASSUME NEW t \in Threads, NEW ask \in First[t] \cup Later[t], Claim(t, ask)
      PROVE  NobodyPasses
  <2>1. ask.want \in SUBSET Resources /\ ask.spare \in SUBSET Resources
    BY UseAssumption DEF Ask
  <2>2. SettingUp(t) /\ Acquire(t, ask.want, ask.spare)
    BY <1>5 DEF Claim
  <2> QED BY <2>1, <2>2, AcquirePasses
<1>6. ASSUME NEW t \in Threads, ClaimRest(t)
      PROVE  NobodyPasses
  <2>1. rest[t] \in SUBSET Resources /\ {} \in SUBSET Resources
    BY DEF LinesInv, RunInv, TableOK
  <2>2. SettingUp(t) /\ (holder' = holder \/ Acquire(t, rest[t], {}))
    BY <1>6 DEF ClaimRest
  <2> QED BY <1>2, <2>1, <2>2, AcquirePasses
<1>7. ASSUME NEW t \in Threads, NEW R \in SUBSET Returnable, GiveBack(t, R)
      PROVE  NobodyPasses
  <2> DEFINE H == [r \in Resources |-> IF r \in R THEN Nobody ELSE holder[r]]
  <2>1. Pump(H, slotless, at, slotLine, line)
    BY <1>7 DEF GiveBack
  <2>2. \A r \in Resources : H[r] = holder[r] \/ H[r] = Nobody
    OBVIOUS
  <2> HIDE DEF H
  <2> QED BY <1>3, <2>1, <2>2
<1>8. ASSUME NEW t \in Threads,
             \/ AwaitSlot(t) \/ HoldForRebuild(t) \/ AsksPerson(t) \/ PersonAnswers(t)
             \/ Dispatch(t) \/ Accepted(t) \/ Settling(t) \/ \E k \in Kind : Admit(t, k)
      PROVE  NobodyPasses
  <2>1. \/ holder' = holder
        \/ \E A, SL : Pump(holder, slotless, A, SL, line)
    BY <1>8 DEF AwaitSlot, HoldForRebuild, AsksPerson, PersonAnswers, Looks,
                Dispatch, Accepted, Settling, Keeps, Admit
  <2> QED BY <1>2, <1>3, <2>1
<1>9. ASSUME NEW t \in Threads, Stop(t)
      PROVE  NobodyPasses
  BY <1>3, <1>4, <1>9 DEF Stop, Looks
<1>10. ASSUME NEW t \in Threads, TakeOver(t)
       PROVE  NobodyPasses
  <2>1. CASE Released(t, gen[t])
    BY <1>4, <2>1
  <2>2. CASE \E S, A : Pump(Freed(holder, Own(t)), S, A, slotLine, line)
    BY <1>3, <2>2 DEF Freed
  <2> QED BY <1>10, <2>1, <2>2 DEF TakeOver
<1>11. ASSUME NEW t \in Threads, NEW g \in Gens, Release(t, g)
       PROVE  NobodyPasses
  BY <1>4, <1>11 DEF Release
<1>12. CASE UNCHANGED vars
  BY <1>12
<1> QED BY <1>5, <1>6, <1>7, <1>8, <1>9, <1>10, <1>11, <1>12 DEF Next

(* A run never gets what an earlier waiter waits for, unless it holds       *)
(* something already: newcomers stay behind the line, over releases,        *)
(* hand-backs and rebuilds (TurnResources.acquire and pump).                *)
THEOREM NewcomersBehind == Spec => PassesOnlyHolding
<1>1. LinesInv /\ [Next]_vars =>
          [\A t, u \in Threads :
               /\ line[t].g # 0 /\ line'[t].g = line[t].g
               /\ Touching(HeldBy(holder', Own(u)) \ HeldBy(holder, Own(u)),
                           line[t].want)
               => HeldBy(holder, Own(u)) # {} \/ u \in line[t].ahead]_vars
  BY StepPasses DEF NobodyPasses
<1> QED BY <1>1, LinesAlways, PTL DEF Spec, PassesOnlyHolding
-----------------------------------------------------------------------------
(* What a new turn leaves to those that wait for a slot *)

(* A plain start leaves a slot for each run that was admitted without one.  *)
LEMMA StepPlain ==
    LinesInv /\ [Next]_vars =>
        [\A t \in Threads :
             phase[t] = "none" /\ phase'[t] = "setup" /\ kind'[t] = "plain"
             => \A u \in slotless' :
                    BotOf[u] = BotOf[t] =>
                        Cardinality(InUse(BotOf[t], slotless')
                                      \cup {v \in slotless' : BotOf[v] = BotOf[t]})
                        <= Limit]_vars
<1> SUFFICES ASSUME LinesInv, Next, NEW t \in Threads,
                    phase[t] = "none", phase'[t] = "setup", kind'[t] = "plain"
             PROVE  Cardinality(InUse(BotOf[t], slotless')
                                  \cup {v \in slotless' : BotOf[v] = BotOf[t]})
                    <= Limit
  OBVIOUS
<1>1. PICK k \in Kind : Admit(t, k)
  <2>1. PICK u \in Threads :
            \/ \E k \in Kind : Admit(u, k)
            \/ phase' = phase
            \/ \E p : phase' = [phase EXCEPT ![u] = p] /\ (phase[u] # "none" \/ p = "none")
    BY ZenonT(40) DEF Next, AwaitSlot, Claim, ClaimRest, GiveBack, Dispatch, Accepted, Settling,
           AsksPerson, PersonAnswers, Stop, Release, Released, Current, HoldForRebuild,
           TakeOver, Born, Moves, SettingUp, Live
  <2>2. phase \in [Threads -> Phase]
    BY LinesNow
  <2>3. PICK k \in Kind : Admit(u, k)
    BY <2>1, <2>2
  <2>4. phase' = [phase EXCEPT ![u] = "setup"]
    BY <2>3 DEF Admit, Born
  <2>5. u = t
    BY <2>2, <2>4
  <2> QED BY <2>3, <2>5
<1>2. /\ phase' = [phase EXCEPT ![t] = "setup"] /\ slotless' = SlotlessOnce(t, k)
      /\ kind' = [kind EXCEPT ![t] = k] /\ (NeedsSlot(t) => k # "plain")
  BY <1>1 DEF Admit, Born
<1> USE LinesNow
<1>3. ~NeedsSlot(t)
  BY <1>2
<1>4. slotless' \subseteq slotless
  BY <1>2, <1>3 DEF SlotlessOnce
<1>5. \A v \in slotless : v \in Threads /\ phase[v] # "none"
  BY DEF SlotsGood
<1> DEFINE W == InUse(BotOf[t], slotless') \cup {v \in slotless' : BotOf[v] = BotOf[t]}
<1>6. W \subseteq Others(t) \cup {t}
  BY <1>2, <1>4, <1>5 DEF InUse, Others, RunsOf
<1>7. Others(t) \in SUBSET Threads /\ {t} \in SUBSET Threads
  BY DEF Others, RunsOf
<1> HIDE DEF W
<1>8. Others(t) \cup {t} \in SUBSET Threads /\ W \in SUBSET Threads
  BY <1>6, <1>7
<1>9. /\ Cardinality(W) <= Cardinality(Others(t) \cup {t})
      /\ Cardinality(Others(t) \cup {t}) <= Cardinality(Others(t)) + 1
  BY <1>6, <1>7, <1>8, Sizes, UnionSizes, FS_Singleton
<1>10. /\ Cardinality(W) \in Nat /\ Cardinality(Others(t)) \in Nat
       /\ Cardinality(Others(t) \cup {t}) \in Nat
  BY <1>7, <1>8, Sizes
<1>11. ~(Cardinality(Others(t)) >= Limit)
  BY <1>3 DEF NeedsSlot
<1>12. Cardinality(W) <= Limit
  BY <1>9, <1>10, <1>11, LimitAssumption
<1> QED BY <1>12 DEF W

(* A direct send never overtakes a queued run: a plain start leaves a slot  *)
(* for each run that was admitted without one (admitFree counts every       *)
(* admitted run).                                                           *)
THEOREM PlainStaysBehind == Spec => PlainWaits
BY StepPlain, LinesAlways, PTL DEF Spec, PlainWaits

(* In a full bot a look seats nobody.                                       *)
LEMMA FullSeatsNone ==
    ASSUME NEW Q, NEW S, NEW t \in Threads,
           Cardinality(InUse(BotOf[t], S)) >= Limit
    PROVE  t \notin Seated(S, Q)
<1>1. SUFFICES ASSUME t \in Seated(S, Q) PROVE FALSE
  OBVIOUS
<1> DEFINE i == Cardinality(InUse(BotOf[t], S))
           w == Cardinality({u \in Q[t].ahead \cap Waits(Q) : BotOf[u] = BotOf[t]})
<1>2. i + w < Limit
  BY <1>1 DEF Seated
<1>3. /\ InUse(BotOf[t], S) \in SUBSET Threads
      /\ {u \in Q[t].ahead \cap Waits(Q) : BotOf[u] = BotOf[t]} \in SUBSET Threads
  BY DEF InUse, Waits, InLine
<1>4. i \in Nat /\ w \in Nat
  BY <1>3, Sizes
<1>5. i >= Limit
  OBVIOUS
<1> HIDE DEF i, w
<1> QED BY <1>2, <1>4, <1>5, LimitAssumption

(* Who is ahead in the line of its bot is seated before those behind.       *)
LEMMA AheadSeated ==
    ASSUME NEW Q \in [Threads -> Entry], NEW S, NEW K, SlotOrder(Q, K),
           NEW t \in Seated(S, Q), NEW u \in Waits(Q),
           BotOf[u] = BotOf[t], u \in Q[t].ahead
    PROVE  u \in Seated(S, Q)
<1>1. t \in Threads /\ u \in Threads /\ Q[t].g # 0
  BY DEF Seated, Waits, InLine
<1>2. Q[u].ahead \subseteq Q[t].ahead
  BY <1>1 DEF SlotOrder
<1> DEFINE i == Cardinality(InUse(BotOf[t], S))
           T == {v \in Q[t].ahead \cap Waits(Q) : BotOf[v] = BotOf[t]}
           U == {v \in Q[u].ahead \cap Waits(Q) : BotOf[v] = BotOf[u]}
<1>3. U \subseteq T /\ T \in SUBSET Threads /\ U \in SUBSET Threads
  BY <1>2 DEF Waits, InLine
<1>4. InUse(BotOf[t], S) \in SUBSET Threads
  BY DEF InUse
<1>5. i + Cardinality(T) < Limit
  BY DEF Seated
<1> HIDE DEF T, U
<1>6. i \in Nat /\ Cardinality(T) \in Nat /\ Cardinality(U) \in Nat
  BY <1>3, <1>4, Sizes
<1>7. Cardinality(U) <= Cardinality(T)
  BY <1>3, Sizes
<1> HIDE DEF i
<1>8. i + Cardinality(U) < Limit
  BY <1>5, <1>6, <1>7, LimitAssumption
<1> QED BY <1>8 DEF Seated, i, U

(* Of a bot's two waiters the automation run does not get the slot.         *)
LEMMA StepOwner ==
    LinesInv /\ [Next]_vars =>
        [\A t, u \in Threads :
             /\ slotLine[t].g # 0 /\ kind[t] = "auto"
             /\ slotLine[u].g # 0 /\ kind[u] = "owner" /\ BotOf[u] = BotOf[t]
             /\ t \in slotless /\ t \notin slotless' /\ phase'[t] # "none"
             => u \notin slotless']_vars
<1> SUFFICES ASSUME LinesInv, Next, NEW t \in Threads, NEW u \in Threads,
                    slotLine[t].g # 0, kind[t] = "auto",
                    slotLine[u].g # 0, kind[u] = "owner", BotOf[u] = BotOf[t],
                    t \in slotless, t \notin slotless', phase'[t] # "none"
             PROVE  u \notin slotless'
  OBVIOUS
<1> USE LinesNow
<1>1. /\ u \in slotLine[t].ahead /\ SlotOrder(slotLine, kind)
      /\ phase[t] = "setup" /\ phase[u] = "setup" /\ u # t
      /\ slotLine[u].g = gen[u]
  <2>1. slotLine[u].g = gen[u]
    BY NowFacts DEF LinesInv, Clean
  <2>2. SlotOrder(slotLine, kind)
    BY DEF SlotsGood
  <2>3. u \in slotLine[t].ahead
    BY <2>2 DEF SlotOrder
  <2> QED BY <2>1, <2>2, <2>3
<1>2. Cardinality(AtWork(BotOf[t], phase, slotless, reserved)) >= Limit
  BY DEF SlotWake
<1>3. ASSUME NEW H, NEW A, NEW SL, NEW L, Pump(H, slotless, A, SL, L),
             reserved' = reserved,
             \A v \in Threads : phase'[v] = "none" <=> phase[v] = "none"
      PROVE  FALSE
  <2>1. InUse(BotOf[t], slotless) = AtWork(BotOf[t], phase, slotless, reserved)
    BY <1>3 DEF InUse, AtWork
  <2>2. t \notin Seated(slotless, SL)
    BY <1>2, <2>1, FullSeatsNone
  <2> QED BY <1>3, <2>2 DEF Pump
<1>4. ASSUME slotless' = slotless
      PROVE  FALSE
  BY <1>4
<1>5. ASSUME NEW H, NEW S, NEW A, NEW L, Pump(H, S, A, slotLine, L), t \in S,
             u \in S => phase'[u] = phase[u] /\ gen'[u] = gen[u]
      PROVE  u \notin slotless'
  <2>1. slotless' = S \ Seated(S, slotLine) /\ t \in Seated(S, slotLine)
    BY <1>5 DEF Pump
  <2>2. CASE u \in S
    <3>1. u \in Waits(slotLine)
      BY <1>1, <1>5, <2>2 DEF Waits, InLine, Live
    <3>2. u \in Seated(S, slotLine)
      BY <1>1, <2>1, <3>1, AheadSeated
    <3> QED BY <2>1, <3>2
  <2> QED BY <2>1, <2>2
<1>6. ASSUME NEW x \in Threads, NEW g, Released(x, g)
      PROVE  u \notin slotless'
  <2>1. PICK H, A : Pump(H, slotless \ {x}, A, slotLine, line)
    BY <1>6 DEF Released
  <2>2. phase' = [phase EXCEPT ![x] = "none"] /\ gen' = gen
    BY <1>6 DEF Released
  <2>3. x # t
    BY <2>2
  <2>4. t \in slotless \ {x}
    BY <2>3
  <2>5. u \in slotless \ {x} => phase'[u] = phase[u] /\ gen'[u] = gen[u]
    BY <2>2
  <2> QED BY <1>5, <2>1, <2>4, <2>5
<1>7. ASSUME NEW x \in Threads, TakeOver(x)
      PROVE  u \notin slotless'
  <2>1. CASE Released(x, gen[x])
    BY <1>6, <2>1
  <2>2. CASE /\ Born(x, kind[x])
             /\ Pump(Freed(holder, Own(x)), SlotlessOnce(x, kind[x]),
                     [at EXCEPT ![x] = "start"], slotLine, line)
    <3>1. x # t /\ x # u
      BY <1>7 DEF TakeOver
    <3>2. t \in SlotlessOnce(x, kind[x])
      BY <3>1 DEF SlotlessOnce
    <3>3. phase'[u] = phase[u] /\ gen'[u] = gen[u]
      BY <2>2, <3>1 DEF Born
    <3> QED BY <1>5, <2>2, <3>2, <3>3
  <2> QED BY <1>7, <2>1, <2>2 DEF TakeOver
<1>8. ASSUME NEW x \in Threads, NEW k \in Kind, Admit(x, k)
      PROVE  FALSE
  <2>1. x # t /\ slotless' = SlotlessOnce(x, k)
    BY <1>1, <1>8 DEF Admit
  <2> QED BY <2>1 DEF SlotlessOnce
<1>9. ASSUME NEW x \in Threads, NEW want, NEW spare, Acquire(x, want, spare),
             phase' = phase, reserved' = reserved
      PROVE  FALSE
  BY <1>3, <1>4, <1>9 DEF Acquire
<1>10. ASSUME NEW x \in Threads,
              \/ AwaitSlot(x) \/ AsksPerson(x) \/ PersonAnswers(x)
              \/ \E R \in SUBSET Returnable : GiveBack(x, R)
       PROVE  FALSE
  <2>1. phase' = phase /\ reserved' = reserved
    BY <1>10 DEF AwaitSlot, AsksPerson, PersonAnswers, GiveBack
  <2>2. slotless' = slotless \/ \E H, A, SL, L : Pump(H, slotless, A, SL, L)
    BY <1>10 DEF AwaitSlot, AsksPerson, PersonAnswers, GiveBack, Looks
  <2> QED BY <1>3, <1>4, <2>1, <2>2
<1>11. ASSUME NEW x \in Threads,
              \/ \E ask \in First[x] \cup Later[x] : Claim(x, ask)
              \/ ClaimRest(x)
       PROVE  FALSE
  <2>1. phase' = phase /\ reserved' = reserved
    BY <1>11 DEF Claim, ClaimRest
  <2>2. slotless' = slotless \/ \E want, spare : Acquire(x, want, spare)
    BY <1>11 DEF Claim, ClaimRest
  <2> QED BY <1>4, <1>9, <2>1, <2>2
<1>12. ASSUME NEW x \in Threads, NEW p \in Phase \ {"none"}, Moves(x, p), Looks,
              phase[x] # "none"
       PROVE  FALSE
  <2>1. \A v \in Threads : phase'[v] = "none" <=> phase[v] = "none"
    BY <1>12 DEF Moves
  <2> QED BY <1>3, <1>12, <2>1 DEF Moves, Looks
<1>13. ASSUME NEW x \in Threads, Dispatch(x) \/ Accepted(x) \/ Settling(x)
       PROVE  FALSE
  BY <1>4, <1>13 DEF Dispatch, Accepted, Settling, Keeps
<1>14. ASSUME NEW x \in Threads, HoldForRebuild(x)
       PROVE  FALSE
  BY <1>12, <1>14 DEF HoldForRebuild, SettingUp, Phase
<1>15. ASSUME NEW x \in Threads, Stop(x)
       PROVE  u \notin slotless'
  <2>1. CASE phase[x] \in Live \cup {"settling"} /\ Moves(x, "stopping") /\ Looks
    BY <1>12, <2>1 DEF Live, Phase
  <2> QED BY <1>6, <1>15, <2>1 DEF Stop
<1>16. ASSUME NEW x \in Threads, NEW g \in Gens, Release(x, g)
       PROVE  u \notin slotless'
  BY <1>6, <1>16 DEF Release
<1> QED BY <1>7, <1>8, <1>10, <1>11, <1>13, <1>14, <1>15, <1>16 DEF Next

(* An automation run gets no slot while an owner's send waits for one: only *)
(* a run that goes or is rebuilt frees a slot, and whoever the look seats   *)
(* comes before whoever it leaves (awaitSlot, pumpOnce).                    *)
THEOREM OwnersFirst == Spec => OwnerFirst
BY StepOwner, LinesAlways, PTL DEF Spec, OwnerFirst
=============================================================================
