------------------------------ MODULE MCBotCalls ------------------------------
(* Small instances of BotCalls for TLC.                                     *)
EXTENDS BotCalls

CONSTANTS c1, c2,   \* calls
          p,        \* a phone
          a         \* a bot

OneCall == {c1}
TwoCalls == {c1, c2}
OnePhone == {p}
OneBot == {a}
OfA == [x \in Calls |-> a]
OnlyC == {c1}
None == {}

Alone == [crash |-> 1, fail |-> 1, stop |-> 1, own |-> 1]
Wires == [crash |-> 1, fail |-> 1, stop |-> 1, own |-> 0]
=============================================================================
