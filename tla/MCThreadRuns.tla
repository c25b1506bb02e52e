----------------------------- MODULE MCThreadRuns -----------------------------
(* Small instances of ThreadRuns for TLC.                                   *)
EXTENDS ThreadRuns, TLC

CONSTANTS a, b, c, d,               \* conversations
          p, q,                     \* bots
          Site, Page, Desk, Web     \* a folder, one inside it, a screen, a browser

Three == {a, b, c}
Four == {a, b, c, d}
OneBot == {p}
OnP == [t \in Threads |-> p]
COnQ == [t \in Threads |-> IF t = c THEN q ELSE p]
TwoBots == {p, q}
Alike == Permutations(Four)
TwoGens == {1, 2}
None == {}
NoAsk == [t \in Threads |-> {}]

AnyKind == [t \in Threads |-> Kind]
Plain == [t \in Threads |-> {"plain"}]

Same(Set) == {<<r, r>> : r \in Set}
Nested == Same(Resources) \cup {<<Site, Page>>, <<Page, Site>>}
Apart == Same(Resources)

Wants(W) == [want |-> W, spare |-> {}]
WantsOr(W, S) == [want |-> W, spare |-> S]

(* a works in a folder, with browser and screen if it can have them; b      *)
(* works inside that folder and may find it needs the screen, with the      *)
(* browser if it can have it; c uses screen and browser.                    *)
FirstAsks ==
    [t \in Threads |->
        IF t = a THEN {WantsOr({Site, Web, Desk}, {Web, Desk})}
        ELSE IF t = b THEN {Wants({Page})}
        ELSE {Wants({Web, Desk})}]
LaterAsks ==
    [t \in Threads |->
        IF t = a THEN {WantsOr({Web, Desk}, {Web, Desk})}
        ELSE IF t = b THEN {WantsOr({Desk, Web}, {Web})}
        ELSE {}]
(* a uses screen and browser, b the screen, c the browser.                  *)
CommonAsks ==
    [t \in Threads |->
        IF t = a THEN {Wants({Desk, Web})}
        ELSE IF t = b THEN {Wants({Desk})}
        ELSE {Wants({Web})}]

(* The same, but b and c hold a folder of their own first.                  *)
FolderAsks ==
    [t \in Threads |->
        IF t = a THEN {Wants({Desk, Web})}
        ELSE IF t = b THEN {Wants({Site})}
        ELSE {Wants({Page})}]
DeskAsks ==
    [t \in Threads |->
        IF t = a THEN {}
        ELSE IF t = b THEN {Wants({Desk})}
        ELSE {Wants({Web})}]
DeskWeb == {Desk, Web}
Mixed ==
    [t \in Threads |->
        IF t = a THEN {"auto"} ELSE IF t = b THEN {"owner"} ELSE {"plain"}]
OnlyDesk == {Desk}
OnlyC == {c}

FolderDeskWeb4 == {Site, Page, Desk, Web}
=============================================================================
