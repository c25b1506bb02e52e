----------------------------- MODULE MCAskerWake -----------------------------
(* Small instances of AskerWake for TLC.                                    *)
EXTENDS AskerWake, TLC

CONSTANTS t, u, v   \* hand-offs

ThreeTasks == {t, u, v}
Same == [x \in Tasks |-> 1]
Alike == Permutations(Tasks)

Faults == [crash |-> 2, close |-> 1, fail |-> 2, along |-> 1, stop |-> 1,
           hold |-> 2]
=============================================================================
