------------------------- MODULE MCActionExecution -------------------------
(* Small instances of ActionExecution. *)
EXTENDS ActionExecution, TLC

CONSTANTS first, second, undo, planner, rival, owner

\* One choice of a first and a second step that depends on it, and a later choice that
\* compensates the first.
AllPlans == {{first, second}, {undo}}
OnePlan == {{first}}

AfterFirst == [r \in Requests |-> IF r = second THEN {first} ELSE {}]

UndoesFirst == [r \in Requests \cap {undo} |-> first]

InOrder == [r \in Requests |-> IF r = first THEN 1 ELSE IF r = second THEN 2 ELSE 3]

\* The planners differ in nothing but their name.
Alike == Permutations({planner, rival})

TwiceFirst == [r \in Requests |-> IF r = first THEN 2 ELSE 1]
Once == [r \in Requests |-> 1]
=============================================================================
