---------------------------- MODULE MCScheduler ----------------------------
(* Small instances of Scheduler. *)
EXTENDS Scheduler

CONSTANTS urgent, routine, spare, client, ticker, rival

\* The routine task overtakes the urgent one only by waiting.
TaskPriority == [t \in Tasks |-> IF t = urgent THEN 1 ELSE 0]

DueAtOnce == [t \in Tasks |-> 0]
\* One is overdue when it is created, one due later.
SpareLater == [t \in Tasks |-> IF t = spare THEN 1 ELSE IF t = routine THEN 0 - 1 ELSE 0]

Once == [t \in Tasks |-> 1]
Twice == [t \in Tasks |-> 2]
=============================================================================
