------------------------------ MODULE Delivery ------------------------------
(***************************************************************************)
(* What the scheduler promises for every task, whatever is lost, repeated, *)
(* cancelled or restarted on the way: one computation opportunity is       *)
(* delivered at most once; a task is completed only after that delivery,   *)
(* and cancelled or given up only if there was none and there will be none.*)
(***************************************************************************)
EXTENDS Naturals

CONSTANT Tasks

VARIABLES
  outcome,  \* of each task: absent, open, or how it ended
  times     \* how often its opportunity was delivered

dvars == <<outcome, times>>

DInit ==
  /\ outcome = [t \in Tasks |-> "absent"]
  /\ times = [t \in Tasks |-> 0]

Ends(t, from, to) == outcome[t] = from /\ outcome' = [outcome EXCEPT ![t] = to]

Admit(t) == Ends(t, "absent", "open") /\ UNCHANGED times

Deliver(t) ==
  /\ outcome[t] = "open" /\ times[t] = 0
  /\ times' = [times EXCEPT ![t] = 1]
  /\ UNCHANGED outcome

Complete(t) == times[t] = 1 /\ Ends(t, "open", "COMPLETED") /\ UNCHANGED times

GiveUp(t) ==
  /\ times[t] = 0
  /\ Ends(t, "open", "CANCELLED") \/ Ends(t, "open", "RETRY_EXHAUSTED")
  /\ UNCHANGED times

DNext == \E t \in Tasks : Admit(t) \/ Deliver(t) \/ Complete(t) \/ GiveUp(t)

DSpec == DInit /\ [][DNext]_dvars
=============================================================================
