---------------------------- MODULE ActionEffect ----------------------------
(***************************************************************************)
(* What the execution of actions promises for every request, whatever is   *)
(* retried, cancelled, raced or restarted on the way: its effect on the    *)
(* world happens at most once, a request that was cancelled never has one, *)
(* and no caller is told anything but how the request really ended.        *)
(***************************************************************************)
EXTENDS Naturals

CONSTANT Requests

VARIABLES
  outcome,  \* of each request: open, or how it ended
  times,    \* how often the world carried it out
  told      \* the outcomes its callers were told

evars == <<outcome, times, told>>

EInit ==
  /\ outcome = [r \in Requests |-> "open"]
  /\ times = [r \in Requests |-> 0]
  /\ told = [r \in Requests |-> {}]

\* The world carries a request out, and thereby settles how it ended.
CarryOut(r) ==
  /\ outcome[r] = "open" /\ times[r] = 0
  /\ \E o \in {"SUCCEEDED", "FAILED_TERMINAL"} : outcome' = [outcome EXCEPT ![r] = o]
  /\ times' = [times EXCEPT ![r] = 1]

CallOff(r) ==
  /\ outcome[r] = "open" /\ times[r] = 0
  /\ outcome' = [outcome EXCEPT ![r] = "CANCELLED"]
  /\ UNCHANGED times

\* Callers are told only what is already so after the step.
Truthful ==
  \A r \in Requests :
    /\ told[r] \subseteq told'[r]
    /\ told'[r] \ told[r] \subseteq {outcome'[r]} \ {"open"}

ENext ==
  /\ (\E r \in Requests : CarryOut(r) \/ CallOff(r)) \/ UNCHANGED <<outcome, times>>
  /\ told' \in [Requests -> SUBSET {"SUCCEEDED", "FAILED_TERMINAL", "CANCELLED"}]
  /\ Truthful

ESpec == EInit /\ [][ENext]_evars
=============================================================================
