-------------------------- MODULE MCRuntimeCognition --------------------------
(***************************************************************************)
(* RuntimeControl beside NativeCognition.  A tick of the one runs a call   *)
(* of the other, but neither writes what the other reads, so a behaviour   *)
(* is about one of them, which the initial state chooses: the control of   *)
(* the hosts, the thoughts of the subject, or the upkeep of its memory.    *)
(***************************************************************************)
EXTENDS RuntimeControl, NativeCognition

CONSTANTS first, second, third, host1, host2

VARIABLE focus

\* The same identity may come with another operation.
OwnerCommands ==
  [id : {first, second}, op : {"PAUSE", "RESUME", "STOP"}] \cup [id : {third}, op : {"STOP"}]

svars == <<focus, vars, nvars>>

-----------------------------------------------------------------------------
SInit == focus \in {"control", "thought", "memory"} /\ Init /\ NInit

Serve == focus = "control" /\ Next /\ UNCHANGED <<focus, nvars>>

\* No task of the other kind is found.
Only(tasks) == run' # run /\ run'.step = "submit" => run'.task \in tasks

Cognize ==
  /\ \/ focus = "thought" /\ NNext /\ Only(Needs)
     \/ focus = "memory" /\ NNext /\ Only(Events)
  /\ UNCHANGED <<focus, vars>>

SNext == Serve \/ Cognize

\* Of the tasks here at most one is open at a time, so that what is fair to any is fair to each.
SFairSpec ==
  SInit /\ [][SNext]_svars /\ Fairness /\ WF_nvars(\E t \in Tasks : Works(t))
=============================================================================
