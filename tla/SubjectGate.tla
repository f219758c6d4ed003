------------------------------ MODULE SubjectGate ------------------------------
(***************************************************************************)
(* SubjectState beside ActionGate, which sees no more of the subject than  *)
(* its revisions, and Matters, whose history of the subject is one of its  *)
(* own.  A behaviour is about one of the three, which the initial state    *)
(* chooses, and the others rest.  The writers of the first are the owners  *)
(* and the callers of the others.                                          *)
(***************************************************************************)
EXTENDS SubjectState

CONSTANTS
  Permissions, Grants, Wakes,    \* of the gate
  MaxGate, MaxExperience,        \* bounds: changes of a permission, and of the subject
  Numbers, Intents, Learnings,   \* of the matters: commands, items, what was learnt
  none,
  MaxMatter, MaxCourse           \* bounds: revisions of a matter, and updates of the subject

ASSUME GateAssumption == MaxMatter \in Nat

VARIABLES
  focus,
  document, holder, experience, wake, held,   \* of the gate
  course, issued, calling                     \* of the matters

-----------------------------------------------------------------------------
A == INSTANCE ActionGate WITH
  Owners <- Writers, MaxRevision <- MaxGate, MaxState <- MaxExperience,
  owner <- holder, subject <- experience

gvars == <<document, holder, experience, wake, held>>

M == INSTANCE Matters WITH
  Callers <- Writers, Commands <- Numbers, Items <- Intents, None <- none,
  MaxRevision <- MaxMatter, MaxUpdates <- MaxCourse,
  history <- course, command <- issued, call <- calling

mvars == <<course, issued, calling>>

GInit ==
  /\ focus \in {"subject", "gate", "matters"}
  /\ Init /\ A!GInit /\ M!MInit

Live == focus = "subject" /\ Next /\ UNCHANGED <<focus, gvars, mvars>>

Permit == focus = "gate" /\ A!GNext /\ UNCHANGED <<focus, vars, mvars>>

Intend == focus = "matters" /\ M!MNext /\ UNCHANGED <<focus, vars, gvars>>

\* The bounds of the gate or of the matters are reached.
Ended ==
  /\ \/ focus = "gate" /\ experience # <<>>
     \/ focus = "matters" /\ Len(course) = MaxCourse
  /\ UNCHANGED <<focus, vars, gvars, mvars>>

GNext == Live \/ Permit \/ Intend \/ Ended

GSpec == GInit /\ [][GNext]_<<focus, vars, gvars, mvars>>

-----------------------------------------------------------------------------
(* Properties of the gate and of the matters.                              *)

\* No permission is wider than it was made (ActionGate).
NeverWidened == A!NeverWidened

\* The subject acts on what it perceived and was permitted (ActionGate).
ActsOnWhatItKnew == A!ActsOnWhatItKnew

\* What has ended does not begin again (Matters).
MattersEndOnce == M!MattersEndOnce

\* A conclusion is replaced by what corrects it alone (Matters).
ConclusionsAreAnswered == M!ConclusionsAreAnswered
=============================================================================
