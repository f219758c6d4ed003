------------------------ MODULE ResourcesGrowthContext -------------------------
(***************************************************************************)
(* Resources beside Growth, Context and Contradictions.  None of them      *)
(* writes what another reads, so a behaviour is about one of them, which   *)
(* the initial state chooses, and the others rest.                         *)
(***************************************************************************)
EXTENDS Resources

CONSTANTS
  Learnings, Proposes, Commands, Minimum, Confidences,          \* of Growth
  ReadingOrder, Items, Whole, Required, Protected, Cost,        \* of Context
  CandidateLimit, SourceLimit, FragmentLimit, TokenLimit,
  Snapshots, Material, Evidence, Basis, Grounds,                \* of Contradictions
  MaxGrowth,     \* bound: revisions of the SubjectState
  MaxChanges     \* bound: changes of the sources

VARIABLES
  focus,
  candidate, command, preparation, resolution, active, revoked, subject, submission,
  current, changes, work, snapshot,
  cases, proven, call

-----------------------------------------------------------------------------
G == INSTANCE Growth WITH MaxRevision <- MaxGrowth

C == INSTANCE Context

\* Each source lists items, and the subject has a state; what a fragment costs is counted.
ASSUME ContextAssumption ==
  /\ ReadingOrder \in Seq(C!Sources) /\ Whole \in C!Sources /\ Items[Whole] # << >>
  /\ \A s \in C!Sources : Items[s] \in Seq(C!AllItems)
  /\ Cost \in [C!AllItems -> Nat]
  /\ CandidateLimit \in Nat /\ SourceLimit \in [C!Sources -> 1..CandidateLimit]

D == INSTANCE Contradictions WITH client <- call

gvars == <<candidate, command, preparation, resolution, active, revoked, subject, submission>>

cvars == <<current, changes, work, snapshot>>

dvars == <<cases, proven, call>>

SInit ==
  /\ focus \in {"resources", "growth", "context", "dispute"}
  /\ Init /\ G!GInit /\ C!CInit /\ D!CInit
  /\ focus # "resources" => account.mode = "SCHEDULED"

Spend == focus = "resources" /\ Next /\ UNCHANGED <<focus, gvars, cvars, dvars>>

Grow == focus = "growth" /\ G!GNext /\ UNCHANGED <<focus, vars, cvars, dvars>>

Think == focus = "context" /\ C!CNext /\ UNCHANGED <<focus, vars, gvars, dvars>>

Dispute == focus = "dispute" /\ D!CNext /\ UNCHANGED <<focus, vars, gvars, cvars>>

SNext == Spend \/ Grow \/ Think \/ Dispute

SSpec == SInit /\ [][SNext]_<<focus, vars, gvars, cvars, dvars>>

-----------------------------------------------------------------------------
(* Properties of the components.                                           *)

\* The traits on record are those the SubjectState evolved with and was not told to withdraw (Growth).
TraitsFollowFacts == G!TraitsFollowFacts

\* What was learnt is never a trait twice (Growth).
OneActiveTrait == G!OneActiveTrait

\* What was superseded never happens (Growth).
ResolvedForGood == G!ResolvedForGood

\* All fragments of a context were true at one moment (Context).
ContextIsACut == C!ContextIsACut

\* What is required is in the context, or there is none (Context).
RequiredOrNothing == C!RequiredOrNothing

\* The stored decisions follow from one another (Contradictions).
HistoriesAreLegal == D!HistoriesAreLegal

\* A case is reopened on what is new to it (Contradictions).
ReopenedOnNews == D!ReopenedOnNews
=============================================================================
