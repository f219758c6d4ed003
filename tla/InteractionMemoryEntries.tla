----------------------- MODULE InteractionMemoryEntries ------------------------
(***************************************************************************)
(* InteractionJournal beside Memory and Entries.  None of the three writes *)
(* what another reads, so a behaviour is about one of them, which the      *)
(* initial state chooses, and the others rest.                             *)
(***************************************************************************)
EXTENDS InteractionJournal, FiniteSets

CONSTANTS
  Ids, Events, SummaryIds, Candidates, MaxWrites,    \* of Memory
  Hosts, Attachments, Entries, Users,                \* of Entries
  MaxDocument    \* bound: revisions of the document of the entries

ASSUME MemoryAssumption ==
  /\ IsFiniteSet(Ids)
  /\ \A c \in Candidates : c.id \notin c.sources    \* MemoryRecord.__post_init__

VARIABLES
  focus,
  memory, receipts, summary, timeline, reading, unseen, job, writes,
  document, setting, delivery

-----------------------------------------------------------------------------
M == INSTANCE Memory

E == INSTANCE Entries WITH MaxRevision <- MaxDocument

mvars == <<memory, receipts, summary, timeline, reading, unseen, job, writes>>

evars == <<document, setting, delivery>>

SInit ==
  /\ focus \in {"interaction", "memory", "entries"}
  /\ Init /\ M!MInit /\ E!EInit
  /\ focus # "interaction" => mode = "capability"

Interact == focus = "interaction" /\ Next /\ UNCHANGED <<focus, mvars, evars>>

Remember == focus = "memory" /\ M!MNext /\ UNCHANGED <<focus, vars, evars>>

Enter == focus = "entries" /\ E!ENext /\ UNCHANGED <<focus, vars, mvars>>

SNext == Interact \/ Remember \/ Enter

SSpec == SInit /\ [][SNext]_<<focus, vars, mvars, evars>>

-----------------------------------------------------------------------------
(* Properties of the components.                                           *)

\* What was deleted, corrected or revoked stays exactly so (Memory).
TerminalIsLast == M!TerminalIsLast

\* An active summary rests on nothing that was corrected or revoked (Memory).
SummariesStand == M!SummariesStand

\* Memories that rest on evidence alone come to contradict each other only if one was put away and
\* brought back while the other was consolidated (Memory).
OneMeaning == M!OneMeaning

\* A message goes out only if all that permits it held at once (Entries).
SentAsPermitted == E!SentAsPermitted

\* A setting is decided on the document it is written to (Entries).
DecidedOnCurrent == E!DecidedOnCurrent
=============================================================================
