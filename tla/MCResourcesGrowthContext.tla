----------------------- MODULE MCResourcesGrowthContext ------------------------
(* A small instance of ResourcesGrowthContext. *)
EXTENDS ResourcesGrowthContext, TLC

CONSTANTS client1, client2

(* One budget that is never enough for all.                                *)

\* One session is asked for under two identities; another needs no thinking.
AskedFor ==
  {[id |-> "think", session |-> "cycle", depth |-> "DEEP", tokens |-> 9, compute |-> 4],
   [id |-> "again", session |-> "cycle", depth |-> "NORMAL", tokens |-> 3, compute |-> 2],
   [id |-> "learn", session |-> "learn", depth |-> "NONE", tokens |-> 4, compute |-> 2]}

Costs ==
  [LOW |-> [tokens |-> 1, compute |-> 1], NORMAL |-> [tokens |-> 3, compute |-> 2],
   DEEP |-> [tokens |-> 6, compute |-> 4]]

\* All experiences suggest the same trait; two of the weaker confidence validate nothing.
Suggested == [l \in Learnings |-> "v"]

\* A state that must be there, of which the identity may not be cut; not all that may be found has
\* a place in the budget.
SourceOrder == <<"state", "memory", "timeline">>

SourceItems ==
  [state |-> <<"identity", "temporal">>, memory |-> <<"m1", "m2">>, timeline |-> <<"e1", "e2">>]

\* Less of the timeline than its share.
Limits == [state |-> 4, memory |-> 4, timeline |-> 1]

ItemCosts == [identity |-> 2, temporal |-> 1, m1 |-> 2, m2 |-> 1, e1 |-> 1, e2 |-> 1]

Claim(fragment, topic, says, source) ==
  [fragment |-> fragment, topic |-> topic, says |-> says, source |-> source,
   supersedes |-> {}, felt |-> FALSE]

\* A dispute between two sources; and one of a source with itself, about which there is also
\* what is merely felt.
Composed ==
  { Claim("f1", "first", "yes", "p"), Claim("f2", "first", "no", "q"),
    Claim("f3", "second", "yes", "p"), Claim("f4", "second", "no", "p"),
    [Claim("f5", "second", "perhaps", "q") EXCEPT !.felt = TRUE] }

SnapshotClaims == [s |-> Composed]

\* The two share a source.  After the notice was used the fact is known altogether where it was
\* half of it claimed, in the first dispute, and by half in the second.
EvidenceBasis == [fact |-> "corroboration", notice |-> "supersession"]

EvidenceSources == [fact |-> {"f1", "x"}, notice |-> {"x"}]

-----------------------------------------------------------------------------
\* Commands are used in their order: a behaviour that does not is one that does, with the names
\* exchanged.
InOrder == \A n \in Commands \ {1} : command[n] # G!NotIssued => command[n - 1] # G!NotIssued

\* The cases of a document have so many audits together.
Audited == Len(cases[<<"s", "first">>]) + Len(cases[<<"s", "second">>]) <= 5

Symmetry == Permutations(Clients) \cup Permutations(Learnings)
=============================================================================
