---------------------- MODULE MCInteractionMemoryEntries ----------------------
(* A small instance of InteractionMemoryEntries. *)
EXTENDS InteractionMemoryEntries, TLC

\* The same evidence under another content, by way of a memory in another scope, and two memories
\* that merge.
Consolidation(key, id, scope, content, events, roots, sources) ==
  [key |-> key, id |-> id, scope |-> scope, content |-> content, events |-> events,
   roots |-> roots, sources |-> sources]

Consolidations ==
  {Consolidation(1, "m1", "s", "a", {"e1"}, {"e1"}, {}),
   Consolidation(2, "m2", "s", "b", {"e2"}, {"e2"}, {}),
   Consolidation(3, "m3", "u", "c", {}, {"e1"}, {"m1"}),
   Consolidation(4, "m3", "s", "b", {"e1", "e2"}, {"e1", "e2"}, {})}

-----------------------------------------------------------------------------
\* The first host is h1 and the first user of an entry is u: a behaviour in which they are not is one
\* in which they are, with the names exchanged.  Once a message went out, the entries change as they
\* do while there is none, and the last document leaves no setting to be written.
InOrder ==
  /\ delivery.step # "sent"
  /\ document.revision = MaxDocument => setting = E!NoSetting
  /\ document.charge.generation = 1 => document.charge.host = "h1"
  /\ \A e \in Entries :
       document.binding[e].version = 1 /\ (\A f \in Entries \ {e} : document.binding[f] = E!NoBinding)
         => document.binding[e].user = "u"

Symmetry == Permutations(Requests) \cup Permutations(ResultIds)
=============================================================================
