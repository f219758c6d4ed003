----------------------------- MODULE MCSubjectGate -----------------------------
(* A small instance of SubjectGate, with the requests of MCSubjectState. *)
EXTENDS MCSubjectState, SubjectGate, TLC

\* A conclusion, what corrects it, and what disproves the correction.
Drawn ==
  { [says |-> "good", polarity |-> "SUPPORT", corrects |-> "nothing"],
    [says |-> "bad", polarity |-> "SUPPORT", corrects |-> "good"],
    [says |-> "good", polarity |-> "COUNTER", corrects |-> "bad"] }

\* Commands are used in their order: a behaviour that does not is one that does, with the names
\* exchanged.
InOrder == \A n \in Numbers \ {1} : issued[n] # M!NotIssued => issued[n - 1] # M!NotIssued

\* The fields of the matters and of the conclusions are changed apart: the commands of a
\* behaviour are of one of them.
OneField ==
  LET kinds == {issued[n].kind : n \in Numbers} \ {"NONE"}
  IN  "ITEM" \in kinds => kinds = {"ITEM"}

\* What is sent as a rule: a beginning, an end, or a conclusion of the right kind, at the present
\* revision.
Usual(body) ==
  /\ body.named = "PRESENT"
  /\ IF body.kind = "ITEM"
       THEN body.record.status \in M!Terminal => body.record.revision > 0
       ELSE M!Withdrawn(body.kind, body.learning)

\* One command of a behaviour at most is not; if it names another revision it is about an item,
\* and names the first of the past ones, or one that may still be reached.
OneAstray ==
  LET astray == {n \in Numbers : issued[n].kind # "NONE" /\ ~ Usual(issued[n])}
  IN  /\ \A n, k \in astray : n = k
      /\ \A n \in astray :
           \/ issued[n].named = "PRESENT"
           \/ /\ issued[n].kind = "ITEM"
              /\ issued[n].expected \in (IF issued[n].named = "PAST" THEN {0} ELSE 1..MaxCourse - 1)

Symmetry == Permutations(Writers)
=============================================================================
