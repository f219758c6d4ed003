------------------------------- MODULE Growth -------------------------------
(***************************************************************************)
(* SubjectGrowthService over LearningService, JsonLearningRepository and   *)
(* the evolution of the SubjectState: what experience taught becomes a     *)
(* lasting trait, or is withdrawn, on the owner's confirmed command.       *)
(* A command is prepared in the audit of the learning, evolves the         *)
(* SubjectState, and is resolved in the audit: two documents, no common    *)
(* transaction.  Whatever is left prepared by a crash is settled by the    *)
(* next command for the same learning.  Submissions hold one lock;         *)
(* candidates are validated, adjusted and rejected without it.             *)
(* A learning is named by the experience it was captured from, its only    *)
(* root at first; a trait is named by the command that proposed it.        *)
(* Confidence counts twentieths; an average is rounded down.               *)
(* Abstracted: owners and their permissions (a submission may be refused   *)
(* anywhere, like a crash), and the rest of the SubjectState.              *)
(***************************************************************************)
EXTENDS Integers, FiniteSets, FiniteSetsExt, Functions

CONSTANTS
  Learnings,   \* the experiences there are
  Proposes,    \* [Learnings -> values]: the trait each of them suggests
  Commands,
  Minimum,     \* MINIMUM_EVIDENCE_COUNT
  Confidences, \* that experiences come with, or are adjusted to
  MaxRevision  \* bound: revisions of the SubjectState

VARIABLES
  candidate,   \* what was learnt from each experience
  command,     \* what each command asks for
  preparation, \* what was prepared for it
  resolution,  \* what became of that
  active,      \* the traits on record as active
  revoked,     \* the experiences that no longer count
  subject,     \* the SubjectState: its revision, the traits in it, and what evolved it
  submission   \* the command being submitted

gvars == <<candidate, command, preparation, resolution, active, revoked, subject, submission>>

-----------------------------------------------------------------------------
NoCandidate == [status |-> "NONE", confidence |-> 0, before |-> 0, evidence |-> {}, roots |-> {}]

NotIssued == [operation |-> "NONE"]

NotPrepared == [before |-> {}, confidence |-> -1, evidence |-> 0]

Idle == [step |-> "idle"]

VALIDATION_CONFIDENCE == 15

Evolved(c) == subject.fact[c] # -1

Prepared(c) == preparation[c] # NotPrepared

Value(c) == Proposes[command[c].learning]

\* What was learnt is part of the subject while a trait committed from it is active.
Consolidated(l) ==
  \E t \in active : command[t].learning = l /\ resolution[t] = "COMMITTED"

Mutable(l) == candidate[l].status \in {"PENDING", "VALIDATED"} /\ ~ Consolidated(l)

-----------------------------------------------------------------------------
(* Candidates.                                                             *)

Learn(l, as) ==
  /\ candidate' = [candidate EXCEPT ![l] = as]
  /\ UNCHANGED <<command, preparation, resolution, active, revoked, subject, submission>>

\* An experience that was consumed and says what to learn from it is captured once.
Capture(l) ==
  /\ candidate[l] = NoCandidate /\ l \notin revoked
  /\ \E confidence \in Confidences :
       Learn(l, [status |-> "PENDING", confidence |-> confidence, before |-> 0,
                 evidence |-> {}, roots |-> {l}])

Adjust(l) ==
  /\ Mutable(l)
  /\ \E confidence \in Confidences :
       Learn(l, [candidate[l] EXCEPT !.confidence = confidence,
                   !.status = IF confidence < VALIDATION_CONFIDENCE THEN "PENDING" ELSE @])

Reject(l) == Mutable(l) /\ Learn(l, [candidate[l] EXCEPT !.status = "REJECTED"])

\* More evidence makes more confident than its average; one's own confidence is never lost.
Aggregated(own, rest) ==
  LET count == 1 + Cardinality(rest)
      sum == own + SumFunction([l \in rest |-> candidate[l].confidence])
  IN  Max({own, Min({20, (sum \div count) + 2 * (count - 1)})})

\* Evidence that was rejected or whose experience is gone is none.
Counts(l) == candidate[l].status \in {"PENDING", "VALIDATED"} /\ l \notin revoked

Independent(S) == \A l, k \in S : l # k => candidate[l].roots \cap candidate[k].roots = {}

Validate(l, evidence) ==
  /\ Mutable(l) /\ l \in evidence /\ Cardinality(evidence) >= Minimum
  /\ \A k \in evidence : Counts(k) /\ Proposes[k] = Proposes[l]
  /\ Independent(evidence)
  /\ LET confidence == Aggregated(candidate[l].confidence, evidence \ {l})
         valid == confidence >= VALIDATION_CONFIDENCE
     IN  Learn(l, [status |-> IF valid THEN "VALIDATED" ELSE "PENDING", confidence |-> confidence,
                   before |-> IF valid THEN candidate[l].confidence ELSE candidate[l].before,
                   evidence |-> evidence, roots |-> UNION {candidate[k].roots : k \in evidence}])

\* The confidence that what supports a validated learning still gives it; none when the support
\* is gone, was rejected, or is no longer independent.
Support(l) ==
  LET rest == candidate[l].evidence \ {l}
      roots == {l} \cup UNION {candidate[k].roots : k \in rest}
      own == Min({candidate[l].confidence, candidate[l].before})
      confidence == Aggregated(own, rest)
  IN  IF /\ l \notin revoked /\ candidate[l].before > 0
         /\ l \in candidate[l].evidence /\ Cardinality(candidate[l].evidence) >= Minimum
         /\ \A k \in rest : Counts(k) /\ l \notin candidate[k].roots
         /\ Independent(rest)
         /\ roots = candidate[l].roots /\ Cardinality(roots) >= Minimum
         /\ confidence >= VALIDATION_CONFIDENCE
        THEN Min({candidate[l].confidence, confidence})
        ELSE -1

Supported(l) == candidate[l].status = "VALIDATED" /\ Support(l) # -1

-----------------------------------------------------------------------------
(* Submitting a command.                                                   *)

At(c, step) == submission = [step |-> step, command |-> c]

Goes(c, step) == submission' = [step |-> step, command |-> c]

\* The owner confirmed the command for this revision, and it has not moved since.
Authorized(c) == subject.revision = command[c].expected

Solidifies(c) == command[c].operation = "SOLIDIFY"

\* Prepared for the same learning, and not resolved.
Left(c) ==
  {p \in Commands : /\ Prepared(p) /\ resolution[p] = "NONE"
                    /\ command[p].learning = command[c].learning}

\* A command the owner gives: for the revision he sees.
Issue(c) ==
  /\ command[c] = NotIssued /\ subject.revision < MaxRevision
  /\ \E l \in Learnings :
       \/ command' = [command EXCEPT ![c] =
                        [operation |-> "SOLIDIFY", learning |-> l, expected |-> subject.revision]]
       \/ \E t \in Commands :
            /\ Prepared(t) /\ Solidifies(t) /\ command[t].learning = l
            /\ command' = [command EXCEPT ![c] =
                 [operation |-> "ROLLBACK", learning |-> l, expected |-> subject.revision, trait |-> t]]
  /\ UNCHANGED <<candidate, preparation, resolution, active, revoked, subject, submission>>

\* Mutant: a command that was superseded is taken up again.
OpenAgain(c) == resolution[c] # "COMMITTED"

\* A command that was superseded is never taken up again.
Open(c) == resolution[c] = "NONE"

Submit(c) ==
  /\ submission = Idle /\ command[c] # NotIssued
  /\ IF Prepared(c)
       THEN IF Evolved(c)
              THEN resolution[c] = "NONE" /\ Goes(c, "finish")
              ELSE /\ Open(c) /\ subject.traits = preparation[c].before
                   /\ Authorized(c) /\ (Solidifies(c) => Supported(command[c].learning))
                   /\ Goes(c, "confirm")
       ELSE /\ Authorized(c) /\ (Solidifies(c) => Supported(command[c].learning))
            /\ Goes(c, "settle")
  /\ UNCHANGED <<candidate, command, preparation, resolution, active, revoked, subject>>

\* Mutant: a withdrawal that was superseded takes the trait off the record all the same.
ActiveOnceCommitted(p, outcome) ==
  IF Solidifies(p) /\ outcome = "COMMITTED" THEN active \cup {p}
  ELSE active \ {IF Solidifies(p) THEN p ELSE command[p].trait}

\* Mutant: a trait that was proposed is active however its command ended.
ActiveOnceResolved(p, outcome) ==
  IF Solidifies(p) THEN active \cup {p}
  ELSE IF outcome = "COMMITTED" THEN active \ {command[p].trait} ELSE active

\* The traits on record once a preparation is resolved.
ActiveAfter(p, outcome) ==
  LET t == IF Solidifies(p) THEN p ELSE command[p].trait
  IN  IF Solidifies(p) = (outcome = "COMMITTED") THEN active \cup {t} ELSE active \ {t}

\* Resolves a preparation in one write: the resolution, the trait and the candidate.
Resolve(p, outcome) ==
  /\ (outcome = "COMMITTED") = Evolved(p)
  /\ resolution' = [resolution EXCEPT ![p] = outcome]
  /\ active' = ActiveAfter(p, outcome)
  /\ candidate' = IF Solidifies(p) \/ outcome = "SUPERSEDED" THEN candidate
                  ELSE [candidate EXCEPT ![command[p].learning].status = "REVOKED"]
  /\ UNCHANGED <<command, preparation, revoked, subject>>

\* What is left prepared was committed if it evolved the SubjectState.
Outcome(p) == IF Evolved(p) THEN "COMMITTED" ELSE "SUPERSEDED"

\* What is left prepared for the learning is resolved first; what did not happen is superseded by
\* a command that asks for the same.
Settle(c) ==
  /\ At(c, "settle")
  /\ \E p \in Left(c) :
       /\ Outcome(p) = "SUPERSEDED" => command[p].operation = command[c].operation /\ Authorized(c)
       /\ Resolve(p, Outcome(p))
  /\ UNCHANGED submission

Settled(c) == Left(c) = {}

\* What is proposed is checked again and written to the audit.  A proposed trait is not active
\* yet, a withdrawn one still is.
Prepare(c) ==
  LET l == command[c].learning
  IN  /\ At(c, "settle") /\ Settled(c) /\ Authorized(c)
      /\ IF Solidifies(c)
           THEN /\ Supported(l) /\ candidate[l].confidence >= VALIDATION_CONFIDENCE
                /\ Cardinality(candidate[l].roots) >= Minimum
                /\ ~ Consolidated(l) /\ Proposes[l] \notin subject.traits
                /\ candidate' = [candidate EXCEPT ![l].confidence = Support(l)]
           ELSE /\ command[c].trait \in active /\ resolution[command[c].trait] = "COMMITTED"
                /\ Proposes[l] \in subject.traits
                /\ UNCHANGED candidate
      /\ preparation' = [preparation EXCEPT ![c] =
           [before |-> subject.traits,
            confidence |-> IF Solidifies(c) THEN Support(l) ELSE 0,
            evidence |-> Cardinality(candidate[l].roots)]]
      /\ Goes(c, "confirm")
      /\ UNCHANGED <<command, resolution, active, revoked, subject>>

\* The last look at what supports it: it must be what was prepared.
Confirm(c) ==
  LET l == command[c].learning
  IN  /\ At(c, "confirm") /\ Authorized(c)
      /\ Solidifies(c) =>
           /\ Supported(l) /\ Support(l) = preparation[c].confidence
           /\ Cardinality(candidate[l].roots) = preparation[c].evidence
      /\ Goes(c, "evolve")
      /\ UNCHANGED <<candidate, command, preparation, resolution, active, revoked, subject>>

Evolve(c) ==
  /\ At(c, "evolve") /\ Authorized(c)
  /\ subject' = [revision |-> subject.revision + 1,
                 traits |-> IF Solidifies(c) THEN subject.traits \cup {Value(c)}
                                             ELSE subject.traits \ {Value(c)},
                 fact |-> [subject.fact EXCEPT ![c] = subject.revision]]
  /\ Goes(c, "finish")
  /\ UNCHANGED <<candidate, command, preparation, resolution, active, revoked>>

Finish(c) ==
  /\ At(c, "finish")
  /\ Resolve(c, "COMMITTED")
  /\ submission' = Idle

\* A submission is refused, or the process dies under it; the lock is free again.
Break ==
  /\ submission # Idle /\ submission' = Idle
  /\ UNCHANGED <<candidate, command, preparation, resolution, active, revoked, subject>>

-----------------------------------------------------------------------------
(* Elsewhere.                                                              *)

\* Another event evolves the SubjectState, and may touch what traits it has.
Elsewhere ==
  /\ subject.revision < MaxRevision
  /\ \E value \in {Proposes[l] : l \in Learnings} :
       \E traits \in {subject.traits, subject.traits \cup {value}, subject.traits \ {value}} :
         subject' = [subject EXCEPT !.revision = @ + 1, !.traits = traits]
  /\ UNCHANGED <<candidate, command, preparation, resolution, active, revoked, submission>>

\* An experience is corrected or revoked, or may no longer be read.
Revoke(l) ==
  /\ l \notin revoked /\ revoked' = revoked \cup {l}
  /\ UNCHANGED <<candidate, command, preparation, resolution, active, subject, submission>>

GInit ==
  /\ candidate = [l \in Learnings |-> NoCandidate]
  /\ command = [c \in Commands |-> NotIssued]
  /\ preparation = [c \in Commands |-> NotPrepared]
  /\ resolution = [c \in Commands |-> "NONE"]
  /\ active = {}
  /\ revoked = {}
  /\ subject = [revision |-> 0, traits |-> {}, fact |-> [c \in Commands |-> -1]]
  /\ submission = Idle

GNext ==
  \/ \E l \in Learnings :
       \/ Capture(l) \/ Adjust(l) \/ Reject(l) \/ Revoke(l)
       \/ \E evidence \in SUBSET Learnings : Validate(l, evidence)
  \/ \E c \in Commands :
       \/ Issue(c) \/ Submit(c) \/ Settle(c) \/ Prepare(c) \/ Confirm(c) \/ Evolve(c) \/ Finish(c)
  \/ Break
  \/ Elsewhere

GSpec == GInit /\ [][GNext]_gvars

-----------------------------------------------------------------------------
(* Properties.                                                             *)

Proposed == {t \in Commands : Prepared(t) /\ Solidifies(t)}

Withdrew(r, t) == Prepared(r) /\ ~ Solidifies(r) /\ command[r].trait = t /\ Evolved(r)

\* The traits on record are those that the SubjectState evolved with and was not told to withdraw,
\* but for what a crash left to resolve: through any sequence of preparations, crashes, superseding
\* and late commands.
TraitsFollowFacts ==
  \A t \in Proposed :
    /\ t \in active => Evolved(t) /\ \A r \in Commands : Withdrew(r, t) => resolution[r] = "NONE"
    /\ Evolved(t) /\ t \notin active => resolution[t] = "NONE" \/ \E r \in Commands : Withdrew(r, t)

\* What was learnt is never a trait of the subject twice.
OneActiveTrait ==
  \A t, u \in active : command[t].learning = command[u].learning => t = u

\* A command that was superseded never evolves the SubjectState, neither then nor when it is
\* submitted again; one that was committed did.
ResolvedForGood ==
  \A c \in Commands : resolution[c] # "NONE" => (resolution[c] = "COMMITTED") = Evolved(c)
=============================================================================
