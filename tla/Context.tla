------------------------------ MODULE Context -------------------------------
(***************************************************************************)
(* ContextRouterService and ContextComposerService, and the check of a     *)
(* context before it is used (ContinuityCoreService.current): what the     *)
(* subject is given to think with.  Sources are asked one after the other  *)
(* for a bounded number of candidates, each of which is read once more;    *)
(* the references that remain are resolved, each by a read of its own, and *)
(* what fits the budget is the context.  The sources do not wait: the      *)
(* subject's state, memories, summaries and the timeline go on changing.   *)
(* Abstracted: what is relevant and in which order (scores), permission    *)
(* (which may be refused at any read), contents, and exact duplicates.     *)
(***************************************************************************)
EXTENDS Integers, Sequences, FiniteSets, SequencesExt

CONSTANTS
  ReadingOrder,   \* the sources, in the order they are read
  Items,          \* [sources -> sequences of items]: what each source has, best first
  Whole,          \* the source that is versioned as a whole: the subject's state
  Required,       \* sources without which there is no context
  Protected,      \* items the budget may not cut
  Cost,           \* [items -> tokens]
  CandidateLimit, \* RetrievalBudget.total_candidate_limit
  SourceLimit,    \* [sources -> candidates]: RetrievalBudget.limit_for
  FragmentLimit,  \* ContextBudget.core_fragment_limit
  TokenLimit,     \* ContextBudget.token_limit
  MaxChanges      \* bound: changes of the sources

VARIABLES
  current,  \* the version of each item, and whether it may be used
  changes,  \* how often the sources changed
  work,     \* the routing and composition under way
  snapshot  \* the context that was composed

cvars == <<current, changes, work, snapshot>>

-----------------------------------------------------------------------------
Sources == ToSet(ReadingOrder)

ItemsOf(s) == ToSet(Items[s])

AllItems == UNION {ItemsOf(s) : s \in Sources}

SourceOf(i) == CHOOSE s \in Sources : i \in ItemsOf(s)

IsRequired(i) == SourceOf(i) \in Required

Revision == current[Items[Whole][1]].version

Versions == [i \in AllItems |-> current[i].version]

NoSnapshot == [fragments |-> << >>, missing |-> {}]

NoWork ==
  [step |-> "idle", revision |-> 0, selected |-> << >>, at |-> 1, batch |-> << >>, read |-> << >>,
   pool |-> {}, failed |-> FALSE, manifest |-> << >>, resolved |-> << >>, missing |-> {},
   began |-> << >>]

\* Those of a list that are in a set, in their order.
Among(seq, set) ==
  FoldLeft(LAMBDA kept, x : IF x \in set THEN Append(kept, x) ELSE kept, << >>, seq)

-----------------------------------------------------------------------------
(* The sources.                                                            *)

\* The state of the subject moves on as a whole; another item by itself, and whether it may be used
\* can change with no version of its own, by what it rests on.
Change ==
  /\ changes < MaxChanges /\ changes' = changes + 1
  /\ \/ current' = [i \in AllItems |->
           IF i \in ItemsOf(Whole) THEN [current[i] EXCEPT !.version = @ + 1] ELSE current[i]]
     \/ \E i \in AllItems \ ItemsOf(Whole) :
          current' \in {[current EXCEPT ![i].version = @ + 1], [current EXCEPT ![i].eligible = ~ @]}
  /\ UNCHANGED <<work, snapshot>>

-----------------------------------------------------------------------------
(* Routing.                                                                *)

Capped(s, share) == IF share < SourceLimit[s] THEN share ELSE SourceLimit[s]

\* The shares of the sources: each gets its part, rounded up, of what is left, and no more than is
\* meant for it.
Allocated(selected) ==
  LET given[k \in 0..Len(selected)] ==
        IF k = 0 THEN 0
        ELSE LET rest == Len(selected) - k + 1
             IN  given[k - 1]
                   + Capped(selected[k], ((CandidateLimit - given[k - 1]) + rest - 1) \div rest)
  IN  [k \in DOMAIN selected |-> given[k] - given[k - 1]]

\* What a bounded read of a source returns.
Query(s, limit) ==
  LET usable == Among(Items[s], {i \in ItemsOf(s) : current[i].eligible})
      first == SubSeq(usable, 1, IF Len(usable) < limit THEN Len(usable) ELSE limit)
  IN  [k \in DOMAIN first |-> [item |-> first[k], version |-> current[first[k]].version]]

Limit == Allocated(work.selected)[work.at]

\* The state was perceived at a revision; the purposes select further sources.
Perceive ==
  /\ work.step = "idle"
  /\ \E others \in SUBSET (Sources \ Required) :
       work' = [NoWork EXCEPT !.step = "open", !.revision = Revision,
                  !.selected = Among(ReadingOrder, Required \cup others)]
  /\ UNCHANGED <<current, changes, snapshot>>

\* A source that is denied, unavailable, or no longer at the revision perceived is passed over; if it
\* is required, nothing will come of the route.
Open ==
  /\ work.step = "open"
  /\ IF work.at > Len(work.selected)
       THEN work' = [work EXCEPT !.step = "rank"]
       ELSE LET s == work.selected[work.at]
                batch == Query(s, Limit)
            IN  \/ /\ s = Whole => Revision = work.revision
                   /\ Limit > 0
                   /\ work' = [work EXCEPT !.step = "validate", !.batch = batch, !.read = batch]
                \/ work' = [work EXCEPT !.at = @ + 1, !.failed = @ \/ s \in Required]
  /\ UNCHANGED <<current, changes, snapshot>>

\* A candidate is read again: its source must return exactly what it returned.
Validate ==
  /\ work.step = "validate"
  /\ IF work.batch = << >>
       THEN work' = [work EXCEPT !.step = "open", !.at = @ + 1]
       ELSE LET s == work.selected[work.at]
                rest == [work EXCEPT !.batch = Tail(@)]
            IN  \/ /\ IF s = Whole THEN Revision = Head(work.batch).version ELSE Query(s, Limit) = work.read
                   /\ work' \in {[rest EXCEPT !.pool = @ \cup {Head(work.batch)}], rest}
                \/ work' = [rest EXCEPT !.failed = @ \/ s \in Required]
  /\ UNCHANGED <<current, changes, snapshot>>

\* A refused request is over.
Refused == [NoWork EXCEPT !.step = "refused"]

Begins(from) ==
  [from EXCEPT !.step = "resolve", !.at = 1, !.resolved = << >>, !.missing = {}, !.began = Versions]

Rank ==
  /\ work.step = "rank"
  /\ IF work.failed
       THEN work' = Refused
       ELSE \E ranked \in SetToSeqs(work.pool) :
              work' = Begins([work EXCEPT !.manifest =
                SubSeq(ranked, 1, IF Len(ranked) < CandidateLimit THEN Len(ranked) ELSE CandidateLimit)])
  /\ UNCHANGED <<current, changes, snapshot>>

-----------------------------------------------------------------------------
(* Composition.                                                            *)

\* Mutant: a reference is resolved to whatever the item says now.
ResolvesToNow(ref) == current[ref.item].eligible /\ ref.version <= current[ref.item].version

Resolves(ref) == current[ref.item].eligible /\ current[ref.item].version = ref.version

\* Mutant: what is required may be missing.
MayMissAny(ref) == ref.item \in AllItems

MayMiss(ref) == ~ IsRequired(ref.item)

Resolve ==
  /\ work.step = "resolve" /\ work.at <= Len(work.manifest)
  /\ LET ref == work.manifest[work.at]
         next == [work EXCEPT !.at = @ + 1]
     IN  \/ Resolves(ref) /\ work' = [next EXCEPT !.resolved = Append(@, ref)]
         \/ work' = IF MayMiss(ref) THEN [next EXCEPT !.missing = @ \cup {ref}] ELSE Refused
  /\ UNCHANGED <<current, changes, snapshot>>

\* What is protected comes first, and then what still fits, in the order of the route.
Fitting(resolved) ==
  LET protected == {ref \in ToSet(resolved) : ref.item \in Protected}
      ordered == Among(resolved, protected) \o Among(resolved, ToSet(resolved) \ protected)
      keep(kept, ref) ==
        IF Len(kept.refs) < FragmentLimit /\ kept.tokens + Cost[ref.item] <= TokenLimit
          THEN [refs |-> Append(kept.refs, ref), tokens |-> kept.tokens + Cost[ref.item]]
          ELSE kept
  IN  FoldLeft(keep, [refs |-> << >>, tokens |-> 0], ordered).refs

Fits(resolved) ==
  \A k \in DOMAIN resolved : resolved[k].item \in Protected => resolved[k] \in ToSet(Fitting(resolved))

\* The context is composed; or, if there is one already, it must be composed just as it was.
Finish ==
  /\ work.step = "resolve" /\ work.at > Len(work.manifest)
  /\ LET composed == [fragments |-> Fitting(work.resolved), missing |-> work.missing]
     IN  IF ~ Fits(work.resolved) \/ snapshot \notin {NoSnapshot, composed}
           THEN work' = Refused /\ UNCHANGED snapshot
           ELSE /\ snapshot' = composed
                /\ work' = [work EXCEPT !.step = IF snapshot = NoSnapshot THEN "composed" ELSE "used"]
  /\ UNCHANGED <<current, changes>>

\* Before new work the context is resolved again, if the subject is where it was.
Recheck ==
  /\ work.step = "composed"
  /\ work' = IF Revision = work.revision THEN Begins(work) ELSE Refused
  /\ UNCHANGED <<current, changes, snapshot>>

-----------------------------------------------------------------------------
CInit ==
  /\ current = [i \in AllItems |-> [version |-> 0, eligible |-> TRUE]]
  /\ changes = 0 /\ work = NoWork /\ snapshot = NoSnapshot

CNext ==
  \/ Change
  \/ Perceive \/ Open \/ Validate \/ Rank
  \/ Resolve \/ Finish \/ Recheck

CSpec == CInit /\ [][CNext]_cvars

-----------------------------------------------------------------------------
(* Properties.                                                             *)

\* The context is a cut: though its parts are read one after the other while the sources change, there
\* was one moment, the beginning of the last resolution, at which all of them were as they were
\* read; and a context that is used is of the revision the subject was perceived at and still had then.
ContextIsACut ==
  work.step \in {"composed", "used"} =>
    /\ \A k \in DOMAIN snapshot.fragments :
         snapshot.fragments[k].version = work.began[snapshot.fragments[k].item]
    /\ work.step = "used" => work.began[Items[Whole][1]] = work.revision

\* All that the required sources contributed to the route is there, or there is no context: neither a
\* change in between nor the budget takes any of it that is protected.
RequiredOrNothing ==
  work.step \in {"composed", "used"} =>
    /\ ~ work.failed
    /\ \A k \in DOMAIN work.manifest :
         /\ IsRequired(work.manifest[k].item) => work.manifest[k] \notin snapshot.missing
         /\ IsRequired(work.manifest[k].item) /\ work.manifest[k].item \in Protected =>
              work.manifest[k] \in ToSet(snapshot.fragments)
=============================================================================
