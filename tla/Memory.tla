------------------------------- MODULE Memory -------------------------------
(***************************************************************************)
(* JsonMemoryRepository under MemoryConsolidationService and               *)
(* MemoryLifecycleService: what the subject remembers of events, who is    *)
(* told to forget it, and the summaries drawn from it.                     *)
(* A memory is a chain of versions, of which only the last one can be      *)
(* used; it rests on evidence (roots) and on other memories, each at one   *)
(* version.  Consolidation reads the document three times (what was put    *)
(* away, what there is, and the versions of what the new memory is made    *)
(* from), and maintenance once, before they write in one or more           *)
(* transactions; lifecycle commands come from other threads and are one    *)
(* transaction each.                                                       *)
(* Abstracted: kinds, times, confidence and activation; that evidence is   *)
(* traceable (it only grows); a weight is full, less than that or zero.    *)
(***************************************************************************)
EXTENDS Integers, Sequences, FiniteSets, FiniteSetsExt, Functions, SequencesExt

CONSTANTS
  Ids,         \* of memories
  Events,      \* the evidence
  SummaryIds,
  Candidates,  \* [key, id, scope, content, events, roots, sources]: what is consolidated
  MaxWrites    \* bound: transactions

VARIABLES
  memory,      \* the last version of each memory
  receipts,    \* the candidates whose consolidation is on record
  summary,     \* the last version of each summary
  timeline,    \* what became of each event
  reading,     \* the candidate whose consolidation has begun, and is not decided
  unseen,      \* what a consolidation did not find among what there is of its evidence
  job,         \* per maintenance call: the writes it still has to make
  writes       \* how many transactions there were

mvars == <<memory, receipts, summary, timeline, reading, unseen, job, writes>>

-----------------------------------------------------------------------------
(* Records.                                                                *)

Unbound == -1

\* A source of which the version is still to be read.
Unread == -2

NoMemory == [revision |-> -1]

NoSummary == [version |-> 0, status |-> "NONE", sources |-> {}, roots |-> {}]

Known == {m \in Ids : memory[m] # NoMemory}

\* What one transaction writes.
NothingToWrite == [memories |-> << >>, receipts |-> {}, summaries |-> << >>]

Full == 2

Lifecycle(v) ==
  IF v.status = "DELETED" THEN "DELETED"
  ELSE IF v.lifecycle # "NONE" THEN v.lifecycle
  ELSE IF v.status # "ACTIVE" THEN "INACTIVE"
  ELSE IF v.cold THEN "ARCHIVED" ELSE "ACTIVE"

Terminal(v) == v.status # "ACTIVE" \/ Lifecycle(v) = "DELETED"

-----------------------------------------------------------------------------
(* What can be used.                                                       *)

Overlap(S, T) == S \cap T # {}

Sharing(m) == {n \in Known : Overlap(memory[n].roots, memory[m].roots)}

\* The weight a memory grants its evidence: a command that put it away grants none.
Granted(n) ==
  IF memory[n].lifecycle \in {"INACTIVE", "ARCHIVED", "DELETED"} THEN 0 ELSE memory[n].weight

\* Memories of the same evidence share the lowest of their weights.
Weight(m) == Min({memory[m].weight} \cup {Granted(n) : n \in Sharing(m)})

Available(m) == memory[m].status = "ACTIVE" /\ Lifecycle(memory[m]) = "ACTIVE" /\ Weight(m) > 0

\* A source is the version the memory was made from, or was never governed.
BoundTo(m, p) ==
  IF memory[m].sources[p] = Unbound
    THEN memory[p].lifecycle = "NONE"
    ELSE memory[m].sources[p] = memory[p].revision

\* The memories that can be used: the least set with every available memory whose sources are
\* still what it was made from and in the set.  A memory that goes back to itself is in none.
Usable(m) ==
  LET sound == {n \in Known : Available(n) /\ \A p \in DOMAIN memory[n].sources : BoundTo(n, p)}
  IN  \A S \in SUBSET sound : (\A n \in sound : DOMAIN memory[n].sources \subseteq S => n \in S) => m \in S

\* Whether what a memory that was put away rests on would still carry it.
StillCarried(m) ==
  /\ \A n \in Sharing(m) : memory[n].lifecycle # "DELETED"
  /\ \A p \in DOMAIN memory[m].sources : BoundTo(m, p) /\ Usable(p) /\ m \notin DOMAIN memory[p].sources

Listed ==
  {m \in Known : /\ memory[m].status = "ACTIVE"
                 /\ \/ memory[m].lifecycle = "NONE" /\ DOMAIN memory[m].sources = {} /\ Weight(m) > 0
                    \/ Usable(m)}

-----------------------------------------------------------------------------
(* A transaction.                                                          *)

\* Mutant: the last write wins, whatever version it was made from.
MayAppendLast(m, new) ==
  IF memory[m] = NoMemory THEN new.revision = 0 ELSE memory[m].status = "ACTIVE"

MayAppend(m, new) ==
  IF memory[m] = NoMemory
    THEN new.revision = 0 /\ \A n \in Known : Overlap(memory[n].roots, new.roots) => Available(n)
    ELSE \/ new = memory[m]
         \/ /\ new.revision = memory[m].revision + 1
            /\ memory[m].roots \subseteq new.roots
            /\ memory[m].lifecycle # "NONE" => new.lifecycle # "NONE"
            /\ ~ Terminal(memory[m])

SourcesAreCurrent(m, new) ==
  \A p \in DOMAIN new.sources :
    /\ memory[p] # NoMemory
    /\ \/ new.sources[p] \in {Unbound, memory[p].revision}
       \/ memory[m] # NoMemory /\ new.sources = memory[m].sources

\* Consolidation does not build on what cannot be used.
MayConsolidate(c, m, new) ==
  /\ \A d \in receipts : d.key # c.key
  /\ memory[m] # NoMemory =>
       (new = memory[m] \/ new.revision > memory[m].revision) /\ Usable(m)
  /\ \A n \in Known : Overlap(memory[n].roots, new.roots) => Usable(n)

After(w) ==
  [memory |-> [m \in Ids |-> IF m \in DOMAIN w.memories THEN w.memories[m] ELSE memory[m]],
   summary |-> [s \in SummaryIds |-> IF s \in DOMAIN w.summaries THEN w.summaries[s] ELSE summary[s]]]

\* Mutant: a summary may be active whatever became of its sources.
LoadsAnyway(mem, sum) == DOMAIN mem = Ids /\ DOMAIN sum = SummaryIds

\* What the document must satisfy to be written, and to be read again.
Loads(mem, sum) ==
  \A s \in SummaryIds : sum[s].status = "ACTIVE" =>
    \A m \in sum[s].sources : mem[m] # NoMemory /\ mem[m].status = "ACTIVE"

Accepted(w) ==
  /\ \A m \in DOMAIN w.memories :
       /\ MayAppend(m, w.memories[m])
       /\ SourcesAreCurrent(m, w.memories[m])
       /\ \A c \in w.receipts : MayConsolidate(c, m, w.memories[m])
  /\ \A s \in DOMAIN w.summaries : w.summaries[s].version = summary[s].version + 1
  /\ Loads(After(w).memory, After(w).summary)

Commit(w) ==
  /\ memory' = After(w).memory
  /\ summary' = After(w).summary
  /\ receipts' = receipts \cup w.receipts
  /\ writes' = writes + 1

-----------------------------------------------------------------------------
(* Maintenance: what a call reads, and the writes it decides on.  Evidence *)
(* is consolidated, and what became of it propagated, in one call of Core  *)
(* at a time; a recall in another call also draws summaries.               *)

Callers == {"core", "recall"}

\* A call begins when the one before it is over; the bound leaves it at least a write.
MayStart(caller) ==
  job[caller] = << >> /\ writes < MaxWrites /\ (caller = "core" => reading = {})

Plans(caller, todo) ==
  /\ job[caller] = << >>
  /\ writes + Len(todo) + SumFunction([c \in Callers |-> Len(job[c])]) <= MaxWrites
  /\ job' = [job EXCEPT ![caller] = todo]
  /\ UNCHANGED <<memory, receipts, summary, timeline, writes>>

Starts(caller, todo) == MayStart(caller) /\ Plans(caller, todo) /\ UNCHANGED <<reading, unseen>>

Next1(v) == [v EXCEPT !.revision = @ + 1]

\* A write of one memory, and the receipt for the candidate it consolidates.
Consolidated(c, m, v) ==
  [NothingToWrite EXCEPT !.memories = [n \in {m} |-> v], !.receipts = {c}]

Created(c, cold) ==
  [revision |-> 0, scope |-> c.scope, content |-> c.content, events |-> c.events, roots |-> c.roots,
   sources |-> [p \in c.sources |-> Unread],
   status |-> "ACTIVE", lifecycle |-> "NONE", weight |-> Full, cold |-> cold]

\* New evidence for what a memory already says; its sources are bound again if they were bound.
Merged(c, m, cold) ==
  LET v == memory[m]
      sources == (DOMAIN v.sources \cup c.sources) \ {m}
      bound == DOMAIN v.sources # {} /\ \A p \in DOMAIN v.sources : v.sources[p] # Unbound
  IN  [Next1(v) EXCEPT !.events = @ \cup c.events, !.roots = @ \cup c.roots, !.cold = cold,
                       !.sources = [p \in sources |-> IF bound THEN Unread ELSE Unbound]]

\* Mutant: only the very same evidence is a conflict.
MayStandLoosely(c, alike) == \A m \in alike : memory[m].content # c.content => memory[m].roots # c.roots

\* Evidence that says something else in the same scope is left to be resolved elsewhere.
MayStand(c, alike) ==
  /\ \A m \in alike : memory[m].content # c.content => ~ Overlap(memory[m].roots, c.roots)
  /\ alike = {} \/ \E m \in alike : memory[m].content = c.content

\* A candidate is taken up.  Evidence of a memory that cannot be used is not taken again.
Consider(c) ==
  /\ MayStart("core")
  /\ \A d \in receipts : d.key # c.key
  /\ \A m \in Known : Overlap(memory[m].roots, c.roots) => Available(m)
  /\ reading' = {c}
  /\ UNCHANGED <<memory, receipts, summary, timeline, unseen, job, writes>>

\* It is consolidated: into a memory that already says so, or into a new one, or it contradicts
\* what there is.  Of several memories that say the same, the oldest is taken; the model does not
\* keep their age.
Consolidate(c) ==
  LET alike == {m \in Listed : memory[m].scope = c.scope}
      same == {m \in alike : memory[m].content = c.content}
      evidence == UNION {memory[m].roots : m \in alike}
      covers(m) == Overlap(evidence, c.roots) /\ c.roots \subseteq memory[m].roots
      stands == MayStand(c, alike)
  IN  /\ c \in reading /\ reading' = {}
      /\ unseen' = {m \in Known \ Listed : Overlap(memory[m].roots, c.roots)}
      /\ \/ \E m \in same : covers(m) /\ Plans("core", <<Consolidated(c, m, memory[m])>>)
         \/ \E m \in same, cold \in BOOLEAN :
              ~ covers(m) /\ stands /\ Plans("core", <<Consolidated(c, m, Merged(c, m, cold))>>)
         \/ \E cold \in BOOLEAN :
              same = {} /\ stands /\ Plans("core", <<Consolidated(c, c.id, Created(c, cold))>>)
         \/ ~ stands /\ (\A m \in same : ~ covers(m)) /\ Plans("core", << >>)

HasUnread(w) ==
  \E m \in DOMAIN w.memories :
    \E p \in DOMAIN w.memories[m].sources : w.memories[m].sources[p] = Unread

\* The sources, each at its version of now; they are all read again, or none of them.
BoundNow(v) == [v EXCEPT !.sources = [p \in DOMAIN v.sources |-> memory[p].revision]]

BoundWrite(w) ==
  [NothingToWrite EXCEPT !.memories = [m \in DOMAIN w.memories |-> BoundNow(w.memories[m])],
                         !.receipts = w.receipts]

\* What is to be written is bound to the sources it is made from, if there are such memories.
Bind ==
  /\ job["core"] # << >>
  /\ LET w == Head(job["core"])
     IN  /\ HasUnread(w)
         /\ job' = [job EXCEPT !["core"] =
              IF \A m \in DOMAIN w.memories : DOMAIN w.memories[m].sources \subseteq Known
                THEN <<BoundWrite(w)>> ELSE << >>]
  /\ UNCHANGED <<memory, receipts, summary, timeline, reading, unseen, writes>>

\* Activation is computed again for all that is listed; what gets too cold is archived.  Each
\* memory is a write of its own.
Recalculate ==
  /\ \E changed \in SUBSET Listed : \E cold \in [changed -> BOOLEAN] :
       /\ changed # {}
       /\ \E order \in SetToSeqs(changed) :
            Starts("core", [i \in DOMAIN order |->
                 [NothingToWrite EXCEPT !.memories =
                    [m \in {order[i]} |-> [Next1(memory[m]) EXCEPT !.cold = cold[m]]]]])

Version(s, status, sources) ==
  [version |-> s.version + 1, status |-> status, sources |-> sources,
   roots |-> UNION {memory[m].roots : m \in sources}]

Retired(s, status) == [s EXCEPT !.version = @ + 1, !.status = status]

\* A summary of usable memories; the active version, if there is one, is superseded first.
Summarise(caller, s, sources) ==
  LET old == summary[s]
      write(v) == [NothingToWrite EXCEPT !.summaries = [t \in {s} |-> v]]
      superseded == Retired(old, "SUPERSEDED")
  IN  /\ sources # {} /\ \A m \in sources : memory[m] # NoMemory /\ Usable(m)
      /\ IF old.status = "ACTIVE"
           THEN Starts(caller, <<write(superseded), write(Version(superseded, "ACTIVE", sources))>>)
           ELSE Starts(caller, <<write(Version(old, "ACTIVE", sources))>>)

\* What a memory is told: that an event of it was corrected or revoked, or, by a host, that it is
\* deleted.
Signals(m) == ({timeline[e] : e \in memory[m].events} \ {"ACTIVE"}) \cup {"DELETED"}

\* So is the memory, and the summaries drawn from it are invalidated in the same transaction.
Propagate(m, signal) ==
  LET drawn == {s \in SummaryIds : summary[s].status = "ACTIVE" /\ m \in summary[s].sources}
  IN  /\ memory[m] # NoMemory /\ memory[m].status = "ACTIVE" /\ signal \in Signals(m)
      /\ Starts("core", <<[NothingToWrite EXCEPT
                !.memories = [n \in {m} |-> [Next1(memory[m]) EXCEPT !.status = signal]],
                !.summaries = [s \in drawn |-> Retired(summary[s], "INVALIDATED")]]>>)

\* The next write of the call.  One that is refused ends it; what it wrote stays.
Write(caller) ==
  /\ job[caller] # << >> /\ ~ HasUnread(Head(job[caller]))
  /\ IF Accepted(Head(job[caller]))
       THEN /\ Commit(Head(job[caller]))
            /\ job' = [job EXCEPT ![caller] = Tail(@)]
       ELSE /\ job' = [job EXCEPT ![caller] = << >>]
            /\ UNCHANGED <<memory, receipts, summary, writes>>
  /\ unseen' = IF caller = "core" THEN {} ELSE unseen
  /\ UNCHANGED <<timeline, reading>>

-----------------------------------------------------------------------------
(* Lifecycle commands.                                                     *)

\* The memories a command touches: those of the same evidence, unless only the weight changes,
\* and all that was made from them.
Touched(m, action) ==
  LET first == IF action = "weaken" THEN {m} ELSE {m} \cup Sharing(m)
      grown[k \in 0..Cardinality(Ids)] ==
        IF k = 0 THEN first
        ELSE grown[k - 1] \cup {n \in Known : Overlap(DOMAIN memory[n].sources, grown[k - 1])}
  IN  grown[Cardinality(Ids)]

\* All events and memories a memory rests on are as good as ever.
SourcesStand(m) ==
  LET stands[n \in Ids, seen \in SUBSET Ids] ==
        /\ n \notin seen
        /\ \A e \in memory[n].events : timeline[e] = "ACTIVE"
        /\ \A p \in DOMAIN memory[n].sources : Available(p) /\ stands[p, seen \cup {n}]
  IN  stands[m, {}]

\* The version a command makes of a memory; none if the memory may not be commanded so.
Commanded(m, action) ==
  LET v == Next1(memory[m])
      now == Lifecycle(memory[m])
  IN  IF Terminal(memory[m]) THEN {}
      ELSE IF action = "deactivate" /\ now = "ACTIVE" THEN {[v EXCEPT !.lifecycle = "INACTIVE"]}
      ELSE IF action = "archive" /\ now \in {"ACTIVE", "INACTIVE"} THEN {[v EXCEPT !.lifecycle = "ARCHIVED"]}
      ELSE IF action = "delete" THEN {[v EXCEPT !.lifecycle = "DELETED"]}
      ELSE IF action = "restore" /\ now \in {"INACTIVE", "ARCHIVED"}
        THEN {[v EXCEPT !.lifecycle = "ACTIVE", !.weight = Full]}
      ELSE IF action = "weaken" /\ now = "ACTIVE"
        THEN {[v EXCEPT !.lifecycle = "ACTIVE", !.weight = w] : w \in 0..memory[m].weight}
      ELSE {}

\* One command, confirmed and permitted, for the version it names.
Command(m, action) ==
  LET drawn == {s \in SummaryIds : /\ summary[s].status = "ACTIVE"
                                   /\ Overlap(summary[s].sources, Touched(m, action))}
  IN  /\ memory[m] # NoMemory /\ writes < MaxWrites
      /\ action \in {"restore", "weaken"} => SourcesStand(m) /\ StillCarried(m)
      /\ \E v \in Commanded(m, action) :
           Commit([NothingToWrite EXCEPT
                     !.memories = [n \in {m} |-> v],
                     !.summaries = [s \in drawn |-> Retired(summary[s], "INVALIDATED")]])
      /\ UNCHANGED <<job, timeline, reading, unseen>>

\* The timeline learns that an event was corrected or revoked.
Reconsider(e) ==
  /\ timeline[e] = "ACTIVE"
  /\ \E status \in {"CORRECTED", "REVOKED"} : timeline' = [timeline EXCEPT ![e] = status]
  /\ UNCHANGED <<memory, receipts, summary, reading, unseen, job, writes>>

-----------------------------------------------------------------------------
Actions == {"deactivate", "archive", "delete", "restore", "weaken"}

MInit ==
  /\ memory = [m \in Ids |-> NoMemory]
  /\ receipts = {}
  /\ summary = [s \in SummaryIds |-> NoSummary]
  /\ timeline = [e \in Events |-> "ACTIVE"]
  /\ reading = {} /\ unseen = {}
  /\ job = [c \in Callers |-> << >>]
  /\ writes = 0

MNext ==
  \/ \E c \in Candidates : Consider(c) \/ Consolidate(c)
  \/ Bind
  \/ Recalculate
  \/ \E m \in Ids, signal \in {"CORRECTED", "REVOKED", "DELETED"} : Propagate(m, signal)
  \/ \E caller \in Callers :
       \/ \E s \in SummaryIds, sources \in SUBSET Ids : Summarise(caller, s, sources)
       \/ Write(caller)
  \/ \E m \in Ids, action \in Actions : Command(m, action)
  \/ \E e \in Events : Reconsider(e)

MSpec == MInit /\ [][MNext]_mvars

-----------------------------------------------------------------------------
(* Properties.                                                             *)

\* A memory that was deleted, corrected or revoked stays exactly so: no write that was decided
\* before, by a merge, a recalculation or a command, makes a further version of it.
TerminalIsLast ==
  [][\A m \in Ids : memory[m] # NoMemory /\ Terminal(memory[m]) => memory'[m] = memory[m]]_mvars

\* A summary that is active was drawn from memories none of which was corrected or revoked since,
\* though it is generated from what was read before and written later, in two steps.
SummariesStand ==
  \A s \in SummaryIds : summary[s].status = "ACTIVE" =>
    \A m \in summary[s].sources : memory[m] # NoMemory /\ memory[m].status = "ACTIVE"

\* Resting on evidence alone, two memories say two things of one piece of it in one scope.
Contrary(v, u) ==
  /\ DOMAIN v.sources = {} /\ DOMAIN u.sources = {}
  /\ v.scope = u.scope /\ Overlap(v.roots, u.roots) /\ v.content # u.content

\* Memories that rest on evidence alone do not come to contradict each other, whichever of them is
\* put away or brought back while a consolidation has read and not yet written; but for one that a
\* consolidation could not find, since it was put away when it read what there is, and that was
\* brought back before it wrote.  (One made from other memories can be unusable for what happened
\* to those, be passed over, and come back.)
OneMeaning ==
  [][\A m, n \in Ids :
       memory'[m] # NoMemory /\ memory'[n] # NoMemory /\ Contrary(memory'[m], memory'[n]) =>
         \/ memory[m] # NoMemory /\ memory[n] # NoMemory /\ Contrary(memory[m], memory[n])
         \/ {m, n} \cap unseen # {}]_mvars
=============================================================================
