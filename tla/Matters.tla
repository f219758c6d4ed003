------------------------------- MODULE Matters -------------------------------
(***************************************************************************)
(* UnfinishedItemService and RecognitionService: what the subject means to *)
(* do, and what it holds of others.  Neither has a store of its own: the   *)
(* matters that are open and the conclusions that stand are fields of the  *)
(* SubjectState, changed by commands of which each is an event of the      *)
(* history; what was ended is found nowhere but in the history.            *)
(* A command reads the history, loads the state, computes the whole field  *)
(* anew and has it applied at the revision that its caller names, with     *)
(* other commands and events in between.  The caller names any revision,   *)
(* the present one, a past one or one to come.  A caller that got no       *)
(* answer sends its command again.                                         *)
(* Abstracted: evidence that is not current any more, owners and gates     *)
(* (anything may be refused at any time), the legacy list, times, and all  *)
(* conclusions but one.                                                    *)
(***************************************************************************)
EXTENDS Naturals, Sequences

CONSTANTS
  Callers,
  Commands,
  Items,
  Learnings,   \* validated ones, each with a conclusion, its polarity and what it corrects
  None,
  MaxRevision, \* of a matter
  MaxUpdates

VARIABLES
  history,     \* the updates of the subject
  command,     \* the body of each command that was issued
  call

mvars == <<history, command, call>>

-----------------------------------------------------------------------------
(* The state of the subject.                                               *)

Terminal == {"COMPLETED", "CANCELLED"}

\* Waiting, deferred and failed matters are open as well.
Statuses == {"OPEN"} \cup Terminal

Matter == [item : Items, status : Statuses, revision : 0..MaxRevision]

\* The state holds the learning that its conclusion rests on.
Blank == [records |-> {}, opinion |-> None]

State == IF history = <<>> THEN Blank ELSE history[Len(history)].state

Revision == Len(history)

Updates == {history[i] : i \in 1..Len(history)}

\* Items the history knows of (_historical_items).
Known == {u.body.record.item : u \in {v \in Updates : v.body.kind = "ITEM"}}

Old(state, item) == {r \in state.records : r.item = item}

-----------------------------------------------------------------------------
(* Bodies of commands.                                                     *)

\* How the revision that a command names stands to the one there is when it is sent.
Named(expected) ==
  IF expected < Revision THEN "PAST" ELSE IF expected = Revision THEN "PRESENT" ELSE "FUTURE"

Bodies ==
  UNION {[kind : {"ITEM"}, record : Matter, expected : {n}, named : {Named(n)}]
         \cup [kind : {"COMMIT", "WITHDRAW"}, learning : Learnings, expected : {n},
               named : {Named(n)}] : n \in 0..MaxUpdates}

\* Mutant: what is not in the state is new.
AdmissibleIfAbsent(record, state, known) ==
  LET old == Old(state, record.item)
  IN  IF old = {}
        THEN record.revision = 0 /\ record.status \notin Terminal
        ELSE \A r \in old : r.status \notin Terminal /\ record.revision = r.revision + 1

\* A matter begins open and goes on revision by revision until it has ended; what ended and is
\* known from the history does not begin again.
Admissible(record, state, known) ==
  LET old == Old(state, record.item)
  IN  IF old = {}
        THEN record.item \notin known /\ record.revision = 0 /\ record.status \notin Terminal
        ELSE \A r \in old : r.status \notin Terminal /\ record.revision = r.revision + 1

\* Only an event that is the result of the matter completes it.
Completed(record) ==
  record.status = "COMPLETED" =>
    \E u \in Updates : u.body.kind = "RESULT" /\ u.body.item = record.item

\* A conclusion is replaced or withdrawn by what corrects it, and not repeated.
Correctable(l, opinion) ==
  IF l.polarity = "SUPPORT"
    THEN opinion # None => l.corrects = opinion.says /\ l # opinion
    ELSE opinion # None /\ l.corrects = opinion.says

\* Counterevidence concludes nothing; it only withdraws.
Withdrawn(kind, l) == (kind = "WITHDRAW") = (l.polarity = "COUNTER")

Acceptable(body, state, known) ==
  IF body.kind = "ITEM"
    THEN Admissible(body.record, state, known) /\ Completed(body.record)
    ELSE Correctable(body.learning, state.opinion) /\ Withdrawn(body.kind, body.learning)

\* The field as it is written: what has ended is left out.
Applied(body, state) ==
  CASE body.kind = "ITEM" ->
         [state EXCEPT !.records =
            {r \in @ : r.item # body.record.item /\ r.status \notin Terminal}
            \cup {r \in {body.record} : r.status \notin Terminal}]
    [] body.kind = "COMMIT" -> [state EXCEPT !.opinion = body.learning]
    [] body.kind = "WITHDRAW" -> [state EXCEPT !.opinion = None]

-----------------------------------------------------------------------------
Idle == [pc |-> "idle"]

NotIssued == [kind |-> "NONE"]

MInit ==
  /\ history = <<>>
  /\ command = [n \in Commands |-> NotIssued]
  /\ call = [c \in Callers |-> Idle]

Becomes(c, now) == call' = [call EXCEPT ![c] = now]

\* A new command, or one that is sent again.
Begin(c, n) ==
  /\ call[c] = Idle
  /\ \/ command[n] = NotIssued /\ \E body \in Bodies : command' = [command EXCEPT ![n] = body]
     \/ command[n] # NotIssued /\ UNCHANGED command
  /\ Becomes(c, [pc |-> "history", of |-> n])
  /\ UNCHANGED history

Recorded(n) == \E u \in Updates : u.by = n

\* What was committed before is answered as it was.
ReadHistory(c) ==
  /\ call[c].pc = "history"
  /\ Becomes(c, IF Recorded(call[c].of) THEN Idle
                ELSE [pc |-> "state", of |-> call[c].of, known |-> Known])
  /\ UNCHANGED <<history, command>>

Prepare(c) ==
  /\ call[c].pc = "state"
  /\ LET n == call[c].of
         body == command[n]
     IN  Becomes(c, IF Revision = body.expected /\ Acceptable(body, State, call[c].known)
                      THEN [pc |-> "apply", of |-> n, draft |-> Applied(body, State)]
                      ELSE Idle)
  /\ UNCHANGED <<history, command>>

\* Mutant: the state was compared with what the caller expects when it was loaded.
UnchangedSince(n) == Revision >= command[n].expected

Unchanged(n) == Revision = command[n].expected

Record(n, body, state) == history' = Append(history, [by |-> n, body |-> body, state |-> state])

\* apply_event: an event that was recorded meanwhile is not recorded twice.
Apply(c) ==
  /\ call[c].pc = "apply"
  /\ LET n == call[c].of
     IN  IF ~ Recorded(n) /\ Unchanged(n)
           THEN Revision < MaxUpdates /\ Record(n, command[n], call[c].draft)
           ELSE UNCHANGED history
  /\ Becomes(c, Idle)
  /\ UNCHANGED command

Fail(c) == call[c] # Idle /\ Becomes(c, Idle) /\ UNCHANGED <<history, command>>

\* Other events of the subject: the result of a matter.
Happen(item) ==
  /\ Revision < MaxUpdates
  /\ Record(None, [kind |-> "RESULT", item |-> item], State)
  /\ UNCHANGED <<command, call>>

MNext ==
  \/ \E c \in Callers :
       \/ \E n \in Commands : Begin(c, n)
       \/ ReadHistory(c) \/ Prepare(c) \/ Apply(c) \/ Fail(c)
  \/ \E item \in Items : Happen(item)

-----------------------------------------------------------------------------
(* Properties.                                                             *)

Before(i) == IF i = 1 THEN Blank ELSE history[i - 1].state

Changes(i, item) ==
  {j \in 1..i : history[j].body.kind = "ITEM" /\ history[j].body.record.item = item}

\* No change of a matter was sent before the revision it names.
Prudent(i) == \A j \in 1..i : history[j].body.kind = "ITEM" => history[j].body.named # "FUTURE"

\* A matter that has ended stays so, although the state knows nothing of it any more: what is
\* recorded of a matter is one line of revisions, and nothing follows its end (submit).  This
\* rests on the callers: the history is read before the state, so that a command that was sent
\* early may miss an end that is recorded in between.
MattersEndOnce ==
  \A i \in 1..Len(history) : history[i].body.kind = "ITEM" /\ Prudent(i) =>
    LET record == history[i].body.record
        earlier == Changes(i - 1, record.item)
    IN  /\ \A j \in earlier : history[j].body.record.status \notin Terminal
        /\ \A n \in 0..MaxRevision :
             (\E j \in earlier : history[j].body.record.revision = n) <=> n < record.revision

\* What the subject holds of another is not overwritten: whatever replaces or withdraws a
\* conclusion was drawn to correct that very one (commit, withdraw).
ConclusionsAreAnswered ==
  \A i \in 1..Len(history) :
    history[i].body.kind \in {"COMMIT", "WITHDRAW"} /\ Before(i).opinion # None =>
      history[i].body.learning.corrects = Before(i).opinion.says
=============================================================================
