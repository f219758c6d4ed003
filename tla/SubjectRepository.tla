------------------------- MODULE SubjectRepository -------------------------
(***************************************************************************)
(* The document of one subject and the pure rules that govern it:          *)
(*   - the evolver, which turns a state and an event into the next state   *)
(*     and the update record (domain/evolution.py);                        *)
(*   - the lifecycle transition table (domain/subject_lifecycle.py);       *)
(*   - the validation of a history, and the three conditional writes of    *)
(*     the JSON repository (storage/json_repository.py).                   *)
(* A state keeps its revision, its content (`items', the union of the list *)
(* fields an event may append to), last_interaction_at, its lifecycle      *)
(* value and updated_at.                                                   *)
(***************************************************************************)
EXTENDS Integers, Sequences

CONSTANTS
  EventIds,      \* identities of ordinary events
  CommandIds,    \* identities of the events of lifecycle commands
  Items,         \* the values an event may append to a list field
  Principals,    \* identities an authority may recognise
  Subject,       \* the subject itself, one of the principals
  MaxTime        \* the clock is read anywhere in 0..MaxTime

Time == 0..MaxTime

Never == 0 - 1   \* last_interaction_at = None, earlier than every time

Instants == Time \cup {Never}

ASSUME RepositoryAssumption ==
  /\ MaxTime \in Nat
  /\ Subject \in Principals
  /\ EventIds \cap CommandIds = {}

\* STATE_CHANGE stands for the classes whose events may carry mutations.
Classifications ==
  {"STATE_CHANGE", "FACT", "OBSERVATION", "INTENTION", "CORRECTION", "REVOCATION"}

\* Events of these classes carry no mutations.
NonMutating == Classifications \ {"STATE_CHANGE"}

-----------------------------------------------------------------------------
(* Lifecycle values.  Unmanaged stands for subject_lifecycle = None.       *)

LifecycleStates == {"CREATE", "ACTIVE", "SUSPENDED", "ARCHIVED", "DELETED"}

OwnerOperations == {"CREATE", "ACTIVATE", "SUSPEND", "RESUME", "ARCHIVE", "DELETE"}

\* INTENT stands for the two operations of a subject, SUSPEND_INTENT and ARCHIVE_INTENT.
Operations == OwnerOperations \cup {"INTENT"}

Lifecycle ==
  [status : LifecycleStates \cup {"UNMANAGED"}, owner : Principals, changedAt : Time]

Unmanaged == [status |-> "UNMANAGED", owner |-> Subject, changedAt |-> 0]

Transitions ==
  { <<"CREATE", "ACTIVATE", "ACTIVE">>,    <<"ACTIVE", "SUSPEND", "SUSPENDED">>,
    <<"SUSPENDED", "RESUME", "ACTIVE">>,   <<"ACTIVE", "ARCHIVE", "ARCHIVED">>,
    <<"SUSPENDED", "ARCHIVE", "ARCHIVED">>, <<"ARCHIVED", "RESUME", "ACTIVE">>,
    <<"CREATE", "DELETE", "DELETED">>,     <<"SUSPENDED", "DELETE", "DELETED">>,
    <<"ARCHIVED", "DELETE", "DELETED">> }

\* A subject without a lifecycle value counts as active.
LifecycleStatus(lc) == IF lc = Unmanaged THEN "ACTIVE" ELSE lc.status

\* The status a command leads to; CREATE is the status of a newborn subject.
Target(lc, op, status) ==
  IF op = "CREATE" THEN status = "CREATE"
  ELSE <<LifecycleStatus(lc), op, status>> \in Transitions

-----------------------------------------------------------------------------
(* Events and update records.                                              *)

\* op = "NONE" marks an ordinary event; `at' is its explicit recorded_at, or the
\* requested_at of a command; `met' is when an interaction occurred; `value' is the
\* lifecycle value the event sets.
Event ==
  [id : EventIds \cup CommandIds, class : Classifications, items : SUBSET Items,
   refs : SUBSET (EventIds \cup CommandIds), at : Time, met : Instants,
   op : Operations \cup {"NONE"}, expected : Nat, principal : Principals,
   value : Lifecycle]

State ==
  [rev : Nat, items : SUBSET Items, metAt : Instants, lc : Lifecycle, updatedAt : Time]

\* The state SubjectState.create builds at time t.
FreshState(t) ==
  [rev |-> 0, items |-> {}, metAt |-> Never, lc |-> Unmanaged, updatedAt |-> t]

Later(x, y) == IF x > y THEN x ELSE y

\* The state an event leads to, by its mutations or as a newer interaction: the revision
\* grows only when something changed, and updated_at then never moves back.
Evolve(state, event, appliedAt) ==
  LET items == state.items \cup event.items
      metAt == Later(event.met, state.metAt)
      lc    == IF event.value = Unmanaged THEN state.lc ELSE event.value
  IN  IF items = state.items /\ metAt = state.metAt /\ lc = state.lc
      THEN state
      ELSE [rev |-> state.rev + 1, items |-> items, metAt |-> metAt, lc |-> lc,
            updatedAt |-> Later(appliedAt, state.updatedAt)]

\* `writer' stands for the update_id drawn by the writer that built the record.
UpdateRecord(writer, state, event, appliedAt) ==
  [writer |-> writer, event |-> event, before |-> state.rev,
   after |-> Evolve(state, event, appliedAt).rev, lcBefore |-> state.lc]

EventIdsOf(updates) == {updates[i].event.id : i \in 1..Len(updates)}

Known(updates, id) == \E i \in 1..Len(updates) : updates[i].event.id = id

RecordOf(updates, id) ==
  updates[CHOOSE i \in 1..Len(updates) : updates[i].event.id = id]

-----------------------------------------------------------------------------
(* _validate_history and _advance_lifecycle.                               *)

SetsLifecycle(u) == u.event.value # Unmanaged

\* lc is the lifecycle value in force after the first n records.
LifecycleAfter(updates, n, lc) ==
  \/ lc = Unmanaged /\ \A i \in 1..n : ~SetsLifecycle(updates[i])
  \/ \E i \in 1..n :
       /\ SetsLifecycle(updates[i]) /\ lc = updates[i].event.value
       /\ \A j \in (i+1)..n : ~SetsLifecycle(updates[j])

LifecycleValues(updates) ==
  {Unmanaged} \cup {updates[i].event.value : i \in 1..Len(updates)}

Managed(u) == u.event.op # "NONE" \/ u.event.id \in CommandIds \/ SetsLifecycle(u)

ValidIntent(previous, u) ==
  /\ u.event.principal = Subject
  /\ ~SetsLifecycle(u) /\ u.before = u.after
  /\ u.event.class = "INTENTION"
  /\ LifecycleStatus(previous) = "ACTIVE"

ValidCommand(previous, u) ==
  LET value == u.event.value
  IN  /\ SetsLifecycle(u) /\ u.event.items = {} /\ u.lcBefore = previous
      /\ u.event.class = "STATE_CHANGE"
      /\ u.after = u.before + 1
      /\ value.owner = u.event.principal
      /\ value.changedAt >= u.event.at
      /\ previous # Unmanaged =>
           previous.owner = u.event.principal /\ value.changedAt >= previous.changedAt
      /\ u.event.op = "CREATE" => previous = Unmanaged /\ u.before = 0
      /\ Target(previous, u.event.op, value.status)

AdvancesLifecycle(previous, u) ==
  Managed(u) =>
    /\ u.event.op # "NONE" /\ u.event.id \in CommandIds
    /\ u.event.expected = u.before
    /\ IF u.event.op = "INTENT" THEN ValidIntent(previous, u) ELSE ValidCommand(previous, u)

ValidRecord(updates, i) ==
  /\ \A j \in 1..(i-1) : updates[j].event.id # updates[i].event.id
  /\ updates[i].before = IF i = 1 THEN 0 ELSE updates[i-1].after
  /\ updates[i].after \in {updates[i].before, updates[i].before + 1}
  /\ updates[i].event.refs \subseteq {updates[j].event.id : j \in 1..(i-1)}
  /\ \E lc \in LifecycleValues(updates) :
       LifecycleAfter(updates, i-1, lc) /\ AdvancesLifecycle(lc, updates[i])

ValidHistory(state, updates) ==
  /\ \A i \in 1..Len(updates) : ValidRecord(updates, i)
  /\ updates # <<>> => updates[Len(updates)].after = state.rev
  /\ LifecycleAfter(updates, Len(updates), state.lc)

-----------------------------------------------------------------------------
(* The document: absent, a bare state (saved directly), or an envelope of  *)
(* a state and its history.  Each write replaces the file atomically under *)
(* the process-wide write lock, so each is one condition and one value.    *)

NoDocument == [kind |-> "absent", state |-> FreshState(0), updates |-> <<>>]

Envelope(state, updates) == [kind |-> "envelope", state |-> state, updates |-> updates]

\* save: an event-backed state may only be saved unchanged.
CanSave(doc, state) ==
  /\ doc.kind = "envelope" => state = doc.state
  /\ ValidHistory(state, doc.updates)

Saved(doc, state) ==
  IF doc.kind = "envelope" THEN Envelope(state, doc.updates)
  ELSE [kind |-> "bare", state |-> state, updates |-> <<>>]

\* save_transition, for an event the history already holds: no write at all.
IsReplay(doc, state, update) ==
  /\ doc.kind # "absent"
  /\ Known(doc.updates, update.event.id)
  /\ RecordOf(doc.updates, update.event.id).event = update.event
  /\ doc.state = state

\* Mutant: the write is not conditional on the revision the transition was built on.
CanAppendBlindly(doc, state, update) ==
  doc.kind # "absent" /\ ~Known(doc.updates, update.event.id)

\* save_transition, for a new event: the stored revision must be the one it was built on.
CanAppend(doc, state, update) ==
  /\ doc.kind # "absent"
  /\ ~Known(doc.updates, update.event.id)
  /\ doc.state.rev = update.before
  /\ state.rev = update.after
  /\ ValidHistory(state, Append(doc.updates, update))

Appended(doc, state, update) == Envelope(state, Append(doc.updates, update))

\* save_initial_transition: the document of a subject is created once.
CanCreate(doc, state, update) ==
  /\ doc.kind = "absent"
  /\ ValidHistory(state, <<update>>)
=============================================================================
