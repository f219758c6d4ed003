---------------------------- MODULE SubjectState ----------------------------
(***************************************************************************)
(* The services that change one subject: SubjectStateService (create, the  *)
(* retained direct save, apply_event) and SubjectLifecycleService.submit,  *)
(* run by concurrent writers of one process over one JSON document.  Only  *)
(* a repository write holds the write lock: a writer loads the state,      *)
(* lists the history, checks the lifecycle, builds the transition and      *)
(* commits it in separate steps, and the others may commit in between.     *)
(* The clock is read anew at every use and may regress.                    *)
(***************************************************************************)
EXTENDS SubjectRepository

CONSTANTS
  Writers,            \* threads calling the services
  Requests,           \* the calls they may make
  ArchiveConfigured,  \* LifecyclePolicy.archive_configured
  AllowDelete,        \* a TEST service whose policy permits the logical delete
  Retention           \* LifecyclePolicy.delete_retention_seconds

NoRevision == 0 - 1   \* expected_revision = None

Request ==
  [kind : {"create", "edit", "apply", "command"}, event : Event,
   expected : Nat \cup {NoRevision}]

ASSUME ServiceAssumption ==
  /\ Requests \subseteq Request
  /\ ArchiveConfigured \in BOOLEAN /\ AllowDelete \in BOOLEAN /\ Retention \in Nat
  /\ \A r \in Requests : r.kind = "command" =>
       /\ r.event.op # "NONE" /\ r.event.id \in CommandIds
       /\ r.event.value = Unmanaged /\ r.event.items = {} /\ r.event.met = Never
       /\ r.expected = r.event.expected
  /\ \A r \in Requests : r.kind = "apply" => r.event.op = "NONE"

VARIABLES
  doc,      \* the subject's file
  pc,       \* where each writer is
  req,      \* the request it serves
  snap,     \* the state it loaded
  known,    \* the event identities it listed
  made,     \* the transition it built: the next state and the update record
  answer    \* what its last call returned

vars == <<doc, pc, req, snap, known, made, answer>>

-----------------------------------------------------------------------------
Record ==
  [writer : Writers, event : Event, before : Nat, after : Nat, lcBefore : Lifecycle]

NoEvent ==
  [id |-> "none", class |-> "FACT", items |-> {}, refs |-> {}, at |-> 0, met |-> Never,
   op |-> "NONE", expected |-> 0, principal |-> Subject, value |-> Unmanaged]

NoRequest == [kind |-> "none", event |-> NoEvent, expected |-> NoRevision]

NoTransition == [state |-> FreshState(0), update |-> NoEvent]

NoAnswer == [kind |-> "none", state |-> FreshState(0), update |-> NoEvent]

Error == [NoAnswer EXCEPT !.kind = "error"]

Answered(kind, state, update) == [kind |-> kind, state |-> state, update |-> update]

Init ==
  /\ doc = NoDocument
  /\ pc = [w \in Writers |-> "idle"]
  /\ req = [w \in Writers |-> NoRequest]
  /\ snap = [w \in Writers |-> FreshState(0)]
  /\ known = [w \in Writers |-> {}]
  /\ made = [w \in Writers |-> NoTransition]
  /\ answer = [w \in Writers |-> NoAnswer]

-----------------------------------------------------------------------------
(* How a writer moves on, and how its call returns or raises.              *)

Start(w, r, next) ==
  /\ pc[w] = "idle"
  /\ pc' = [pc EXCEPT ![w] = next]
  /\ req' = [req EXCEPT ![w] = r]
  /\ answer' = [answer EXCEPT ![w] = NoAnswer]

Goto(w, next) == pc' = [pc EXCEPT ![w] = next]

Return(w, a) ==
  /\ pc' = [pc EXCEPT ![w] = "idle"]
  /\ answer' = [answer EXCEPT ![w] = a]
  /\ req' = [req EXCEPT ![w] = NoRequest]
  /\ snap' = [snap EXCEPT ![w] = FreshState(0)]
  /\ known' = [known EXCEPT ![w] = {}]
  /\ made' = [made EXCEPT ![w] = NoTransition]

\* Any call may raise: a guard of an action below refuses, the authority or the
\* action gate denies, or the file system fails.  Nothing is written.
Raise(w) ==
  /\ pc[w] # "idle"
  /\ Return(w, Error)
  /\ UNCHANGED doc

\* The process dies and starts again: the file stays, the calls in progress are gone.
Restart ==
  /\ \E w \in Writers : pc[w] # "idle"
  /\ pc' = [w \in Writers |-> "idle"]
  /\ req' = [w \in Writers |-> NoRequest]
  /\ snap' = [w \in Writers |-> FreshState(0)]
  /\ known' = [w \in Writers |-> {}]
  /\ made' = [w \in Writers |-> NoTransition]
  /\ answer' = [w \in Writers |-> NoAnswer]
  /\ UNCHANGED doc

-----------------------------------------------------------------------------
(* create: an existence check, then an ordinary save.                      *)

CreateCheck(w, r) ==
  /\ r.kind = "create"
  /\ doc.kind = "absent"
  /\ Start(w, r, "create")
  /\ UNCHANGED <<doc, snap, known, made>>

CreateSave(w) ==
  \E t \in Time :
    /\ pc[w] = "create"
    /\ CanSave(doc, FreshState(t))
    /\ doc' = Saved(doc, FreshState(t))
    /\ Return(w, Answered("saved", FreshState(t), NoEvent))

-----------------------------------------------------------------------------
(* The retained direct save of a state the caller loaded and edited.       *)

\* What the caller makes of the state is told like an event.
Edited(state, event) ==
  [state EXCEPT !.items = @ \cup event.items, !.metAt = Later(event.met, @)]

EditLoad(w, r) ==
  /\ r.kind = "edit"
  /\ Start(w, r, "edit")
  /\ snap' = [snap EXCEPT ![w] = Edited(doc.state, r.event)]
  /\ UNCHANGED <<doc, known, made>>

EditCheck(w) ==
  /\ pc[w] = "edit" /\ Goto(w, "save")
  /\ LifecycleStatus(doc.state.lc) = "ACTIVE"
  /\ snap[w].lc = doc.state.lc
  /\ \E t \in Time : snap' = [snap EXCEPT ![w].updatedAt = t]
  /\ UNCHANGED <<doc, req, known, made, answer>>

EditSave(w) ==
  /\ pc[w] = "save"
  /\ CanSave(doc, snap[w])
  /\ doc' = Saved(doc, snap[w])
  /\ Return(w, Answered("saved", snap[w], NoEvent))

-----------------------------------------------------------------------------
(* SubjectLifecycleService.submit.                                         *)

SameCommand(e, f) ==
  /\ e.op = f.op /\ e.expected = f.expected
  /\ e.principal = f.principal /\ e.at = f.at

\* The inner function authorize, for the state it is given and the time it reads.
Authorized(command, state, now) ==
  /\ command.at <= now
  /\ state.rev = command.expected
  /\ now >= state.updatedAt
  /\ state.lc # Unmanaged /\ command.op # "INTENT" => state.lc.owner = command.principal
  /\ command.op = "INTENT" =>
       command.principal = Subject /\ LifecycleStatus(state.lc) = "ACTIVE"
  /\ command.op = "ARCHIVE" => ArchiveConfigured
  /\ command.op = "DELETE" =>
       /\ AllowDelete
       /\ state.lc # Unmanaged
       /\ now - state.lc.changedAt >= Retention

\* The event of an authorised command: an intent changes nothing, any other
\* command sets the next lifecycle value, bound to the first owner.
CommandEvent(command, state, status, t) ==
  IF command.op = "INTENT"
  THEN [command EXCEPT !.class = "INTENTION"]
  ELSE [command EXCEPT !.class = "STATE_CHANGE",
          !.value = [status |-> status, changedAt |-> t,
                     owner |-> IF state.lc = Unmanaged THEN command.principal
                               ELSE state.lc.owner]]

\* A command the history already holds is answered with its original record.
CommandReplay(w, r) ==
  /\ r.kind = "command" /\ pc[w] = "idle"
  /\ Known(doc.updates, r.event.id)
  /\ SameCommand(RecordOf(doc.updates, r.event.id).event, r.event)
  /\ answer' = [answer EXCEPT ![w] =
       Answered("recorded", FreshState(0), RecordOf(doc.updates, r.event.id))]
  /\ UNCHANGED <<doc, pc, req, snap, known, made>>

CommandList(w, r) ==
  /\ r.kind = "command"
  /\ ~Known(doc.updates, r.event.id)
  /\ r.event.op = "CREATE" <=> doc.kind = "absent"
  /\ Start(w, r, IF doc.kind = "absent" THEN "birth" ELSE "command")
  /\ UNCHANGED <<doc, snap, known, made>>

\* CREATE: the newborn state is authorised twice, evolved and saved once.
CommandCreate(w) ==
  \E t, changedAt, appliedAt, now \in Time :
    LET state  == FreshState(t)
        event  == CommandEvent(req[w].event, state, "CREATE", changedAt)
        next   == Evolve(state, event, appliedAt)
        update == UpdateRecord(w, state, event, appliedAt)
    IN  /\ pc[w] = "birth"
        /\ Authorized(req[w].event, state, now)
        /\ CanCreate(doc, next, update)
        /\ doc' = Envelope(next, <<update>>)
        /\ Return(w, Answered("recorded", FreshState(0), update))

\* Any other command: load the state, authorise, and build the event.
CommandLoad(w) ==
  /\ pc[w] = "command" /\ Goto(w, "load")
  /\ \E now, changedAt \in Time :
       /\ Authorized(req[w].event, doc.state, now)
       /\ \E status \in LifecycleStates :
            /\ IF req[w].event.op = "INTENT"
               THEN status = LifecycleStatus(doc.state.lc)
               ELSE Target(doc.state.lc, req[w].event.op, status)
            /\ req' = [req EXCEPT ![w].event =
                         CommandEvent(req[w].event, doc.state, status, changedAt)]
  /\ UNCHANGED <<doc, snap, known, made, answer>>

-----------------------------------------------------------------------------
(* _apply_event: load, list, authorise and evolve, commit, confirm.        *)

Load(w, r) ==
  /\ r.kind = "apply"
  /\ Start(w, r, "list")
  /\ doc.kind # "absent"
  /\ snap' = [snap EXCEPT ![w] = doc.state]
  /\ UNCHANGED <<doc, known, made>>

CommandReload(w) ==
  /\ pc[w] = "load" /\ Goto(w, "list")
  /\ snap' = [snap EXCEPT ![w] = doc.state]
  /\ UNCHANGED <<doc, req, known, made, answer>>

\* The event is already in the history: its record and the state loaded before.
Replay(w) ==
  LET id == req[w].event.id IN
  /\ pc[w] = "list"
  /\ Known(doc.updates, id)
  /\ RecordOf(doc.updates, id).event = req[w].event
  /\ Return(w, Answered("replay", snap[w], RecordOf(doc.updates, id)))
  /\ UNCHANGED doc

List(w) ==
  /\ pc[w] = "list" /\ Goto(w, "evolve")
  /\ ~Known(doc.updates, req[w].event.id)
  /\ known' = [known EXCEPT ![w] = EventIdsOf(doc.updates)]
  /\ UNCHANGED <<doc, req, snap, made, answer>>

\* Mutant: only the two resting states are refused.
MayApplyUnlessResting(w, now) ==
  IF req[w].event.op # "NONE"
  THEN Authorized(req[w].event, snap[w], now)
  ELSE LifecycleStatus(doc.state.lc) \notin {"SUSPENDED", "ARCHIVED"}

\* The state is authorised again (for a command, the state loaded; otherwise
\* the stored one must be active), the event is checked, and the transition built.
MayApply(w, now) ==
  IF req[w].event.op # "NONE"
  THEN Authorized(req[w].event, snap[w], now)
  ELSE /\ req[w].event.value = Unmanaged
       /\ LifecycleStatus(doc.state.lc) = "ACTIVE"

\* Mutant: the record is built from the stored state, the next state from the loaded one.
EvolveLoadedState(w) ==
  LET event == req[w].event IN
  \E now, appliedAt \in Time :
    /\ pc[w] = "evolve" /\ Goto(w, "commit")
    /\ MayApply(w, now)
    /\ event.refs \subseteq known[w]
    /\ made' = [made EXCEPT ![w] =
         [state  |-> Evolve(snap[w], event, appliedAt),
          update |-> UpdateRecord(w, doc.state, event, appliedAt)]]
    /\ UNCHANGED <<doc, req, snap, known, answer>>

EvolveState(w) ==
  LET event == req[w].event IN
  \E now, appliedAt \in Time :
    /\ pc[w] = "evolve" /\ Goto(w, "commit")
    /\ MayApply(w, now)
    /\ event.op = "NONE" => event.at <= appliedAt
    /\ event.refs \subseteq known[w]
    /\ event.class \in NonMutating => event.items = {} /\ event.value = Unmanaged
    /\ req[w].expected # NoRevision => snap[w].rev = req[w].expected
    /\ made' = [made EXCEPT ![w] =
         [state  |-> Evolve(snap[w], event, appliedAt),
          update |-> UpdateRecord(w, snap[w], event, appliedAt)]]
    /\ UNCHANGED <<doc, req, snap, known, answer>>

Commit(w) ==
  /\ pc[w] = "commit" /\ Goto(w, "confirm")
  /\ \/ /\ CanAppend(doc, made[w].state, made[w].update)
        /\ doc' = Appended(doc, made[w].state, made[w].update)
     \/ /\ IsReplay(doc, made[w].state, made[w].update)
        /\ UNCHANGED doc
  /\ UNCHANGED <<req, snap, known, made, answer>>

\* Mutant: whoever finds the event recorded takes the record for its own.
ConfirmAny(w) ==
  /\ pc[w] = "confirm"
  /\ Known(doc.updates, req[w].event.id)
  /\ Return(w, Answered("recorded", made[w].state, made[w].update))
  /\ UNCHANGED doc

\* The record found under the event's identity is the writer's own ...
Confirm(w) ==
  /\ pc[w] = "confirm"
  /\ Known(doc.updates, req[w].event.id)
  /\ RecordOf(doc.updates, req[w].event.id).writer = w
  /\ Return(w, Answered("recorded", made[w].state, made[w].update))
  /\ UNCHANGED doc

\* ... or another writer's, whose identity is returned with the state of now.
ConfirmOther(w) ==
  /\ pc[w] = "confirm"
  /\ Known(doc.updates, req[w].event.id)
  /\ RecordOf(doc.updates, req[w].event.id).writer # w
  /\ Return(w,
       Answered("replay", doc.state, RecordOf(doc.updates, req[w].event.id)))
  /\ UNCHANGED doc

-----------------------------------------------------------------------------
Next ==
  \/ Restart
  \/ \E w \in Writers :
       \/ Raise(w)
       \/ CreateSave(w) \/ EditCheck(w) \/ EditSave(w)
       \/ CommandCreate(w) \/ CommandLoad(w) \/ CommandReload(w)
       \/ Replay(w) \/ List(w) \/ EvolveState(w) \/ Commit(w)
       \/ Confirm(w) \/ ConfirmOther(w)
       \/ \E r \in Requests :
            \/ CreateCheck(w, r) \/ EditLoad(w, r)
            \/ CommandReplay(w, r) \/ CommandList(w, r) \/ Load(w, r)

Spec == Init /\ [][Next]_vars

-----------------------------------------------------------------------------
(* Properties.                                                             *)

PCs == {"idle", "create", "edit", "save", "birth", "command", "load", "list", "evolve",
        "commit", "confirm"}

Document ==
  [kind : {"absent", "bare", "envelope"}, state : State, updates : Seq(Record)]

AnswerKinds == {"none", "error", "saved", "recorded", "replay"}

\* The variables keep their types: every stored and every prepared state, record
\* and answer is well formed (SubjectState, StateUpdateRecord, StateEvolutionResult).
TypeOK ==
  /\ doc \in Document
  /\ pc \in [Writers -> PCs]
  /\ req \in [Writers -> Request \cup {NoRequest}]
  /\ snap \in [Writers -> State]
  /\ known \in [Writers -> SUBSET (EventIds \cup CommandIds)]
  /\ made \in [Writers -> [state : State, update : Record \cup {NoEvent}]]
  /\ answer \in [Writers ->
       [kind : AnswerKinds, state : State, update : Record \cup {NoEvent}]]
  /\ \A w \in Writers :
       /\ pc[w] # "idle" => req[w] \in Request
       /\ pc[w] \in {"commit", "confirm"} => made[w].update \in Record

\* No committed change is lost: what every event recorded from revision 1 on added
\* is still in the current state, although writers evolve a state they loaded
\* before others committed (apply_event, save_transition; records of pure facts do
\* not move the revision that guards the write).
NoLostUpdate ==
  \A i \in 1..Len(doc.updates) :
    doc.updates[i].after > 0 => doc.updates[i].event.items \subseteq doc.state.items

\* Whoever was told that an event is recorded finds exactly that record in the
\* history: a lost race never reports an update identity that was not saved
\* (apply_event reads the record back; submit returns the stored record).
DurableAnswer ==
  \A w \in Writers : answer[w].kind \in {"recorded", "replay"} =>
    \E i \in 1..Len(doc.updates) : doc.updates[i] = answer[w].update

\* Once the subject is event-backed its document only ever grows by one record at
\* a time; no direct save, create or replay rewrites state or history.
OnlyTransitions ==
  [][doc.kind = "envelope" /\ doc' # doc =>
       /\ doc'.kind = "envelope"
       /\ Len(doc'.updates) = Len(doc.updates) + 1
       /\ \A i \in 1..Len(doc.updates) : doc'.updates[i] = doc.updates[i]]_vars

\* An ordinary event enters the history only in a state where the subject is
\* active, however long ago require_active was asked (suspension races an event).
RecordedOnlyWhileActive ==
  [][doc.updates # doc'.updates /\ doc'.updates[Len(doc'.updates)].event.op = "NONE" =>
       LifecycleStatus(doc.state.lc) = "ACTIVE"]_vars

\* A logically deleted subject never changes again, by any of the write paths.
DeletedIsFinal ==
  [][doc.state.lc.status = "DELETED" => doc' = doc]_vars

\* From the first revision on updated_at never moves back although clocks regress
\* and every writer evolved a state it had loaded earlier.
UpdatedAtNeverRegresses ==
  [][doc.state.rev > 0 => doc'.state.updatedAt >= doc.state.updatedAt]_vars

\* The document implements the append-only log: load, list, evolve and commit of
\* one call take effect in the single instant of its commit.
History ==
  INSTANCE SubjectHistory WITH
    log   <- [i \in 1..Len(doc.updates) |-> doc.updates[i].event],
    rev   <- doc.state.rev,
    items <- doc.state.items,
    met   <- doc.state.metAt,
    lc    <- doc.state.lc

RefinesHistory == History!HSpec

-----------------------------------------------------------------------------
(* The inductive invariant behind these properties.                        *)

\* A document without history is at revision 0 and unmanaged; a history is valid.
DocumentInv ==
  /\ doc.kind # "envelope" =>
       doc.updates = <<>> /\ doc.state.rev = 0 /\ doc.state.lc = Unmanaged
  /\ doc.kind = "envelope" => doc.updates # <<>> /\ ValidHistory(doc.state, doc.updates)

\* A revision names one lifecycle value, and from 1 on one state: what a writer
\* loaded is outdated, or it is what is stored.
SnapshotInv(w) ==
  /\ pc[w] \in {"edit", "save", "list", "evolve", "commit"} =>
       /\ snap[w].rev <= doc.state.rev
       /\ snap[w].rev = doc.state.rev => snap[w].lc = doc.state.lc
  /\ pc[w] \in {"list", "evolve", "commit"} /\ snap[w].rev > 0 =>
       (snap[w].rev = doc.state.rev => snap[w] = doc.state)

\* A writer about to commit holds what its event makes of the state it loaded, no
\* record of its own under that identity, and an ordinary event only if the
\* subject was active at the revision it builds on.
CommitInv(w) ==
  /\ pc[w] = "birth" => req[w].event.op = "CREATE"
  /\ pc[w] \in {"evolve", "commit"} =>
       \A i \in 1..Len(doc.updates) :
         doc.updates[i].event.id = req[w].event.id => doc.updates[i].writer # w
  /\ pc[w] \in {"commit", "confirm"} =>
       \E t \in Time :
         /\ made[w].state = Evolve(snap[w], req[w].event, t)
         /\ made[w].update = UpdateRecord(w, snap[w], req[w].event, t)
  /\ pc[w] = "commit" =>
       /\ req[w].event.class \in NonMutating =>
            req[w].event.items = {} /\ req[w].event.value = Unmanaged
       /\ req[w].event.op = "NONE" =>
            /\ req[w].event.value = Unmanaged
            /\ snap[w].rev = doc.state.rev => LifecycleStatus(doc.state.lc) = "ACTIVE"

\* A writer that committed finds its event, under its own update or another's, and
\* whoever was answered finds the record of the answer.
ConfirmInv(w) ==
  /\ pc[w] = "confirm" =>
       \A i \in 1..Len(doc.updates) :
         doc.updates[i].event.id = req[w].event.id /\ doc.updates[i].writer = w =>
           doc.updates[i] = made[w].update
  /\ answer[w].kind \in {"recorded", "replay"} =>
       \E i \in 1..Len(doc.updates) : doc.updates[i] = answer[w].update

Consistent ==
  /\ DocumentInv
  /\ \A w \in Writers : SnapshotInv(w) /\ CommitInv(w) /\ ConfirmInv(w)

-----------------------------------------------------------------------------
(* What the documents say and the code does not keep.                      *)

\* docs/project_memory/23_P03 line 41: a replay returns the current state and the
\* original update, whose after_revision is historical.  The state returned can
\* therefore not predate the update it is returned with.
ReplayReturnsCurrentState ==
  \A w \in Writers : answer[w].kind = "replay" =>
    answer[w].state.rev >= answer[w].update.after
=============================================================================
