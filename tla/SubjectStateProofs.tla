------------------------- MODULE SubjectStateProofs -------------------------
(* Theorems about SubjectState, for every set of writers, requests and values. *)
EXTENDS SubjectState, TLAPS

USE DEF PCs, AnswerKinds

-----------------------------------------------------------------------------
(* Lemmas about the repository's operators.                                *)

\* The evolver returns a state (SubjectStateEvolver.evolve).
LEMMA EvolveType ==
  ASSUME NEW state \in State, NEW event \in Event, NEW t \in Time
  PROVE  Evolve(state, event, t) \in State
BY DEF Evolve, State, Event, Later

\* The transition a writer builds carries a well-formed record.
LEMMA UpdateType ==
  ASSUME NEW w \in Writers, NEW state \in State, NEW event \in Event, NEW t \in Time
  PROVE  UpdateRecord(w, state, event, t) \in Record
<1>1. Evolve(state, event, t) \in State
  BY EvolveType
<1> QED
  BY <1>1 DEF UpdateRecord, Record, State

LEMMA UnmanagedType == Unmanaged \in Lifecycle
BY RepositoryAssumption DEF Unmanaged, Lifecycle, Time

LEMMA FreshType == ASSUME NEW t \in Time PROVE FreshState(t) \in State
BY UnmanagedType DEF FreshState, State, Instants

LEMMA ZeroTime == 0 \in Time
BY RepositoryAssumption DEF Time

\* Looking up a known identity finds a record of the history with that identity.
LEMMA Lookup ==
  ASSUME NEW updates \in Seq(Record), NEW id, Known(updates, id)
  PROVE  /\ RecordOf(updates, id) \in Record
         /\ RecordOf(updates, id).event.id = id
         /\ \E i \in 1..Len(updates) : updates[i] = RecordOf(updates, id)
<1> DEFINE i == CHOOSE j \in 1..Len(updates) : updates[j].event.id = id
<1>1. \E j \in 1..Len(updates) : updates[j].event.id = id
  BY DEF Known
<1>2. i \in 1..Len(updates) /\ updates[i].event.id = id
  BY <1>1, Zenon
<1>3. RecordOf(updates, id) = updates[i]
  BY DEF RecordOf
<1> HIDE DEF i
<1>4. updates[i] \in Record
  BY <1>2
<1> QED
  BY <1>2, <1>3, <1>4

-----------------------------------------------------------------------------
(* Type correctness.                                                       *)

LEMMA ReturnType ==
  ASSUME TypeOK, NEW w \in Writers,
         NEW a \in [kind : AnswerKinds, state : State, update : Record \cup {NoEvent}],
         Return(w, a)
  PROVE  /\ pc' \in [Writers -> PCs]
         /\ req' \in [Writers -> Request \cup {NoRequest}]
         /\ snap' \in [Writers -> State]
         /\ known' \in [Writers -> SUBSET (EventIds \cup CommandIds)]
         /\ made' \in [Writers -> [state : State, update : Record \cup {NoEvent}]]
         /\ answer' \in [Writers ->
              [kind : AnswerKinds, state : State, update : Record \cup {NoEvent}]]
         /\ \A v \in Writers :
              /\ pc'[v] # "idle" => req'[v] \in Request
              /\ pc'[v] \in {"commit", "confirm"} => made'[v].update \in Record
BY FreshType, ZeroTime DEF Return, TypeOK, NoTransition

LEMMA StartType ==
  ASSUME TypeOK, NEW w \in Writers, NEW r \in Requests,
         NEW next \in PCs \ {"commit", "confirm"}, Start(w, r, next)
  PROVE  /\ pc' \in [Writers -> PCs]
         /\ req' \in [Writers -> Request \cup {NoRequest}]
         /\ answer' \in [Writers ->
              [kind : AnswerKinds, state : State, update : Record \cup {NoEvent}]]
         /\ \A v \in Writers :
              /\ pc'[v] # "idle" => req'[v] \in Request
              /\ pc'[v] \in {"commit", "confirm"} => made[v].update \in Record
<1>1. NoAnswer \in [kind : AnswerKinds, state : State, update : Record \cup {NoEvent}]
  BY FreshType, ZeroTime DEF NoAnswer
<1>2. r \in Request
  BY ServiceAssumption
<1> QED
  BY <1>1, <1>2 DEF Start, TypeOK

LEMMA SavedType ==
  ASSUME doc \in Document, NEW state \in State
  PROVE  Saved(doc, state) \in Document
BY DEF Saved, Document, Envelope

LEMMA AppendedType ==
  ASSUME doc \in Document, NEW state \in State, NEW update \in Record
  PROVE  Appended(doc, state, update) \in Document
BY DEF Appended, Document, Envelope

LEMMA CommandEventType ==
  ASSUME NEW command \in Event, NEW state \in State, NEW status \in LifecycleStates,
         NEW t \in Time
  PROVE  CommandEvent(command, state, status, t) \in Event
BY DEF CommandEvent, Event, State, Lifecycle, Classifications

LEMMA InitType == Init => TypeOK
<1> SUFFICES ASSUME Init PROVE TypeOK
  OBVIOUS
<1>1. doc \in Document
  BY FreshType, ZeroTime DEF Init, NoDocument, Document
<1> QED
  BY <1>1, FreshType, ZeroTime DEF Init, TypeOK, NoTransition, NoAnswer

LEMMA StepType == TypeOK /\ [Next]_vars => TypeOK'
<1> SUFFICES ASSUME TypeOK, [Next]_vars PROVE TypeOK'
  OBVIOUS
<1>1. CASE UNCHANGED vars
  BY <1>1 DEF vars, TypeOK
<1>2. CASE Restart
  BY <1>2, FreshType, ZeroTime DEF Restart, TypeOK, NoTransition, NoAnswer
<1>3. ASSUME NEW w \in Writers, Raise(w) PROVE TypeOK'
  <2>1. Error \in [kind : AnswerKinds, state : State, update : Record \cup {NoEvent}]
    BY FreshType, ZeroTime DEF Error, NoAnswer
  <2> QED
    BY <1>3, <2>1, ReturnType DEF Raise, TypeOK
<1>4. ASSUME NEW w \in Writers, CreateSave(w) PROVE TypeOK'
  <2>1. PICK t \in Time : /\ doc' = Saved(doc, FreshState(t))
                          /\ Return(w, Answered("saved", FreshState(t), NoEvent))
    BY <1>4 DEF CreateSave
  <2>2. doc' \in Document
    BY <2>1, SavedType, FreshType DEF TypeOK
  <2>3. Answered("saved", FreshState(t), NoEvent)
          \in [kind : AnswerKinds, state : State, update : Record \cup {NoEvent}]
    BY FreshType DEF Answered
  <2> QED
    BY <2>1, <2>2, <2>3, ReturnType DEF TypeOK
<1>5. ASSUME NEW w \in Writers, EditCheck(w) PROVE TypeOK'
  <2>1. PICK t \in Time : snap' = [snap EXCEPT ![w].updatedAt = t]
    BY <1>5 DEF EditCheck
  <2>2. [snap[w] EXCEPT !.updatedAt = t] \in State
    <3>1. snap[w] \in State
      BY DEF TypeOK
    <3> QED
      BY <3>1 DEF State
  <2>3. snap' \in [Writers -> State]
    BY <2>1, <2>2 DEF TypeOK
  <2> QED
    BY <1>5, <2>3 DEF EditCheck, Goto, TypeOK
<1>6. ASSUME NEW w \in Writers, EditSave(w) PROVE TypeOK'
  <2>1. doc' \in Document
    BY <1>6, SavedType DEF EditSave, TypeOK
  <2>2. Answered("saved", snap[w], NoEvent)
          \in [kind : AnswerKinds, state : State, update : Record \cup {NoEvent}]
    BY DEF Answered, TypeOK
  <2> QED
    BY <1>6, <2>1, <2>2, ReturnType DEF EditSave, TypeOK
<1>7. ASSUME NEW w \in Writers, CommandCreate(w) PROVE TypeOK'
  <2>1. PICK t \in Time, changedAt \in Time, appliedAt \in Time :
          LET event  == CommandEvent(req[w].event, FreshState(t), "CREATE", changedAt)
              next   == Evolve(FreshState(t), event, appliedAt)
              update == UpdateRecord(w, FreshState(t), event, appliedAt)
          IN  /\ pc[w] = "birth"
              /\ doc' = Envelope(next, <<update>>)
              /\ Return(w, Answered("recorded", FreshState(0), update))
    BY <1>7 DEF CommandCreate
  <2> DEFINE event  == CommandEvent(req[w].event, FreshState(t), "CREATE", changedAt)
             next   == Evolve(FreshState(t), event, appliedAt)
             update == UpdateRecord(w, FreshState(t), event, appliedAt)
  <2>2. event \in Event
    BY <2>1, CommandEventType, FreshType DEF TypeOK, Request, LifecycleStates
  <2>3. next \in State /\ update \in Record
    BY <2>2, EvolveType, UpdateType, FreshType
  <2>4. doc' \in Document
    BY <2>1, <2>3 DEF Document, Envelope
  <2>5. Answered("recorded", FreshState(0), update)
          \in [kind : AnswerKinds, state : State, update : Record \cup {NoEvent}]
    BY <2>3, FreshType, ZeroTime DEF Answered
  <2> QED
    BY <2>1, <2>4, <2>5, ReturnType DEF TypeOK
<1>8. ASSUME NEW w \in Writers, CommandLoad(w) PROVE TypeOK'
  <2>1. PICK changedAt \in Time, status \in LifecycleStates :
          req' = [req EXCEPT ![w].event =
                    CommandEvent(req[w].event, doc.state, status, changedAt)]
    BY <1>8 DEF CommandLoad
  <2>2. CommandEvent(req[w].event, doc.state, status, changedAt) \in Event
    BY <1>8, CommandEventType DEF CommandLoad, TypeOK, Request, Document
  <2>3. req'[w] \in Request /\ req' \in [Writers -> Request \cup {NoRequest}]
    BY <1>8, <2>1, <2>2 DEF CommandLoad, TypeOK, Request, NoRequest
  <2> QED
    BY <1>8, <2>1, <2>3 DEF CommandLoad, Goto, TypeOK
<1>9. ASSUME NEW w \in Writers, CommandReload(w) PROVE TypeOK'
  BY <1>9 DEF CommandReload, Goto, TypeOK, Document
<1>10. ASSUME NEW w \in Writers, Replay(w) PROVE TypeOK'
  <2>1. RecordOf(doc.updates, req[w].event.id) \in Record
    BY <1>10, Lookup DEF Replay, TypeOK, Document
  <2>2. Answered("replay", snap[w], RecordOf(doc.updates, req[w].event.id))
          \in [kind : AnswerKinds, state : State, update : Record \cup {NoEvent}]
    BY <2>1 DEF Answered, TypeOK
  <2> QED
    BY <1>10, <2>2, ReturnType DEF Replay, TypeOK
<1>11. ASSUME NEW w \in Writers, List(w) PROVE TypeOK'
  <2>1. EventIdsOf(doc.updates) \subseteq EventIds \cup CommandIds
    <3>1. doc.updates \in Seq(Record)
      BY DEF TypeOK, Document
    <3>2. \A i \in 1..Len(doc.updates) : doc.updates[i] \in Record
      BY <3>1
    <3>3. \A u \in Record : u.event.id \in EventIds \cup CommandIds
      BY DEF Record, Event
    <3> QED
      BY <3>2, <3>3 DEF EventIdsOf
  <2> QED
    BY <1>11, <2>1 DEF List, Goto, TypeOK
<1>12. ASSUME NEW w \in Writers, EvolveState(w) PROVE TypeOK'
  <2>1. PICK appliedAt \in Time :
          /\ pc[w] = "evolve" /\ Goto(w, "commit")
          /\ made' = [made EXCEPT ![w] =
               [state  |-> Evolve(snap[w], req[w].event, appliedAt),
                update |-> UpdateRecord(w, snap[w], req[w].event, appliedAt)]]
          /\ UNCHANGED <<doc, req, snap, known, answer>>
    BY <1>12 DEF EvolveState
  <2>2. /\ Evolve(snap[w], req[w].event, appliedAt) \in State
        /\ UpdateRecord(w, snap[w], req[w].event, appliedAt) \in Record
    BY <2>1, EvolveType, UpdateType DEF TypeOK, Request
  <2> QED
    BY <2>1, <2>2 DEF Goto, TypeOK
<1>13. ASSUME NEW w \in Writers, Commit(w) PROVE TypeOK'
  <2>1. doc' \in Document
    BY <1>13, AppendedType DEF Commit, TypeOK
  <2> QED
    BY <1>13, <2>1 DEF Commit, Goto, TypeOK
<1>14. ASSUME NEW w \in Writers, Confirm(w) PROVE TypeOK'
  <2>1. Answered("recorded", made[w].state, made[w].update)
          \in [kind : AnswerKinds, state : State, update : Record \cup {NoEvent}]
    BY DEF Answered, TypeOK
  <2> QED
    BY <1>14, <2>1, ReturnType DEF Confirm, TypeOK
<1>15. ASSUME NEW w \in Writers, ConfirmOther(w) PROVE TypeOK'
  <2>1. RecordOf(doc.updates, req[w].event.id) \in Record
    BY <1>15, Lookup DEF ConfirmOther, TypeOK, Document
  <2>2. Answered("replay", doc.state, RecordOf(doc.updates, req[w].event.id))
          \in [kind : AnswerKinds, state : State, update : Record \cup {NoEvent}]
    BY <2>1 DEF Answered, TypeOK, Document
  <2> QED
    BY <1>15, <2>2, ReturnType DEF ConfirmOther, TypeOK
<1>16. ASSUME NEW w \in Writers, NEW r \in Requests,
              CreateCheck(w, r) \/ CommandList(w, r)
       PROVE  TypeOK'
  <2>1. PICK next \in PCs \ {"commit", "confirm"} : Start(w, r, next)
    BY <1>16 DEF CreateCheck, CommandList
  <2>2. UNCHANGED <<doc, snap, known, made>>
    BY <1>16 DEF CreateCheck, CommandList
  <2> QED
    BY <2>1, <2>2, StartType DEF TypeOK
<1>17. ASSUME NEW w \in Writers, NEW r \in Requests, EditLoad(w, r) \/ Load(w, r)
       PROVE  TypeOK'
  <2>1. doc.state \in State /\ r.event.items \subseteq Items /\ r.event.met \in Instants
    BY ServiceAssumption DEF TypeOK, Document, Request, Event
  <2>2. Edited(doc.state, r.event) \in State
    BY <2>1 DEF State, Edited, Later
  <2>3. snap' \in [Writers -> State]
    BY <1>17, <2>1, <2>2 DEF EditLoad, Load, TypeOK
  <2>4. PICK next \in PCs \ {"commit", "confirm"} : Start(w, r, next)
    BY <1>17 DEF EditLoad, Load
  <2>5. UNCHANGED <<doc, known, made>>
    BY <1>17 DEF EditLoad, Load
  <2> QED
    BY <2>3, <2>4, <2>5, StartType DEF TypeOK
<1>18. ASSUME NEW w \in Writers, NEW r \in Requests, CommandReplay(w, r) PROVE TypeOK'
  <2>1. RecordOf(doc.updates, r.event.id) \in Record
    BY <1>18, Lookup DEF CommandReplay, TypeOK, Document
  <2> QED
    BY <1>18, <2>1, FreshType, ZeroTime DEF CommandReplay, Answered, TypeOK
<1> QED
  BY <1>1, <1>2, <1>3, <1>4, <1>5, <1>6, <1>7, <1>8, <1>9, <1>10, <1>11, <1>12, <1>13,
     <1>14, <1>15, <1>16, <1>17, <1>18 DEF Next

\* Every stored state, prepared transition and answer stays well formed.
THEOREM TypeCorrect == Spec => []TypeOK
BY InitType, StepType, PTL DEF Spec

-----------------------------------------------------------------------------
(* The inductive invariant.                                                *)

\* How the evolver moves the revision: a state that keeps it is unchanged.
LEMMA EvolveStep ==
  ASSUME NEW state \in State, NEW event \in Event, NEW t \in Time
  PROVE  /\ Evolve(state, event, t).rev \in {state.rev, state.rev + 1}
         /\ Evolve(state, event, t).rev = state.rev => Evolve(state, event, t) = state
         /\ event.value = Unmanaged => Evolve(state, event, t).lc = state.lc
         /\ event.value # Unmanaged => Evolve(state, event, t).lc = event.value
         /\ Evolve(state, event, t).items = state.items \cup event.items
         /\ Evolve(state, event, t).metAt = Later(event.met, state.metAt)
         /\ Evolve(state, event, t).updatedAt >= state.updatedAt
BY DEF Evolve, State, Event, Later, Time, Instants, Never

LEMMA EmptyHistory ==
  ASSUME NEW state \in State, ValidHistory(state, <<>>)
  PROVE  state.lc = Unmanaged
BY DEF ValidHistory, LifecycleAfter

\* What any step does to the document: the revision never falls, and a revision
\* that stays names the same lifecycle value and, from 1 on, the same state.
Advances ==
  /\ doc.state.rev <= doc'.state.rev
  /\ doc'.state.rev = doc.state.rev => doc'.state.lc = doc.state.lc
  /\ doc'.state.rev = doc.state.rev /\ doc.state.rev > 0 => doc'.state = doc.state

\* Writer w leaves the history alone or appends one record of its own.
Grows(w) ==
  \/ doc'.updates = doc.updates
  \/ \E u \in Record : u.writer = w /\ doc'.updates = Append(doc.updates, u)

Kept(v) ==
  /\ pc'[v] = pc[v] /\ req'[v] = req[v] /\ snap'[v] = snap[v]
  /\ made'[v] = made[v] /\ answer'[v] = answer[v]

\* A step of one writer keeps what the invariant says of the others.
LEMMA OthersKeep ==
  ASSUME TypeOK, TypeOK', Consistent, NEW w \in Writers, NEW v \in Writers, v # w,
         Advances, Grows(w), Kept(v)
  PROVE  SnapshotInv(v)' /\ CommitInv(v)' /\ ConfirmInv(v)'
<1>1. SnapshotInv(v) /\ CommitInv(v) /\ ConfirmInv(v)
  BY DEF Consistent
<1>2. /\ doc.state \in State /\ doc'.state \in State /\ snap[v] \in State
      /\ doc.updates \in Seq(Record)
  BY DEF TypeOK, Document
<1>3. doc.state.rev \in Nat /\ doc'.state.rev \in Nat /\ snap[v].rev \in Nat
  BY <1>2 DEF State
<1>4. SnapshotInv(v)'
  BY <1>1, <1>3 DEF SnapshotInv, Advances, Kept
<1>5. \A i \in 1..Len(doc'.updates) :
        \/ doc'.updates[i].writer = w
        \/ i \in 1..Len(doc.updates) /\ doc'.updates[i] = doc.updates[i]
  BY <1>2 DEF Grows
<1>6. \A i \in 1..Len(doc.updates) :
        i \in 1..Len(doc'.updates) /\ doc'.updates[i] = doc.updates[i]
  BY <1>2 DEF Grows
<1>7. ConfirmInv(v)'
  BY <1>1, <1>5, <1>6 DEF ConfirmInv, Kept
<1>8. CommitInv(v)'
  <2>1. pc[v] = "commit" /\ snap[v].rev = doc'.state.rev =>
          snap[v].rev = doc.state.rev /\ doc'.state.lc = doc.state.lc
    BY <1>1, <1>3 DEF SnapshotInv, Advances
  <2>2. pc[v] \in {"evolve", "commit"} =>
          \A i \in 1..Len(doc'.updates) :
            doc'.updates[i].event.id = req[v].event.id => doc'.updates[i].writer # v
    BY <1>1, <1>5 DEF CommitInv
  <2> QED
    BY <1>1, <2>1, <2>2 DEF CommitInv, Kept
<1> QED
  BY <1>4, <1>7, <1>8

\* A step that leaves the document alone.
LEMMA SameDocument ==
  ASSUME TypeOK, Consistent, UNCHANGED doc
  PROVE  DocumentInv' /\ Advances /\ \A w \in Writers : Grows(w)
BY DEF Consistent, DocumentInv, Advances, Grows, TypeOK, Document, State

\* A call that has returned.
LEMMA Returned ==
  ASSUME TypeOK, NEW w \in Writers, NEW a, Return(w, a),
         a.kind \in {"recorded", "replay"} =>
           \E i \in 1..Len(doc'.updates) : doc'.updates[i] = a.update
  PROVE  /\ SnapshotInv(w)' /\ CommitInv(w)' /\ ConfirmInv(w)'
         /\ \A v \in Writers \ {w} : Kept(v)
<1>1. pc'[w] = "idle" /\ answer'[w] = a
  BY DEF Return, TypeOK
<1>2. \A v \in Writers \ {w} : Kept(v)
  BY DEF Return, TypeOK, Kept
<1>3. SnapshotInv(w)' /\ CommitInv(w)'
  BY <1>1 DEF SnapshotInv, CommitInv
<1>4. ConfirmInv(w)'
  BY <1>1 DEF ConfirmInv
<1> QED
  BY <1>2, <1>3, <1>4

LEMMA InitConsistent == Init => Consistent
<1> SUFFICES ASSUME Init PROVE Consistent
  OBVIOUS
<1>1. DocumentInv
  BY DEF Init, DocumentInv, NoDocument, FreshState
<1>2. \A w \in Writers : SnapshotInv(w) /\ CommitInv(w) /\ ConfirmInv(w)
  BY DEF Init, SnapshotInv, CommitInv, ConfirmInv, NoAnswer
<1> QED
  BY <1>1, <1>2 DEF Consistent

LEMMA StepConsistent == TypeOK /\ TypeOK' /\ Consistent /\ [Next]_vars => Consistent'
<1> SUFFICES ASSUME TypeOK, TypeOK', Consistent, [Next]_vars PROVE Consistent'
  OBVIOUS
<1> DEFINE Own(w) == SnapshotInv(w)' /\ CommitInv(w)' /\ ConfirmInv(w)'
<1>0. ASSUME NEW w \in Writers, DocumentInv', Advances, Grows(w), Own(w),
             \A v \in Writers \ {w} : Kept(v)
      PROVE  Consistent'
  BY <1>0, OthersKeep DEF Consistent
<1>t. /\ doc \in Document /\ doc.state \in State /\ doc.updates \in Seq(Record)
      /\ \A w \in Writers : snap[w] \in State
  BY DEF TypeOK, Document
<1>i. /\ DocumentInv
      /\ \A w \in Writers : SnapshotInv(w) /\ CommitInv(w) /\ ConfirmInv(w)
  BY DEF Consistent
<1>1. CASE UNCHANGED vars
  BY <1>1, <1>i DEF vars, Consistent, DocumentInv, SnapshotInv, CommitInv, ConfirmInv
<1>2. CASE Restart
  <2>1. DocumentInv'
    BY <1>2, SameDocument DEF Restart
  <2>2. \A w \in Writers : pc'[w] = "idle" /\ answer'[w].kind = "none"
    BY <1>2 DEF Restart, NoAnswer
  <2> QED
    BY <2>1, <2>2 DEF Consistent, SnapshotInv, CommitInv, ConfirmInv
<1>3. ASSUME NEW w \in Writers, Raise(w) PROVE Consistent'
  <2>1. DocumentInv' /\ Advances /\ Grows(w)
    BY <1>3, SameDocument DEF Raise
  <2>2. Own(w) /\ \A v \in Writers \ {w} : Kept(v)
    BY <1>3, Returned DEF Raise, Error, NoAnswer
  <2> QED
    BY <2>1, <2>2, <1>0
<1>4. ASSUME NEW w \in Writers, NEW state \in State, NEW a,
             state.rev = 0 \/ (pc[w] = "save" /\ state = snap[w]),
             CanSave(doc, state), doc' = Saved(doc, state),
             Return(w, a), a.kind = "saved"
      PROVE  Consistent'
  <2>1. CASE doc.kind = "envelope"
    <3>1. doc' = doc
      BY <1>4, <2>1, <1>t DEF CanSave, Saved, Envelope, Document
    <3> QED
      BY <1>4, <3>1, <1>0, SameDocument, Returned
  <2>2. CASE doc.kind # "envelope"
    <3>1. doc.updates = <<>> /\ doc.state.rev = 0 /\ doc.state.lc = Unmanaged
      BY <1>i, <2>2 DEF DocumentInv
    <3>2. state.lc = Unmanaged
      BY <1>4, <3>1, EmptyHistory DEF CanSave
    <3>3. state.rev = 0
      BY <1>4, <1>i, <1>t, <3>1 DEF SnapshotInv, State
    <3>4. doc' = [kind |-> "bare", state |-> state, updates |-> <<>>]
      BY <1>4, <2>2 DEF Saved
    <3>5. DocumentInv' /\ Advances /\ Grows(w)
      BY <3>1, <3>2, <3>3, <3>4 DEF DocumentInv, Advances, Grows
    <3> QED
      BY <1>4, <3>5, <1>0, Returned
  <2> QED
    BY <2>1, <2>2
<1>5. ASSUME NEW w \in Writers, CreateSave(w) \/ EditSave(w) PROVE Consistent'
  <2>1. CASE CreateSave(w)
    <3>1. PICK t \in Time :
            /\ CanSave(doc, FreshState(t)) /\ doc' = Saved(doc, FreshState(t))
            /\ Return(w, Answered("saved", FreshState(t), NoEvent))
      BY <2>1 DEF CreateSave
    <3>2. FreshState(t) \in State /\ FreshState(t).rev = 0
      BY FreshType DEF FreshState
    <3> QED
      BY <3>1, <3>2, <1>4 DEF Answered
  <2>2. CASE EditSave(w)
    BY <2>2, <1>4, <1>t DEF EditSave, Answered
  <2> QED
    BY <1>5, <2>1, <2>2
<1>6. ASSUME NEW w \in Writers, CommandCreate(w) PROVE Consistent'
  <2>1. PICK t \in Time, changedAt \in Time, appliedAt \in Time :
          LET event  == CommandEvent(req[w].event, FreshState(t), "CREATE", changedAt)
              next   == Evolve(FreshState(t), event, appliedAt)
              update == UpdateRecord(w, FreshState(t), event, appliedAt)
          IN  /\ pc[w] = "birth"
              /\ CanCreate(doc, next, update)
              /\ doc' = Envelope(next, <<update>>)
              /\ Return(w, Answered("recorded", FreshState(0), update))
    BY <1>6 DEF CommandCreate
  <2> DEFINE event  == CommandEvent(req[w].event, FreshState(t), "CREATE", changedAt)
             next   == Evolve(FreshState(t), event, appliedAt)
             update == UpdateRecord(w, FreshState(t), event, appliedAt)
  <2>2. FreshState(t) \in State /\ event \in Event
    BY <2>1, CommandEventType, FreshType DEF TypeOK, Request, LifecycleStates
  <2>3. update \in Record /\ next \in State /\ update.writer = w
    BY <2>2, UpdateType, EvolveType DEF UpdateRecord
  <2> HIDE DEF event
  <2>4. next.rev \in {0, 1} /\ (next.rev = 0 => next = FreshState(t))
    BY <2>2, EvolveStep DEF FreshState
  <2> HIDE DEF next, update
  <2>5. doc.updates = <<>> /\ doc.state.rev = 0 /\ doc.state.lc = Unmanaged
    BY <2>1, <1>i DEF CanCreate, DocumentInv
  <2>6. doc' = [kind |-> "envelope", state |-> next, updates |-> <<update>>]
    BY <2>1 DEF Envelope, update, next, event
  <2>7. DocumentInv'
    <3>1. ValidHistory(next, <<update>>)
      BY <2>1 DEF CanCreate, update, next, event
    <3>2. <<update>> # <<>>
      OBVIOUS
    <3> QED
      BY <3>1, <3>2, <2>6 DEF DocumentInv
  <2>8. Advances
    BY <2>4, <2>5, <2>6 DEF Advances, FreshState
  <2>9. Grows(w)
    <3>1. <<update>> = Append(<<>>, update)
      OBVIOUS
    <3> QED
      BY <2>3, <2>5, <2>6, <3>1 DEF Grows
  <2>10. 1 \in 1..Len(doc'.updates) /\ doc'.updates[1] = update
    BY <2>6
  <2>11. Return(w, Answered("recorded", FreshState(0), update))
    BY <2>1 DEF update, event
  <2>12. Own(w) /\ \A v \in Writers \ {w} : Kept(v)
    BY <2>10, <2>11, Returned DEF Answered
  <2> QED
    BY <2>7, <2>8, <2>9, <2>12, <1>0
<1>7. ASSUME NEW w \in Writers, EditCheck(w) \/ CommandLoad(w) \/ List(w) PROVE Consistent'
  <2>1. DocumentInv' /\ Advances /\ Grows(w) /\ UNCHANGED doc
    BY <1>7, SameDocument DEF EditCheck, CommandLoad, List
  <2>2. \A v \in Writers \ {w} : Kept(v)
    BY <1>7 DEF EditCheck, CommandLoad, List, Goto, Kept, TypeOK
  <2>3. CASE EditCheck(w)
    <3>1. /\ pc[w] = "edit" /\ pc'[w] = "save" /\ answer' = answer
          /\ snap'[w].rev = snap[w].rev /\ snap'[w].lc = snap[w].lc
      BY <2>3 DEF EditCheck, Goto, TypeOK, State
    <3> QED
      BY <2>1, <2>2, <3>1, <1>0, <1>i DEF SnapshotInv, CommitInv, ConfirmInv
  <2>4. CASE CommandLoad(w)
    <3>1. pc'[w] = "load" /\ answer' = answer
      BY <2>4 DEF CommandLoad, Goto, TypeOK
    <3> QED
      BY <2>1, <2>2, <3>1, <1>0, <1>i DEF SnapshotInv, CommitInv, ConfirmInv
  <2>5. CASE List(w)
    <3>1. /\ pc[w] = "list" /\ pc'[w] = "evolve" /\ UNCHANGED <<req, snap, answer>>
          /\ ~Known(doc.updates, req[w].event.id)
      BY <2>5 DEF List, Goto, TypeOK
    <3> QED
      BY <2>1, <2>2, <3>1, <1>0, <1>i DEF SnapshotInv, CommitInv, ConfirmInv, Known
  <2> QED
    BY <1>7, <2>3, <2>4, <2>5
<1>8. ASSUME NEW w \in Writers,
             CommandReload(w) \/ (\E r \in Requests : Load(w, r) \/ EditLoad(w, r))
      PROVE  Consistent'
  <2>1. DocumentInv' /\ Advances /\ Grows(w) /\ UNCHANGED doc
    BY <1>8, SameDocument DEF CommandReload, Load, EditLoad
  <2>2. \A v \in Writers \ {w} : Kept(v)
    BY <1>8 DEF CommandReload, Load, EditLoad, Start, Goto, Kept, TypeOK
  <2>3. \/ pc'[w] = "list" /\ snap'[w] = doc.state
        \/ pc'[w] = "edit" /\ snap'[w].rev = doc.state.rev /\ snap'[w].lc = doc.state.lc
    <3>1. CASE CommandReload(w)
      BY <3>1 DEF CommandReload, Goto, TypeOK
    <3>2. ASSUME NEW r \in Requests, Load(w, r)
          PROVE  pc'[w] = "list" /\ snap'[w] = doc.state
      BY <3>2 DEF Load, Start, TypeOK
    <3>3. ASSUME NEW r \in Requests, EditLoad(w, r)
          PROVE  pc'[w] = "edit" /\ snap'[w].rev = doc.state.rev /\ snap'[w].lc = doc.state.lc
      BY <3>3, <1>t DEF EditLoad, Edited, Start, TypeOK, State
    <3> QED
      BY <1>8, <3>1, <3>2, <3>3
  <2>4. answer'[w] = answer[w] \/ answer'[w].kind = "none"
    BY <1>8 DEF CommandReload, Load, EditLoad, Start, NoAnswer, TypeOK
  <2>5. SnapshotInv(w)'
    BY <2>1, <2>3, <1>t DEF SnapshotInv, State
  <2>6. CommitInv(w)' /\ ConfirmInv(w)'
    BY <2>1, <2>3, <2>4, <1>i DEF CommitInv, ConfirmInv
  <2> QED
    BY <2>1, <2>2, <2>5, <2>6, <1>0
<1>9. ASSUME NEW w \in Writers, Replay(w) \/ ConfirmOther(w) PROVE Consistent'
  <2>1. DocumentInv' /\ Advances /\ Grows(w) /\ UNCHANGED doc
    BY <1>9, SameDocument DEF Replay, ConfirmOther
  <2>2. PICK state :
          Return(w, Answered("replay", state, RecordOf(doc.updates, req[w].event.id)))
    BY <1>9 DEF Replay, ConfirmOther
  <2>3. \E i \in 1..Len(doc.updates) :
          doc.updates[i] = RecordOf(doc.updates, req[w].event.id)
    BY <1>9, <1>t, Lookup DEF Replay, ConfirmOther
  <2>4. Own(w) /\ \A v \in Writers \ {w} : Kept(v)
    BY <2>1, <2>2, <2>3, Returned DEF Answered
  <2> QED
    BY <2>1, <2>4, <1>0
<1>10. ASSUME NEW w \in Writers, EvolveState(w) PROVE Consistent'
  <2>1. DocumentInv' /\ Advances /\ Grows(w)
    BY <1>10, SameDocument DEF EvolveState
  <2>2. \A v \in Writers \ {w} : Kept(v)
    BY <1>10 DEF EvolveState, Goto, Kept, TypeOK
  <2>3. PICK now \in Time, appliedAt \in Time :
          /\ pc[w] = "evolve" /\ Goto(w, "commit")
          /\ MayApply(w, now)
          /\ req[w].event.class \in NonMutating =>
               req[w].event.items = {} /\ req[w].event.value = Unmanaged
          /\ made' = [made EXCEPT ![w] =
               [state  |-> Evolve(snap[w], req[w].event, appliedAt),
                update |-> UpdateRecord(w, snap[w], req[w].event, appliedAt)]]
          /\ UNCHANGED <<doc, req, snap, known, answer>>
    BY <1>10 DEF EvolveState
  <2>4. /\ pc'[w] = "commit"
        /\ made'[w].state = Evolve(snap[w], req[w].event, appliedAt)
        /\ made'[w].update = UpdateRecord(w, snap[w], req[w].event, appliedAt)
    BY <2>3 DEF Goto, TypeOK
  <2>5. SnapshotInv(w)' /\ ConfirmInv(w)'
    BY <2>3, <2>4, <1>i DEF SnapshotInv, ConfirmInv
  <2>6. CommitInv(w)'
    BY <2>3, <2>4, <1>i DEF CommitInv, MayApply
  <2> QED
    BY <2>1, <2>2, <2>5, <2>6, <1>0
<1>11. ASSUME NEW w \in Writers, Commit(w) PROVE Consistent'
  <2>1. pc[w] = "commit" /\ pc'[w] = "confirm" /\ UNCHANGED <<req, snap, made, answer>>
    BY <1>11 DEF Commit, Goto, TypeOK
  <2>2. \A v \in Writers \ {w} : Kept(v)
    BY <1>11 DEF Commit, Goto, Kept, TypeOK
  <2>3. PICK t \in Time : /\ made[w].state = Evolve(snap[w], req[w].event, t)
                          /\ made[w].update = UpdateRecord(w, snap[w], req[w].event, t)
    BY <2>1, <1>i DEF CommitInv
  <2>4. made[w].update \in Record /\ made[w].state \in State /\ req[w].event \in Event
    BY <2>1 DEF TypeOK, Request
  <2>5. /\ made[w].update.writer = w /\ made[w].update.event = req[w].event
        /\ made[w].update.before = snap[w].rev
    BY <2>3 DEF UpdateRecord
  <2>6. CASE /\ CanAppend(doc, made[w].state, made[w].update)
             /\ doc' = Appended(doc, made[w].state, made[w].update)
    <3>1. doc' = [kind |-> "envelope", state |-> made[w].state,
                  updates |-> Append(doc.updates, made[w].update)]
      BY <2>6 DEF Appended, Envelope
    <3>2. DocumentInv'
      BY <2>6, <3>1, <1>t, <2>4, SMTT(60) DEF DocumentInv, CanAppend
    <3>3. doc.state.rev = snap[w].rev
      BY <2>5, <2>6 DEF CanAppend
    <3>4. /\ snap[w].lc = doc.state.lc
          /\ snap[w].rev > 0 => snap[w] = doc.state
      BY <2>1, <3>3, <1>i DEF SnapshotInv
    <3>5. /\ made[w].state.rev \in {snap[w].rev, snap[w].rev + 1}
          /\ made[w].state.rev = snap[w].rev => made[w].state = snap[w]
      BY <2>3, <2>4, <1>t, EvolveStep
    <3>6. Advances
      BY <3>1, <3>3, <3>4, <3>5, <1>t DEF Advances, State
    <3>7. Grows(w)
      BY <2>4, <2>5, <3>1 DEF Grows
    <3>8. \A i \in 1..Len(doc'.updates) :
            doc'.updates[i].event.id = req[w].event.id => doc'.updates[i] = made[w].update
      BY <2>5, <2>6, <3>1, <1>t, <2>4 DEF CanAppend, Known
    <3>9. \A i \in 1..Len(doc.updates) :
            i \in 1..Len(doc'.updates) /\ doc'.updates[i] = doc.updates[i]
      BY <3>1, <1>t, <2>4
    <3>10. Own(w)
      BY <2>1, <3>8, <3>9, <1>i DEF SnapshotInv, CommitInv, ConfirmInv
    <3> QED
      BY <2>2, <3>2, <3>6, <3>7, <3>10, <1>0
  <2>7. CASE UNCHANGED doc
    <3>1. DocumentInv' /\ Advances /\ Grows(w)
      BY <2>7, SameDocument
    <3>2. Own(w)
      BY <2>1, <2>7, <1>i DEF SnapshotInv, CommitInv, ConfirmInv
    <3> QED
      BY <2>2, <3>1, <3>2, <1>0
  <2> QED
    BY <1>11, <2>6, <2>7 DEF Commit
<1>12. ASSUME NEW w \in Writers, Confirm(w) PROVE Consistent'
  <2>1. DocumentInv' /\ Advances /\ Grows(w) /\ UNCHANGED doc
    BY <1>12, SameDocument DEF Confirm
  <2>2. PICK i \in 1..Len(doc.updates) :
          doc.updates[i] = RecordOf(doc.updates, req[w].event.id)
    BY <1>12, <1>t, Lookup DEF Confirm
  <2>3. doc.updates[i].event.id = req[w].event.id /\ doc.updates[i].writer = w
    BY <1>12, <2>2, <1>t, Lookup DEF Confirm
  <2>4. doc.updates[i] = made[w].update
    BY <1>12, <2>3, <1>i DEF Confirm, ConfirmInv
  <2>5. Own(w) /\ \A v \in Writers \ {w} : Kept(v)
    BY <1>12, <2>1, <2>4, Returned DEF Confirm, Answered
  <2> QED
    BY <2>1, <2>5, <1>0
<1>13. ASSUME NEW w \in Writers, NEW r \in Requests,
              CreateCheck(w, r) \/ CommandList(w, r)
       PROVE  Consistent'
  <2>1. DocumentInv' /\ Advances /\ Grows(w)
    BY <1>13, SameDocument DEF CreateCheck, CommandList
  <2>2. \A v \in Writers \ {w} : Kept(v)
    BY <1>13 DEF CreateCheck, CommandList, Start, Kept, TypeOK
  <2>3. /\ pc'[w] \in {"create", "birth", "command"} /\ req'[w] = r
        /\ answer'[w].kind = "none"
        /\ pc'[w] = "birth" => r.event.op = "CREATE"
    BY <1>13 DEF CreateCheck, CommandList, Start, TypeOK, NoAnswer
  <2>4. Own(w)
    BY <2>3 DEF SnapshotInv, CommitInv, ConfirmInv
  <2> QED
    BY <2>1, <2>2, <2>4, <1>0
<1>14. ASSUME NEW w \in Writers, NEW r \in Requests, CommandReplay(w, r)
       PROVE  Consistent'
  <2>1. DocumentInv' /\ Advances /\ Grows(w) /\ UNCHANGED doc
    BY <1>14, SameDocument DEF CommandReplay
  <2>2. \A v \in Writers \ {w} : Kept(v)
    BY <1>14 DEF CommandReplay, Kept, TypeOK
  <2>3. \E i \in 1..Len(doc.updates) : doc.updates[i] = RecordOf(doc.updates, r.event.id)
    BY <1>14, <1>t, Lookup DEF CommandReplay
  <2>4. pc'[w] = "idle" /\ answer'[w].update = RecordOf(doc.updates, r.event.id)
    BY <1>14 DEF CommandReplay, Answered, TypeOK
  <2>5. Own(w)
    BY <2>1, <2>3, <2>4 DEF SnapshotInv, CommitInv, ConfirmInv
  <2> QED
    BY <2>1, <2>2, <2>5, <1>0
<1> QED
  BY <1>1, <1>2, <1>3, <1>5, <1>6, <1>7, <1>8, <1>9, <1>10, <1>11, <1>12, <1>13, <1>14
  DEF Next

LEMMA Invariant == Spec => [](TypeOK /\ Consistent)
<1>1. Init => TypeOK /\ Consistent
  BY InitType, InitConsistent
<1>2. TypeOK /\ Consistent /\ [Next]_vars => (TypeOK /\ Consistent)'
  BY StepType, StepConsistent
<1> QED
  BY <1>1, <1>2, PTL DEF Spec

\* The documents, and what every writer has loaded and made of them, agree: a history is valid,
\* and a writer whose document is out of date can tell by its revision.
THEOREM WritersStayConsistent == Spec => []Consistent
<1>1. TypeOK /\ Consistent => Consistent
  OBVIOUS
<1> QED
  BY <1>1, Invariant, PTL

\* A call that answered "recorded" or "replay" named a record of the history.
THEOREM AnswersAreDurable == Spec => []DurableAnswer
<1>1. TypeOK /\ Consistent => DurableAnswer
  BY DEF Consistent, ConfirmInv, DurableAnswer
<1> QED
  BY <1>1, Invariant, PTL

-----------------------------------------------------------------------------
(* What a step does to the document.                                       *)

\* A direct save or a creation of a document without history.
Rewritten ==
  /\ doc.kind # "envelope"
  /\ doc'.kind = "bare" /\ doc'.updates = <<>>
  /\ doc'.state \in State /\ doc'.state.rev = 0 /\ doc'.state.lc = Unmanaged

\* The transition of writer w, built on the stored revision, is appended.
Committed(w, state, update) ==
  /\ update.event.op = "NONE" =>
       /\ LifecycleStatus(doc.state.lc) = "ACTIVE"
       /\ update.event.value = Unmanaged
       /\ update.event.class \in NonMutating => update.event.items = {}
  /\ update.before = doc.state.rev
  /\ \E base \in State, t \in Time :
       /\ base.rev = doc.state.rev /\ base.lc = doc.state.lc
       /\ doc.state.rev > 0 => base = doc.state
       /\ state = Evolve(base, update.event, t)
       /\ update.after = state.rev
  /\ ValidHistory(state, Append(doc.updates, update))
  /\ doc' = Envelope(state, Append(doc.updates, update))

LEMMA DocumentStep ==
  ASSUME TypeOK, Consistent, [Next]_vars
  PROVE  \/ doc' = doc
         \/ Rewritten
         \/ \E w \in Writers, state \in State, update \in Record : Committed(w, state, update)
<1>t. /\ doc \in Document /\ doc.state \in State /\ doc.updates \in Seq(Record)
      /\ \A w \in Writers : snap[w] \in State
  BY DEF TypeOK, Document
<1>i. /\ DocumentInv
      /\ \A w \in Writers : SnapshotInv(w) /\ CommitInv(w) /\ ConfirmInv(w)
  BY DEF Consistent
<1>1. ASSUME NEW w \in Writers, NEW state \in State,
             state.rev = 0 \/ (pc[w] = "save" /\ state = snap[w]),
             CanSave(doc, state), doc' = Saved(doc, state)
      PROVE  doc' = doc \/ Rewritten
  <2>1. CASE doc.kind = "envelope"
    BY <1>1, <2>1, <1>t DEF CanSave, Saved, Envelope, Document
  <2>2. CASE doc.kind # "envelope"
    <3>1. doc.updates = <<>> /\ doc.state.rev = 0
      BY <1>i, <2>2 DEF DocumentInv
    <3>2. state.lc = Unmanaged
      BY <1>1, <3>1, EmptyHistory DEF CanSave
    <3>3. state.rev = 0
      BY <1>1, <1>i, <1>t, <3>1 DEF SnapshotInv, State
    <3> QED
      BY <1>1, <2>2, <3>2, <3>3 DEF Saved, Rewritten
  <2> QED
    BY <2>1, <2>2
<1>2. ASSUME NEW w \in Writers, CreateSave(w) PROVE doc' = doc \/ Rewritten
  <2>1. PICK t \in Time : CanSave(doc, FreshState(t)) /\ doc' = Saved(doc, FreshState(t))
    BY <1>2 DEF CreateSave
  <2>2. FreshState(t) \in State /\ FreshState(t).rev = 0
    BY FreshType DEF FreshState
  <2> QED
    BY <2>1, <2>2, <1>1
<1>3. ASSUME NEW w \in Writers, EditSave(w) PROVE doc' = doc \/ Rewritten
  BY <1>3, <1>1, <1>t DEF EditSave
<1>4. ASSUME NEW w \in Writers, CommandCreate(w)
      PROVE  \E state \in State, update \in Record : Committed(w, state, update)
  <2>1. PICK t \in Time, changedAt \in Time, appliedAt \in Time :
          LET event  == CommandEvent(req[w].event, FreshState(t), "CREATE", changedAt)
              next   == Evolve(FreshState(t), event, appliedAt)
              update == UpdateRecord(w, FreshState(t), event, appliedAt)
          IN  /\ pc[w] = "birth"
              /\ CanCreate(doc, next, update)
              /\ doc' = Envelope(next, <<update>>)
    BY <1>4 DEF CommandCreate
  <2> DEFINE event  == CommandEvent(req[w].event, FreshState(t), "CREATE", changedAt)
             next   == Evolve(FreshState(t), event, appliedAt)
             update == UpdateRecord(w, FreshState(t), event, appliedAt)
  <2>2. FreshState(t) \in State /\ event \in Event
    BY <2>1, CommandEventType, FreshType DEF TypeOK, Request, LifecycleStates
  <2>3. update \in Record /\ next \in State
    BY <2>2, UpdateType, EvolveType
  <2>4. update.event = event /\ update.before = 0 /\ update.after = next.rev
    BY DEF UpdateRecord, FreshState
  <2>5. event.op = "CREATE"
    BY <2>1, <1>i DEF CommitInv, CommandEvent, TypeOK, Request, Event
  <2>6. doc.updates = <<>> /\ doc.state.rev = 0 /\ doc.state.lc = Unmanaged
    BY <2>1, <1>i DEF CanCreate, DocumentInv
  <2>7. /\ FreshState(t).rev = doc.state.rev /\ FreshState(t).lc = doc.state.lc
        /\ next = Evolve(FreshState(t), update.event, appliedAt)
    BY <2>4, <2>6 DEF FreshState
  <2>8. ValidHistory(next, <<update>>) /\ doc' = Envelope(next, <<update>>)
    BY <2>1 DEF CanCreate
  <2> HIDE DEF event, next, update
  <2>9. <<update>> = Append(doc.updates, update)
    BY <2>6
  <2>10. Committed(w, next, update)
    BY <2>2, <2>3, <2>4, <2>5, <2>6, <2>7, <2>8, <2>9 DEF Committed
  <2> QED
    BY <2>3, <2>10
<1>5. ASSUME NEW w \in Writers, Commit(w)
      PROVE  doc' = doc \/ (\E state \in State, update \in Record : Committed(w, state, update))
  <2>1. pc[w] = "commit"
    BY <1>5 DEF Commit
  <2>2. PICK t \in Time : /\ made[w].state = Evolve(snap[w], req[w].event, t)
                          /\ made[w].update = UpdateRecord(w, snap[w], req[w].event, t)
    BY <2>1, <1>i DEF CommitInv
  <2>3. made[w].update \in Record /\ made[w].state \in State
    BY <2>1 DEF TypeOK
  <2>4. /\ made[w].update.event = req[w].event
        /\ made[w].update.before = snap[w].rev
    BY <2>2 DEF UpdateRecord
  <2>5. CASE /\ CanAppend(doc, made[w].state, made[w].update)
             /\ doc' = Appended(doc, made[w].state, made[w].update)
    <3>1. doc.state.rev = snap[w].rev /\ made[w].state.rev = made[w].update.after
      BY <2>4, <2>5 DEF CanAppend
    <3>2. snap[w].lc = doc.state.lc /\ (snap[w].rev > 0 => snap[w] = doc.state)
      BY <2>1, <3>1, <1>i DEF SnapshotInv
    <3>3. \E base \in State, s \in Time :
            /\ base.rev = doc.state.rev /\ base.lc = doc.state.lc
            /\ doc.state.rev > 0 => base = doc.state
            /\ made[w].state = Evolve(base, made[w].update.event, s)
            /\ made[w].update.after = made[w].state.rev
      BY <2>2, <2>4, <3>1, <3>2, <1>t
    <3>4. /\ made[w].update.event.op = "NONE" =>
               /\ LifecycleStatus(doc.state.lc) = "ACTIVE"
               /\ made[w].update.event.value = Unmanaged
          /\ made[w].update.event.class \in NonMutating => made[w].update.event.items = {}
      BY <2>1, <2>4, <3>1, <1>i DEF CommitInv
    <3>5. Committed(w, made[w].state, made[w].update)
      BY <2>3, <2>4, <2>5, <3>1, <3>3, <3>4 DEF Committed, CanAppend, Appended
    <3> QED
      BY <2>3, <3>5
  <2> QED
    BY <1>5, <2>5 DEF Commit
<1> QED
  BY <1>2, <1>3, <1>4, <1>5
  DEF Next, vars, Restart, Raise, EditCheck, CommandLoad, CommandReload, Replay, List,
      EvolveState, Confirm, ConfirmOther, CreateCheck, EditLoad, CommandReplay,
      CommandList, Load

\* A document with history changes only by one record appended to it.
THEOREM OnlyTransitionsChange == Spec => OnlyTransitions
<1>1. TypeOK /\ Consistent /\ [Next]_vars =>
        [doc.kind = "envelope" /\ doc' # doc =>
           /\ doc'.kind = "envelope"
           /\ Len(doc'.updates) = Len(doc.updates) + 1
           /\ \A i \in 1..Len(doc.updates) : doc'.updates[i] = doc.updates[i]]_vars
  <2> SUFFICES ASSUME TypeOK, Consistent, [Next]_vars, doc.kind = "envelope", doc' # doc
               PROVE  /\ doc'.kind = "envelope"
                      /\ Len(doc'.updates) = Len(doc.updates) + 1
                      /\ \A i \in 1..Len(doc.updates) : doc'.updates[i] = doc.updates[i]
    OBVIOUS
  <2>1. PICK state \in State, update \in Record : \E w \in Writers : Committed(w, state, update)
    BY DocumentStep DEF Rewritten
  <2>2. doc.updates \in Seq(Record) /\ update \in Record
    BY <2>1 DEF TypeOK, Document, Committed
  <2>3. doc' = [kind |-> "envelope", state |-> state, updates |-> Append(doc.updates, update)]
    BY <2>1 DEF Committed, Envelope
  <2> QED
    BY <2>2, <2>3
<1> QED
  BY <1>1, Invariant, PTL DEF Spec, OnlyTransitions

\* No ordinary event enters the history of a subject that is not active.
THEOREM InactiveSubjectsRecordNothing == Spec => RecordedOnlyWhileActive
<1>1. TypeOK /\ Consistent /\ [Next]_vars =>
        [doc.updates # doc'.updates /\ doc'.updates[Len(doc'.updates)].event.op = "NONE" =>
           LifecycleStatus(doc.state.lc) = "ACTIVE"]_vars
  <2> SUFFICES ASSUME TypeOK, Consistent, [Next]_vars, doc.updates # doc'.updates,
                      doc'.updates[Len(doc'.updates)].event.op = "NONE"
               PROVE  LifecycleStatus(doc.state.lc) = "ACTIVE"
    OBVIOUS
  <2>1. ~Rewritten
    BY DEF Rewritten, Consistent, DocumentInv
  <2>2. PICK state \in State, update \in Record : \E w \in Writers : Committed(w, state, update)
    BY <2>1, DocumentStep
  <2>3. doc.updates \in Seq(Record) /\ update \in Record
    BY <2>2 DEF TypeOK, Document, Committed
  <2>4. doc'.updates = Append(doc.updates, update)
    BY <2>2 DEF Committed, Envelope
  <2>5. update.event.op = "NONE"
    BY <2>3, <2>4
  <2> QED
    BY <2>2, <2>5 DEF Committed
<1> QED
  BY <1>1, Invariant, PTL DEF Spec, RecordedOnlyWhileActive

-----------------------------------------------------------------------------
(* The lifecycle value in force is unique, whoever computes it.            *)

LEMMA LifecycleUnique ==
  ASSUME NEW updates \in Seq(Record), NEW n \in Nat, n <= Len(updates), NEW x, NEW y,
         LifecycleAfter(updates, n, x), LifecycleAfter(updates, n, y)
  PROVE  x = y
<1>1. CASE \A i \in 1..n : ~SetsLifecycle(updates[i])
  BY <1>1 DEF LifecycleAfter
<1>2. CASE \E i \in 1..n : SetsLifecycle(updates[i])
  <2>1. PICK i \in 1..n : /\ SetsLifecycle(updates[i]) /\ x = updates[i].event.value
                          /\ \A j \in (i+1)..n : ~SetsLifecycle(updates[j])
    BY <1>2 DEF LifecycleAfter
  <2>2. PICK k \in 1..n : /\ SetsLifecycle(updates[k]) /\ y = updates[k].event.value
                          /\ \A j \in (k+1)..n : ~SetsLifecycle(updates[j])
    BY <1>2 DEF LifecycleAfter
  <2>3. i = k
    BY <2>1, <2>2
  <2> QED
    BY <2>1, <2>2, <2>3
<1> QED
  BY <1>1, <1>2

LEMMA LifecyclePrefix ==
  ASSUME NEW updates \in Seq(Record), NEW u \in Record, NEW x,
         LifecycleAfter(Append(updates, u), Len(updates), x)
  PROVE  LifecycleAfter(updates, Len(updates), x)
<1>1. \A i \in 1..Len(updates) : Append(updates, u)[i] = updates[i]
  OBVIOUS
<1>2. \A i \in 1..Len(updates) : (i+1)..Len(updates) \subseteq 1..Len(updates)
  OBVIOUS
<1> QED
  BY <1>1, <1>2 DEF LifecycleAfter

\* What the validation of the extended history says of the appended record, in
\* terms of the stored lifecycle value.
LEMMA CommitFacts ==
  ASSUME TypeOK, Consistent, NEW w \in Writers, NEW state \in State, NEW update \in Record,
         Committed(w, state, update)
  PROVE  /\ AdvancesLifecycle(doc.state.lc, update)
         /\ \A i \in 1..Len(doc.updates) : doc.updates[i].event.id # update.event.id
         /\ update.event.refs \subseteq {doc.updates[i].event.id : i \in 1..Len(doc.updates)}
<1> DEFINE n   == Len(doc.updates)
           all == Append(doc.updates, update)
<1>1. doc.updates \in Seq(Record) /\ n \in Nat
  BY DEF TypeOK, Document
<1>2. /\ all \in Seq(Record) /\ Len(all) = n + 1 /\ all[n+1] = update
      /\ \A i \in 1..n : all[i] = doc.updates[i]
  BY <1>1
<1>3. ValidHistory(state, all)
  BY DEF Committed
<1> HIDE DEF all
<1>4. ValidRecord(all, n+1)
  BY <1>1, <1>2, <1>3 DEF ValidHistory
<1>5. PICK lc : LifecycleAfter(all, n, lc) /\ AdvancesLifecycle(lc, update)
  BY <1>1, <1>2, <1>4 DEF ValidRecord
<1>6. LifecycleAfter(doc.updates, n, lc)
  BY <1>1, <1>5, LifecyclePrefix DEF all
<1>7. LifecycleAfter(doc.updates, n, doc.state.lc)
  <2>1. CASE doc.kind = "envelope"
    BY <2>1 DEF Consistent, DocumentInv, ValidHistory
  <2>2. CASE doc.kind # "envelope"
    BY <2>2 DEF Consistent, DocumentInv, LifecycleAfter
  <2> QED
    BY <2>1, <2>2
<1>8. lc = doc.state.lc
  BY <1>1, <1>6, <1>7, LifecycleUnique
<1>9. \A i \in 1..n : doc.updates[i].event.id # update.event.id
  BY <1>1, <1>2, <1>4 DEF ValidRecord
<1>10. update.event.refs \subseteq {doc.updates[i].event.id : i \in 1..n}
  BY <1>1, <1>2, <1>4 DEF ValidRecord
<1> QED
  BY <1>5, <1>8, <1>9, <1>10

\* A logically deleted subject never changes again.
THEOREM DeletedSubjectsStay == Spec => DeletedIsFinal
<1>1. TypeOK /\ Consistent /\ [Next]_vars =>
        [doc.state.lc.status = "DELETED" => doc' = doc]_vars
  <2> SUFFICES ASSUME TypeOK, Consistent, [Next]_vars, doc.state.lc.status = "DELETED",
                      doc' # doc
               PROVE  FALSE
    OBVIOUS
  <2>1. doc.state.lc # Unmanaged /\ LifecycleStatus(doc.state.lc) = "DELETED"
    BY DEF LifecycleStatus, Unmanaged
  <2>2. ~Rewritten
    BY <2>1 DEF Rewritten, Consistent, DocumentInv
  <2>3. PICK w \in Writers, state \in State, update \in Record : Committed(w, state, update)
    BY <2>2, DocumentStep
  <2>4. AdvancesLifecycle(doc.state.lc, update)
    BY <2>3, CommitFacts
  <2>5. update.event.op # "NONE"
    BY <2>1, <2>3 DEF Committed
  <2>6. ValidIntent(doc.state.lc, update) \/ ValidCommand(doc.state.lc, update)
    BY <2>4, <2>5 DEF AdvancesLifecycle, Managed
  <2> QED
    BY <2>1, <2>6 DEF ValidIntent, ValidCommand, Target, Transitions
<1> QED
  BY <1>1, Invariant, PTL DEF Spec, DeletedIsFinal

\* From revision 1 on updated_at never moves back, whatever the clocks do.
THEOREM UpdatedAtIsMonotone == Spec => UpdatedAtNeverRegresses
<1>1. TypeOK /\ Consistent /\ [Next]_vars =>
        [doc.state.rev > 0 => doc'.state.updatedAt >= doc.state.updatedAt]_vars
  <2> SUFFICES ASSUME TypeOK, Consistent, [Next]_vars, doc.state.rev > 0
               PROVE  doc'.state.updatedAt >= doc.state.updatedAt
    BY DEF vars
  <2>1. doc.state \in State /\ doc.state.updatedAt \in Int
    BY DEF TypeOK, Document, State, Time
  <2>2. ~Rewritten
    BY <2>1 DEF Rewritten, Consistent, DocumentInv, State
  <2>3. ASSUME NEW w \in Writers, NEW state \in State, NEW update \in Record,
               Committed(w, state, update)
        PROVE  doc'.state.updatedAt >= doc.state.updatedAt
    <3>1. PICK t \in Time : state = Evolve(doc.state, update.event, t)
      BY <2>3 DEF Committed
    <3>2. state.updatedAt >= doc.state.updatedAt
      BY <3>1, <2>1, EvolveStep DEF Record
    <3> QED
      BY <2>3, <3>2 DEF Committed, Envelope
  <2> QED
    BY <2>1, <2>2, <2>3, DocumentStep
<1> QED
  BY <1>1, Invariant, PTL DEF Spec, UpdatedAtNeverRegresses

-----------------------------------------------------------------------------
(* No committed change is lost.                                            *)

\* No record reaches beyond the stored revision.
Bounded == \A i \in 1..Len(doc.updates) : doc.updates[i].after <= doc.state.rev

LEMMA StepBounded ==
  TypeOK /\ Consistent /\ Bounded /\ NoLostUpdate /\ [Next]_vars => (Bounded /\ NoLostUpdate)'
<1> SUFFICES ASSUME TypeOK, Consistent, Bounded, NoLostUpdate, [Next]_vars
             PROVE  (Bounded /\ NoLostUpdate)'
  OBVIOUS
<1>1. CASE doc' = doc
  BY <1>1 DEF Bounded, NoLostUpdate
<1>2. CASE Rewritten
  BY <1>2 DEF Rewritten, Bounded, NoLostUpdate
<1>3. ASSUME NEW w \in Writers, NEW state \in State, NEW update \in Record,
             Committed(w, state, update)
      PROVE  (Bounded /\ NoLostUpdate)'
  <2> DEFINE n == Len(doc.updates)
  <2>1. doc.updates \in Seq(Record) /\ doc.state \in State
    BY DEF TypeOK, Document
  <2>2. /\ doc'.state = state
        /\ doc'.updates = Append(doc.updates, update)
    BY <1>3 DEF Committed, Envelope
  <2>3. /\ Len(doc'.updates) = n + 1 /\ doc'.updates[n+1] = update
        /\ \A i \in 1..n : doc'.updates[i] = doc.updates[i] /\ doc.updates[i] \in Record
    BY <2>1, <2>2
  <2>4. PICK base \in State, t \in Time :
          /\ base.rev = doc.state.rev
          /\ doc.state.rev > 0 => base = doc.state
          /\ state = Evolve(base, update.event, t)
          /\ update.after = state.rev
    BY <1>3 DEF Committed
  <2>5. /\ state.rev \in {doc.state.rev, doc.state.rev + 1}
        /\ state.items = base.items \cup update.event.items
    BY <2>4, EvolveStep DEF Record
  <2>6. doc.state.rev \in Nat /\ \A u \in Record : u.after \in Nat
    BY <2>1 DEF State, Record
  <2>7. Bounded'
    BY <2>1, <2>2, <2>3, <2>4, <2>5, <2>6 DEF Bounded
  <2>8. ASSUME NEW i \in 1..n, doc.updates[i].after > 0
        PROVE  doc.updates[i].event.items \subseteq state.items
    <3>1. doc.state.rev > 0
      BY <2>1, <2>3, <2>6, <2>8 DEF Bounded
    <3> QED
      BY <3>1, <2>4, <2>5, <2>8 DEF NoLostUpdate
  <2>9. update.event.items \subseteq state.items
    BY <2>5
  <2>10. NoLostUpdate'
    BY <2>1, <2>2, <2>3, <2>8, <2>9 DEF NoLostUpdate
  <2> QED
    BY <2>7, <2>10
<1> QED
  BY <1>1, <1>2, <1>3, DocumentStep

\* What the events recorded from revision 1 on added is still in the state.
THEOREM UpdatesAreKept == Spec => []NoLostUpdate
<1>1. Init => Bounded /\ NoLostUpdate
  BY DEF Init, NoDocument, Bounded, NoLostUpdate
<1>2. TypeOK /\ Consistent /\ Bounded /\ NoLostUpdate /\ [Next]_vars
        => (Bounded /\ NoLostUpdate)'
  BY StepBounded
<1> QED
  BY <1>1, <1>2, Invariant, PTL DEF Spec

-----------------------------------------------------------------------------
(* The document implements the append-only log.                            *)

LogOf(updates) == [i \in 1..Len(updates) |-> updates[i].event]

LEMMA LogGrows ==
  ASSUME NEW updates \in Seq(Record), NEW u \in Record
  PROVE  /\ LogOf(updates) \in Seq(Event)
         /\ Len(LogOf(Append(updates, u))) = Len(LogOf(updates)) + 1
         /\ LogOf(Append(updates, u)) = Append(LogOf(updates), u.event)
         /\ LogOf(Append(updates, u))[Len(LogOf(Append(updates, u)))] = u.event
         /\ \A i \in 1..Len(updates) : LogOf(updates)[i] = updates[i].event
         /\ Len(LogOf(updates)) = Len(updates)
<1> DEFINE n == Len(updates)
           more == Append(updates, u)
<1>1. /\ n \in Nat /\ more \in Seq(Record) /\ Len(more) = n + 1 /\ more[n+1] = u
      /\ \A i \in 1..n : more[i] = updates[i]
  OBVIOUS
<1>2. \A i \in 1..n : updates[i] \in Record
  OBVIOUS
<1>3. \A v \in Record : v.event \in Event
  BY DEF Record
<1>4. LogOf(updates) \in Seq(Event) /\ Len(LogOf(updates)) = n
  BY <1>1, <1>2, <1>3 DEF LogOf
<1>5. LogOf(more) \in Seq(Event) /\ Len(LogOf(more)) = n + 1 /\ LogOf(more)[n+1] = u.event
  BY <1>1, <1>2, <1>3 DEF LogOf
<1>6. \A i \in 1..n : LogOf(more)[i] = LogOf(updates)[i]
  BY <1>1 DEF LogOf
<1>7. LogOf(more) = Append(LogOf(updates), u.event)
  BY <1>1, <1>3, <1>4, <1>5, <1>6
<1> QED
  BY <1>1, <1>4, <1>5, <1>7 DEF LogOf

LEMMA InitRefines == Init => History!HInit
BY DEF Init, History!HInit, NoDocument, FreshState, Unmanaged, History!Unmanaged, Never,
       History!Never

LEMMA SameOperators ==
  /\ History!Unmanaged = Unmanaged
  /\ History!NonMutating = NonMutating
  /\ History!Instants = Instants /\ \A x, y : History!Later(x, y) = Later(x, y)
  /\ History!OwnerOperations = OwnerOperations
  /\ \A lc : History!LifecycleStatus(lc) = LifecycleStatus(lc)
  /\ \A lc, op, status : History!Target(lc, op, status) = Target(lc, op, status)
BY DEF History!Unmanaged, Unmanaged, History!NonMutating, NonMutating, Classifications,
       History!Classifications, History!OwnerOperations, OwnerOperations,
       History!LifecycleStatus, LifecycleStatus, History!Target, Target, Transitions,
       History!Transitions, History!Instants, Instants, History!Never, Never, History!Time,
       Time, History!Later, Later

LEMMA CommitRefines ==
  ASSUME TypeOK, Consistent, NEW w \in Writers, NEW state \in State, NEW update \in Record,
         Committed(w, state, update)
  PROVE  History!HNext
<1> DEFINE e   == update.event
           old == LogOf(doc.updates)
           new == LogOf(doc'.updates)
<1>1. /\ doc.updates \in Seq(Record) /\ doc.state \in State
      /\ doc.state.rev \in Nat /\ doc.state.items \in SUBSET Items
  BY DEF TypeOK, Document, State
<1>2. /\ doc'.state = state /\ doc'.updates = Append(doc.updates, update)
  BY DEF Committed, Envelope
<1>3. e \in Event /\ e.items \in SUBSET Items /\ e.op \in Operations \cup {"NONE"}
  BY DEF Record, Event
<1>4. PICK base \in State, t \in Time :
        /\ base.rev = doc.state.rev /\ base.lc = doc.state.lc
        /\ doc.state.rev > 0 => base = doc.state
        /\ state = Evolve(base, e, t)
        /\ update.after = state.rev
  BY DEF Committed
<1>5. /\ state.items = base.items \cup e.items
      /\ e.value = Unmanaged => state.lc = doc.state.lc
      /\ e.value # Unmanaged => state.lc = e.value
      /\ state.metAt = Later(e.met, base.metAt)
      /\ state.rev = IF state.items = base.items /\ state.metAt = base.metAt /\ state.lc = doc.state.lc
                     THEN doc.state.rev ELSE doc.state.rev + 1
  <2>1. base.items \subseteq Items
    BY DEF State
  <2> QED
    BY <1>3, <1>4, <2>1 DEF Evolve, State
<1>6. /\ AdvancesLifecycle(doc.state.lc, update)
      /\ \A i \in 1..Len(doc.updates) : doc.updates[i].event.id # e.id
      /\ e.refs \subseteq {doc.updates[i].event.id : i \in 1..Len(doc.updates)}
  BY CommitFacts
<1>7. /\ Len(new) = Len(old) + 1 /\ new = Append(old, new[Len(new)]) /\ new[Len(new)] = e
      /\ \A i \in 1..Len(old) : old[i].id = doc.updates[i].event.id
      /\ Len(old) = Len(doc.updates)
  <2>1. /\ Len(LogOf(Append(doc.updates, update))) = Len(LogOf(doc.updates)) + 1
        /\ LogOf(Append(doc.updates, update)) = Append(LogOf(doc.updates), update.event)
        /\ LogOf(Append(doc.updates, update))[Len(LogOf(Append(doc.updates, update)))]
             = update.event
        /\ \A i \in 1..Len(doc.updates) : LogOf(doc.updates)[i] = doc.updates[i].event
        /\ Len(LogOf(doc.updates)) = Len(doc.updates)
    BY <1>1, LogGrows
  <2> QED
    BY <1>2, <2>1
<1> HIDE DEF e, old, new
<1>8. History!Logged = {old[i].id : i \in 1..Len(old)}
  BY DEF History!Logged, old, LogOf
<1>9. e.id \notin History!Logged
  BY <1>6, <1>7, <1>8
<1>10. History!Extend(e)
  <2>1. base.items \in SUBSET Items /\ base.metAt \in Instants
    BY DEF State
  <2>2. doc.state.rev > 0 => base.items = doc.state.items /\ base.metAt = doc.state.metAt
    BY <1>4
  <2>3. /\ doc'.state.items = base.items \cup e.items
        /\ doc'.state.metAt = Later(e.met, base.metAt)
        /\ doc'.state.rev = IF /\ doc'.state.items = base.items /\ doc'.state.metAt = base.metAt
                               /\ doc'.state.lc = doc.state.lc
                            THEN doc.state.rev ELSE doc.state.rev + 1
    BY <1>2, <1>5
  <2> QED
    BY <1>9, <2>1, <2>2, <2>3, SameOperators DEF History!Extend
<1>11. ASSUME e.op = "NONE" PROVE History!RecordEvent(e)
  <2>1. LifecycleStatus(doc.state.lc) = "ACTIVE" /\ e.value = Unmanaged
        /\ (e.class \in NonMutating => e.items = {})
    BY <1>11 DEF Committed, e
  <2>2. doc'.state.lc = doc.state.lc
    BY <1>2, <1>5, <2>1
  <2>3. e.refs \subseteq History!Logged
    BY <1>6, <1>7, <1>8
  <2> QED
    BY <1>10, <1>11, <2>1, <2>2, <2>3, SameOperators DEF History!RecordEvent
<1>12. ASSUME e.op = "INTENT" PROVE History!RecordIntent(e)
  <2>1. ValidIntent(doc.state.lc, update)
    BY <1>6, <1>12 DEF AdvancesLifecycle, Managed, e
  <2>2. e.principal = Subject /\ LifecycleStatus(doc.state.lc) = "ACTIVE" /\ e.value = Unmanaged
    BY <2>1 DEF ValidIntent, SetsLifecycle, e
  <2>3. doc'.state.lc = doc.state.lc
    BY <1>2, <1>5, <2>2
  <2> QED
    BY <1>10, <1>12, <2>2, <2>3, SameOperators DEF History!RecordIntent
<1>13. ASSUME e.op \in OwnerOperations PROVE History!RecordCommand(e)
  <2>1. e.op # "NONE" /\ e.op # "INTENT"
    BY <1>13 DEF OwnerOperations
  <2>2. ValidCommand(doc.state.lc, update) /\ e.expected = update.before
    BY <1>6, <2>1 DEF AdvancesLifecycle, Managed, e
  <2>3. /\ e.value # Unmanaged /\ e.value.owner = e.principal
        /\ Target(doc.state.lc, e.op, e.value.status)
        /\ doc.state.lc # Unmanaged =>
             doc.state.lc.owner = e.principal /\ doc.state.lc.changedAt <= e.value.changedAt
    <3>1. doc.state.lc.changedAt \in Int /\ e.value.changedAt \in Int
      BY <1>1, <1>3 DEF State, Lifecycle, Event, Time
    <3> QED
      BY <2>2, <3>1 DEF ValidCommand, SetsLifecycle, e
  <2>4. doc'.state.lc = e.value
    BY <1>2, <1>5, <2>3
  <2>5. e.expected = doc.state.rev
    BY <2>2 DEF Committed
  <2> QED
    BY <1>10, <1>13, <2>3, <2>4, <2>5, SameOperators DEF History!RecordCommand
<1>14. History!Step(e)
  BY <1>3, <1>11, <1>12, <1>13 DEF Operations, History!Step
<1> QED
  BY <1>7, <1>14 DEF History!HNext, LogOf, old, new

\* Every step of the services maps to one step of the log or to a stutter.
THEOREM DocumentIsAHistory == Spec => RefinesHistory
<1>1. TypeOK /\ Consistent /\ [Next]_vars => [History!HNext]_(History!hvars)
  <2> SUFFICES ASSUME TypeOK, Consistent, [Next]_vars
               PROVE  [History!HNext]_(History!hvars)
    OBVIOUS
  <2>1. CASE doc' = doc
    BY <2>1 DEF History!hvars
  <2>2. CASE Rewritten
    <3>1. doc.updates = <<>> /\ doc.state.rev = 0 /\ doc.state.lc = Unmanaged
      BY <2>2 DEF Rewritten, Consistent, DocumentInv
    <3>2. /\ doc'.updates = <<>> /\ doc'.state.rev = 0 /\ doc'.state.lc = Unmanaged
          /\ doc'.state.items \in SUBSET Items /\ doc'.state.metAt \in Instants
      BY <2>2 DEF Rewritten, State
    <3> QED
      BY <3>1, <3>2, SameOperators DEF History!HNext, History!Rewrite
  <2>3. ASSUME NEW w \in Writers, NEW state \in State, NEW update \in Record,
               Committed(w, state, update)
        PROVE  History!HNext
    BY <2>3, CommitRefines
  <2> QED
    BY <2>1, <2>2, <2>3, DocumentStep
<1> QED
  BY <1>1, InitRefines, Invariant, PTL DEF Spec, RefinesHistory, History!HSpec

=============================================================================
