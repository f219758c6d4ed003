--------------------------- MODULE NativeCognition ---------------------------
(***************************************************************************)
(* RuntimeCognition: how a need of the subject becomes one thought.  The   *)
(* host computes the needs and submits them to the scheduler; a task that  *)
(* is dispatched wakes the mind, reserves resources, calls the provider,   *)
(* lets the thought evolve the SubjectState and settles what it used.      *)
(* Seven stores are written on the way, one after the other; whatever a    *)
(* crash leaves is taken up by the query of the same attempt, which must   *)
(* tell a call that was not made from one of which nothing is known.       *)
(* One host runs one call at a time; the owner, the SubjectState and the   *)
(* timeline change at any moment.                                          *)
(* Abstracted: what is thought; the resources, which may refuse anything   *)
(* that they have not given yet; the order of the queue and its times; the *)
(* dispatch of an action, which is that of ActionExecution.                *)
(***************************************************************************)
EXTENDS Integers, FiniteSets

CONSTANTS
  Events,       \* what the subject experienced and is to remember
  MaxRevision,  \* bound: revisions of the SubjectState
  MaxRound,     \* bound: how often a need is assessed again
  MaxAttempts,  \* max_failures
  MaxLost       \* bound: calls that an exception, a pause or a crash breaks off

\* A need is named by the revision it was found in and by how often it was assessed before.
Needs == (0..MaxRevision - 1) \X (0..MaxRound)

ASSUME CognitionAssumption ==
  /\ MaxRevision \in Nat /\ MaxRound \in Nat /\ MaxLost \in Nat
  /\ MaxAttempts \in Nat \ {0}
  /\ Events \cap Needs = {}

Tasks == Needs \cup Events

VARIABLES
  revision,   \* of the SubjectState
  task,       \* the queue of the scheduler
  wake,       \* the WakeSession of each need, and what it saw
  session,    \* its ThinkSession
  evolved,    \* the revision at which its thought evolved the SubjectState
  usage,      \* what was reserved for a task: held, then settled in full or for nothing
  calls,      \* how often the provider was called for it
  aged,       \* needs whose context holds no more although the revision stands
  memory,     \* events that are remembered
  withdrawn,  \* events that are revoked
  run,        \* the call that is under way
  lost

nvars == <<revision, task, wake, session, evolved, usage, calls, aged, memory, withdrawn, run, lost>>

-----------------------------------------------------------------------------
NoTask == [state |-> "none", attempts |-> 0, cancel |-> FALSE]

NotWoken == [status |-> "none", seen |-> 0, thinks |-> FALSE]

NoSession == [phase |-> "none", updates |-> FALSE, noted |-> FALSE]

Idle == [step |-> "idle"]

Terminal == {"COMPLETED", "CANCELLED", "RETRY_EXHAUSTED"}

Never == -1

\* Mutant: what was given up is closed only as long as something is reserved for it.
AbandonedAndHeld(n) == session[n].phase = "abandoned" /\ usage[n] = "held"

\* Mutant: a session that failed is taken for one that was given up before its call.
AbandonedOrFailed(n) == session[n].phase \in {"abandoned", "failed"}

Abandoned(n) == session[n].phase = "abandoned"

\* Mutant: a call that has begun counts as not begun.
NotStartedOrEntered(n) == session[n].phase \in {"prepared", "entered"}

NotStarted(n) == session[n].phase = "prepared"

Completed(n) == session[n].phase \in {"returned", "deferred"}

\* The context a thought was prepared with still holds.
Current(n) == wake[n].seen = revision /\ n \notin aged

Stands(t, step) == run = [step |-> step, task |-> t]

Moves(t, step) == run' = [step |-> step, task |-> t]

\* Nothing is answered; the task stays UNKNOWN and is asked about again.
Raise == run' = Idle

Undelivered(t) ==
  IF task[t].cancel THEN "CANCELLED"
  ELSE IF task[t].attempts >= MaxAttempts THEN "RETRY_EXHAUSTED" ELSE "RETRY_WAIT"

Receipt(t, status) ==
  /\ task' = [task EXCEPT ![t].state = IF status = "DELIVERED" THEN "COMPLETED" ELSE Undelivered(t)]
  /\ run' = Idle

Phase(n, phase) == session' = [session EXCEPT ![n].phase = phase]

\* All that happened is consolidated at once.
Consolidate == memory' = memory \cup (Events \ withdrawn)

-----------------------------------------------------------------------------
(* Needs, and the scheduler that holds them.                               *)

\* Closed on the evidence that nothing was executed: then, and only then, it is assessed again.
Closed(n) == task[n].state = "CANCELLED" /\ Abandoned(n)

Need(n) ==
  /\ run = Idle /\ n[1] = revision /\ task[n] = NoTask
  /\ \A k \in 0..n[2] - 1 : Closed(<<n[1], k>>)
  /\ Moves(n, "submit")
  /\ UNCHANGED <<revision, task, wake, session, evolved, usage, calls, aged, memory, withdrawn, lost>>

\* An event that is not yet remembered.
Missing(e) ==
  /\ run = Idle /\ e \notin memory \cup withdrawn /\ task[e] = NoTask
  /\ Moves(e, "submit")
  /\ UNCHANGED <<revision, task, wake, session, evolved, usage, calls, aged, memory, withdrawn, lost>>

Submit(t) ==
  /\ Stands(t, "submit")
  /\ task' = [task EXCEPT ![t].state = "QUEUED"]
  /\ run' = Idle
  /\ UNCHANGED <<revision, wake, session, evolved, usage, calls, aged, memory, withdrawn, lost>>

\* The attempt is checkpointed as UNKNOWN before it is dispatched.
BeginDispatch(t) ==
  /\ run = Idle /\ task[t].state \in {"QUEUED", "RETRY_WAIT"}
  /\ task' = [task EXCEPT ![t].state = "UNKNOWN", ![t].attempts = @ + 1]
  /\ Moves(t, IF t \in Needs THEN "wake" ELSE "remember")
  /\ UNCHANGED <<revision, wake, session, evolved, usage, calls, aged, memory, withdrawn, lost>>

BeginQuery(t) ==
  /\ run = Idle /\ task[t].state = "UNKNOWN"
  /\ Moves(t, IF t \in Needs THEN "query" ELSE "recall")
  /\ UNCHANGED <<revision, task, wake, session, evolved, usage, calls, aged, memory, withdrawn, lost>>

Cancel(t) ==
  /\ task[t].state \in {"QUEUED", "RETRY_WAIT", "UNKNOWN"} /\ ~ task[t].cancel
  /\ task' = [task EXCEPT ![t].cancel = TRUE,
                          ![t].state = IF @ = "UNKNOWN" THEN @ ELSE "CANCELLED"]
  /\ UNCHANGED <<revision, wake, session, evolved, usage, calls, aged, memory, withdrawn, run, lost>>

-----------------------------------------------------------------------------
(* From the wake to the thought.                                           *)

\* A wake that is saved is not repeated; one that is not yet saved but has its resources is not
\* given them again.
Wake(n) ==
  /\ Stands(n, "wake")
  /\ \/ /\ wake[n].status \notin {"none", "reserved"}
        /\ Moves(n, "mind") /\ UNCHANGED <<task, wake>>
     \/ /\ wake[n].status \in {"none", "reserved"}
        /\ wake' = [wake EXCEPT ![n].status = "reserved"]
        /\ Moves(n, "waking") /\ UNCHANGED task
     \/ /\ wake[n].status = "none"
        /\ Receipt(n, "NOT_DELIVERED") /\ UNCHANGED wake
  /\ UNCHANGED <<revision, session, evolved, usage, calls, aged, memory, withdrawn, lost>>

StartWake(n) ==
  /\ Stands(n, "waking")
  /\ wake' = [wake EXCEPT ![n].status = "running"]
  /\ Moves(n, "awake")
  /\ UNCHANGED <<revision, task, session, evolved, usage, calls, aged, memory, withdrawn, lost>>

FinishWake(n) ==
  /\ Stands(n, "awake")
  /\ \/ /\ \E thinks \in BOOLEAN :
             wake' = [wake EXCEPT ![n] = [status |-> "done", seen |-> revision, thinks |-> thinks]]
        /\ Moves(n, "mind")
     \/ /\ wake' = [wake EXCEPT ![n].status = "failed"]
        /\ Raise
  /\ UNCHANGED <<revision, task, session, evolved, usage, calls, aged, memory, withdrawn, lost>>

\* Where the mind stands: it rests, or prepares what it will think about, or takes up a session
\* that was prepared or has its result.  Whatever else is left of it cannot be taken up.
Mind(n) ==
  /\ Stands(n, "mind")
  /\ \/ /\ wake[n].status = "done" /\ session[n] = NoSession /\ ~ wake[n].thinks
        /\ Moves(n, "receipt") /\ UNCHANGED <<aged, memory>>
     \/ /\ wake[n].status = "done" /\ session[n] = NoSession /\ wake[n].thinks
        /\ Consolidate
        /\ aged' = aged \ {n}
        /\ IF wake[n].seen = revision THEN Moves(n, "allocate") ELSE Raise
     \/ /\ NotStarted(n)
        /\ IF Current(n) THEN Moves(n, "allocate") ELSE Raise
        /\ UNCHANGED <<aged, memory>>
     \/ /\ Completed(n)
        /\ Moves(n, "thought") /\ UNCHANGED <<aged, memory>>
     \/ /\ wake[n].status # "done" \/ session[n].phase \notin {"none", "prepared", "returned", "deferred"}
        /\ Raise /\ UNCHANGED <<aged, memory>>
  /\ UNCHANGED <<revision, task, wake, session, evolved, usage, calls, withdrawn, lost>>

\* A reservation that was made is used; without one the session is deferred, or fails.
Allocate(n) ==
  /\ Stands(n, "allocate")
  /\ \/ /\ session[n] = NoSession
        /\ usage' = [usage EXCEPT ![n] = "held"]
        /\ Moves(n, "save") /\ UNCHANGED session
     \/ /\ NotStarted(n) /\ usage[n] = "held"
        /\ Moves(n, "provide") /\ UNCHANGED <<session, usage>>
     \/ /\ session[n] = NoSession /\ usage[n] = "none"
        /\ Phase(n, "opened")
        /\ Moves(n, "refused") /\ UNCHANGED usage
  /\ UNCHANGED <<revision, task, wake, evolved, calls, aged, memory, withdrawn, lost>>

\* The session without a budget is closed: deferred by the policy, or failed by an error.
Refused(n) ==
  /\ Stands(n, "refused")
  /\ \/ Phase(n, "deferred") /\ Moves(n, "thought")
     \/ Phase(n, "failed") /\ Raise
  /\ UNCHANGED <<revision, task, wake, evolved, usage, calls, aged, memory, withdrawn, lost>>

SavePrepared(n) ==
  /\ Stands(n, "save")
  /\ Phase(n, "prepared") /\ Moves(n, "provide")
  /\ UNCHANGED <<revision, task, wake, evolved, usage, calls, aged, memory, withdrawn, lost>>

\* The last look before the call: what no longer holds is given up.
Provide(n) ==
  /\ Stands(n, "provide")
  /\ \/ Current(n) /\ Moves(n, "enter") /\ UNCHANGED session
     \/ Phase(n, "abandoned") /\ Raise
  /\ UNCHANGED <<revision, task, wake, evolved, usage, calls, aged, memory, withdrawn, lost>>

\* That the call begins is saved before it does.
Enter(n) ==
  /\ Stands(n, "enter")
  /\ \/ Phase(n, "entered") /\ Moves(n, "call")
     \/ Phase(n, "failed") /\ Raise
  /\ UNCHANGED <<revision, task, wake, evolved, usage, calls, aged, memory, withdrawn, lost>>

Call(n) ==
  /\ Stands(n, "call")
  /\ calls' = [calls EXCEPT ![n] = @ + 1]
  /\ Moves(n, "answered")
  /\ UNCHANGED <<revision, task, wake, session, evolved, usage, aged, memory, withdrawn, lost>>

\* The provider answers, or nothing usable comes of the call.  A thought may want to evolve the
\* SubjectState.
Answer(n) ==
  /\ Stands(n, "answered")
  /\ \/ /\ \E updates \in IF wake[n].seen < MaxRevision THEN BOOLEAN ELSE {FALSE} :
             session' = [session EXCEPT ![n] = [phase |-> "returned", updates |-> updates, noted |-> FALSE]]
        /\ Moves(n, "thought")
     \/ Phase(n, "failed") /\ Raise
  /\ UNCHANGED <<revision, task, wake, evolved, usage, calls, aged, memory, withdrawn, lost>>

-----------------------------------------------------------------------------
(* From the thought to the receipt.                                        *)

\* A thought that evolved the SubjectState is only noted; any other must still be current.
Thought(n) ==
  /\ Stands(n, "thought")
  /\ \/ evolved[n] # Never /\ Moves(n, IF session[n].noted THEN "settle" ELSE "note")
     \/ evolved[n] = Never /\ Current(n) /\ Moves(n, "act")
     \/ evolved[n] = Never /\ ~ Current(n) /\ Raise
  /\ UNCHANGED <<revision, task, wake, session, evolved, usage, calls, aged, memory, withdrawn, lost>>

\* The action is decided and dispatched, then the context is looked at once more.
Act(n) ==
  /\ Stands(n, "act")
  /\ \/ Current(n) /\ Moves(n, IF session[n].updates THEN "evolve" ELSE "settle")
     \/ ~ Current(n) /\ Raise
  /\ UNCHANGED <<revision, task, wake, session, evolved, usage, calls, aged, memory, withdrawn, lost>>

\* Mutant: the SubjectState is evolved at whatever revision it has.
AtAnyRevision(n) == wake[n].seen <= revision

\* apply_event insists on the revision that the thought saw.
AtRevisionSeen(n) == wake[n].seen = revision

Evolve(n) ==
  /\ Stands(n, "evolve")
  /\ IF AtRevisionSeen(n)
       THEN /\ evolved' = [evolved EXCEPT ![n] = revision]
            /\ revision' = revision + 1
            /\ Moves(n, "note")
       ELSE Raise /\ UNCHANGED <<evolved, revision>>
  /\ UNCHANGED <<task, wake, session, usage, calls, aged, memory, withdrawn, lost>>

Note(n) ==
  /\ Stands(n, "note")
  /\ session' = [session EXCEPT ![n].noted = TRUE]
  /\ Moves(n, "settle")
  /\ UNCHANGED <<revision, task, wake, evolved, usage, calls, aged, memory, withdrawn, lost>>

\* What was reserved counts as used.
Settle(n) ==
  /\ Stands(n, "settle")
  /\ usage' = [usage EXCEPT ![n] = IF @ = "held" THEN "full" ELSE @]
  /\ Moves(n, "receipt")
  /\ UNCHANGED <<revision, task, wake, session, evolved, calls, aged, memory, withdrawn, lost>>

Deliver(n) ==
  /\ Stands(n, "receipt")
  /\ Receipt(n, "DELIVERED")
  /\ UNCHANGED <<revision, wake, session, evolved, usage, calls, aged, memory, withdrawn, lost>>

-----------------------------------------------------------------------------
(* What became of an attempt.                                              *)

\* Without a session nothing was called.  What was given up is closed; what was prepared is given
\* up or continued; a result is carried to its end, but not for a task to be cancelled.  Of a call
\* that began, or of a session that does not say, nothing is known.
Query(n) ==
  /\ Stands(n, "query")
  /\ \/ /\ session[n] = NoSession
        /\ Receipt(n, "NOT_DELIVERED") /\ UNCHANGED session
     \/ /\ Abandoned(n)
        /\ Moves(n, "close") /\ UNCHANGED <<task, session>>
     \/ /\ NotStarted(n) /\ task[n].cancel
        /\ Receipt(n, "NOT_DELIVERED") /\ UNCHANGED session
     \/ /\ NotStarted(n) /\ ~ task[n].cancel
        /\ IF Current(n) THEN Moves(n, "mind") /\ UNCHANGED session
                         ELSE Phase(n, "abandoned") /\ Moves(n, "close")
        /\ UNCHANGED task
     \/ /\ Completed(n) /\ (task[n].cancel => session[n].noted)
        /\ Moves(n, "mind") /\ UNCHANGED <<task, session>>
     \/ /\ ~ (session[n] = NoSession \/ Abandoned(n) \/ NotStarted(n))
        /\ ~ (Completed(n) /\ (task[n].cancel => session[n].noted))
        /\ Raise /\ UNCHANGED <<task, session>>
  /\ UNCHANGED <<revision, wake, evolved, usage, calls, aged, memory, withdrawn, lost>>

\* What was reserved for a call that was never made is charged with nothing.
Close(n) ==
  /\ Stands(n, "close")
  /\ usage[n] \in {"held", "nothing"}
  /\ usage' = [usage EXCEPT ![n] = "nothing"]
  /\ Moves(n, "cancel")
  /\ UNCHANGED <<revision, task, wake, session, evolved, calls, aged, memory, withdrawn, lost>>

CloseTask(n) ==
  /\ Stands(n, "cancel")
  /\ task' = [task EXCEPT ![n].cancel = TRUE]
  /\ Moves(n, "closed")
  /\ UNCHANGED <<revision, wake, session, evolved, usage, calls, aged, memory, withdrawn, lost>>

Closing(n) ==
  /\ Stands(n, "closed")
  /\ Receipt(n, "NOT_DELIVERED")
  /\ UNCHANGED <<revision, wake, session, evolved, usage, calls, aged, memory, withdrawn, lost>>

-----------------------------------------------------------------------------
(* Maintenance: an event is consolidated into memory.                      *)

Remember(e) ==
  /\ Stands(e, "remember")
  /\ \/ e \in memory /\ Receipt(e, "DELIVERED") /\ UNCHANGED usage
     \/ e \notin memory /\ e \in withdrawn /\ Raise /\ UNCHANGED <<task, usage>>
     \/ /\ e \notin memory \cup withdrawn
        /\ usage' = [usage EXCEPT ![e] = "held"]
        /\ Moves(e, "write") /\ UNCHANGED task
     \/ /\ e \notin memory \cup withdrawn /\ usage[e] = "none"
        /\ Receipt(e, "NOT_DELIVERED") /\ UNCHANGED usage
  /\ UNCHANGED <<revision, wake, session, evolved, calls, aged, memory, withdrawn, lost>>

Write(e) ==
  /\ Stands(e, "write")
  /\ Consolidate /\ Moves(e, "recall")
  /\ UNCHANGED <<revision, task, wake, session, evolved, usage, calls, aged, withdrawn, lost>>

\* Only the memory itself proves that it was written.
Remembered(e) == e \in memory

Recall(e) ==
  /\ Stands(e, "recall")
  /\ Receipt(e, IF Remembered(e) THEN "DELIVERED" ELSE "NOT_DELIVERED")
  /\ UNCHANGED <<revision, wake, session, evolved, usage, calls, aged, memory, withdrawn, lost>>

-----------------------------------------------------------------------------
(* Elsewhere.                                                              *)

\* Another event evolves the SubjectState.
Change ==
  /\ revision < MaxRevision
  /\ revision' = revision + 1
  /\ UNCHANGED <<task, wake, session, evolved, usage, calls, aged, memory, withdrawn, run, lost>>

\* A context expires, or one of its sources is changed or may no longer be read.
Age(n) ==
  /\ wake[n].status = "done" /\ n \notin aged /\ task[n].state \notin Terminal
  /\ aged' = aged \cup {n}
  /\ UNCHANGED <<revision, task, wake, session, evolved, usage, calls, memory, withdrawn, run, lost>>

Withdraw(e) ==
  /\ e \notin withdrawn
  /\ withdrawn' = withdrawn \cup {e}
  /\ UNCHANGED <<revision, task, wake, session, evolved, usage, calls, aged, memory, run, lost>>

\* An exception, a pause of the runtime or the death of the process ends the call.
Lose ==
  /\ run # Idle /\ lost < MaxLost
  /\ run' = Idle /\ lost' = lost + 1
  /\ UNCHANGED <<revision, task, wake, session, evolved, usage, calls, aged, memory, withdrawn>>

NInit ==
  /\ revision = 0 /\ lost = 0
  /\ task = [t \in Tasks |-> NoTask]
  /\ wake = [n \in Needs |-> NotWoken]
  /\ session = [n \in Needs |-> NoSession]
  /\ evolved = [n \in Needs |-> Never]
  /\ usage = [t \in Tasks |-> "none"]
  /\ calls = [n \in Needs |-> 0]
  /\ aged = {} /\ memory = {} /\ withdrawn = {}
  /\ run = Idle

Think(n) ==
  \/ Wake(n) \/ StartWake(n) \/ FinishWake(n) \/ Mind(n) \/ Allocate(n) \/ Refused(n)
  \/ SavePrepared(n) \/ Provide(n) \/ Enter(n) \/ Call(n) \/ Answer(n)
  \/ Thought(n) \/ Act(n) \/ Evolve(n) \/ Note(n) \/ Settle(n) \/ Deliver(n)
  \/ Query(n) \/ Close(n) \/ CloseTask(n) \/ Closing(n)

Maintain(e) == Remember(e) \/ Write(e) \/ Recall(e)

Step ==
  \/ \E t \in Tasks : Submit(t)
  \/ \E n \in Needs : Think(n)
  \/ \E e \in Events : Maintain(e)

NNext ==
  \/ Step
  \/ \E n \in Needs : Need(n) \/ Age(n)
  \/ \E e \in Events : Missing(e) \/ Withdraw(e)
  \/ \E t \in Tasks : BeginDispatch(t) \/ BeginQuery(t) \/ Cancel(t)
  \/ Change \/ Lose

NSpec == NInit /\ [][NNext]_nvars

\* Every call comes to its end, and the scheduler gets round to every task
\* (ResponsiveTasksEnd of Scheduler).
Works(t) == Submit(t) \/ BeginDispatch(t) \/ BeginQuery(t) \/ (t \in Needs /\ Think(t))
            \/ (t \in Events /\ Maintain(t))

NFairness == \A t \in Tasks : SF_nvars(Works(t))

-----------------------------------------------------------------------------
(* Properties.                                                             *)

\* A need is thought about once: over all the rounds in which it was assessed again, through every
\* crash between what is saved before the call and what is saved after it, the provider is called
\* for it at most once (provider_not_started, needs).
OneThoughtPerNeed ==
  /\ \A n \in Needs : calls[n] <= 1
  /\ \A n, k \in Needs : n[1] = k[1] /\ n # k => calls[n] = 0 \/ calls[k] = 0

\* What a reservation was settled for is what happened: in full only if the provider was called,
\* for nothing only if it was not and never will be (_settle_unexecuted, _continue).
UsageIsTrue ==
  \A n \in Needs : (usage[n] = "full" => calls[n] = 1) /\ (usage[n] = "nothing" => calls[n] = 0)

\* A task that ended says what was done.  COMPLETED: the event is remembered, or the mind rested,
\* or its thought has a result whose evolution was made at the revision it saw and is noted, and
\* whose usage is settled.  CANCELLED or RETRY_EXHAUSTED: the provider was not called and the
\* SubjectState did not evolve (dispatch and query in any order, late cancellations, crashes).
EndsAreTrue ==
  /\ \A e \in Events : task[e].state = "COMPLETED" => e \in memory
  /\ \A n \in Needs :
       /\ task[n].state = "COMPLETED" =>
            \/ wake[n].status = "done" /\ ~ wake[n].thinks /\ session[n] = NoSession
            \/ Completed(n) /\ usage[n] # "held" /\ (evolved[n] # Never => session[n].noted)
       /\ task[n].state \in {"CANCELLED", "RETRY_EXHAUSTED"} => calls[n] = 0 /\ evolved[n] = Never
       /\ evolved[n] # Never => evolved[n] = wake[n].seen /\ session[n].updates

\* A call may have been made, and nothing that is saved says what came of it.
Unknowable(n) == session[n].phase \in {"entered", "failed", "opened"}

\* A result that may no longer be acted upon.
Stranded(n) ==
  Completed(n) /\ ~ session[n].noted /\ (task[n].cancel \/ (evolved[n] = Never /\ ~ Current(n)))

\* Every need that was submitted is decided, whatever is lost on the way, unless the evidence
\* itself leaves it open.
CognitionEnds ==
  \A t \in Tasks :
    task[t].state # "none" ~>
      \/ task[t].state \in Terminal
      \/ t \in Needs /\ (Unknowable(t) \/ Stranded(t))
=============================================================================
