----------------------------- MODULE Scheduler ------------------------------
(***************************************************************************)
(* SchedulerService over one JSON queue and a notification adapter.  Each  *)
(* call loads the queue, computes the next one and saves it under the      *)
(* revision it loaded.  A tick verifies at most one attempt whose result   *)
(* is unknown, then saves a new attempt as UNKNOWN and only then asks the  *)
(* adapter to deliver it; the answer is applied to the queue as it is by   *)
(* then.  Requests and answers may be lost or late, clients submit and     *)
(* cancel meanwhile, tickers may overlap, and the process may restart.     *)
(*                                                                         *)
(* Every time is kept as an offset from the present, so time is endless    *)
(* and the states are finite; what is older than Horizon counts as Horizon *)
(* old.  A loaded revision is kept as the fact that nobody saved since.    *)
(***************************************************************************)
EXTENDS Integers, FiniteSets

CONSTANTS
  Tasks,        \* task identities
  Clients,      \* threads that submit and cancel
  Tickers,      \* threads that tick
  Priority,     \* SchedulerTask.priority
  DueIn,        \* due_at of a task, from the moment it is created; it may be past by then
  MaxAttempts,  \* SchedulerTask.max_attempts
  Capacity,     \* of the queue
  ScanLimit,    \* resource_scan_limit
  RetryBase,    \* retry_base_seconds
  Aging,        \* aging_interval_seconds
  Unwanted,     \* tasks a client may cancel
  Responsive,   \* tasks of whose attempts the adapter gives a definite answer at last
  Horizon,      \* bound: how far back the model tells times apart
  MaxFaults     \* bound: restarts and failing calls

Workers == Clients \cup Tickers

MostAttempts == CHOOSE n \in {MaxAttempts[t] : t \in Tasks} :
                  \A t \in Tasks : MaxAttempts[t] <= n

Attempts == Tasks \X (0..MostAttempts)

ASSUME SchedulerAssumption ==
  /\ Tasks # {} /\ Clients \cap Tickers = {}
  /\ Priority \in [Tasks -> 0..100] /\ DueIn \in [Tasks -> Int]
  /\ MaxAttempts \in [Tasks -> 1..10]
  /\ Capacity \in Nat \ {0} /\ ScanLimit \in 1..Capacity
  /\ RetryBase \in Nat \ {0} /\ Aging \in Nat \ {0}
  /\ Unwanted \subseteq Tasks /\ Responsive \subseteq Tasks
  /\ Horizon \in Nat /\ MaxFaults \in Nat

VARIABLES
  queue,    \* the stored queue: the tasks by identity
  ledger,   \* what the adapter knows of each attempt
  flight,   \* requests that have not reached the adapter yet
  pc,       \* where each worker is
  attempt,  \* the task and attempt it works on
  began,    \* when its tick read the clock
  reply,    \* the answer it got from the adapter
  draft,    \* the queue it is about to save
  after,    \* where it goes then
  fresh,    \* the workers whose loaded revision is the stored one
  told,     \* the task states its callers were told
  faults    \* failures so far

vars == <<queue, ledger, flight, pc, attempt, began, reply, draft, after, fresh, told, faults>>

-----------------------------------------------------------------------------
(* Tasks and queues.                                                       *)

Terminal == {"COMPLETED", "CANCELLED", "RETRY_EXHAUSTED"}

Waiting == {"QUEUED", "RETRY_WAIT"}

NoTime == 0 - Horizon - 1   \* next_attempt_at = None, earlier than every time

\* A task is created when it is submitted; seq is the order of submission.
FreshTask(t, seq) ==
  [state |-> "QUEUED", attempts |-> 0, next |-> NoTime, cancel |-> FALSE,
   created |-> 0, due |-> DueIn[t], seq |-> seq]

EmptyQueue == [t \in {} |-> FreshTask(t, 0)]

Active(q) == {t \in DOMAIN q : q[t].state \notin Terminal}

Eligible(task) == IF task.due > task.created THEN task.due ELSE task.created

\* Priority grows by one for every interval a task has waited since it was created and due.
EffectivePriority(q, t, now) ==
  Priority[t] + (IF now > Eligible(q[t]) THEN (now - Eligible(q[t])) \div Aging ELSE 0)

Precedes(q, t, u, now) ==
  LET p == EffectivePriority(q, t, now)
      r == EffectivePriority(q, u, now)
  IN  \/ p > r
      \/ p = r /\ q[t].due < q[u].due
      \/ p = r /\ q[t].due = q[u].due /\ q[t].seq < q[u].seq

Ready(q, now) ==
  {t \in DOMAIN q : q[t].state \in Waiting /\ q[t].due <= now /\ q[t].next <= now}

\* The candidates a tick may take: the first ScanLimit of them, those before the
\* one taken having been refused by the resource preview.
Candidates(q, now) ==
  {t \in Ready(q, now) :
     Cardinality({u \in Ready(q, now) : Precedes(q, u, t, now)}) < ScanLimit}

Unverified(q, now) == {t \in DOMAIN q : q[t].state = "UNKNOWN" /\ q[t].next <= now}

\* The attempt to verify first: the one put off longest ago, or else created first.
VerifyKey(q, t) == IF q[t].next = NoTime THEN q[t].created ELSE q[t].next

\* Mutant: the attempt submitted first, whatever was put off.
FirstUnverified(q, now) ==
  {t \in Unverified(q, now) :
    \A u \in Unverified(q, now) \ {t} : q[t].seq < q[u].seq}

OldestUnverified(q, now) ==
  {t \in Unverified(q, now) :
    \A u \in Unverified(q, now) \ {t} :
      \/ VerifyKey(q, t) < VerifyKey(q, u)
      \/ VerifyKey(q, t) = VerifyKey(q, u) /\ q[t].seq < q[u].seq}

\* A new attempt of a task, checkpointed as UNKNOWN before it is dispatched.
Checkpoint(task) ==
  [task EXCEPT !.state = "UNKNOWN", !.attempts = @ + 1, !.next = NoTime]

\* Mutant: a receipt that leaves the result open counts as a failure.
NeverUndecided(status) == FALSE

Undecided(status) == status = "UNKNOWN"

Exhausted(task, limit) == task.attempts >= limit

\* 2 ** (n - 1), for the attempts there may be.
Doubled == <<1, 2, 4, 8, 16, 32, 64, 128, 256, 512>>

\* A task after the receipt of its attempt.
Settled(task, limit, status, now) ==
  CASE status = "DELIVERED" -> [task EXCEPT !.state = "COMPLETED", !.next = NoTime]
    [] Undecided(status) -> [task EXCEPT !.next = now + RetryBase]
    [] OTHER ->
         IF task.cancel THEN [task EXCEPT !.state = "CANCELLED", !.next = NoTime]
         ELSE IF Exhausted(task, limit)
         THEN [task EXCEPT !.state = "RETRY_EXHAUSTED", !.next = NoTime]
         ELSE [task EXCEPT !.state = "RETRY_WAIT",
                           !.next = now + RetryBase * Doubled[task.attempts]]

\* Mutant: a task is cancelled whatever became of its attempt.
CancelledAtOnce(task) == [task EXCEPT !.state = "CANCELLED", !.cancel = TRUE, !.next = NoTime]

\* A task after a cancellation: an attempt already under way is verified first.
Cancelled(task) ==
  IF task.state = "UNKNOWN"
  THEN [task EXCEPT !.cancel = TRUE, !.next = NoTime]
  ELSE [task EXCEPT !.state = "CANCELLED", !.cancel = TRUE, !.next = NoTime]

-----------------------------------------------------------------------------
(* How a call moves on.                                                    *)

NoAttempt == CHOOSE a \in Attempts : a[2] = 0

Init ==
  /\ queue = EmptyQueue
  /\ ledger = [a \in Attempts |-> "none"]
  /\ flight = {}
  /\ pc = [w \in Workers |-> "idle"]
  /\ attempt = [w \in Workers |-> NoAttempt]
  /\ began = [w \in Workers |-> 0]
  /\ reply = [w \in Workers |-> "none"]
  /\ draft = [w \in Workers |-> EmptyQueue]
  /\ after = [w \in Workers |-> "idle"]
  /\ fresh = {}
  /\ told = {}
  /\ faults = 0

Goto(w, next) == pc' = [pc EXCEPT ![w] = next]

\* The call returns or raises.
Return(w) ==
  /\ Goto(w, "idle")
  /\ attempt' = [attempt EXCEPT ![w] = NoAttempt]
  /\ began' = [began EXCEPT ![w] = 0]
  /\ reply' = [reply EXCEPT ![w] = "none"]
  /\ draft' = [draft EXCEPT ![w] = EmptyQueue]
  /\ after' = [after EXCEPT ![w] = "idle"]

\* The tick goes on to select, by the time it read at its beginning.
GoOn(w) ==
  /\ Goto(w, "select")
  /\ attempt' = [attempt EXCEPT ![w] = NoAttempt]
  /\ reply' = [reply EXCEPT ![w] = "none"]
  /\ draft' = [draft EXCEPT ![w] = EmptyQueue]
  /\ after' = [after EXCEPT ![w] = "idle"]
  /\ UNCHANGED began

\* The queue just loaded, with the new record of one task, is about to be saved.
Prepare(w, a, record, next) ==
  /\ Goto(w, "save")
  /\ attempt' = [attempt EXCEPT ![w] = a]
  /\ draft' = [draft EXCEPT ![w] =
       [u \in DOMAIN queue \cup {a[1]} |-> IF u = a[1] THEN record ELSE queue[u]]]
  /\ after' = [after EXCEPT ![w] = next]
  /\ reply' = [reply EXCEPT ![w] = "none"]
  /\ UNCHANGED began
  /\ fresh' = fresh \cup {w}

\* Mutant: the last one to save wins.
MaySaveAlways(w) == TRUE

\* Nobody has saved since the queue was loaded.
MaySave(w) == w \in fresh

\* _save and save_queue: only over the revision that was loaded.  The caller of a
\* call that ends here is told the state of its task: accepted, or how it ended.
Save(w) ==
  LET t == attempt[w][1] IN
  /\ pc[w] = "save" /\ MaySave(w)
  /\ queue' = draft[w]
  /\ fresh' = {}
  /\ \/ after[w] = "idle" /\ Return(w)
     \/ after[w] = "select" /\ GoOn(w)
     \/ /\ after[w] = "dispatch" /\ Goto(w, "dispatch")
        /\ draft' = [draft EXCEPT ![w] = EmptyQueue]
        /\ after' = [after EXCEPT ![w] = "idle"]
        /\ UNCHANGED <<attempt, began, reply>>
  /\ told' = IF after[w] = "idle" /\ draft[w][t].state \in Terminal \cup {"QUEUED"}
             THEN told \cup {<<t, draft[w][t].state>>}
             ELSE told
  /\ UNCHANGED <<ledger, flight, faults>>

\* The save finds another revision and raises.
Conflict(w) ==
  /\ pc[w] = "save" /\ ~MaySave(w)
  /\ Return(w)
  /\ UNCHANGED <<queue, ledger, flight, fresh, told, faults>>

\* A call raises anywhere else: the file system or the resource state fails.
Raise(w) ==
  /\ pc[w] # "idle" /\ faults < MaxFaults
  /\ faults' = faults + 1
  /\ Return(w)
  /\ fresh' = fresh \ {w}
  /\ UNCHANGED <<queue, ledger, flight, told>>

\* The process dies and starts again; requests under way may still arrive.
Restart ==
  /\ faults < MaxFaults
  /\ faults' = faults + 1
  /\ pc' = [w \in Workers |-> "idle"]
  /\ attempt' = [w \in Workers |-> NoAttempt]
  /\ began' = [w \in Workers |-> 0]
  /\ reply' = [w \in Workers |-> "none"]
  /\ draft' = [w \in Workers |-> EmptyQueue]
  /\ after' = [w \in Workers |-> "idle"]
  /\ fresh' = {}
  /\ UNCHANGED <<queue, ledger, flight, told>>

-----------------------------------------------------------------------------
(* submit and cancel.  Their other answers (duplicate, backpressure,       *)
(* already final, verification already required) change nothing.           *)

\* Mutant: a task whose attempt is under way takes no room.
HasRoomForWaiting(q) == Cardinality({t \in DOMAIN q : q[t].state \in Waiting}) < Capacity

HasRoom(q) == Cardinality(Active(q)) < Capacity

Submit(w, t) ==
  /\ pc[w] = "idle"
  /\ t \notin DOMAIN queue
  /\ HasRoom(queue)
  /\ Prepare(w, <<t, 0>>, FreshTask(t, Cardinality(DOMAIN queue) + 1), "idle")
  /\ UNCHANGED <<queue, ledger, flight, told, faults>>

Cancel(w, t) ==
  /\ pc[w] = "idle"
  /\ t \in Unwanted \cap Active(queue)
  /\ queue[t].state = "UNKNOWN" => ~queue[t].cancel
  /\ Prepare(w, <<t, queue[t].attempts>>, Cancelled(queue[t]), "idle")
  /\ UNCHANGED <<queue, ledger, flight, told, faults>>

-----------------------------------------------------------------------------
(* tick: verify, then select and dispatch.                                 *)

BeginVerify(w) ==
  /\ pc[w] = "idle" /\ Goto(w, "query")
  /\ \E t \in OldestUnverified(queue, 0) :
       attempt' = [attempt EXCEPT ![w] = <<t, queue[t].attempts>>]
  /\ UNCHANGED <<queue, ledger, flight, began, reply, draft, after, fresh, told, faults>>

\* A tick with nothing to verify selects from the queue it loaded; otherwise it
\* loads the queue again and still uses the time it read first.
Select(w) ==
  /\ pc[w] = "select" \/ (pc[w] = "idle" /\ Unverified(queue, 0) = {})
  /\ \E t \in Candidates(queue, began[w]) :
       Prepare(w, <<t, queue[t].attempts + 1>>, Checkpoint(queue[t]), "dispatch")
  /\ UNCHANGED <<queue, ledger, flight, told, faults>>

\* No task is due, or the lifecycle, the quiet hours or the resources defer it.
Defer(w) ==
  /\ pc[w] = "select"
  /\ Return(w)
  /\ UNCHANGED <<queue, ledger, flight, fresh, told, faults>>

Dispatch(w) ==
  /\ pc[w] = "dispatch" /\ Goto(w, "await")
  /\ flight' = flight \cup {attempt[w]}
  /\ UNCHANGED <<queue, ledger, attempt, began, reply, draft, after, fresh, told, faults>>

\* The adapter raised, or its receipt is not bound to this attempt: the attempt
\* stays unknown.
NoReceipt(w) ==
  /\ pc[w] = "await"
  /\ Return(w)
  /\ UNCHANGED <<queue, ledger, flight, fresh, told, faults>>

Receipt(w) ==
  /\ pc[w] = "await" /\ Goto(w, "received")
  /\ attempt[w] \notin flight /\ ledger[attempt[w]] # "none"
  /\ reply' = [reply EXCEPT ![w] = ledger[attempt[w]]]
  /\ UNCHANGED <<queue, ledger, flight, attempt, began, draft, after, fresh, told, faults>>

\* After a verification that settled nothing the tick goes on to select.
AfterVerify(w) == IF pc[w] = "answered" THEN "select" ELSE "idle"

\* _apply_receipt, on the queue as it is by now.
Apply(w) ==
  LET t == attempt[w][1] IN
  /\ pc[w] \in {"answered", "received"} /\ reply[w] # "error"
  /\ queue[t].state = "UNKNOWN" /\ queue[t].attempts = attempt[w][2]
  /\ Prepare(w, attempt[w], Settled(queue[t], MaxAttempts[t], reply[w], began[w]),
             IF reply[w] = "UNKNOWN" THEN AfterVerify(w) ELSE "idle")
  /\ UNCHANGED <<queue, ledger, flight, told, faults>>

\* The receipt is of another attempt than the pending one.
Mismatch(w) ==
  LET t == attempt[w][1] IN
  /\ pc[w] \in {"answered", "received"} /\ reply[w] # "error"
  /\ queue[t].state = "UNKNOWN" /\ queue[t].attempts # attempt[w][2]
  /\ IF pc[w] = "answered"
     THEN GoOn(w)
     ELSE Return(w)
  /\ UNCHANGED <<queue, ledger, flight, fresh, told, faults>>

\* Nothing is pending any more: the call raises.
NotPending(w) ==
  /\ pc[w] \in {"answered", "received"} /\ reply[w] # "error"
  /\ queue[attempt[w][1]].state # "UNKNOWN"
  /\ Return(w)
  /\ UNCHANGED <<queue, ledger, flight, fresh, told, faults>>

\* A failed query puts off whatever attempt of the task is pending by now.
PutOff(w) ==
  LET t == attempt[w][1] IN
  /\ pc[w] = "answered" /\ reply[w] = "error"
  /\ IF queue[t].state = "UNKNOWN"
     THEN Prepare(w, attempt[w], [queue[t] EXCEPT !.next = began[w] + RetryBase], "select")
     ELSE GoOn(w) /\ UNCHANGED fresh
  /\ UNCHANGED <<queue, ledger, flight, told, faults>>

-----------------------------------------------------------------------------
(* The notification adapter: the receipts of attempts are final, except    *)
(* UNKNOWN; an attempt known not to be delivered is never delivered later. *)

Arrive(a) ==
  /\ a \in flight
  /\ flight' = flight \ {a}
  /\ \/ /\ ledger[a] = "none"
        /\ \E s \in {"DELIVERED", "FAILED", "NOT_DELIVERED", "UNKNOWN"} :
             ledger' = [ledger EXCEPT ![a] = s]
     \/ /\ ledger[a] # "none"
        /\ UNCHANGED ledger
  /\ UNCHANGED <<queue, pc, attempt, began, reply, draft, after, fresh, told, faults>>

Lose(a) ==
  /\ a \in flight
  /\ flight' = flight \ {a}
  /\ UNCHANGED <<queue, ledger, pc, attempt, began, reply, draft, after, fresh, told, faults>>

Answers(w, s) ==
  /\ Goto(w, "answered")
  /\ reply' = [reply EXCEPT ![w] = s]
  /\ UNCHANGED <<queue, flight, attempt, began, draft, after, fresh, told, faults>>

\* query answers with what is known of the attempt, or settles it now.
Answer(w) ==
  LET a == attempt[w] IN
  /\ pc[w] = "query"
  /\ \E s \in {"DELIVERED", "FAILED", "NOT_DELIVERED"} :
       /\ \/ ledger[a] = s
          \/ ledger[a] \in {"none", "UNKNOWN"} /\ s = "NOT_DELIVERED"
          \/ ledger[a] = "UNKNOWN" /\ s = "DELIVERED"
       /\ ledger' = [ledger EXCEPT ![a] = s]
       /\ Answers(w, s)

\* The adapter cannot tell, or the query fails, or the receipt is bound elsewhere.
NoAnswer(w) ==
  /\ pc[w] = "query"
  /\ \/ ledger[attempt[w]] \in {"none", "UNKNOWN"} /\ Answers(w, "UNKNOWN")
     \/ Answers(w, "error")
  /\ UNCHANGED ledger

-----------------------------------------------------------------------------
Older(x) == IF x <= 0 - Horizon THEN x ELSE x - 1

OlderQueue(q) ==
  [t \in DOMAIN q |-> [q[t] EXCEPT !.next = Older(@), !.created = Older(@), !.due = Older(@)]]

\* Which of two overdue attempts waits longer is never forgotten at the horizon.
OrderKept(q) ==
  \A t, u \in Unverified(q, 0) :
    VerifyKey(q, t) < VerifyKey(q, u) => Older(VerifyKey(q, t)) < Older(VerifyKey(q, u))

\* The clock moves on by one unit.
Elapse ==
  /\ OrderKept(queue) /\ \A w \in Workers : OrderKept(draft[w])
  /\ queue' = OlderQueue(queue)
  /\ draft' = [w \in Workers |-> OlderQueue(draft[w])]
  /\ began' = [w \in Workers |-> IF pc[w] = "idle" THEN 0 ELSE Older(began[w])]
  /\ UNCHANGED <<ledger, flight, pc, attempt, reply, after, fresh, told, faults>>

Ticks(w) ==
  \/ BeginVerify(w) \/ Select(w) \/ Defer(w)
  \/ Dispatch(w) \/ NoReceipt(w) \/ Receipt(w)
  \/ Apply(w) \/ Mismatch(w) \/ NotPending(w) \/ PutOff(w)
  \/ Answer(w) \/ NoAnswer(w)

Next ==
  \/ Restart \/ Elapse
  \/ \E w \in Workers : Save(w) \/ Conflict(w) \/ Raise(w)
  \/ \E w \in Clients, t \in Tasks : Submit(w, t) \/ Cancel(w, t)
  \/ \E w \in Tickers : Ticks(w)
  \/ \E a \in Attempts : Arrive(a) \/ Lose(a)

Spec == Init /\ [][Next]_vars

\* The host ticks for ever and every call ends (PersistentRuntimeService.serve),
\* time passes, the subject, the quiet hours and the resources do not defer for
\* ever, and the adapter at last gives definite answers about responsive tasks.
Fairness ==
  /\ WF_vars(Elapse)
  /\ \A w \in Workers : WF_vars(Save(w) \/ Conflict(w))
  /\ \A w \in Tickers : WF_vars(Ticks(w)) /\ SF_vars(Select(w))
  /\ \A w \in Tickers, t \in Responsive : SF_vars(Answer(w) /\ attempt[w][1] = t)

FairSpec == Spec /\ Fairness

-----------------------------------------------------------------------------
(* Properties.                                                             *)

TaskRecord ==
  [state : Terminal \cup Waiting \cup {"UNKNOWN"}, attempts : Nat, next : Int,
   cancel : BOOLEAN, created : Int, due : Int, seq : Nat]

PCs == {"idle", "save", "query", "answered", "select", "dispatch", "await", "received"}

Statuses == {"none", "DELIVERED", "FAILED", "NOT_DELIVERED", "UNKNOWN"}

\* The variables keep their types, and a task that was attempted keeps the attempt
\* identity its state requires (SchedulerTask.__post_init__).
TypeOK ==
  /\ DOMAIN queue \subseteq Tasks
  /\ \A t \in DOMAIN queue :
       /\ queue[t] \in TaskRecord
       /\ queue[t].attempts <= MaxAttempts[t]
       /\ queue[t].state \in {"UNKNOWN", "RETRY_WAIT", "COMPLETED"} => queue[t].attempts > 0
  /\ ledger \in [Attempts -> Statuses]
  /\ flight \subseteq Attempts
  /\ pc \in [Workers -> PCs]
  /\ attempt \in [Workers -> Attempts]
  /\ began \in [Workers -> Int]
  /\ reply \in [Workers -> Statuses \cup {"error"}]
  /\ DOMAIN draft = Workers /\ \A w \in Workers : DOMAIN draft[w] \subseteq Tasks
  /\ after \in [Workers -> {"idle", "select", "dispatch"}]
  /\ fresh \subseteq Workers
  /\ told \subseteq Tasks \X (Terminal \cup Waiting \cup {"UNKNOWN"})
  /\ faults \in 0..MaxFaults

\* A new attempt begins only when every earlier one is known not to have been
\* delivered, and nothing reaches the adapter that was not checkpointed first:
\* late answers, overlapping ticks and restarts never leave an attempt behind.
NoAttemptLeftOpen ==
  \A t \in DOMAIN queue, n \in 1..MostAttempts :
    /\ n < queue[t].attempts => ledger[<<t, n>>] \in {"FAILED", "NOT_DELIVERED"}
    /\ n > queue[t].attempts => ledger[<<t, n>>] = "none" /\ <<t, n>> \notin flight

\* What a caller was told stays true: an accepted task stays in the queue, and a
\* final state it saw is the final state (two calls that loaded the same revision
\* never both save).
ReportsAreDurable ==
  \A r \in told :
    /\ r[1] \in DOMAIN queue
    /\ r[2] \in Terminal => queue[r[1]].state = r[2]

\* Concurrent submissions never admit more tasks than the queue may hold.
WithinCapacity == Cardinality(Active(queue)) <= Capacity

\* The opportunity of a task is delivered at most once, and its final state says
\* whether it was (dispatch, query, retry, cancel and restart in any order).
Promise ==
  INSTANCE Delivery WITH
    outcome <- [t \in Tasks |-> IF t \notin DOMAIN queue THEN "absent"
                                ELSE IF queue[t].state \in Terminal THEN queue[t].state
                                ELSE "open"],
    times <- [t \in Tasks |-> Cardinality({n \in 1..MostAttempts :
                                             ledger[<<t, n>>] = "DELIVERED"})]

RefinesDelivery == Promise!DSpec

\* Every task of which the adapter gives definite answers ends at last, although
\* the result of another one may stay unknown for ever (verification back-off).
ResponsiveTasksEnd ==
  \A t \in Responsive : t \in DOMAIN queue ~> t \in DOMAIN queue /\ queue[t].state \in Terminal
=============================================================================
