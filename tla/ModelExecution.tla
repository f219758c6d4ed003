--------------------------- MODULE ModelExecution ---------------------------
(***************************************************************************)
(* ModelCapabilityService over JsonModelExecutionRepository: the engine    *)
(* asks for a capability, a provider outside the process executes it, and  *)
(* the result is given back to the engine.  A ledger keeps what was        *)
(* dispatched, what the provider answered, which results were prepared and *)
(* which of them were delivered, so that a call that is lost between any   *)
(* two writes can be taken up by a later one.                              *)
(* Calls follow one another (the ledger has no lock), and the record that  *)
(* a call holds in memory is therefore the one in the ledger.  Of a        *)
(* provider's statuses one stands for each class the service tells apart:  *)
(* UNKNOWN for TIMEOUT too, RETRYABLE for NETWORK_FAILED and               *)
(* FAILED_RETRYABLE, TERMINAL for the others.                              *)
(***************************************************************************)
EXTENDS Integers, Sequences, Functions

CONSTANTS
  Requests,             \* capability requests, one of each operation
  Costs,                \* tokens a successful execution may use
  PerLimit, DailyLimit, \* of the profile
  Retried,              \* bound: requests a retry is asked for
  MaxAttempts,          \* bound: attempts of one request
  MaxDay,               \* bound: the last day
  MaxLosses             \* bound: calls that are lost

ASSUME ModelAssumption ==
  /\ Costs \subseteq Nat \ {0}
  /\ PerLimit \in Nat \ {0} /\ DailyLimit \in Nat /\ PerLimit <= DailyLimit
  /\ MaxAttempts \in Nat \ {0} /\ MaxDay \in Nat /\ MaxLosses \in Nat

VARIABLES
  record,    \* the executions of the ledger
  usage,     \* the usage entries of the ledger
  engine,    \* the operation and the accepted results of each request
  provider,  \* what became of each attempt outside the process
  call,      \* what is being done for each request
  today,
  losses     \* calls lost so far

vars == <<record, usage, engine, provider, call, today, losses>>

-----------------------------------------------------------------------------
(* The records.                                                            *)

Attempts == 1..MaxAttempts

NoFact == [kind |-> "NONE", tokens |-> 0, day |-> 0]

\* The provider has the attempt, and cannot say what becomes of it.
Unknown == [kind |-> "UNKNOWN", tokens |-> 0, day |-> 0]

\* A query proved that the provider never executed the attempt.
NotExecuted == [kind |-> "NOT_EXECUTED", tokens |-> 0, day |-> 0]

Failure(kind) == [kind |-> kind, tokens |-> 0, day |-> 0]

\* What an execution that ends on a day can end with.
Outcomes(day) ==
  {[kind |-> "SUCCEEDED", tokens |-> cost, day |-> day] : cost \in Costs}
    \cup {Failure("RETRYABLE"), Failure("TERMINAL")}

Conclusive == UNION {Outcomes(day) : day \in 0..MaxDay}

DispatchAttempts ==
  [maximum : 0..PerLimit, fact : Conclusive \cup {NoFact, Unknown},
   resolution : Conclusive \cup {NoFact, NotExecuted}, rejected : BOOLEAN]

Results == [attempt : Attempts, status : {"SUCCEEDED", "RETRYABLE", "UNKNOWN", "TERMINAL"}]

Records ==
  [reserved : BOOLEAN, attempts : Seq(DispatchAttempts), results : Seq(Results),
   delivered : SUBSET Nat, completed : BOOLEAN]

NoUsage == [attempt |-> 0, tokens |-> 0, day |-> 0]

Usages == [attempt : 0..MaxAttempts, tokens : Nat, day : 0..MaxDay]

Rest == [pc |-> "idle", explicit |-> FALSE, fact |-> NoFact, place |-> 0]

-----------------------------------------------------------------------------
(* What the ledger says of the last attempt.                               *)

Dispatched(r) == Len(record[r].attempts)

Attempt(r) == record[r].attempts[Dispatched(r)]

Effective(t) == IF t.resolution \in {NoFact, NotExecuted} THEN t.fact ELSE t.resolution

ProvenNotExecuted(t) == t.resolution = NotExecuted

Ambiguous(t) == t.fact = Unknown /\ t.resolution = NoFact

\* A success beyond the limits is a result that must not be retried.
Classified(t) == IF t.rejected THEN "TERMINAL" ELSE Effective(t).kind

Result(r) == [attempt |-> Dispatched(r), status |-> Classified(Attempt(r))]

HasResult(r) == Result(r) \in Range(record[r].results)

Undelivered(r) == {k \in 1..Len(record[r].results) : k \notin record[r].delivered}

DailyTokens(day) ==
  SumFunction([r \in Requests |-> IF usage[r].day = day THEN usage[r].tokens ELSE 0])

Remaining(day) == IF DailyTokens(day) < DailyLimit THEN DailyLimit - DailyTokens(day) ELSE 0

Least(m, n) == IF m <= n THEN m ELSE n

Exceeds(t, fact) ==
  fact.tokens > t.maximum \/ DailyTokens(fact.day) + fact.tokens > DailyLimit

\* Mutant: an attempt the provider knows nothing certain of is retried.
MayRetryUnknown(t) == ProvenNotExecuted(t) \/ Effective(t).kind \in {"RETRYABLE", "UNKNOWN"}

MayRetry(t) == ProvenNotExecuted(t) \/ Effective(t).kind = "RETRYABLE"

-----------------------------------------------------------------------------
(* The engine.                                                             *)

Accepted(r) == Range(engine[r].accepted)

Succeeded(r) == \E a \in Attempts : [attempt |-> a, status |-> "SUCCEEDED"] \in Accepted(r)

Failed(r) == \E a \in Attempts : [attempt |-> a, status |-> "TERMINAL"] \in Accepted(r)

\* The operation waits for the capability.
Requires(r) == ~Succeeded(r) /\ ~Failed(r)

-----------------------------------------------------------------------------
Init ==
  /\ record = [r \in Requests |-> [reserved |-> FALSE, attempts |-> <<>>, results |-> <<>>,
                                   delivered |-> {}, completed |-> FALSE]]
  /\ usage = [r \in Requests |-> NoUsage]
  /\ engine = [r \in Requests |-> [known |-> FALSE, accepted |-> <<>>, done |-> FALSE]]
  /\ provider = [r \in Requests |-> [a \in Attempts |-> NoFact]]
  /\ call = [r \in Requests |-> Rest]
  /\ today = 0
  /\ losses = 0

Free == \A r \in Requests : call[r] = Rest

At(r, pc) == call[r].pc = pc

Goes(r, pc) == call' = [call EXCEPT ![r].pc = pc]

Ends(r) == call' = [call EXCEPT ![r] = Rest]

\* replace(record, attempts=(*record.attempts[:-1], attempt)).
Revises(r, attempt) == record' = [record EXCEPT ![r].attempts[Dispatched(r)] = attempt]

world == <<provider, today, losses>>

\* Mutant: an accepted result is not taken up by a repeated request.
SubmitForgetful(r) ==
  /\ Free
  /\ \/ Requires(r) /\ engine' = [engine EXCEPT ![r].known = TRUE] /\ Goes(r, "driving")
     \/ engine[r].done /\ ~record[r].completed /\ UNCHANGED engine /\ Goes(r, "completing")
  /\ UNCHANGED <<record, usage, world>>

\* The engine reserves the operation, asks for the capability, goes on from a result it had
\* accepted, or answers as before.
Submit(r) ==
  /\ Free
  /\ \/ Requires(r) /\ engine' = [engine EXCEPT ![r].known = TRUE] /\ Goes(r, "driving")
     \/ Succeeded(r) /\ ~engine[r].done /\ engine' = [engine EXCEPT ![r].done = TRUE]
        /\ Goes(r, "completing")
     \/ engine[r].done /\ ~record[r].completed /\ UNCHANGED engine /\ Goes(r, "completing")
  /\ UNCHANGED <<record, usage, world>>

\* The engine is only asked.
Recover(r) ==
  /\ Free /\ engine[r].known
  /\ \/ Requires(r) /\ Goes(r, "driving")
     \/ engine[r].done /\ ~record[r].completed /\ Goes(r, "completing")
  /\ UNCHANGED <<record, usage, engine, world>>

Retry(r) ==
  /\ Free /\ engine[r].known /\ Requires(r)
  /\ r \in Retried /\ record[r].results # <<>>
  /\ record[r].results[Len(record[r].results)].status \in {"UNKNOWN", "RETRYABLE"}
  /\ Dispatched(r) < MaxAttempts
  /\ call' = [call EXCEPT ![r].pc = "driving", ![r].explicit = TRUE]
  /\ UNCHANGED <<record, usage, engine, world>>

\* _mark_completed: the last result is taken to be the one the engine completed with.
MarkCompleted(r) ==
  /\ At(r, "completing")
  /\ record' = [record EXCEPT ![r].completed = TRUE,
                              ![r].delivered = @ \cup ({Len(record[r].results)} \ {0})]
  /\ Ends(r)
  /\ UNCHANGED <<usage, engine, world>>

-----------------------------------------------------------------------------
(* _drive: what is left to do is read from the ledger.                     *)

\* _ensure_record.
Reserve(r) ==
  /\ At(r, "driving") /\ ~record[r].reserved
  /\ record' = [record EXCEPT ![r].reserved = TRUE]
  /\ UNCHANGED <<usage, engine, call, world>>

\* A result that was prepared is delivered before anything else is done.
Redeliver(r) ==
  /\ At(r, "driving")
  /\ \E k \in Undelivered(r) :
       /\ \A j \in Undelivered(r) : k <= j
       /\ call' = [call EXCEPT ![r].pc = "delivering", ![r].place = k]
  /\ UNCHANGED <<record, usage, engine, world>>

\* Mutant: a result whose delivery was lost is left behind.
ReadyAnyway(r) == At(r, "driving") /\ record[r].reserved

Ready(r) == At(r, "driving") /\ record[r].reserved /\ Undelivered(r) = {}

Known(r) == Dispatched(r) > 0 /\ Attempt(r).fact # NoFact

\* A dispatch without an answer: the provider is asked, and executes what it never got.
QueryDispatched(r) ==
  /\ Ready(r)
  /\ Dispatched(r) > 0 /\ Attempt(r).fact = NoFact
  /\ LET truth == provider[r][Dispatched(r)]
     IN  \/ truth = NoFact /\ Goes(r, "executing")
         \/ truth # NoFact /\ call' = [call EXCEPT ![r].pc = "returned", ![r].fact = truth]
         \/ truth = Unknown /\ Ends(r)
  /\ UNCHANGED <<record, usage, engine, world>>

\* An answer that left the attempt open: what a query settles is kept.
QueryAmbiguous(r) ==
  /\ Ready(r)
  /\ Known(r) /\ Ambiguous(Attempt(r)) /\ HasResult(r)
  /\ LET truth == provider[r][Dispatched(r)]
     IN  IF truth = Unknown THEN Ends(r) /\ UNCHANGED record
         ELSE /\ Revises(r, [Attempt(r) EXCEPT !.resolution =
                               IF truth = NoFact THEN NotExecuted ELSE truth])
              /\ UNCHANGED call
  /\ UNCHANGED <<usage, engine, world>>

\* Mutant: what was accounted when the fact was kept is not accounted with the result.
ClassifyUnaccounted(r) ==
  /\ Ready(r)
  /\ Known(r) /\ ~ProvenNotExecuted(Attempt(r)) /\ ~HasResult(r)
  /\ Goes(r, "preparing")
  /\ UNCHANGED <<record, usage, engine, world>>

\* The attempt is answered, and has no result yet.
Classify(r) ==
  /\ Ready(r)
  /\ Known(r) /\ ~ProvenNotExecuted(Attempt(r)) /\ ~HasResult(r)
  /\ Goes(r, "accounting")
  /\ UNCHANGED <<record, usage, engine, world>>

\* The last attempt has its result, or was never executed.
Answered(r) == Known(r) /\ (HasResult(r) \/ ProvenNotExecuted(Attempt(r)))

\* Nothing is left to do unless the host asks for a retry.
Conclude(r) ==
  /\ Ready(r)
  /\ Answered(r) /\ ~Ambiguous(Attempt(r))
  /\ ~(call[r].explicit /\ MayRetry(Attempt(r)))
  /\ Ends(r)
  /\ UNCHANGED <<record, usage, engine, world>>

\* A first attempt, or one more where the last is known not to have been executed.
MayDispatch(r) ==
  /\ Ready(r)
  /\ Dispatched(r) = 0 \/ (Answered(r) /\ call[r].explicit /\ MayRetry(Attempt(r)))
  /\ Dispatched(r) < MaxAttempts

\* A request for more than the limit of one execution is invalid.
Dispatch(r) ==
  /\ MayDispatch(r)
  /\ LET maximum == Least(PerLimit, Remaining(today))
     IN  /\ maximum \in 0..PerLimit
         /\ record' = [record EXCEPT ![r].attempts =
                         Append(@, [maximum |-> maximum, fact |-> NoFact,
                                    resolution |-> NoFact, rejected |-> FALSE])]
  /\ Goes(r, "executing")
  /\ UNCHANGED <<usage, engine, world>>

-----------------------------------------------------------------------------
(* The attempt, and what it leaves in the ledger and in the engine.        *)

\* _execute_with_budget: the provider is not called when the budget is gone.  It may end the
\* attempt or keep it open.
Execute(r) ==
  /\ At(r, "executing")
  /\ LET maximum == Attempt(r).maximum
         answer(fact) == call' = [call EXCEPT ![r].pc = "returned", ![r].fact = fact]
     IN  IF maximum = 0 \/ maximum > Remaining(today)
         THEN answer(Failure("TERMINAL")) /\ UNCHANGED provider
         ELSE \E fact \in Outcomes(today) \cup {Unknown} :
                provider' = [provider EXCEPT ![r][Dispatched(r)] = fact] /\ answer(fact)
  /\ UNCHANGED <<record, usage, engine, today, losses>>

\* authorize_new_computation, before an attempt is kept and again before the provider is
\* called: the subject is not active, or what it perceived does not stand any more.
Refuse(r) ==
  /\ MayDispatch(r) \/ At(r, "executing")
  /\ Ends(r)
  /\ UNCHANGED <<record, usage, engine, world>>

\* At most one attempt of a record has succeeded, or the record is refused.
OneSuccess(attempts) ==
  \A i, j \in 1..Len(attempts) :
    i # j => "SUCCEEDED" \notin {Effective(attempts[i]).kind} \cap {Effective(attempts[j]).kind}

PersistFact(r) ==
  /\ At(r, "returned")
  /\ LET fact == call[r].fact
         exceeds == fact.kind = "SUCCEEDED" /\ Exceeds(Attempt(r), fact)
     IN  Revises(r, [Attempt(r) EXCEPT !.fact = fact, !.rejected = exceeds])
  /\ OneSuccess(record'[r].attempts)
  /\ call' = [call EXCEPT ![r].pc = "accounting", ![r].fact = NoFact]
  /\ UNCHANGED <<usage, engine, world>>

\* save_usage: the entry of a request is never changed.
Account(r) ==
  /\ At(r, "accounting")
  /\ LET fact == Effective(Attempt(r))
         entry == [attempt |-> Dispatched(r), tokens |-> fact.tokens, day |-> fact.day]
     IN  IF fact.kind = "SUCCEEDED"
         THEN usage[r] \in {NoUsage, entry} /\ usage' = [usage EXCEPT ![r] = entry]
         ELSE UNCHANGED usage
  /\ Goes(r, "preparing")
  /\ UNCHANGED <<record, engine, world>>

\* A result is prepared once.
Prepare(r) ==
  /\ At(r, "preparing") /\ ~HasResult(r)
  /\ record' = [record EXCEPT ![r].results = Append(@, Result(r))]
  /\ call' = [call EXCEPT ![r].pc = "delivering", ![r].place = Len(record[r].results) + 1]
  /\ UNCHANGED <<usage, engine, world>>

\* save_capability_result: a result accepted before is the same, and nothing follows a
\* success or a terminal failure.
Deliver(r) ==
  /\ At(r, "delivering")
  /\ LET result == record[r].results[call[r].place]
     IN  /\ \/ result \in Accepted(r) /\ UNCHANGED engine
            \/ result \notin Accepted(r) /\ Requires(r)
               /\ engine' = [engine EXCEPT ![r].accepted = Append(@, result)]
         /\ Goes(r, IF result.status = "SUCCEEDED" /\ ~engine[r].done THEN "finishing"
                    ELSE "checkpointing")
  /\ UNCHANGED <<record, usage, world>>

Finish(r) ==
  /\ At(r, "finishing")
  /\ engine' = [engine EXCEPT ![r].done = TRUE]
  /\ Goes(r, "checkpointing")
  /\ UNCHANGED <<record, usage, world>>

Checkpoint(r) ==
  /\ At(r, "checkpointing")
  /\ record' = [record EXCEPT ![r].delivered = @ \cup {call[r].place},
                              ![r].completed = @ \/ engine[r].done]
  /\ Ends(r)
  /\ UNCHANGED <<usage, engine, world>>

\* The process is lost, or a write or the provider fails: the ledger is what remains.
Lose(r) ==
  /\ call[r] # Rest /\ losses < MaxLosses
  /\ losses' = losses + 1
  /\ Ends(r)
  /\ UNCHANGED <<record, usage, engine, provider, today>>

\* The provider settles an attempt it kept open, and knows thereafter.
Decide(r, a) ==
  /\ provider[r][a] = Unknown
  /\ \E truth \in Outcomes(today) \cup {NoFact} :
       provider' = [provider EXCEPT ![r][a] = truth]
  /\ UNCHANGED <<record, usage, engine, call, today, losses>>

NextDay ==
  /\ today < MaxDay
  /\ today' = today + 1
  /\ UNCHANGED <<record, usage, engine, provider, call, losses>>

\* What a call does once it has begun.
Step(r) ==
  \/ MarkCompleted(r) \/ Reserve(r) \/ Redeliver(r) \/ QueryDispatched(r) \/ QueryAmbiguous(r)
  \/ Classify(r) \/ Conclude(r) \/ Dispatch(r) \/ Execute(r) \/ PersistFact(r) \/ Account(r)
  \/ Prepare(r) \/ Deliver(r) \/ Finish(r) \/ Checkpoint(r)

Next ==
  \/ \E r \in Requests : Submit(r) \/ Recover(r) \/ Retry(r) \/ Step(r) \/ Refuse(r) \/ Lose(r)
  \/ \E r \in Requests, a \in Attempts : Decide(r, a)
  \/ NextDay

Spec == Init /\ [][Next]_vars

\* A call runs to its end, a host sends an unanswered request again, a new computation is not
\* refused for ever, and the provider settles what it holds.
FairSpec ==
  /\ Spec
  /\ \A r \in Requests : WF_vars(Step(r)) /\ SF_vars(Submit(r))
  /\ SF_vars(\E r \in Requests : Dispatch(r) \/ Execute(r))
  /\ \A r \in Requests, a \in Attempts : WF_vars(Decide(r, a))

-----------------------------------------------------------------------------
(* Properties.                                                             *)

\* What is persisted passes the validation of the ledger's records.
TypeOK ==
  /\ record \in [Requests -> Records]
  /\ usage \in [Requests -> Usages]
  /\ engine \in [Requests -> [known : BOOLEAN, accepted : Seq(Results), done : BOOLEAN]]
  /\ provider \in [Requests -> [Attempts -> Conclusive \cup {NoFact, Unknown}]]
  /\ call \in
       [Requests ->
          [pc : {"idle", "completing", "driving", "executing", "returned", "accounting",
                 "preparing", "delivering", "finishing", "checkpointing"},
           explicit : BOOLEAN, fact : Conclusive \cup {NoFact, Unknown}, place : Nat]]
  /\ today \in 0..MaxDay
  /\ losses \in 0..MaxLosses

\* A request is executed once, however often it is sent, recovered or retried: no attempt
\* follows one that succeeded or may yet succeed (UNKNOWN remains query-first).
ExecutedOnce ==
  \A r \in Requests, a \in Attempts :
    provider[r][a].kind \in {"SUCCEEDED", "UNKNOWN"} => Dispatched(r) = a

\* What is accounted was executed, and what the engine accepted as a success is accounted
\* (save_usage, _validate_set).
SuccessIsAccounted ==
  \A r \in Requests :
    /\ usage[r] # NoUsage =>
         provider[r][usage[r].attempt] =
           [kind |-> "SUCCEEDED", tokens |-> usage[r].tokens, day |-> usage[r].day]
    /\ \A a \in Attempts :
         [attempt |-> a, status |-> "SUCCEEDED"] \in Accepted(r) => usage[r].attempt = a

\* The engine has the results of the ledger in their order, and the ledger notes no delivery
\* and no completion that the engine does not have (delivered_result_ids, completed_response_id).
EngineFollowsLedger ==
  \A r \in Requests :
    /\ Len(engine[r].accepted) <= Len(record[r].results)
    /\ \A k \in 1..Len(engine[r].accepted) : engine[r].accepted[k] = record[r].results[k]
    /\ record[r].delivered \subseteq 1..Len(engine[r].accepted)
    /\ record[r].completed => engine[r].done
    /\ engine[r].done => Succeeded(r)

\* What documents say of a success beyond the limits: it never reaches the engine.
OverrunStaysOut ==
  \A r \in Requests, a \in Attempts :
    [attempt |-> a, status |-> "SUCCEEDED"] \in Accepted(r) =>
      usage[r].tokens <= record[r].attempts[a].maximum

\* Answered for good, or waiting for the host to ask for a retry.
Settled(r) ==
  \/ record[r].completed
  \/ Failed(r)
  \/ Dispatched(r) > 0 /\ Answered(r) /\ MayRetry(Attempt(r))

\* A request the engine knows is answered, or open only to an explicit retry, though calls
\* are lost on the way.
RequestsSettle == \A r \in Requests : engine[r].known ~> Settled(r)
=============================================================================
