------------------------ MODULE ModelExecutionProofs ------------------------
(***************************************************************************)
(* What ModelExecution keeps for any requests, costs, limits and bounds.   *)
(* Nothing a step does for one request touches another, so the invariant   *)
(* is a statement on the five values kept for a request, and every step is *)
(* a lemma on those values.  The argument is that what the ledger says of  *)
(* an attempt is what became of it, and that at most the last result of    *)
(* the ledger is not delivered.                                            *)
(***************************************************************************)
EXTENDS ModelExecution, TLAPS

Facts == Conclusive \cup {NoFact, Unknown}

Truths == [Attempts -> Facts]

Engines == [known : BOOLEAN, accepted : Seq(Results), done : BOOLEAN]

Calls ==
  [pc : {"idle", "completing", "driving", "executing", "returned", "accounting",
         "preparing", "delivering", "finishing", "checkpointing"},
   explicit : BOOLEAN, fact : Facts, place : Nat]

Fields(rec, use, eng, prov, cl) ==
  rec \in Records /\ use \in Usages /\ eng \in Engines /\ prov \in Truths /\ cl \in Calls

\* What the ledger says of an attempt is what became of it.
Honest(t, truth) ==
  /\ t.fact = NoFact => t.resolution = NoFact
  /\ t.resolution = NotExecuted => t.fact = Unknown /\ truth = NoFact
  /\ Effective(t).kind \in {"SUCCEEDED", "RETRYABLE"} => truth = Effective(t)

\* Only the last attempt may succeed or have succeeded.
Traced(rec, prov) ==
  LET n == Len(rec.attempts)
  IN  /\ n <= MaxAttempts
      /\ \A a \in Attempts : prov[a].kind \in {"SUCCEEDED", "UNKNOWN"} => a = n
      /\ \A a \in Attempts : a > n => prov[a] = NoFact
      /\ n > 0 => Honest(rec.attempts[n], prov[n])

\* The usage is that of the success, and a success has a usage before it has a result.
Charged(rec, use, prov) ==
  /\ use # NoUsage =>
       /\ use.attempt \in Attempts
       /\ prov[use.attempt] = [kind |-> "SUCCEEDED", tokens |-> use.tokens, day |-> use.day]
  /\ \A k \in 1..Len(rec.results) :
       rec.results[k].status = "SUCCEEDED" => use.attempt = rec.results[k].attempt

SucceededIn(accepted) == \E k \in 1..Len(accepted) : accepted[k].status = "SUCCEEDED"

\* The engine is at most one result behind the ledger, and the ledger at most one delivery
\* behind the engine.
Followed(rec, eng) ==
  LET n == Len(rec.results)
      m == Len(eng.accepted)
  IN  /\ m <= n /\ \A k \in 1..m : eng.accepted[k] = rec.results[k]
      /\ \A j, k \in 1..n : rec.results[j] = rec.results[k] => j = k
      /\ rec.delivered \subseteq 1..m /\ \A k \in 1..n : k < n => k \in rec.delivered
      /\ rec.completed = TRUE => eng.done = TRUE
      /\ eng.done = TRUE => SucceededIn(eng.accepted)
      /\ SucceededIn(eng.accepted) => m = n

Executing == {"executing", "returned", "accounting", "preparing"}

\* What a call has made sure of before it comes where it is.
Fits(rec, use, eng, prov, cl) ==
  LET n == Len(rec.attempts)
      last == rec.attempts[n]
  IN  /\ cl.pc \in Executing => n > 0 /\ rec.delivered = 1..Len(rec.results)
      /\ cl.pc \in Executing \cup {"driving"} => ~SucceededIn(eng.accepted)
      /\ cl.pc \in {"executing", "returned"} => last.fact = NoFact
      /\ cl.pc \in {"accounting", "preparing"} => last.fact # NoFact
      /\ cl.pc = "executing" => prov[n] = NoFact
      /\ cl.pc = "returned" =>
           /\ cl.fact # NoFact
           /\ cl.fact.kind \in {"SUCCEEDED", "RETRYABLE"} => prov[n] = cl.fact
      /\ cl.pc = "preparing" /\ Effective(last).kind = "SUCCEEDED" => use.attempt = n
      /\ cl.pc \in {"delivering", "finishing", "checkpointing"} =>
           cl.place = Len(rec.results) /\ cl.place > 0
      /\ cl.pc \in {"finishing", "checkpointing"} => Len(eng.accepted) = Len(rec.results)
      /\ cl.pc = "finishing" => SucceededIn(eng.accepted)
      /\ cl.pc = "completing" => eng.done = TRUE

Local(rec, use, eng, prov, cl) ==
  /\ Fields(rec, use, eng, prov, cl)
  /\ Traced(rec, prov) /\ Charged(rec, use, prov) /\ Followed(rec, eng)
  /\ Fits(rec, use, eng, prov, cl)

IInv ==
  /\ TypeOK
  /\ \A r \in Requests : Local(record[r], usage[r], engine[r], provider[r], call[r])

-----------------------------------------------------------------------------
\* The values of one request may change, the others stay as they are.
LEMMA Frame ==
  ASSUME IInv, NEW r \in Requests, NEW rec, NEW use, NEW eng, NEW prov, NEW cl,
         record' = [record EXCEPT ![r] = rec], usage' = [usage EXCEPT ![r] = use],
         engine' = [engine EXCEPT ![r] = eng], provider' = [provider EXCEPT ![r] = prov],
         call' = [call EXCEPT ![r] = cl], today' \in 0..MaxDay, losses' \in 0..MaxLosses,
         Local(rec, use, eng, prov, cl)
  PROVE  IInv'
<1>1. Fields(rec, use, eng, prov, cl) BY DEF Local
<1>2. TypeOK' BY <1>1 DEF IInv, TypeOK, Fields, Engines, Truths, Calls, Facts
<1>3. ASSUME NEW q \in Requests
      PROVE  Local(record'[q], usage'[q], engine'[q], provider'[q], call'[q])
  <2>1. CASE q = r
    <3>1. /\ record'[q] = rec /\ usage'[q] = use /\ engine'[q] = eng /\ provider'[q] = prov
          /\ call'[q] = cl
      BY <2>1 DEF IInv, TypeOK
    <3> QED BY <3>1
  <2>2. CASE q # r
    <3>1. /\ record'[q] = record[q] /\ usage'[q] = usage[q] /\ engine'[q] = engine[q]
          /\ provider'[q] = provider[q] /\ call'[q] = call[q]
      BY <2>2 DEF IInv, TypeOK
    <3>2. Local(record[q], usage[q], engine[q], provider[q], call[q]) BY DEF IInv
    <3> QED BY <3>1, <3>2
  <2> QED BY <2>1, <2>2
<1> QED BY <1>2, <1>3 DEF IInv

\* What is unchanged is set to what it was.
LEMMA Same ==
  ASSUME IInv, NEW r \in Requests
  PROVE  /\ record = [record EXCEPT ![r] = record[r]] /\ usage = [usage EXCEPT ![r] = usage[r]]
         /\ engine = [engine EXCEPT ![r] = engine[r]]
         /\ provider = [provider EXCEPT ![r] = provider[r]] /\ call = [call EXCEPT ![r] = call[r]]
         /\ today \in 0..MaxDay /\ losses \in 0..MaxLosses
         /\ Local(record[r], usage[r], engine[r], provider[r], call[r])
BY DEF IInv, TypeOK

\* What is neither the call nor a bound.
kept == <<record, usage, engine, provider>>

\* A step that changes nothing but its call.
LEMMA CallOnly ==
  ASSUME IInv, NEW r \in Requests, NEW cl \in Calls,
         UNCHANGED kept,
         today' \in 0..MaxDay, losses' \in 0..MaxLosses, call' = [call EXCEPT ![r] = cl],
         Fits(record[r], usage[r], engine[r], provider[r], cl)
  PROVE  IInv'
<1>1. /\ record' = [record EXCEPT ![r] = record[r]] /\ usage' = [usage EXCEPT ![r] = usage[r]]
      /\ engine' = [engine EXCEPT ![r] = engine[r]]
      /\ provider' = [provider EXCEPT ![r] = provider[r]]
      /\ Local(record[r], usage[r], engine[r], provider[r], call[r])
  BY Same DEF kept
<1>2. Local(record[r], usage[r], engine[r], provider[r], cl) BY <1>1 DEF Local, Fields
<1>3. /\ call' = [call EXCEPT ![r] = cl] /\ today' \in 0..MaxDay
      /\ losses' \in 0..MaxLosses /\ IInv
  OBVIOUS
<1> HIDE DEF IInv
<1> QED BY <1>1, <1>2, <1>3, Frame

\* A call that has ended asks for nothing.
LEMMA RestFits ==
  ASSUME NEW rec, NEW use, NEW eng, NEW prov
  PROVE  Rest \in Calls /\ Fits(rec, use, eng, prov, Rest)
<1>1. Rest \in Calls BY DEF Rest, Calls, Facts, NoFact
<1>2. Rest.pc = "idle" BY DEF Rest
<1>3. Fits(rec, use, eng, prov, Rest) BY <1>2 DEF Fits, Executing
<1> QED BY <1>1, <1>3

\* What is known of the values of a request in a state.
LEMMA Now ==
  ASSUME IInv, NEW r \in Requests
  PROVE  /\ Local(record[r], usage[r], engine[r], provider[r], call[r])
         /\ call[r] \in Calls /\ record[r] \in Records /\ engine[r] \in Engines
         /\ today \in 0..MaxDay /\ losses \in 0..MaxLosses
         /\ Dispatched(r) \in Nat /\ Dispatched(r) = Len(record[r].attempts)
         /\ Succeeded(r) <=> SucceededIn(engine[r].accepted)
<1>1. Local(record[r], usage[r], engine[r], provider[r], call[r]) BY DEF IInv
<1>2. call[r] \in Calls /\ record[r] \in Records /\ engine[r] \in Engines
  BY <1>1 DEF Local, Fields
<1>3. Dispatched(r) \in Nat /\ Dispatched(r) = Len(record[r].attempts)
  BY <1>2 DEF Dispatched, Records
<1>4. ASSUME NEW accepted \in Seq(Results)
      PROVE  SucceededIn(accepted) <=>
               \E a \in Attempts : [attempt |-> a, status |-> "SUCCEEDED"] \in Range(accepted)
  <2>1. ASSUME SucceededIn(accepted)
        PROVE  \E a \in Attempts : [attempt |-> a, status |-> "SUCCEEDED"] \in Range(accepted)
    <3>1. PICK k \in 1..Len(accepted) : accepted[k].status = "SUCCEEDED"
      BY <2>1 DEF SucceededIn
    <3>2. accepted[k] \in Results OBVIOUS
    <3>3. accepted[k] = [attempt |-> accepted[k].attempt, status |-> "SUCCEEDED"]
          /\ accepted[k].attempt \in Attempts
      BY <3>1, <3>2 DEF Results
    <3>4. accepted[k] \in Range(accepted) BY DEF Range
    <3> QED BY <3>3, <3>4
  <2>2. ASSUME NEW a \in Attempts, [attempt |-> a, status |-> "SUCCEEDED"] \in Range(accepted)
        PROVE  SucceededIn(accepted)
    <3>1. PICK k \in 1..Len(accepted) : accepted[k] = [attempt |-> a, status |-> "SUCCEEDED"]
      BY <2>2 DEF Range
    <3> QED BY <3>1 DEF SucceededIn
  <2> QED BY <2>1, <2>2
<1>5. engine[r].accepted \in Seq(Results) BY <1>2 DEF Engines
<1>6. Succeeded(r) <=> SucceededIn(engine[r].accepted) BY <1>4, <1>5 DEF Succeeded, Accepted
<1> QED BY <1>1, <1>2, <1>3, <1>6, Same

-----------------------------------------------------------------------------
(* Steps that change the call alone.                                       *)

LEMMA RecoverStep ==
  ASSUME IInv, NEW r \in Requests, Recover(r) \/ Retry(r)
  PROVE  IInv'
<1> USE Now
<1> HIDE DEF IInv
<1>1. UNCHANGED kept
      /\ today' \in 0..MaxDay /\ losses' \in 0..MaxLosses
  BY DEF Recover, Retry, world, kept
<1>2. CASE Recover(r) /\ Requires(r) /\ Goes(r, "driving")
  <2> DEFINE cl == [call[r] EXCEPT !.pc = "driving"]
  <2>1. call' = [call EXCEPT ![r] = cl] BY <1>2 DEF Goes
  <2>2. cl \in Calls /\ cl.pc = "driving" BY DEF Calls
  <2> HIDE DEF cl
  <2>3. Fits(record[r], usage[r], engine[r], provider[r], cl)
    BY <1>2, <2>2 DEF Fits, Executing, Requires
  <2> QED BY <1>1, <2>1, <2>2, <2>3, CallOnly
<1>3. CASE Recover(r) /\ engine[r].done /\ Goes(r, "completing")
  <2> DEFINE cl == [call[r] EXCEPT !.pc = "completing"]
  <2>1. call' = [call EXCEPT ![r] = cl] BY <1>3 DEF Goes
  <2>2. cl \in Calls /\ cl.pc = "completing" BY DEF Calls
  <2> HIDE DEF cl
  <2>3. engine[r].done = TRUE BY <1>3 DEF Engines
  <2>4. Fits(record[r], usage[r], engine[r], provider[r], cl)
    BY <2>3, <2>2 DEF Fits, Executing
  <2> QED BY <1>1, <2>1, <2>2, <2>4, CallOnly
<1>4. CASE Retry(r)
  <2> DEFINE cl == [call[r] EXCEPT !.pc = "driving", !.explicit = TRUE]
  <2>1. call' = [call EXCEPT ![r] = cl] BY <1>4 DEF Retry
  <2>2. cl \in Calls /\ cl.pc = "driving" BY DEF Calls
  <2>3. Requires(r) BY <1>4 DEF Retry
  <2> HIDE DEF cl
  <2>4. Fits(record[r], usage[r], engine[r], provider[r], cl)
    BY <2>2, <2>3 DEF Fits, Executing, Requires
  <2> QED BY <1>1, <2>1, <2>2, <2>4, CallOnly
<1> QED BY <1>2, <1>3, <1>4 DEF Recover

\* Whatever ends a call and changes nothing else.
LEMMA EndStep ==
  ASSUME IInv, NEW r \in Requests, Ends(r), UNCHANGED kept,
         today' \in 0..MaxDay, losses' \in 0..MaxLosses
  PROVE  IInv'
<1>1. call' = [call EXCEPT ![r] = Rest] BY DEF Ends
<1> HIDE DEF IInv
<1>2. Rest \in Calls /\ Fits(record[r], usage[r], engine[r], provider[r], Rest) BY RestFits
<1> QED BY <1>1, <1>2, CallOnly

LEMMA RedeliverStep ==
  ASSUME IInv, NEW r \in Requests, Redeliver(r)
  PROVE  IInv'
<1> USE Now
<1> HIDE DEF IInv
<1> DEFINE n == Len(record[r].results)
<1>1. UNCHANGED kept
      /\ today' \in 0..MaxDay /\ losses' \in 0..MaxLosses
  BY DEF Redeliver, world, kept
<1>2. PICK k \in Undelivered(r) :
        call' = [call EXCEPT ![r].pc = "delivering", ![r].place = k]
  BY DEF Redeliver
<1>3. n \in Nat BY DEF Records
<1>4. k \in 1..n /\ k \notin record[r].delivered BY <1>2 DEF Undelivered
<1>5. \A j \in 1..n : j < n => j \in record[r].delivered BY DEF Local, Followed
<1>6. k = n BY <1>3, <1>4, <1>5
<1> DEFINE cl == [call[r] EXCEPT !.pc = "delivering", !.place = k]
<1>7. call' = [call EXCEPT ![r] = cl] BY <1>2
<1>8. cl \in Calls /\ cl.pc = "delivering" /\ cl.place = n /\ n > 0
  <2>1. k \in Nat BY <1>3, <1>6
  <2>2. cl \in Calls BY <2>1 DEF Calls
  <2>3. cl.pc = "delivering" /\ cl.place = k BY DEF Calls
  <2> QED BY <1>3, <1>4, <1>6, <2>2, <2>3
<1> HIDE DEF cl, n
<1>9. Fits(record[r], usage[r], engine[r], provider[r], cl)
  BY <1>8 DEF Fits, Executing, n
<1> QED BY <1>1, <1>7, <1>8, <1>9, CallOnly

\* Where every result is delivered, a call may go on to the attempt.
LEMMA ReadyFacts ==
  ASSUME IInv, NEW r \in Requests, Ready(r)
  PROVE  /\ call[r].pc = "driving" /\ ~SucceededIn(engine[r].accepted)
         /\ record[r].delivered = 1..Len(record[r].results)
<1> USE Now
<1> HIDE DEF IInv
<1> DEFINE n == Len(record[r].results)
<1>1. n \in Nat BY DEF Records
<1>2. Len(engine[r].accepted) \in Nat BY DEF Engines
<1>3. call[r].pc = "driving" BY DEF Ready, At
<1>4. ~SucceededIn(engine[r].accepted) BY <1>3 DEF Local, Fits, Executing
<1>5. \A k \in 1..n : k \in record[r].delivered BY DEF Ready, Undelivered
<1>6. record[r].delivered \subseteq 1..Len(engine[r].accepted) /\ Len(engine[r].accepted) <= n
  BY DEF Local, Followed
<1>7. record[r].delivered \subseteq 1..n BY <1>1, <1>2, <1>6
<1> QED BY <1>3, <1>4, <1>5, <1>7

LEMMA QueryDispatchedStep ==
  ASSUME IInv, NEW r \in Requests, QueryDispatched(r)
  PROVE  IInv'
<1> USE Now, ReadyFacts
<1> HIDE DEF IInv
<1> DEFINE truth == provider[r][Dispatched(r)]
<1>1. UNCHANGED kept
      /\ today' \in 0..MaxDay /\ losses' \in 0..MaxLosses
  BY DEF QueryDispatched, world, kept
<1>2. Ready(r) /\ Dispatched(r) > 0 /\ record[r].attempts[Dispatched(r)].fact = NoFact
  BY DEF QueryDispatched, Attempt
<1>3. Dispatched(r) \in Attempts BY <1>2 DEF Local, Traced, Attempts
<1>4. truth \in Facts BY <1>3 DEF Local, Fields, Truths
<1>5. CASE truth = NoFact /\ Goes(r, "executing")
  <2> DEFINE cl == [call[r] EXCEPT !.pc = "executing"]
  <2>1. call' = [call EXCEPT ![r] = cl] BY <1>5 DEF Goes
  <2>2. cl \in Calls /\ cl.pc = "executing" BY DEF Calls
  <2> HIDE DEF cl
  <2>3. Fits(record[r], usage[r], engine[r], provider[r], cl)
    BY <1>2, <1>5, <2>2 DEF Fits, Executing
  <2> QED BY <1>1, <2>1, <2>2, <2>3, CallOnly
<1>6. CASE truth # NoFact /\ call' = [call EXCEPT ![r].pc = "returned", ![r].fact = truth]
  <2> DEFINE cl == [call[r] EXCEPT !.pc = "returned", !.fact = truth]
  <2>1. call' = [call EXCEPT ![r] = cl] BY <1>6
  <2>2. cl \in Calls /\ cl.pc = "returned" /\ cl.fact = truth BY <1>4 DEF Calls
  <2> HIDE DEF cl
  <2>3. Fits(record[r], usage[r], engine[r], provider[r], cl)
    BY <1>2, <1>6, <2>2 DEF Fits, Executing
  <2> QED BY <1>1, <2>1, <2>2, <2>3, CallOnly
<1>7. CASE Ends(r) BY <1>1, <1>7, EndStep
<1> QED BY <1>5, <1>6, <1>7 DEF QueryDispatched

LEMMA ClassifyStep ==
  ASSUME IInv, NEW r \in Requests, Classify(r)
  PROVE  IInv'
<1> USE Now, ReadyFacts
<1> HIDE DEF IInv
<1>1. UNCHANGED kept
      /\ today' \in 0..MaxDay /\ losses' \in 0..MaxLosses
  BY DEF Classify, world, kept
<1>2. /\ Ready(r) /\ Dispatched(r) > 0
      /\ record[r].attempts[Len(record[r].attempts)].fact # NoFact
  BY DEF Classify, Known, Attempt
<1> DEFINE cl == [call[r] EXCEPT !.pc = "accounting"]
<1>3. call' = [call EXCEPT ![r] = cl] BY DEF Classify, Goes
<1>4. cl \in Calls /\ cl.pc = "accounting" BY DEF Calls
<1> HIDE DEF cl
<1>5. Fits(record[r], usage[r], engine[r], provider[r], cl)
  BY <1>2, <1>4 DEF Fits, Executing
<1> QED BY <1>1, <1>3, <1>4, <1>5, CallOnly

-----------------------------------------------------------------------------
(* Steps of the engine.                                                    *)

besideEngine == <<record, usage, provider, today, losses>>

LEMMA EngineOnly ==
  ASSUME IInv, NEW r \in Requests, NEW eng \in Engines, NEW cl \in Calls,
         UNCHANGED besideEngine,
         engine' = [engine EXCEPT ![r] = eng], call' = [call EXCEPT ![r] = cl],
         Followed(record[r], eng), Fits(record[r], usage[r], eng, provider[r], cl)
  PROVE  IInv'
<1>1. /\ record' = [record EXCEPT ![r] = record[r]] /\ usage' = [usage EXCEPT ![r] = usage[r]]
      /\ provider' = [provider EXCEPT ![r] = provider[r]]
      /\ today' \in 0..MaxDay /\ losses' \in 0..MaxLosses
      /\ Local(record[r], usage[r], engine[r], provider[r], call[r])
  BY Same DEF besideEngine
<1>2. Local(record[r], usage[r], eng, provider[r], cl) BY <1>1 DEF Local, Fields
<1> HIDE DEF IInv
<1> QED BY <1>1, <1>2, Frame

\* An operation that is finished has its success.
LEMMA DoneFollows ==
  ASSUME NEW rec \in Records, NEW eng \in Engines, NEW new \in Engines,
         Followed(rec, eng), new.accepted = eng.accepted,
         new.done = eng.done \/ (new.done = TRUE /\ SucceededIn(eng.accepted))
  PROVE  Followed(rec, new)
BY DEF Followed, Engines

LEMMA SubmitStep ==
  ASSUME IInv, NEW r \in Requests, Submit(r)
  PROVE  IInv'
<1> USE Now
<1> HIDE DEF IInv
<1>1. UNCHANGED besideEngine BY DEF Submit, besideEngine, world
<1>2. Followed(record[r], engine[r]) BY DEF Local
<1>3. CASE Requires(r) /\ engine' = [engine EXCEPT ![r].known = TRUE] /\ Goes(r, "driving")
  <2> DEFINE eng == [engine[r] EXCEPT !.known = TRUE]
             cl == [call[r] EXCEPT !.pc = "driving"]
  <2>1. engine' = [engine EXCEPT ![r] = eng] /\ call' = [call EXCEPT ![r] = cl]
    BY <1>3 DEF Goes
  <2>2. cl \in Calls /\ cl.pc = "driving" BY DEF Calls
  <2>3. eng \in Engines /\ eng.accepted = engine[r].accepted /\ eng.done = engine[r].done
    BY DEF Engines
  <2> HIDE DEF cl, eng
  <2>4. Followed(record[r], eng) BY <1>2, <2>3, DoneFollows
  <2>5. Fits(record[r], usage[r], eng, provider[r], cl)
    BY <1>3, <2>2, <2>3 DEF Fits, Executing, Requires
  <2> QED BY <1>1, <2>1, <2>2, <2>3, <2>4, <2>5, EngineOnly
<1>4. CASE Succeeded(r) /\ engine' = [engine EXCEPT ![r].done = TRUE] /\ Goes(r, "completing")
  <2> DEFINE eng == [engine[r] EXCEPT !.done = TRUE]
             cl == [call[r] EXCEPT !.pc = "completing"]
  <2>1. engine' = [engine EXCEPT ![r] = eng] /\ call' = [call EXCEPT ![r] = cl]
    BY <1>4 DEF Goes
  <2>2. cl \in Calls /\ cl.pc = "completing" BY DEF Calls
  <2>3. eng \in Engines /\ eng.accepted = engine[r].accepted /\ eng.done = TRUE
    BY DEF Engines
  <2> HIDE DEF cl, eng
  <2>4. Followed(record[r], eng) BY <1>2, <1>4, <2>3, DoneFollows
  <2>5. Fits(record[r], usage[r], eng, provider[r], cl) BY <2>2, <2>3 DEF Fits, Executing
  <2> QED BY <1>1, <2>1, <2>2, <2>3, <2>4, <2>5, EngineOnly
<1>5. CASE engine[r].done /\ UNCHANGED engine /\ Goes(r, "completing")
  <2> DEFINE cl == [call[r] EXCEPT !.pc = "completing"]
  <2>1. call' = [call EXCEPT ![r] = cl] BY <1>5 DEF Goes
  <2>2. cl \in Calls /\ cl.pc = "completing" BY DEF Calls
  <2>3. UNCHANGED kept /\ today' \in 0..MaxDay /\ losses' \in 0..MaxLosses
    BY <1>1, <1>5 DEF kept, besideEngine
  <2> HIDE DEF cl
  <2>4. engine[r].done = TRUE BY <1>5 DEF Engines
  <2>5. Fits(record[r], usage[r], engine[r], provider[r], cl)
    BY <2>2, <2>4 DEF Fits, Executing
  <2> QED BY <2>1, <2>2, <2>3, <2>5, CallOnly
<1> QED BY <1>3, <1>4, <1>5 DEF Submit

LEMMA FinishStep ==
  ASSUME IInv, NEW r \in Requests, Finish(r)
  PROVE  IInv'
<1> USE Now
<1> HIDE DEF IInv
<1> DEFINE eng == [engine[r] EXCEPT !.done = TRUE]
           cl == [call[r] EXCEPT !.pc = "checkpointing"]
<1>1. UNCHANGED besideEngine BY DEF Finish, besideEngine, world
<1>2. engine' = [engine EXCEPT ![r] = eng] /\ call' = [call EXCEPT ![r] = cl]
  BY DEF Finish, Goes
<1>3. cl \in Calls /\ cl.pc = "checkpointing" /\ cl.place = call[r].place BY DEF Calls
<1>4. eng \in Engines /\ eng.accepted = engine[r].accepted /\ eng.done = TRUE BY DEF Engines
<1> HIDE DEF cl, eng
<1>5. /\ SucceededIn(engine[r].accepted) /\ Followed(record[r], engine[r])
      /\ call[r].place = Len(record[r].results) /\ call[r].place > 0
      /\ Len(engine[r].accepted) = Len(record[r].results)
  BY DEF Finish, At, Local, Fits
<1>6. Followed(record[r], eng) BY <1>4, <1>5, DoneFollows
<1>7. Fits(record[r], usage[r], eng, provider[r], cl) BY <1>3, <1>4, <1>5 DEF Fits, Executing
<1> QED BY <1>1, <1>2, <1>3, <1>4, <1>6, <1>7, EngineOnly

\* The engine accepts the last result of the ledger.
LEMMA AcceptFollows ==
  ASSUME NEW rec \in Records, NEW eng \in Engines, NEW n, Followed(rec, eng),
         n = Len(rec.results), n > 0, ~SucceededIn(eng.accepted),
         rec.results[n] \notin Range(eng.accepted),
         NEW new \in Engines, new.accepted = Append(eng.accepted, rec.results[n]),
         new.done = eng.done
  PROVE  Followed(rec, new) /\ Len(new.accepted) = n
<1> DEFINE m == Len(eng.accepted)
<1>1. rec.results \in Seq(Results) /\ eng.accepted \in Seq(Results) /\ n \in Nat /\ m \in Nat
  BY DEF Records, Engines
<1>2. rec.results[n] \in Results BY <1>1
<1>3. new.accepted = Append(eng.accepted, rec.results[n]) /\ new.done = eng.done OBVIOUS
<1>4. /\ Len(new.accepted) = m + 1 /\ new.accepted[m + 1] = rec.results[n]
      /\ \A k \in 1..m : new.accepted[k] = eng.accepted[k]
  BY <1>1, <1>2, <1>3
<1>5. m <= n /\ (\A k \in 1..m : eng.accepted[k] = rec.results[k])
      /\ rec.delivered \subseteq 1..m /\ \A k \in 1..n : k < n => k \in rec.delivered
  BY DEF Followed
<1>6. m # n
  <2> SUFFICES ASSUME m = n PROVE FALSE OBVIOUS
  <2>1. eng.accepted[n] = rec.results[n] BY <1>1, <1>5
  <2>2. n \in DOMAIN eng.accepted BY <1>1
  <2> QED BY <2>1, <2>2 DEF Range
<1>7. m + 1 = n
  <2> SUFFICES ASSUME m + 1 < n PROVE FALSE BY <1>1, <1>5, <1>6
  <2>1. m + 1 \in rec.delivered BY <1>1, <1>5
  <2> QED BY <1>1, <1>5, <2>1
<1>8. \A k \in 1..n : new.accepted[k] = rec.results[k] BY <1>1, <1>4, <1>5, <1>7
<1>9. rec.delivered \subseteq 1..n BY <1>1, <1>5, <1>7
<1>10. ~(eng.done = TRUE) /\ ~(rec.completed = TRUE) BY DEF Followed
<1> HIDE DEF m
<1>11. Len(new.accepted) = n BY <1>4, <1>7
<1>12. Followed(rec, new) BY <1>1, <1>3, <1>5, <1>8, <1>9, <1>10, <1>11 DEF Followed
<1> QED BY <1>11, <1>12

\* A result the engine has had is the last one.
LEMMA RepeatFollows ==
  ASSUME NEW rec \in Records, NEW eng \in Engines, NEW n, Followed(rec, eng),
         n = Len(rec.results), n > 0, rec.results[n] \in Range(eng.accepted)
  PROVE  Len(eng.accepted) = n /\ eng.accepted[n] = rec.results[n]
<1>1. n \in Nat /\ Len(eng.accepted) \in Nat /\ DOMAIN eng.accepted = 1..Len(eng.accepted)
  BY DEF Records, Engines
<1>2. PICK k \in 1..Len(eng.accepted) : eng.accepted[k] = rec.results[n]
  BY <1>1 DEF Range
<1>3. /\ Len(eng.accepted) <= n /\ eng.accepted[k] = rec.results[k]
      /\ \A i, j \in 1..n : rec.results[i] = rec.results[j] => i = j
  BY DEF Followed
<1>4. k \in 1..n /\ n \in 1..n BY <1>1, <1>3
<1>5. rec.results[k] = rec.results[n] BY <1>2, <1>3
<1>6. k = n BY <1>3, <1>4, <1>5
<1> QED BY <1>1, <1>2, <1>3, <1>6

LEMMA DeliverStep ==
  ASSUME IInv, NEW r \in Requests, Deliver(r)
  PROVE  IInv'
<1> USE Now
<1> HIDE DEF IInv
<1> DEFINE n == Len(record[r].results)
           result == record[r].results[n]
           cl == [call[r] EXCEPT !.pc = IF result.status = "SUCCEEDED" /\ ~engine[r].done
                                        THEN "finishing" ELSE "checkpointing"]
<1>1. UNCHANGED <<record, usage, provider, today, losses>> BY DEF Deliver, world
<1>2. call[r].place = n /\ n > 0 /\ Followed(record[r], engine[r])
  BY DEF Deliver, At, Local, Fits
<1>3. call' = [call EXCEPT ![r] = cl] BY <1>2 DEF Deliver, Goes
<1>4. /\ cl \in Calls /\ cl.pc \in {"finishing", "checkpointing"} /\ cl.place = n
      /\ cl.pc = "finishing" => result.status = "SUCCEEDED"
  BY <1>2 DEF Calls
<1>5. n \in Nat BY DEF Records
<1> HIDE DEF cl
<1>6. CASE result \in Accepted(r) /\ UNCHANGED engine
  <2>1. Len(engine[r].accepted) = n /\ engine[r].accepted[n] = result
    BY <1>2, <1>6, RepeatFollows DEF Accepted
  <2>2. cl.pc = "finishing" => SucceededIn(engine[r].accepted)
    BY <1>2, <1>4, <1>5, <2>1 DEF SucceededIn
  <2> HIDE DEF result
  <2>3. Fits(record[r], usage[r], engine[r], provider[r], cl)
    BY <1>2, <1>4, <2>1, <2>2 DEF Fits, Executing
  <2>4. UNCHANGED kept /\ today' \in 0..MaxDay /\ losses' \in 0..MaxLosses
    BY <1>1, <1>6 DEF kept
  <2> QED BY <1>3, <1>4, <2>3, <2>4, CallOnly
<1>7. CASE /\ result \notin Accepted(r) /\ Requires(r)
           /\ engine' = [engine EXCEPT ![r].accepted = Append(@, result)]
  <2> DEFINE eng == [engine[r] EXCEPT !.accepted = Append(@, result)]
  <2>1. engine' = [engine EXCEPT ![r] = eng] BY <1>7
  <2>2. ~SucceededIn(engine[r].accepted) BY <1>7 DEF Requires
  <2>3. result \in Results
    <3>1. record[r].results \in Seq(Results) BY DEF Records
    <3> QED BY <1>2, <1>5, <3>1
  <2> HIDE DEF result
  <2>4. /\ eng \in Engines /\ eng.accepted = Append(engine[r].accepted, result)
        /\ eng.done = engine[r].done
    <3>1. Append(engine[r].accepted, result) \in Seq(Results) BY <2>3 DEF Engines
    <3> QED BY <3>1 DEF Engines
  <2> HIDE DEF eng
  <2>5. Followed(record[r], eng) /\ Len(eng.accepted) = n
    <3>1. result = record[r].results[n] BY DEF result
    <3>2. result \notin Range(engine[r].accepted) BY <1>7 DEF Accepted
    <3>3. record[r] \in Records /\ engine[r] \in Engines OBVIOUS
    <3> QED BY <1>2, <2>2, <2>4, <3>1, <3>2, <3>3, AcceptFollows
  <2>6. eng.accepted[n] = result BY <1>2, <1>5, <2>5 DEF Followed, result
  <2>7. cl.pc = "finishing" => SucceededIn(eng.accepted)
    BY <1>2, <1>4, <1>5, <2>5, <2>6 DEF SucceededIn
  <2>8. Fits(record[r], usage[r], eng, provider[r], cl)
    BY <1>2, <1>4, <2>5, <2>7 DEF Fits, Executing
  <2>9. UNCHANGED besideEngine BY <1>1 DEF besideEngine
  <2> QED BY <1>3, <1>4, <2>1, <2>4, <2>5, <2>8, <2>9, EngineOnly
<1>8. (result \in Accepted(r) /\ UNCHANGED engine)
      \/ (/\ result \notin Accepted(r) /\ Requires(r)
          /\ engine' = [engine EXCEPT ![r].accepted = Append(@, result)])
  BY <1>2 DEF Deliver
<1> QED BY <1>6, <1>7, <1>8

-----------------------------------------------------------------------------
(* Steps of the ledger's executions.                                       *)

besideRecord == <<usage, engine, provider, today, losses>>

LEMMA RecordOnly ==
  ASSUME IInv, NEW r \in Requests, NEW rec \in Records, NEW cl \in Calls,
         UNCHANGED besideRecord,
         record' = [record EXCEPT ![r] = rec], call' = [call EXCEPT ![r] = cl],
         Traced(rec, provider[r]), Charged(rec, usage[r], provider[r]),
         Followed(rec, engine[r]), Fits(rec, usage[r], engine[r], provider[r], cl)
  PROVE  IInv'
<1>1. /\ engine' = [engine EXCEPT ![r] = engine[r]] /\ usage' = [usage EXCEPT ![r] = usage[r]]
      /\ provider' = [provider EXCEPT ![r] = provider[r]]
      /\ today' \in 0..MaxDay /\ losses' \in 0..MaxLosses
      /\ Local(record[r], usage[r], engine[r], provider[r], call[r])
  BY Same DEF besideRecord
<1>2. Local(rec, usage[r], engine[r], provider[r], cl) BY <1>1 DEF Local, Fields
<1> HIDE DEF IInv
<1> QED BY <1>1, <1>2, Frame

LEMMA ReserveStep ==
  ASSUME IInv, NEW r \in Requests, Reserve(r)
  PROVE  IInv'
<1> DEFINE rec == [record[r] EXCEPT !.reserved = TRUE]
<1>1. UNCHANGED besideRecord BY DEF Reserve, besideRecord, world
<1>2. record' = [record EXCEPT ![r] = rec] /\ call' = [call EXCEPT ![r] = call[r]]
  BY Same DEF Reserve
<1>3. Local(record[r], usage[r], engine[r], provider[r], call[r]) /\ record[r] \in Records
      /\ call[r] \in Calls
  BY Now
<1>4. rec \in Records BY <1>3 DEF Records
<1>5. /\ rec.attempts = record[r].attempts /\ rec.results = record[r].results
      /\ rec.delivered = record[r].delivered /\ rec.completed = record[r].completed
  BY <1>3 DEF Records
<1> HIDE DEF rec, IInv
<1>6. Traced(rec, provider[r]) BY <1>3, <1>5 DEF Local, Traced
<1>7. Charged(rec, usage[r], provider[r]) BY <1>3, <1>5 DEF Local, Charged
<1>8. Followed(rec, engine[r]) BY <1>3, <1>5 DEF Local, Followed
<1>9. Fits(rec, usage[r], engine[r], provider[r], call[r]) BY <1>3, <1>5 DEF Local, Fits
<1> QED BY <1>1, <1>2, <1>3, <1>4, <1>6, <1>7, <1>8, <1>9, RecordOnly

\* The last result is noted as delivered.
LEMMA NoteFollows ==
  ASSUME NEW rec \in Records, NEW eng \in Engines, NEW new \in Records, Followed(rec, eng),
         Len(eng.accepted) = Len(rec.results), new.results = rec.results,
         new.delivered = rec.delivered \cup ({Len(rec.results)} \ {0}),
         new.completed = TRUE => eng.done = TRUE
  PROVE  Followed(new, eng)
<1>1. Len(rec.results) \in Nat BY DEF Records
<1>2. new.delivered \subseteq 1..Len(eng.accepted) BY <1>1 DEF Followed
<1> QED BY <1>2 DEF Followed

LEMMA MarkCompletedStep ==
  ASSUME IInv, NEW r \in Requests, MarkCompleted(r)
  PROVE  IInv'
<1> USE Now
<1> HIDE DEF IInv
<1> DEFINE rec == [record[r] EXCEPT !.completed = TRUE,
                                    !.delivered = @ \cup ({Len(record[r].results)} \ {0})]
<1>1. UNCHANGED besideRecord BY DEF MarkCompleted, besideRecord, world
<1>2. record' = [record EXCEPT ![r] = rec] /\ call' = [call EXCEPT ![r] = Rest]
  BY DEF MarkCompleted, Ends
<1>3. Len(record[r].results) \in Nat BY DEF Records
<1>4. rec \in Records BY <1>3 DEF Records
<1>5. /\ rec.attempts = record[r].attempts /\ rec.results = record[r].results
      /\ rec.delivered = record[r].delivered \cup ({Len(record[r].results)} \ {0})
  BY DEF Records
<1> HIDE DEF rec
<1>6. engine[r].done = TRUE /\ Followed(record[r], engine[r])
  BY DEF MarkCompleted, At, Local, Fits
<1>7. Len(engine[r].accepted) = Len(record[r].results) BY <1>6 DEF Followed
<1>8. Followed(rec, engine[r]) BY <1>4, <1>5, <1>6, <1>7, NoteFollows
<1>9. Traced(rec, provider[r]) BY <1>5 DEF Local, Traced
<1>10. Charged(rec, usage[r], provider[r]) BY <1>5 DEF Local, Charged
<1> QED BY <1>1, <1>2, <1>4, <1>8, <1>9, <1>10, RestFits, RecordOnly

LEMMA CheckpointStep ==
  ASSUME IInv, NEW r \in Requests, Checkpoint(r)
  PROVE  IInv'
<1> USE Now
<1> HIDE DEF IInv
<1> DEFINE rec == [record[r] EXCEPT !.delivered = @ \cup {call[r].place},
                                    !.completed = @ \/ engine[r].done]
<1>1. UNCHANGED besideRecord BY DEF Checkpoint, besideRecord, world
<1>2. record' = [record EXCEPT ![r] = rec] /\ call' = [call EXCEPT ![r] = Rest]
  BY DEF Checkpoint, Ends
<1>3. Len(record[r].results) \in Nat BY DEF Records
<1>4. /\ call[r].place = Len(record[r].results) /\ call[r].place > 0
      /\ Len(engine[r].accepted) = Len(record[r].results) /\ Followed(record[r], engine[r])
  BY DEF Checkpoint, At, Local, Fits
<1>5. rec \in Records BY <1>3, <1>4 DEF Records, Engines
<1>6. /\ rec.attempts = record[r].attempts /\ rec.results = record[r].results
      /\ rec.delivered = record[r].delivered \cup {call[r].place}
  BY DEF Records
<1>7. rec.completed = (record[r].completed \/ engine[r].done) BY DEF Records
<1>8. record[r].completed \in BOOLEAN /\ engine[r].done \in BOOLEAN BY DEF Records, Engines
<1> HIDE DEF rec
<1>9. rec.completed = TRUE => engine[r].done = TRUE BY <1>4, <1>7, <1>8 DEF Followed
<1>10. rec.delivered = record[r].delivered \cup ({Len(record[r].results)} \ {0})
  BY <1>3, <1>4, <1>6
<1>11. Followed(rec, engine[r]) BY <1>4, <1>5, <1>6, <1>9, <1>10, NoteFollows
<1>12. Traced(rec, provider[r]) BY <1>6 DEF Local, Traced
<1>13. Charged(rec, usage[r], provider[r]) BY <1>6 DEF Local, Charged
<1> QED BY <1>1, <1>2, <1>5, <1>11, <1>12, <1>13, RestFits, RecordOnly

-----------------------------------------------------------------------------
(* Steps that change an attempt.                                           *)

\* What can be known of an attempt, by its kind.
LEMMA Kinds ==
  ASSUME NEW fact \in Facts
  PROVE  /\ fact.kind \in {"SUCCEEDED", "RETRYABLE", "TERMINAL", "UNKNOWN", "NONE"}
         /\ fact.kind = "UNKNOWN" => fact = Unknown
         /\ fact.kind = "NONE" => fact = NoFact
         /\ fact \in Conclusive => fact.kind \in {"SUCCEEDED", "RETRYABLE", "TERMINAL"}
         /\ fact # NotExecuted
         /\ fact.kind = "SUCCEEDED" =>
              /\ fact.day \in 0..MaxDay /\ fact.tokens \in Nat
              /\ fact = [kind |-> "SUCCEEDED", tokens |-> fact.tokens, day |-> fact.day]
<1>1. NoFact.kind = "NONE" /\ Unknown.kind = "UNKNOWN" /\ NotExecuted.kind = "NOT_EXECUTED"
  BY DEF NoFact, Unknown, NotExecuted
<1>2. ASSUME fact \in Conclusive
      PROVE  /\ fact.kind \in {"SUCCEEDED", "RETRYABLE", "TERMINAL"}
             /\ fact.kind = "SUCCEEDED" =>
                  /\ fact.day \in 0..MaxDay /\ fact.tokens \in Nat
                  /\ fact = [kind |-> "SUCCEEDED", tokens |-> fact.tokens, day |-> fact.day]
  <2>1. PICK day \in 0..MaxDay : fact \in Outcomes(day) BY <1>2 DEF Conclusive
  <2>2. CASE fact \in {Failure("RETRYABLE"), Failure("TERMINAL")} BY <2>2 DEF Failure
  <2>3. CASE \E cost \in Costs : fact = [kind |-> "SUCCEEDED", tokens |-> cost, day |-> day]
    BY <2>1, <2>3, ModelAssumption
  <2> QED BY <2>1, <2>2, <2>3 DEF Outcomes
<1> QED BY <1>1, <1>2 DEF Facts

\* What an execution of the day ends with is a fact.
LEMMA OutcomeFacts ==
  ASSUME NEW day \in 0..MaxDay
  PROVE  Outcomes(day) \subseteq Conclusive /\ Failure("TERMINAL") \in Outcomes(day)
BY DEF Conclusive, Outcomes

\* The last attempt of a record is replaced.
LEMMA Revised ==
  ASSUME IInv, NEW r \in Requests, NEW t \in DispatchAttempts, Revises(r, t), Dispatched(r) > 0
  PROVE  \E rec \in Records :
           /\ record' = [record EXCEPT ![r] = rec]
           /\ Len(rec.attempts) = Len(record[r].attempts)
           /\ rec.attempts[Len(record[r].attempts)] = t
           /\ rec.results = record[r].results /\ rec.delivered = record[r].delivered
           /\ rec.completed = record[r].completed
<1> DEFINE n == Len(record[r].attempts)
           rec == [record[r] EXCEPT !.attempts = [@ EXCEPT ![n] = t]]
<1>1. record[r] \in Records /\ Dispatched(r) = n /\ n \in Nat BY Now
<1>2. record' = [record EXCEPT ![r] = rec] BY <1>1 DEF Revises
<1>3. record[r].attempts \in Seq(DispatchAttempts) BY <1>1 DEF Records
<1>4. /\ [record[r].attempts EXCEPT ![n] = t] \in Seq(DispatchAttempts)
      /\ Len([record[r].attempts EXCEPT ![n] = t]) = n
      /\ [record[r].attempts EXCEPT ![n] = t][n] = t
  BY <1>1, <1>3
<1>5. rec \in Records BY <1>1, <1>4 DEF Records
<1>6. /\ rec.attempts = [record[r].attempts EXCEPT ![n] = t]
      /\ rec.results = record[r].results /\ rec.delivered = record[r].delivered
      /\ rec.completed = record[r].completed
  BY <1>1 DEF Records
<1> HIDE DEF rec, IInv
<1> QED BY <1>2, <1>4, <1>5, <1>6

\* What is said of a revised attempt has to be true of it.
LEMMA ReviseOnly ==
  ASSUME IInv, NEW r \in Requests, NEW t \in DispatchAttempts, Revises(r, t),
         UNCHANGED besideRecord, Dispatched(r) > 0, NEW cl \in Calls,
         call' = [call EXCEPT ![r] = cl], cl.pc \in {"driving", "accounting"},
         call[r].pc \in {"driving", "returned"},
         cl.pc = "accounting" => call[r].pc = "returned" /\ t.fact # NoFact,
         Honest(t, provider[r][Dispatched(r)])
  PROVE  IInv'
<1> DEFINE n == Len(record[r].attempts)
<1>1. PICK rec \in Records :
        /\ record' = [record EXCEPT ![r] = rec]
        /\ Len(rec.attempts) = n /\ rec.attempts[n] = t
        /\ rec.results = record[r].results /\ rec.delivered = record[r].delivered
        /\ rec.completed = record[r].completed
  BY Revised
<1>2. Local(record[r], usage[r], engine[r], provider[r], call[r]) /\ Dispatched(r) = n
  BY Now
<1> HIDE DEF IInv
<1>3. Traced(rec, provider[r]) BY <1>1, <1>2 DEF Local, Traced
<1>4. Charged(rec, usage[r], provider[r]) BY <1>1, <1>2 DEF Local, Charged
<1>5. Followed(rec, engine[r]) BY <1>1, <1>2 DEF Local, Followed
<1>6. Fits(rec, usage[r], engine[r], provider[r], cl)
  BY <1>1, <1>2 DEF Local, Fits, Executing
<1> QED BY <1>1, <1>3, <1>4, <1>5, <1>6, RecordOnly

LEMMA QueryAmbiguousStep ==
  ASSUME IInv, NEW r \in Requests, QueryAmbiguous(r)
  PROVE  IInv'
<1> DEFINE n == Dispatched(r)
           truth == provider[r][n]
           t == [Attempt(r) EXCEPT !.resolution = IF truth = NoFact THEN NotExecuted ELSE truth]
<1>1. UNCHANGED besideRecord BY DEF QueryAmbiguous, besideRecord, world
<1>2. /\ Local(record[r], usage[r], engine[r], provider[r], call[r])
      /\ record[r] \in Records /\ call[r] \in Calls /\ n \in Nat
      /\ n = Len(record[r].attempts)
  BY Now
<1>3. call[r].pc = "driving" BY ReadyFacts DEF QueryAmbiguous
<1>4. n > 0 /\ Attempt(r).fact = Unknown BY DEF QueryAmbiguous, Known, Ambiguous
<1>5. n \in Attempts BY <1>2, <1>4 DEF Local, Traced, Attempts
<1>6. truth \in Facts BY <1>2, <1>5 DEF Local, Fields, Truths
<1>7. CASE Ends(r) /\ UNCHANGED record
  <2>1. UNCHANGED kept /\ today' \in 0..MaxDay /\ losses' \in 0..MaxLosses
    BY <1>1, <1>7, Now DEF besideRecord, kept
  <2> QED BY <1>7, <2>1, EndStep
<1>8. CASE truth # Unknown /\ Revises(r, t) /\ UNCHANGED call
  <2>1. Attempt(r) \in DispatchAttempts BY <1>2, <1>4 DEF Attempt, Records
  <2>2. truth \in Conclusive \cup {NoFact} BY <1>6, <1>8 DEF Facts
  <2>3. t \in DispatchAttempts BY <2>1, <2>2 DEF DispatchAttempts
  <2>4. t.fact = Unknown /\ t.resolution = IF truth = NoFact THEN NotExecuted ELSE truth
    BY <1>4, <2>1 DEF DispatchAttempts
  <2> HIDE DEF t
  <2>5. truth # NotExecuted BY <1>6, Kinds
  <2>6. Unknown # NoFact /\ NotExecuted # NoFact
        /\ Unknown.kind \notin {"SUCCEEDED", "RETRYABLE"}
    BY DEF Unknown, NoFact, NotExecuted
  <2>7. Honest(t, truth) BY <2>4, <2>5, <2>6 DEF Honest, Effective
  <2>8. call' = [call EXCEPT ![r] = call[r]] BY <1>8, Same
  <2> HIDE DEF IInv
  <2> QED BY <1>1, <1>2, <1>3, <1>4, <1>8, <2>3, <2>7, <2>8, ReviseOnly
<1> QED BY <1>7, <1>8 DEF QueryAmbiguous

LEMMA PersistFactStep ==
  ASSUME IInv, NEW r \in Requests, PersistFact(r)
  PROVE  IInv'
<1> DEFINE n == Dispatched(r)
           fact == call[r].fact
           exceeds == fact.kind = "SUCCEEDED" /\ Exceeds(Attempt(r), fact)
           t == [Attempt(r) EXCEPT !.fact = fact, !.rejected = exceeds]
           cl == [call[r] EXCEPT !.pc = "accounting", !.fact = NoFact]
<1>1. UNCHANGED besideRecord BY DEF PersistFact, besideRecord, world
<1>2. /\ Local(record[r], usage[r], engine[r], provider[r], call[r])
      /\ record[r] \in Records /\ call[r] \in Calls /\ n \in Nat
      /\ n = Len(record[r].attempts)
  BY Now
<1>3. Revises(r, t) /\ call' = [call EXCEPT ![r] = cl] BY DEF PersistFact
<1>4. call[r].pc = "returned" BY DEF PersistFact, At
<1>5. /\ n > 0 /\ Attempt(r).fact = NoFact /\ fact # NoFact
      /\ fact.kind \in {"SUCCEEDED", "RETRYABLE"} => provider[r][n] = fact
  BY <1>2, <1>4 DEF Local, Fits, Executing, Attempt
<1>6. Attempt(r) \in DispatchAttempts BY <1>2, <1>5 DEF Attempt, Records
<1>7. fact \in Facts BY <1>2 DEF Calls
<1>8. exceeds \in BOOLEAN BY DEF Exceeds
<1> HIDE DEF exceeds
<1>9. t \in DispatchAttempts BY <1>6, <1>7, <1>8 DEF DispatchAttempts, Facts
<1>10. t.fact = fact /\ t.resolution = Attempt(r).resolution BY <1>6 DEF DispatchAttempts
<1>11. cl \in Calls /\ cl.pc = "accounting" BY <1>2 DEF Calls, Facts
<1> HIDE DEF t, cl, fact
<1>12. Attempt(r).resolution = NoFact
  BY <1>2, <1>5 DEF Local, Traced, Honest, Attempt
<1>13. NotExecuted # NoFact BY DEF NoFact, NotExecuted
<1>14. Honest(t, provider[r][n]) BY <1>5, <1>10, <1>12, <1>13 DEF Honest, Effective
<1> HIDE DEF IInv
<1> QED BY <1>1, <1>3, <1>4, <1>5, <1>9, <1>10, <1>11, <1>14, ReviseOnly

\* Nothing became of an attempt after which one more is made.
LEMMA DispatchStep ==
  ASSUME IInv, NEW r \in Requests, Dispatch(r)
  PROVE  IInv'
<1> DEFINE n == Dispatched(r)
           maximum == Least(PerLimit, Remaining(today))
           t == [maximum |-> maximum, fact |-> NoFact, resolution |-> NoFact,
                 rejected |-> FALSE]
           rec == [record[r] EXCEPT !.attempts = Append(@, t)]
           cl == [call[r] EXCEPT !.pc = "executing"]
<1>1. UNCHANGED besideRecord BY DEF Dispatch, MayDispatch, besideRecord, world
<1>2. /\ Local(record[r], usage[r], engine[r], provider[r], call[r])
      /\ record[r] \in Records /\ call[r] \in Calls /\ n \in Nat
      /\ n = Len(record[r].attempts) /\ record[r].attempts \in Seq(DispatchAttempts)
  BY Now DEF Records
<1>3. record' = [record EXCEPT ![r] = rec] /\ call' = [call EXCEPT ![r] = cl]
  BY DEF Dispatch, MayDispatch, Goes
<1>4. Ready(r) /\ n < MaxAttempts /\ maximum \in 0..PerLimit
      /\ (n = 0 \/ (n > 0 /\ MayRetry(Attempt(r))))
  BY DEF Dispatch, MayDispatch, Answered, Known
<1> HIDE DEF maximum
<1>5. t \in DispatchAttempts BY <1>4 DEF DispatchAttempts
<1>6. cl \in Calls /\ cl.pc = "executing" BY <1>2 DEF Calls
<1>7. t.fact = NoFact /\ t.resolution = NoFact OBVIOUS
<1> HIDE DEF t
<1>8. rec \in Records
  <2>1. Append(record[r].attempts, t) \in Seq(DispatchAttempts) BY <1>2, <1>5
  <2> QED BY <1>2, <2>1 DEF Records
<1>9. /\ rec.attempts = Append(record[r].attempts, t)
      /\ rec.results = record[r].results /\ rec.delivered = record[r].delivered
      /\ rec.completed = record[r].completed
  BY <1>2 DEF Records
<1>10. Len(rec.attempts) = n + 1 /\ rec.attempts[n + 1] = t BY <1>2, <1>5, <1>9
<1> HIDE DEF rec, cl
<1>11. NoFact.kind = "NONE" /\ NoFact # NotExecuted BY DEF NoFact, NotExecuted
<1>12. \A a \in Attempts : provider[r][a].kind \notin {"SUCCEEDED", "UNKNOWN"}
  <2> SUFFICES ASSUME NEW a \in Attempts, provider[r][a].kind \in {"SUCCEEDED", "UNKNOWN"}
               PROVE  FALSE
    OBVIOUS
  <2>1. a = n BY <1>2 DEF Local, Traced
  <2>2. n > 0 BY <2>1 DEF Attempts
  <2>3. Honest(Attempt(r), provider[r][n]) BY <1>2, <2>2 DEF Local, Traced, Attempt
  <2>4. CASE ProvenNotExecuted(Attempt(r))
    BY <1>11, <2>1, <2>3, <2>4 DEF Honest, ProvenNotExecuted
  <2>5. CASE Effective(Attempt(r)).kind = "RETRYABLE" BY <2>1, <2>3, <2>5 DEF Honest
  <2> QED BY <1>4, <2>2, <2>4, <2>5 DEF MayRetry
<1>13. n + 1 \in Attempts BY <1>2, <1>4, ModelAssumption DEF Attempts
<1>14. provider[r][n + 1] = NoFact BY <1>2, <1>13 DEF Local, Traced
<1>15. Traced(rec, provider[r])
  <2>1. n + 1 <= MaxAttempts BY <1>13, ModelAssumption DEF Attempts
  <2>2. \A a \in Attempts : a > n + 1 => provider[r][a] = NoFact
    BY <1>2 DEF Local, Traced, Attempts
  <2>3. Honest(t, provider[r][n + 1])
    BY <1>7, <1>11, <1>14 DEF Honest, Effective
  <2> QED BY <1>10, <1>12, <2>1, <2>2, <2>3 DEF Traced
<1>16. Charged(rec, usage[r], provider[r]) BY <1>2, <1>9 DEF Local, Charged
<1>17. Followed(rec, engine[r]) BY <1>2, <1>9 DEF Local, Followed
<1>18. /\ ~SucceededIn(engine[r].accepted)
       /\ record[r].delivered = 1..Len(record[r].results)
  BY <1>4, ReadyFacts
<1>19. Fits(rec, usage[r], engine[r], provider[r], cl)
  BY <1>2, <1>6, <1>7, <1>9, <1>10, <1>14, <1>18 DEF Fits, Executing
<1> HIDE DEF IInv
<1> QED BY <1>1, <1>3, <1>6, <1>8, <1>15, <1>16, <1>17, <1>19, RecordOnly

\* The last attempt has one result, and a success is accounted before it has it.
LEMMA PrepareStep ==
  ASSUME IInv, NEW r \in Requests, Prepare(r)
  PROVE  IInv'
<1> DEFINE n == Dispatched(r)
           m == Len(record[r].results)
           result == Result(r)
           rec == [record[r] EXCEPT !.results = Append(@, result)]
           cl == [call[r] EXCEPT !.pc = "delivering", !.place = m + 1]
<1>1. UNCHANGED besideRecord BY DEF Prepare, besideRecord, world
<1>2. /\ Local(record[r], usage[r], engine[r], provider[r], call[r])
      /\ record[r] \in Records /\ engine[r] \in Engines /\ call[r] \in Calls /\ n \in Nat
      /\ n = Len(record[r].attempts) /\ record[r].attempts \in Seq(DispatchAttempts)
      /\ record[r].results \in Seq(Results) /\ m \in Nat
  BY Now DEF Records
<1>3. record' = [record EXCEPT ![r] = rec] /\ call' = [call EXCEPT ![r] = cl] BY DEF Prepare
<1>4. call[r].pc = "preparing" /\ result \notin Range(record[r].results)
  BY DEF Prepare, At, HasResult
<1>5. /\ n > 0 /\ record[r].delivered = 1..m /\ ~SucceededIn(engine[r].accepted)
      /\ Effective(record[r].attempts[n]).kind = "SUCCEEDED" => usage[r].attempt = n
  BY <1>2, <1>4 DEF Local, Fits, Executing
<1>6. n \in Attempts BY <1>2, <1>5 DEF Local, Traced, Attempts
<1>7. result.attempt = n
      /\ (result.status = "SUCCEEDED" => Effective(record[r].attempts[n]).kind = "SUCCEEDED")
  BY DEF Result, Classified, Attempt
<1>8. result \in Results
  <2> DEFINE t == record[r].attempts[n]
  <2>1. t \in DispatchAttempts /\ t.fact # NoFact
    BY <1>2, <1>4, <1>5 DEF Local, Fits
  <2>2. t.fact \in Facts /\ t.resolution \in Conclusive \cup {NoFact, NotExecuted}
    BY <2>1 DEF DispatchAttempts, Facts
  <2>3. Effective(t) \in Facts /\ Effective(t) # NoFact
    BY <2>1, <2>2 DEF Effective, Facts
  <2>4. Effective(t).kind \in {"SUCCEEDED", "RETRYABLE", "UNKNOWN", "TERMINAL"}
    BY <2>3, Kinds
  <2>5. Classified(t) \in {"SUCCEEDED", "RETRYABLE", "UNKNOWN", "TERMINAL"}
    BY <2>4 DEF Classified
  <2> QED BY <1>2, <1>6, <2>5 DEF Result, Results, Attempt
<1> HIDE DEF result
<1>9. rec \in Records
  <2>1. Append(record[r].results, result) \in Seq(Results) BY <1>2, <1>8
  <2> QED BY <1>2, <2>1 DEF Records
<1>10. /\ rec.results = Append(record[r].results, result) /\ rec.attempts = record[r].attempts
       /\ rec.delivered = record[r].delivered /\ rec.completed = record[r].completed
  BY <1>2 DEF Records
<1>11. /\ Len(rec.results) = m + 1 /\ rec.results[m + 1] = result
       /\ \A k \in 1..m : rec.results[k] = record[r].results[k]
  BY <1>2, <1>8, <1>10
<1>12. cl \in Calls /\ cl.pc = "delivering" /\ cl.place = m + 1
  <2> HIDE DEF m
  <2>1. m + 1 \in Nat BY <1>2
  <2>2. cl \in Calls BY <1>2, <2>1 DEF Calls
  <2> QED BY <1>2, <2>2 DEF Calls
<1> HIDE DEF rec, cl
<1>13. \A k \in 1..m : record[r].results[k] # result BY <1>2, <1>4 DEF Range
<1>14. Traced(rec, provider[r]) BY <1>2, <1>10 DEF Local, Traced
<1>15. Charged(rec, usage[r], provider[r])
  <2>1. \A k \in 1..m + 1 : rec.results[k].status = "SUCCEEDED" =>
                              usage[r].attempt = rec.results[k].attempt
    <3> SUFFICES ASSUME NEW k \in 1..m + 1, rec.results[k].status = "SUCCEEDED"
                 PROVE  usage[r].attempt = rec.results[k].attempt
      OBVIOUS
    <3>1. CASE k = m + 1 BY <1>5, <1>7, <1>11, <3>1
    <3>2. CASE k \in 1..m BY <1>2, <1>11, <3>2 DEF Local, Charged
    <3>3. k \in 1..m \/ k = m + 1
      <4> HIDE DEF m
      <4> QED BY <1>2
    <3> QED BY <3>1, <3>2, <3>3
  <2> QED BY <1>2, <1>11, <2>1 DEF Local, Charged
<1>16. Followed(rec, engine[r])
  <2> DEFINE e == Len(engine[r].accepted)
  <2>1. e \in Nat BY <1>2 DEF Engines
  <2>2. /\ e <= m /\ \A k \in 1..e : engine[r].accepted[k] = record[r].results[k]
        /\ \A j, k \in 1..m : record[r].results[j] = record[r].results[k] => j = k
        /\ record[r].delivered \subseteq 1..e
        /\ ~(rec.completed = TRUE) /\ ~(engine[r].done = TRUE)
    BY <1>2, <1>5, <1>10 DEF Local, Followed
  <2> HIDE DEF e
  <2>3. \A k \in 1..e : engine[r].accepted[k] = rec.results[k] BY <1>2, <1>11, <2>1, <2>2
  <2>4. \A j, k \in 1..m + 1 : rec.results[j] = rec.results[k] => j = k
    <3> SUFFICES ASSUME NEW j \in 1..m + 1, NEW k \in 1..m + 1, rec.results[j] = rec.results[k]
                 PROVE  j = k
      OBVIOUS
    <3> HIDE DEF m
    <3>1. (j \in 1..m \/ j = m + 1) /\ (k \in 1..m \/ k = m + 1) BY <1>2
    <3> QED BY <1>11, <1>13, <2>2, <3>1
  <2>5. \A k \in 1..m + 1 : k < m + 1 => k \in rec.delivered BY <1>2, <1>5, <1>10
  <2> QED BY <1>2, <1>5, <1>10, <1>11, <2>1, <2>2, <2>3, <2>4, <2>5 DEF Followed, e
<1>17. Fits(rec, usage[r], engine[r], provider[r], cl)
  BY <1>2, <1>11, <1>12 DEF Fits, Executing
<1> HIDE DEF IInv
<1> QED BY <1>1, <1>3, <1>9, <1>12, <1>14, <1>15, <1>16, <1>17, RecordOnly

-----------------------------------------------------------------------------
(* Steps of the usage and of the provider.                                 *)

\* The entry is what became of the attempt.
LEMMA AccountStep ==
  ASSUME IInv, NEW r \in Requests, Account(r)
  PROVE  IInv'
<1> DEFINE n == Dispatched(r)
           last == record[r].attempts[n]
           fact == Effective(last)
           entry == [attempt |-> n, tokens |-> fact.tokens, day |-> fact.day]
           cl == [call[r] EXCEPT !.pc = "preparing"]
<1>1. /\ UNCHANGED <<record, engine, provider, today, losses>>
      /\ call' = [call EXCEPT ![r] = cl] /\ call[r].pc = "accounting"
  BY DEF Account, world, Goes, At
<1>2. /\ Local(record[r], usage[r], engine[r], provider[r], call[r])
      /\ record[r] \in Records /\ call[r] \in Calls /\ n \in Nat
      /\ n = Len(record[r].attempts) /\ record[r].attempts \in Seq(DispatchAttempts)
  BY Now DEF Records
<1>3. cl \in Calls /\ cl.pc = "preparing" BY <1>2 DEF Calls
<1> HIDE DEF cl
<1>4. /\ n > 0 /\ last.fact # NoFact /\ record[r].delivered = 1..Len(record[r].results)
      /\ ~SucceededIn(engine[r].accepted)
  BY <1>1, <1>2 DEF Local, Fits, Executing
<1>5. n \in Attempts BY <1>2, <1>4 DEF Local, Traced, Attempts
<1>6. fact.kind # "SUCCEEDED" =>
        Fits(record[r], usage[r], engine[r], provider[r], cl)
  BY <1>2, <1>3, <1>4 DEF Fits, Executing
<1>7. CASE fact.kind # "SUCCEEDED"
  <2>1. UNCHANGED kept /\ today' \in 0..MaxDay /\ losses' \in 0..MaxLosses
    BY <1>1, <1>7, Now DEF Account, Attempt, kept
  <2> HIDE DEF IInv
  <2> QED BY <1>1, <1>3, <1>6, <1>7, <2>1, CallOnly
<1>8. CASE fact.kind = "SUCCEEDED"
  <2>1. usage[r] \in {NoUsage, entry} /\ usage' = [usage EXCEPT ![r] = entry]
    BY <1>8 DEF Account, Attempt
  <2>2. fact = provider[r][n] BY <1>2, <1>4, <1>8 DEF Local, Traced, Honest
  <2>3. fact \in Facts BY <1>2, <1>5, <2>2 DEF Local, Fields, Truths
  <2> HIDE DEF fact
  <2>4. /\ fact.day \in 0..MaxDay /\ fact.tokens \in Nat
        /\ fact = [kind |-> "SUCCEEDED", tokens |-> fact.tokens, day |-> fact.day]
    BY <1>8, <2>3, Kinds
  <2>5. entry \in Usages BY <1>5, <2>4 DEF Usages, Attempts
  <2>6. entry.attempt = n /\ entry.tokens = fact.tokens /\ entry.day = fact.day OBVIOUS
  <2> HIDE DEF entry
  <2>7. \A k \in 1..Len(record[r].results) :
          record[r].results[k].status = "SUCCEEDED" => entry.attempt = record[r].results[k].attempt
    <3> SUFFICES ASSUME NEW k \in 1..Len(record[r].results),
                        record[r].results[k].status = "SUCCEEDED"
                 PROVE  entry.attempt = record[r].results[k].attempt
      OBVIOUS
    <3>1. usage[r].attempt = record[r].results[k].attempt BY <1>2 DEF Local, Charged
    <3>2. record[r].results \in Seq(Results) BY <1>2 DEF Records
    <3>3. record[r].results[k] \in Results BY <3>2
    <3>4. record[r].results[k].attempt > 0 BY <3>3 DEF Results, Attempts
    <3>5. usage[r] # NoUsage BY <3>1, <3>4 DEF NoUsage
    <3> QED BY <2>1, <3>1, <3>5
  <2>8. Charged(record[r], entry, provider[r])
    BY <1>5, <2>2, <2>4, <2>6, <2>7 DEF Charged
  <2>9. Fits(record[r], entry, engine[r], provider[r], cl)
    BY <1>2, <1>3, <1>4, <2>6 DEF Fits, Executing
  <2>10. Local(record[r], entry, engine[r], provider[r], cl)
    BY <1>2, <1>3, <2>5, <2>8, <2>9 DEF Local, Fields
  <2>11. /\ record' = [record EXCEPT ![r] = record[r]] /\ engine' = [engine EXCEPT ![r] = engine[r]]
         /\ provider' = [provider EXCEPT ![r] = provider[r]]
         /\ today' \in 0..MaxDay /\ losses' \in 0..MaxLosses
    BY <1>1, Same
  <2> HIDE DEF IInv
  <2> QED BY <1>1, <2>1, <2>10, <2>11, Frame
<1> QED BY <1>7, <1>8

besideProvider == <<record, usage, engine, losses>>

\* What becomes of the last attempt changes nothing that was said of it.
LEMMA ProviderOnly ==
  ASSUME IInv, NEW r \in Requests, NEW prov \in Truths, NEW cl \in Calls,
         UNCHANGED besideProvider, today' \in 0..MaxDay,
         provider' = [provider EXCEPT ![r] = prov], call' = [call EXCEPT ![r] = cl],
         Traced(record[r], prov), Charged(record[r], usage[r], prov),
         Fits(record[r], usage[r], engine[r], prov, cl)
  PROVE  IInv'
<1>1. /\ record' = [record EXCEPT ![r] = record[r]] /\ usage' = [usage EXCEPT ![r] = usage[r]]
      /\ engine' = [engine EXCEPT ![r] = engine[r]] /\ losses' \in 0..MaxLosses
      /\ Local(record[r], usage[r], engine[r], provider[r], call[r])
  BY Same DEF besideProvider
<1>2. Local(record[r], usage[r], engine[r], prov, cl) BY <1>1 DEF Local, Fields
<1> HIDE DEF IInv
<1> QED BY <1>1, <1>2, Frame

LEMMA ExecuteStep ==
  ASSUME IInv, NEW r \in Requests, Execute(r)
  PROVE  IInv'
<1> DEFINE n == Dispatched(r)
           cl(fact) == [call[r] EXCEPT !.pc = "returned", !.fact = fact]
<1>1. UNCHANGED besideProvider /\ today' \in 0..MaxDay /\ losses' \in 0..MaxLosses
      /\ call[r].pc = "executing"
  BY Now DEF Execute, besideProvider, At
<1>2. /\ Local(record[r], usage[r], engine[r], provider[r], call[r])
      /\ record[r] \in Records /\ call[r] \in Calls /\ n \in Nat /\ today \in 0..MaxDay
      /\ n = Len(record[r].attempts)
  BY Now
<1>3. /\ n > 0 /\ record[r].attempts[n].fact = NoFact /\ provider[r][n] = NoFact
      /\ record[r].delivered = 1..Len(record[r].results) /\ ~SucceededIn(engine[r].accepted)
  BY <1>1, <1>2 DEF Local, Fits, Executing
<1>4. n \in Attempts BY <1>2, <1>3 DEF Local, Traced, Attempts
<1>5. NoFact.kind = "NONE" BY DEF NoFact
<1>6. ASSUME NEW fact \in Facts
      PROVE  cl(fact) \in Calls /\ cl(fact).pc = "returned" /\ cl(fact).fact = fact
  BY <1>2 DEF Calls
<1> HIDE DEF cl
<1>7. CASE call' = [call EXCEPT ![r] = cl(Failure("TERMINAL"))] /\ UNCHANGED provider
  <2> DEFINE fact == Failure("TERMINAL")
  <2>1. fact \in Facts BY <1>2, OutcomeFacts DEF Facts
  <2>2. fact # NoFact /\ fact.kind = "TERMINAL" BY <1>5 DEF Failure
  <2> HIDE DEF fact
  <2>3. UNCHANGED kept BY <1>1, <1>7 DEF kept, besideProvider
  <2>4. Fits(record[r], usage[r], engine[r], provider[r], cl(fact))
    BY <1>2, <1>3, <1>6, <2>1, <2>2 DEF Fits, Executing
  <2>5. call' = [call EXCEPT ![r] = cl(fact)] BY <1>7 DEF fact
  <2> HIDE DEF IInv
  <2> QED BY <1>1, <1>6, <2>1, <2>3, <2>4, <2>5, CallOnly
<1>8. CASE \E fact \in Outcomes(today) \cup {Unknown} :
             /\ provider' = [provider EXCEPT ![r][n] = fact]
             /\ call' = [call EXCEPT ![r] = cl(fact)]
  <2>1. PICK fact \in Outcomes(today) \cup {Unknown} :
          /\ provider' = [provider EXCEPT ![r][n] = fact]
          /\ call' = [call EXCEPT ![r] = cl(fact)]
    BY <1>8
  <2>2. fact \in Facts BY <1>2, OutcomeFacts DEF Facts
  <2>3. fact \in Conclusive \cup {Unknown} BY <1>2, OutcomeFacts
  <2>4. fact # NoFact BY <1>5, <2>2, <2>3, Kinds DEF Unknown
  <2> DEFINE prov == [provider[r] EXCEPT ![n] = fact]
  <2>5. provider[r] \in Truths BY <1>2 DEF Local, Fields
  <2>6. provider' = [provider EXCEPT ![r] = prov] BY <2>1
  <2>7. prov \in Truths /\ prov[n] = fact
        /\ \A a \in Attempts : a # n => prov[a] = provider[r][a]
    BY <1>4, <2>2, <2>5 DEF Truths
  <2> HIDE DEF prov
  <2>8. Traced(record[r], prov)
    <3>1. Honest(record[r].attempts[n], prov[n])
      <4>1. Honest(record[r].attempts[n], provider[r][n]) BY <1>2, <1>3 DEF Local, Traced
      <4>2. NoFact # NotExecuted /\ NoFact # Unknown BY DEF NoFact, NotExecuted, Unknown
      <4> QED BY <1>3, <1>5, <4>1, <4>2 DEF Honest, Effective
    <3>2. \A a \in Attempts : prov[a].kind \in {"SUCCEEDED", "UNKNOWN"} => a = n
      BY <1>2, <2>7 DEF Local, Traced
    <3>3. \A a \in Attempts : a > n => prov[a] = NoFact
      BY <1>2, <1>4, <2>7 DEF Local, Traced, Attempts
    <3> QED BY <1>2, <3>1, <3>2, <3>3 DEF Local, Traced
  <2>9. Charged(record[r], usage[r], prov)
    BY <1>2, <1>3, <1>5, <2>7 DEF Local, Charged
  <2>10. Fits(record[r], usage[r], engine[r], prov, cl(fact))
    BY <1>2, <1>3, <1>6, <2>2, <2>4, <2>7 DEF Fits, Executing
  <2> HIDE DEF IInv
  <2> QED BY <1>1, <1>6, <2>1, <2>2, <2>6, <2>7, <2>8, <2>9, <2>10, ProviderOnly
<1>9. \/ call' = [call EXCEPT ![r] = cl(Failure("TERMINAL"))] /\ UNCHANGED provider
      \/ \E fact \in Outcomes(today) \cup {Unknown} :
           /\ provider' = [provider EXCEPT ![r][n] = fact]
           /\ call' = [call EXCEPT ![r] = cl(fact)]
  <2>1. CASE Attempt(r).maximum = 0 \/ Attempt(r).maximum > Remaining(today)
    <3>1. call' = [call EXCEPT ![r].pc = "returned", ![r].fact = Failure("TERMINAL")]
          /\ UNCHANGED provider
      BY <2>1 DEF Execute
    <3> HIDE DEF IInv
    <3> QED BY <3>1 DEF cl
  <2>2. CASE ~(Attempt(r).maximum = 0 \/ Attempt(r).maximum > Remaining(today))
    <3>1. PICK fact \in Outcomes(today) \cup {Unknown} :
            /\ provider' = [provider EXCEPT ![r][n] = fact]
            /\ call' = [call EXCEPT ![r].pc = "returned", ![r].fact = fact]
      BY <2>2 DEF Execute
    <3>2. call' = [call EXCEPT ![r] = cl(fact)] BY <3>1 DEF cl
    <3> HIDE DEF IInv
    <3> QED BY <3>1, <3>2
  <2> QED BY <2>1, <2>2
<1> HIDE DEF IInv
<1> QED BY <1>7, <1>8, <1>9

\* An attempt the provider holds open is the last, and nothing was concluded from it.
LEMMA DecideStep ==
  ASSUME IInv, NEW r \in Requests, NEW a \in Attempts, Decide(r, a)
  PROVE  IInv'
<1> DEFINE n == Dispatched(r)
<1>1. /\ UNCHANGED besideProvider /\ today' \in 0..MaxDay
      /\ call' = [call EXCEPT ![r] = call[r]] /\ provider[r][a] = Unknown
  BY Now, Same DEF Decide, besideProvider
<1>2. /\ Local(record[r], usage[r], engine[r], provider[r], call[r])
      /\ record[r] \in Records /\ call[r] \in Calls /\ n \in Nat /\ today \in 0..MaxDay
      /\ n = Len(record[r].attempts)
  BY Now
<1>3. PICK truth \in Outcomes(today) \cup {NoFact} :
        provider' = [provider EXCEPT ![r][a] = truth]
  BY DEF Decide
<1>4. truth \in Facts BY <1>2, OutcomeFacts DEF Facts
<1>5. Unknown.kind = "UNKNOWN" /\ Unknown # NoFact BY DEF Unknown, NoFact
<1>6. a = n /\ n > 0 BY <1>1, <1>2, <1>5 DEF Local, Traced, Attempts
<1> DEFINE prov == [provider[r] EXCEPT ![n] = truth]
<1>7. provider[r] \in Truths BY <1>2 DEF Local, Fields
<1>8. provider' = [provider EXCEPT ![r] = prov] BY <1>3, <1>6
<1>9. prov \in Truths /\ prov[n] = truth
      /\ \A b \in Attempts : b # n => prov[b] = provider[r][b]
  BY <1>4, <1>6, <1>7 DEF Truths
<1> HIDE DEF prov
<1>10. Traced(record[r], prov)
  <2>1. Honest(record[r].attempts[n], prov[n])
    <3>1. Honest(record[r].attempts[n], Unknown)
      BY <1>1, <1>2, <1>6 DEF Local, Traced
    <3> QED BY <1>5, <3>1 DEF Honest
  <2>2. \A b \in Attempts : prov[b].kind \in {"SUCCEEDED", "UNKNOWN"} => b = n
    BY <1>2, <1>9 DEF Local, Traced
  <2>3. \A b \in Attempts : b > n => prov[b] = NoFact
    BY <1>2, <1>9 DEF Local, Traced, Attempts
  <2> QED BY <1>2, <2>1, <2>2, <2>3 DEF Local, Traced
<1>11. Charged(record[r], usage[r], prov)
  <2>1. usage[r] # NoUsage => usage[r].attempt # n
    BY <1>1, <1>2, <1>5, <1>6 DEF Local, Charged
  <2> QED BY <1>2, <1>9, <2>1 DEF Local, Charged
<1>12. Fits(record[r], usage[r], engine[r], prov, call[r])
  BY <1>1, <1>2, <1>5, <1>6 DEF Local, Fits, Executing
<1> HIDE DEF IInv
<1> QED BY <1>1, <1>2, <1>8, <1>9, <1>10, <1>11, <1>12, ProviderOnly

LEMMA NextDayStep ==
  ASSUME IInv, NextDay
  PROVE  IInv'
<1>1. UNCHANGED <<record, usage, engine, provider, call, losses>> /\ today' \in 0..MaxDay
  BY ModelAssumption DEF NextDay, IInv, TypeOK
<1>2. TypeOK' BY <1>1 DEF IInv, TypeOK
<1>3. \A r \in Requests : Local(record'[r], usage'[r], engine'[r], provider'[r], call'[r])
  BY <1>1 DEF IInv
<1> QED BY <1>2, <1>3 DEF IInv

-----------------------------------------------------------------------------
(* The theorems.                                                           *)

LEMMA InitInv ==
  ASSUME Init
  PROVE  IInv
<1>1. NoUsage \in Usages BY ModelAssumption DEF NoUsage, Usages
<1>2. TypeOK
  <2>1. Rest \in Calls BY RestFits
  <2>2. record \in [Requests -> Records] BY DEF Init, Records
  <2>3. engine \in [Requests -> Engines] BY DEF Init, Engines
  <2>4. provider \in [Requests -> Truths] BY DEF Init, Truths, Facts
  <2>5. today \in 0..MaxDay /\ losses \in 0..MaxLosses BY ModelAssumption DEF Init
  <2> QED BY <1>1, <2>1, <2>2, <2>3, <2>4, <2>5
       DEF Init, TypeOK, Engines, Truths, Calls, Facts
<1>3. ASSUME NEW r \in Requests
      PROVE  Local(record[r], usage[r], engine[r], provider[r], call[r])
  <2>1. Fields(record[r], usage[r], engine[r], provider[r], call[r])
    BY <1>2 DEF TypeOK, Fields, Engines, Truths, Calls, Facts
  <2>2. /\ record[r].attempts = <<>> /\ record[r].results = <<>> /\ record[r].delivered = {}
        /\ ~(record[r].completed = TRUE) /\ engine[r].accepted = <<>>
        /\ ~(engine[r].done = TRUE) /\ call[r] = Rest /\ usage[r] = NoUsage
        /\ \A a \in Attempts : provider[r][a] = NoFact
    BY DEF Init
  <2>3. Traced(record[r], provider[r])
    BY <2>2, ModelAssumption DEF Traced, NoFact
  <2>4. Charged(record[r], usage[r], provider[r]) BY <2>2 DEF Charged
  <2>5. ~SucceededIn(engine[r].accepted) BY <2>2 DEF SucceededIn
  <2>6. Followed(record[r], engine[r]) BY <2>2, <2>5 DEF Followed
  <2> QED BY <2>1, <2>2, <2>3, <2>4, <2>6, RestFits DEF Local
<1> QED BY <1>2, <1>3 DEF IInv

\* What a step is, and what it leaves.
LEMMA NextInv ==
  ASSUME IInv, [Next]_vars
  PROVE  IInv'
<1> HIDE DEF IInv
<1>1. ASSUME NEW r \in Requests, Submit(r) \/ Recover(r) \/ Retry(r) PROVE IInv'
  BY <1>1, SubmitStep, RecoverStep
<1>2. ASSUME NEW r \in Requests, Step(r) PROVE IInv'
  <2>1. CASE MarkCompleted(r) BY <2>1, MarkCompletedStep
  <2>2. CASE Reserve(r) BY <2>2, ReserveStep
  <2>3. CASE Redeliver(r) BY <2>3, RedeliverStep
  <2>4. CASE QueryDispatched(r) BY <2>4, QueryDispatchedStep
  <2>5. CASE QueryAmbiguous(r) BY <2>5, QueryAmbiguousStep
  <2>6. CASE Classify(r) BY <2>6, ClassifyStep
  <2>7. CASE Conclude(r)
    <3>1. Ends(r) /\ UNCHANGED kept /\ today' \in 0..MaxDay /\ losses' \in 0..MaxLosses
      BY <2>7, Now DEF Conclude, world, kept
    <3> QED BY <3>1, EndStep
  <2>8. CASE Dispatch(r) BY <2>8, DispatchStep
  <2>9. CASE Execute(r) BY <2>9, ExecuteStep
  <2>10. CASE PersistFact(r) BY <2>10, PersistFactStep
  <2>11. CASE Account(r) BY <2>11, AccountStep
  <2>12. CASE Prepare(r) BY <2>12, PrepareStep
  <2>13. CASE Deliver(r) BY <2>13, DeliverStep
  <2>14. CASE Finish(r) BY <2>14, FinishStep
  <2>15. CASE Checkpoint(r) BY <2>15, CheckpointStep
  <2> QED BY <1>2, <2>1, <2>2, <2>3, <2>4, <2>5, <2>6, <2>7, <2>8, <2>9, <2>10, <2>11,
             <2>12, <2>13, <2>14, <2>15 DEF Step
<1>3. ASSUME NEW r \in Requests, Lose(r) PROVE IInv'
  <2>1. Ends(r) /\ UNCHANGED kept /\ today' \in 0..MaxDay BY <1>3, Now DEF Lose, kept
  <2>2. losses' \in 0..MaxLosses BY <1>3, Now, ModelAssumption DEF Lose
  <2> QED BY <2>1, <2>2, EndStep
<1>4. ASSUME NEW r \in Requests, NEW a \in Attempts, Decide(r, a) PROVE IInv'
  BY <1>4, DecideStep
<1>5. CASE NextDay BY <1>5, NextDayStep
<1>6. CASE UNCHANGED vars
  <2>1. /\ UNCHANGED <<record, usage, engine, provider, call, today, losses>> BY <1>6 DEF vars
  <2> QED BY <2>1 DEF IInv, TypeOK
<1>7. ASSUME NEW r \in Requests, Refuse(r) PROVE IInv'
  <2>1. Ends(r) /\ UNCHANGED kept /\ today' \in 0..MaxDay /\ losses' \in 0..MaxLosses
    BY <1>7, Now DEF Refuse, world, kept
  <2> QED BY <2>1, EndStep
<1> QED BY <1>1, <1>2, <1>3, <1>4, <1>5, <1>6, <1>7 DEF Next

\* The inductive invariant: the ledger of every request says what became of it, and the engine
\* is at most one result behind.
THEOREM Invariance == Spec => []IInv
<1>1. Init => IInv BY InitInv
<1>2. IInv /\ [Next]_vars => IInv' BY NextInv
<1> QED BY <1>1, <1>2, PTL DEF Spec

\* Every step of ModelCapabilityService keeps the types of the ledger's records.
THEOREM TypeCorrect == Spec => []TypeOK
<1>1. IInv => TypeOK BY DEF IInv
<1> QED BY <1>1, Invariance, PTL

\* No attempt follows one that succeeded or may yet succeed, however often a request is sent,
\* recovered or retried and wherever its calls are lost.
THEOREM RequestsAreExecutedOnce == Spec => []ExecutedOnce
<1>1. IInv => ExecutedOnce
  <2> SUFFICES ASSUME IInv, NEW r \in Requests, NEW a \in Attempts,
                      provider[r][a].kind \in {"SUCCEEDED", "UNKNOWN"}
               PROVE  Dispatched(r) = a
    BY DEF ExecutedOnce
  <2>1. Traced(record[r], provider[r]) /\ Dispatched(r) = Len(record[r].attempts)
    BY Now DEF Local
  <2> QED BY <2>1 DEF Traced
<1> QED BY <1>1, Invariance, PTL

\* The ledger never notes a delivery or a completion that the engine does not have, and the
\* engine has the results of the ledger in their order.
THEOREM EngineAndLedgerAgree == Spec => []EngineFollowsLedger
<1>1. IInv => EngineFollowsLedger
  <2> SUFFICES ASSUME IInv, NEW r \in Requests
               PROVE  /\ Len(engine[r].accepted) <= Len(record[r].results)
                      /\ \A k \in 1..Len(engine[r].accepted) :
                           engine[r].accepted[k] = record[r].results[k]
                      /\ record[r].delivered \subseteq 1..Len(engine[r].accepted)
                      /\ record[r].completed => engine[r].done
                      /\ engine[r].done => Succeeded(r)
    BY DEF EngineFollowsLedger
  <2>1. /\ Followed(record[r], engine[r]) /\ record[r] \in Records /\ engine[r] \in Engines
        /\ Succeeded(r) <=> SucceededIn(engine[r].accepted)
    BY Now DEF Local
  <2>2. record[r].completed \in BOOLEAN /\ engine[r].done \in BOOLEAN
    BY <2>1 DEF Records, Engines
  <2> QED BY <2>1, <2>2 DEF Followed
<1> QED BY <1>1, Invariance, PTL

\* What is accounted was executed, and what the engine accepts as a success is accounted.
THEOREM SuccessesAreAccounted == Spec => []SuccessIsAccounted
<1>1. IInv => SuccessIsAccounted
  <2> SUFFICES ASSUME IInv, NEW r \in Requests
               PROVE  /\ usage[r] # NoUsage =>
                           provider[r][usage[r].attempt] =
                             [kind |-> "SUCCEEDED", tokens |-> usage[r].tokens, day |-> usage[r].day]
                      /\ \A a \in Attempts :
                           [attempt |-> a, status |-> "SUCCEEDED"] \in Accepted(r) =>
                             usage[r].attempt = a
    BY DEF SuccessIsAccounted
  <2>1. /\ Followed(record[r], engine[r]) /\ Charged(record[r], usage[r], provider[r])
        /\ engine[r].accepted \in Seq(Results) /\ record[r].results \in Seq(Results)
    BY Now DEF Local, Engines, Records
  <2>2. ASSUME NEW a \in Attempts, [attempt |-> a, status |-> "SUCCEEDED"] \in Accepted(r)
        PROVE  usage[r].attempt = a
    <3>1. PICK k \in 1..Len(engine[r].accepted) :
            engine[r].accepted[k] = [attempt |-> a, status |-> "SUCCEEDED"]
      BY <2>1, <2>2 DEF Accepted, Range
    <3>2. k \in 1..Len(record[r].results)
          /\ record[r].results[k] = [attempt |-> a, status |-> "SUCCEEDED"]
      BY <2>1, <3>1 DEF Followed
    <3> QED BY <2>1, <3>2 DEF Charged
  <2> QED BY <2>1, <2>2 DEF Charged
<1> QED BY <1>1, Invariance, PTL
=============================================================================
