-------------------------- MODULE ActionExecution ---------------------------
(***************************************************************************)
(* ActionPlanningService and ExecutionService over the capability ledger,  *)
(* the delivery outbox and the adapter of a world.  A planner reserves the *)
(* requests of a choice, then takes them one by one: it asks the adapter   *)
(* what became of the request, passes the gates, records a proposal,       *)
(* dispatches and records the result.  A dispatch holds the outbox lock    *)
(* from its last checks to the record of the receipt.  The ledger has no   *)
(* lock: every record is a load and a later write of the whole document.   *)
(* Owners cancel meanwhile, and every call may be refused, fail or die at  *)
(* every step.                                                             *)
(***************************************************************************)
EXTENDS Naturals, FiniteSets

CONSTANTS
  Requests,     \* the steps of all choices, one InternalActionRequest each
  Plans,        \* the choices: sets of requests
  Needs,        \* the dependencies of a step, within its choice
  Rank,         \* its place among the steps
  Original,     \* of each compensating request, the request it compensates
  Planners,     \* threads that run choices
  Owners,       \* threads that cancel
  MaxAttempts   \* WorldCapability.max_attempts of each request

Workers == Planners \cup Owners

ASSUME ExecutionAssumption ==
  /\ Plans \subseteq (SUBSET Requests) \ {{}} /\ Rank \in [Requests -> Nat]
  /\ Needs \in [Requests -> SUBSET Requests]
  /\ DOMAIN Original \subseteq Requests /\ Original \in [DOMAIN Original -> Requests]
  /\ MaxAttempts \in [Requests -> 1..3]
  /\ "none" \notin Workers \cup Requests

VARIABLES
  outbox,   \* the delivery entry of each request
  links,    \* compensating requests linked in the entry of their original
  due,      \* those of which a caller was answered that they may be linked
  ledger,   \* the reservation and the recorded attempts of each request
  facts,    \* the receipt the adapter keeps of each request
  effects,  \* how often the adapter carried it out
  expired,  \* choices whose lifetime is over
  lock,     \* the worker inside an outbox transaction
  job,      \* what each worker is doing
  told      \* the ends of each request that callers were told

vars == <<outbox, links, due, ledger, facts, effects, expired, lock, job, told>>

-----------------------------------------------------------------------------
(* The documents.                                                          *)

Receipts == {"SUCCEEDED", "FAILED_TERMINAL"}

Terminal == Receipts \cup {"EXPIRED"}

\* UNKNOWN with the reason CANCELLED, the owner's decision to stop, is CANCELLED here.
Results == Terminal \cup {"PROPOSED", "UNKNOWN", "CANCELLED"}

DeliveryStates == {"PENDING", "DISPATCHING", "UNKNOWN", "DELIVERED", "CANCELLED"}

NoEntry == [state |-> "none", attempts |-> 0]

\* The attempts of a request matter by their last, by the number of proposals
\* and by whether one is a stop.
Unreserved == [reserved |-> FALSE, last |-> "none", proposed |-> 0, stopped |-> FALSE]

Recorded(record, result) ==
  [record EXCEPT !.last = result,
                 !.proposed = IF result = "PROPOSED" THEN @ + 1 ELSE @,
                 !.stopped = @ \/ result = "CANCELLED"]

NoResults == [r \in Requests |-> "none"]

NoLedger == [r \in Requests |-> Unreserved]

Idle ==
  [pc |-> "idle", at |-> "none", plan |-> {}, retry |-> FALSE, todo |-> {},
   results |-> NoResults, seen |-> Unreserved, late |-> FALSE, result |-> "none",
   draft |-> NoLedger, back |-> "none"]

Init ==
  /\ outbox = [r \in Requests |-> NoEntry]
  /\ links = {} /\ due = {}
  /\ ledger = NoLedger
  /\ facts = [r \in Requests |-> "none"]
  /\ effects = [r \in Requests |-> 0]
  /\ expired = {}
  /\ lock = "none"
  /\ job = [w \in Workers |-> Idle]
  /\ told = [r \in Requests |-> {}]

IsFirst(r, S) == r \in S /\ \A s \in S \ {r} : Rank[r] < Rank[s]

-----------------------------------------------------------------------------
(* What the adapter may answer: the truth, or that it cannot tell.         *)

Facts(r) == {facts[r], "UNKNOWN"}

\* The same through ExecutionService.query: a request the ledger lost, or an entry
\* that says otherwise, is an error, which counts as not knowing.
Answers(r) ==
  {a \in Facts(r) :
     /\ ~ledger[r].reserved => a = "UNKNOWN"
     /\ outbox[r].state = "DELIVERED" => a # "none"
     /\ outbox[r].state = "CANCELLED" => a \notin Receipts}

\* An attempt in the ledger counts only while the adapter confirms it.
Confirmed(r, result) ==
  /\ result \in Receipts => result \in Answers(r)
  /\ result = "EXPIRED" => "none" \in Answers(r)

Lapsed(r) == \E p \in expired : r \in p

Bound(r) == r \in DOMAIN Original => r \in links /\ "SUCCEEDED" \in Answers(Original[r])

\* What current('execute') asks of the ledger and the choice; all other gates
\* may refuse at any time.
Current(r) == ~ledger[r].stopped /\ ~Lapsed(r)

Spent(r) == outbox[r].attempts >= MaxAttempts[r]

\* Mutant: an answer that leaves it open counts as not executed.
NotExecutedUnlessReceipt(answer) == answer \notin Receipts

NotExecuted(answer) == answer = "none"

\* Mutant: a dependency that was answered at all opens the step.
ReadyOnceTried(r, results) == \A d \in Needs[r] : results[d] # "none"

Ready(r, results) == \A d \in Needs[r] : results[d] = "SUCCEEDED"

\* Mutant: the attempt is not counted before the world is called.
CheckpointUncounted(entry) == [entry EXCEPT !.state = "DISPATCHING"]

Checkpoint(entry) == [entry EXCEPT !.state = "DISPATCHING", !.attempts = @ + 1]

\* Under the outbox lock nothing else writes the outbox.
Entered(r, state) == outbox' = [outbox EXCEPT ![r].state = state]

\* A planner goes on with the rest of the steps, or with the next phase of its run.
Onward(j, rest) ==
  IF rest # {} THEN [j EXCEPT !.todo = rest]
  ELSE [j EXCEPT !.todo = j.plan, !.pc = IF @ = "reserve" THEN "resume" ELSE "close"]

\* It is through with a step, or has a result to record.
Settled(j, r, result) ==
  Onward([j EXCEPT !.pc = "resume", !.results[r] = result, !.at = "none",
                   !.seen = Unreserved, !.late = FALSE, !.result = "none"],
         j.todo \ {r})

Resulting(j, result) ==
  [j EXCEPT !.pc = "accept", !.seen = Unreserved, !.late = FALSE, !.result = result]

documents == <<outbox, links, due, ledger, facts, effects, expired>>

-----------------------------------------------------------------------------
(* ActionPlanningService.run: reserve every request of the choice.         *)

BeginRun(w) ==
  /\ job[w].pc = "idle"
  /\ \E p \in Plans, again \in BOOLEAN :
       job' = [job EXCEPT ![w] =
                 [Idle EXCEPT !.pc = "reserve", !.plan = p, !.retry = again, !.todo = p]]
  /\ UNCHANGED <<documents, lock, told>>

\* The load of the ledger; the write of what was made of it comes later.
Reserve(w) ==
  /\ job[w].pc = "reserve"
  /\ \E r \in Requests :
       /\ IsFirst(r, job[w].todo)
       /\ LET next == Onward(job[w], job[w].todo \ {r})
          IN  job' = [job EXCEPT ![w] =
                        IF ledger[r].reserved THEN next
                        ELSE [next EXCEPT !.pc = "write", !.back = next.pc,
                                          !.draft = [ledger EXCEPT ![r].reserved = TRUE]]]
  /\ UNCHANGED <<documents, lock, told>>

\* The write replaces the whole ledger by what the worker made of its copy.
Write(w) ==
  /\ job[w].pc = "write"
  /\ ledger' = job[w].draft
  /\ job' = [job EXCEPT ![w].pc = job[w].back, ![w].draft = NoLedger, ![w].back = "none"]
  /\ UNCHANGED <<outbox, links, due, facts, effects, expired, lock, told>>

-----------------------------------------------------------------------------
(* _resume: one step of the choice, up to the dispatch.                    *)

Resume(w) ==
  /\ job[w].pc = "resume"
  /\ \E r \in Requests :
       /\ IsFirst(r, job[w].todo)
       /\ \/ /\ ~Ready(r, job[w].results)
             /\ job' = [job EXCEPT ![w] = Settled(@, r, "none")]
          \/ /\ Ready(r, job[w].results) /\ ledger[r].reserved
             /\ ledger[r].last \in Terminal /\ Confirmed(r, ledger[r].last)
             /\ job' = [job EXCEPT ![w] = Settled(@, r, ledger[r].last)]
          \/ /\ Ready(r, job[w].results) /\ ledger[r].reserved
             /\ ledger[r].last \notin Terminal
             /\ job' = [job EXCEPT ![w].pc = "ask", ![w].at = r, ![w].seen = ledger[r],
                                   ![w].late = Lapsed(r)]
  /\ UNCHANGED <<documents, lock, told>>

Ask(w) ==
  /\ job[w].pc = "ask"
  /\ LET r == job[w].at
     IN  \E a \in Answers(r) :
           job' = [job EXCEPT ![w] =
                     IF ~NotExecuted(a) THEN Resulting(@, a)
                     ELSE IF @.seen.last # "none" /\ ~@.retry THEN Settled(@, r, @.seen.last)
                     ELSE [@ EXCEPT !.pc = "gate"]]
  /\ UNCHANGED <<documents, lock, told>>

\* _gate, the preflight and the bound on proposals: any of them may refuse.
Gate(w) ==
  /\ job[w].pc = "gate"
  /\ LET r == job[w].at
     IN  \/ /\ job[w].late
            /\ job' = [job EXCEPT ![w] = Resulting(@, "EXPIRED")]
         \/ /\ ~job[w].late
            /\ job' = [job EXCEPT ![w] = Resulting(@, "UNKNOWN")]
         \/ /\ ~job[w].late /\ ledger[r].stopped
            /\ job' = [job EXCEPT ![w] = Resulting(@, "CANCELLED")]
         \/ /\ ~job[w].late /\ Current(r) /\ Bound(r)
            /\ job[w].seen.proposed < MaxAttempts[r]
            /\ job' = [job EXCEPT ![w] = Resulting(@, "PROPOSED")]
  /\ UNCHANGED <<documents, lock, told>>

\* accept_action_result: the evidence is checked, then the ledger is loaded.
Accept(w) ==
  /\ job[w].pc = "accept"
  /\ LET r == job[w].at
         result == job[w].result
     IN  /\ ledger[r].reserved /\ ledger[r].last \notin Terminal
         /\ Confirmed(r, result)
         /\ LET next == IF result = "PROPOSED" THEN [job[w] EXCEPT !.pc = "call", !.result = "none"]
                        ELSE Settled(job[w], r, result)
            IN  job' = [job EXCEPT ![w] =
                          [next EXCEPT !.pc = "write", !.back = next.pc,
                                       !.draft = [ledger EXCEPT ![r] = Recorded(@, result)]]]
  /\ UNCHANGED <<documents, lock, told>>

-----------------------------------------------------------------------------
(* ExecutionService.execute.                                               *)

\* The checks before the lock refuse no more than those under it and are left out but for
\* the receipt they may find; then the checkpoint comes before the world is called.
Call(w) ==
  /\ job[w].pc = "call"
  /\ LET r == job[w].at
     IN  \/ /\ \E a \in Answers(r) \cap Receipts : job' = [job EXCEPT ![w] = Resulting(@, a)]
            /\ UNCHANGED <<outbox, lock>>
         \/ /\ lock = "none" /\ outbox[r].state # "CANCELLED"
            /\ \E a \in Facts(r) \cap Receipts : job' = [job EXCEPT ![w] = Resulting(@, a)]
            /\ Entered(r, "DELIVERED")
            /\ UNCHANGED lock
         \/ /\ lock = "none" /\ outbox[r].state # "CANCELLED"
            /\ \E a \in Facts(r) : NotExecuted(a)
            /\ ~Spent(r) /\ Current(r) /\ Bound(r)
            /\ outbox' = [outbox EXCEPT ![r] = Checkpoint(@)]
            /\ lock' = w
            /\ job' = [job EXCEPT ![w].pc = "world"]
  /\ UNCHANGED <<links, due, ledger, facts, effects, expired, told>>

\* The world acts, or fails before it does.
World(w) ==
  /\ job[w].pc = "world"
  /\ LET r == job[w].at
     IN  \/ /\ \E o \in Receipts : facts' = [facts EXCEPT ![r] = o]
            /\ effects' = [effects EXCEPT ![r] = @ + 1]
         \/ UNCHANGED <<facts, effects>>
  /\ job' = [job EXCEPT ![w].pc = "answer"]
  /\ UNCHANGED <<outbox, links, due, ledger, expired, lock, told>>

\* Its answer arrives and is verified, or is lost.
Answer(w) ==
  /\ job[w].pc = "answer"
  /\ LET r == job[w].at
     IN  \/ /\ facts[r] # "none"
            /\ Entered(r, "DELIVERED")
            /\ job' = [job EXCEPT ![w] = Resulting(@, facts[r])]
         \/ /\ Entered(r, "UNKNOWN")
            /\ job' = [job EXCEPT ![w] = Resulting(@, "UNKNOWN")]
  /\ lock' = "none"
  /\ UNCHANGED <<links, due, ledger, facts, effects, expired, told>>

\* Any error of execute: a refusal, a busy lock, a save that failed.
Refused(w) ==
  /\ job[w].pc \in {"call", "world", "answer"}
  /\ job' = [job EXCEPT ![w] = Resulting(@, "UNKNOWN")]
  /\ lock' = IF lock = w THEN "none" ELSE lock
  /\ UNCHANGED <<documents, told>>

-----------------------------------------------------------------------------
(* The end of a run: collect, or retain_pending when it is incomplete.     *)

Completed(w) == \A r \in job[w].plan : job[w].results[r] = "SUCCEEDED"

Collect(w) ==
  /\ job[w].pc = "close" /\ Completed(w) /\ lock = "none"
  /\ \E r \in Requests :
       /\ IsFirst(r, job[w].todo)
       /\ "SUCCEEDED" \in Answers(r)
       /\ Entered(r, "DELIVERED")
       /\ job' = [job EXCEPT ![w].todo = @ \ {r}]
  /\ UNCHANGED <<links, due, ledger, facts, effects, expired, lock, told>>

\* A full outbox is passed over.
Retain(w) ==
  /\ job[w].pc = "close" /\ ~Completed(w) /\ lock = "none"
  /\ \E r \in Requests :
       /\ IsFirst(r, job[w].todo)
       /\ ledger[r].reserved
       /\ (outbox[r] = NoEntry /\ Entered(r, "PENDING")) \/ UNCHANGED outbox
       /\ job' = [job EXCEPT ![w].todo = @ \ {r}]
  /\ UNCHANGED <<links, due, ledger, facts, effects, expired, lock, told>>

\* The caller is told the results.
Return(w) ==
  /\ job[w].pc = "close" /\ job[w].todo = {}
  /\ told' = [r \in Requests |-> told[r] \cup ({job[w].results[r]} \cap Receipts)]
  /\ job' = [job EXCEPT ![w] = Idle]
  /\ UNCHANGED <<documents, lock>>

-----------------------------------------------------------------------------
(* cancel, alternative and compensation.                                   *)

BeginCancel(w) ==
  /\ job[w].pc = "idle"
  /\ \E r \in Requests :
       ledger[r].reserved /\ job' = [job EXCEPT ![w].pc = "stop", ![w].at = r]
  /\ UNCHANGED <<documents, lock, told>>

Stop(w) ==
  /\ job[w].pc = "stop" /\ lock = "none"
  /\ LET r == job[w].at
     IN  \/ /\ "SUCCEEDED" \in Facts(r)
            /\ told' = [told EXCEPT ![r] = @ \cup {"SUCCEEDED"}]
            /\ job' = [job EXCEPT ![w] = Idle]
            /\ UNCHANGED lock
         \/ /\ \E a \in Facts(r) : NotExecuted(a)
            /\ outbox[r].state # "DELIVERED"
            /\ ledger[r].reserved
            /\ lock' = w
            /\ \/ ledger[r].stopped /\ job' = [job EXCEPT ![w].pc = "stopped"]
               \/ /\ ~ledger[r].stopped /\ ledger[r].last \notin Terminal
                  /\ job' = [job EXCEPT
                       ![w].pc = "write", ![w].back = "stopped",
                       ![w].draft = [ledger EXCEPT ![r] = Recorded(@, "CANCELLED")]]
            /\ UNCHANGED told
  /\ UNCHANGED documents

\* cancel answers CANCELLED; an alternative (ABANDON, CHANGE_ROUTE) only its own kind.
Stopped(w) ==
  /\ job[w].pc = "stopped"
  /\ LET r == job[w].at
     IN  /\ Entered(r, "CANCELLED")
         /\ told' \in {told, [told EXCEPT ![r] = @ \cup {"CANCELLED"}]}
  /\ lock' = "none"
  /\ job' = [job EXCEPT ![w] = Idle]
  /\ UNCHANGED <<links, due, ledger, facts, effects, expired>>

\* The original succeeded, and the compensation could be executed.
AskOriginal(c) ==
  /\ "SUCCEEDED" \in Answers(Original[c])
  /\ ledger[c].reserved /\ Current(c)
  /\ due' = due \cup {c}
  /\ UNCHANGED <<outbox, links, ledger, facts, effects, expired, lock, job, told>>

\* It is linked later, in the entry of its original, whatever became of it since; an
\* alternative that stops nothing also makes an entry.
Compensate(c) ==
  /\ c \in due /\ lock = "none"
  /\ links' = links \cup {c}
  /\ IF outbox[Original[c]] = NoEntry THEN Entered(Original[c], "PENDING") ELSE UNCHANGED outbox
  /\ UNCHANGED <<due, ledger, facts, effects, expired, lock, job, told>>

Propose(r) ==
  /\ lock = "none" /\ ledger[r].reserved /\ outbox[r] = NoEntry
  /\ Entered(r, "PENDING")
  /\ UNCHANGED <<links, due, ledger, facts, effects, expired, lock, job, told>>

\* An error no handler catches, or the death of the process: the worker is gone and
\* what it held is free.
Abandon(w) ==
  /\ job[w].pc # "idle"
  /\ job' = [job EXCEPT ![w] = Idle]
  /\ lock' = IF lock = w THEN "none" ELSE lock
  /\ UNCHANGED <<documents, told>>

Expire(p) ==
  /\ expired' = expired \cup {p}
  /\ UNCHANGED <<outbox, links, due, ledger, facts, effects, lock, job, told>>

-----------------------------------------------------------------------------
Run(w) ==
  \/ BeginRun(w) \/ Reserve(w) \/ Write(w)
  \/ Resume(w) \/ Ask(w) \/ Gate(w) \/ Accept(w)
  \/ Call(w) \/ World(w) \/ Answer(w) \/ Refused(w)
  \/ Collect(w) \/ Retain(w) \/ Return(w) \/ Abandon(w)

Cancel(w) == BeginCancel(w) \/ Stop(w) \/ Write(w) \/ Stopped(w) \/ Abandon(w)

Next ==
  \/ \E w \in Planners : Run(w)
  \/ \E w \in Owners : Cancel(w)
  \/ \E c \in DOMAIN Original : AskOriginal(c) \/ Compensate(c)
  \/ \E r \in Requests : Propose(r)
  \/ \E p \in Plans : Expire(p)

Spec == Init /\ [][Next]_vars

-----------------------------------------------------------------------------
(* Properties.                                                             *)

Entry == [state : DeliveryStates \cup {"none"}, attempts : 0..3]

Record ==
  [reserved : BOOLEAN, last : Results \cup {"none"}, proposed : Nat, stopped : BOOLEAN]

Ledger == [Requests -> Record]

Steps == {"idle", "reserve", "write", "resume", "ask", "gate", "accept", "call", "world",
          "answer", "close", "stop", "stopped"}

Job ==
  [pc : Steps, at : Requests \cup {"none"}, plan : SUBSET Requests, retry : BOOLEAN,
   todo : SUBSET Requests, results : [Requests -> Results \cup {"none"}], seen : Record,
   late : BOOLEAN, result : Results \cup {"none"}, draft : Ledger,
   back : {"none", "reserve", "resume", "call", "close", "stopped"}]

\* The documents and jobs are well formed; no request is attempted more often than its
\* capability allows (execute, max_attempts), whatever failed or was forgotten between.
TypeOK ==
  /\ outbox \in [Requests -> Entry]
  /\ \A r \in Requests : outbox[r].attempts <= MaxAttempts[r]
  /\ links \subseteq DOMAIN Original /\ due \subseteq DOMAIN Original
  /\ ledger \in Ledger
  /\ facts \in [Requests -> Receipts \cup {"none"}]
  /\ effects \in [Requests -> Nat]
  /\ expired \subseteq Plans
  /\ lock \in Workers \cup {"none"}
  /\ job \in [Workers -> Job]
  /\ told \in [Requests -> SUBSET {"SUCCEEDED", "FAILED_TERMINAL", "CANCELLED"}]

\* Nothing happened in the world that the outbox does not show, even when the process died
\* before the answer: as many attempts are counted as effects, and the entry is neither
\* waiting nor cancelled (execute, its save before the call).
EffectsAreTraceable ==
  \A r \in Requests : effects[r] > 0 =>
    /\ effects[r] <= outbox[r].attempts
    /\ outbox[r].state \in {"DISPATCHING", "UNKNOWN", "DELIVERED"}

\* No step has its effect before what it depends on succeeded in the world, and no
\* compensation before its original did and was linked to it (run, _compensation_binding).
DependenciesFirst ==
  \A r \in Requests : effects[r] > 0 =>
    /\ \A d \in Needs[r] : facts[d] = "SUCCEEDED"
    /\ r \in DOMAIN Original => r \in links /\ facts[Original[r]] = "SUCCEEDED"

\* How a request ended, read off the adapter and the outbox.
Outcome(r) ==
  IF facts[r] # "none" THEN facts[r]
  ELSE IF outbox[r].state = "CANCELLED" THEN "CANCELLED" ELSE "open"

Effect == INSTANCE ActionEffect WITH
  outcome <- [r \in Requests |-> Outcome(r)], times <- effects

\* At most one effect each, none after a cancellation, and no caller is told but the truth:
\* retries, races and crashes of run, execute and cancel only delay what ActionEffect promises.
RefinesEffect == Effect!ESpec

\* A caller that was told CANCELLED finds the stop in the original ledger, which refuses any
\* later dispatch even without the outbox (docs 81_P17, on cancel).
StopIsRecorded ==
  \A r \in Requests : "CANCELLED" \in told[r] => ledger[r].stopped
=============================================================================
