------------------------- MODULE InteractionJournal -------------------------
(***************************************************************************)
(* ContinuityInteractionService over JsonIntegrationResultLedger: a        *)
(* message of the platform is answered by waking the subject, perceiving,  *)
(* thinking, deciding and, when the decision is approved, changing the     *)
(* subject's state.  Each of these has a store of its own, and the journal *)
(* of operations records how far a request has come, so that a request     *)
(* that is sent again goes on where the process stopped.                   *)
(* The server is serial: one call at a time, each of whose steps is one    *)
(* durable write, and the process may stop between any two.  In the        *)
(* capability mode thinking waits for results that the platform delivers,  *)
(* late, twice or in any order.  Not modelled: the optional continuity     *)
(* core, the binding (it is fixed) and recovery of records older than the  *)
(* journal.                                                                *)
(***************************************************************************)
EXTENDS Integers, Sequences, Functions

CONSTANTS
  Requests,
  ResultIds,   \* of capability results
  Elsewhere,   \* any other writer of the subject
  MaxRevision  \* bound: revisions other writers move the subject to

ASSUME JournalAssumption == Elsewhere \notin Requests /\ MaxRevision \in Nat

VARIABLES
  mode,      \* how this engine thinks
  subject,   \* who made each update of the subject, and whether it is active
  op,        \* the operation journal
  done,      \* the completed results
  wake,      \* the wake session of each request
  think,     \* the think session of each request
  asked,     \* the requests with a capability request
  attempts,  \* the capability results that were accepted
  call       \* the call being served, or the last one and its answer

vars == <<mode, subject, op, done, wake, think, asked, attempts, call>>

-----------------------------------------------------------------------------
(* The records.                                                            *)

NoRevision == -1

StageRank ==
  [NONE |-> 0, RESERVED |-> 1, WAITING_CAPABILITY |-> 2, DOMAIN_COMPLETED |-> 3,
   EVOLUTION_COMMITTED |-> 4, COMPLETED |-> 5]

ProgressRank ==
  [NONE |-> 0, PREPARED |-> 1, WAKE_COMPLETED |-> 2, PERCEPTION_COMPLETED |-> 3,
   THINKING_COMPLETED |-> 4, ACTION_COMPLETED |-> 5]

\* FAILED_RETRYABLE and UNKNOWN leave a request open; CANCELLED and EXPIRED close it as
\* FAILED_TERMINAL does.
ResultStatus == {"RETRYABLE", "SUCCEEDED", "TERMINAL"}

Results == [id : ResultIds, status : ResultStatus]

Closing(result) == result.status \in {"SUCCEEDED", "TERMINAL"}

Unasked == [id |-> "", status |-> "NONE"]

Proposed == [id |-> "", status |-> "PROPOSED"]

NoOperation ==
  [stage |-> "NONE", body |-> NoRevision, input |-> NoRevision, progress |-> "NONE",
   woken |-> NoRevision, capability |-> Unasked, action |-> "NONE", domain |-> "NONE",
   evolution |-> NoRevision]

NoSession == [status |-> "NONE", revision |-> NoRevision]

NoThought == [status |-> "NONE", mutates |-> FALSE, update |-> NoRevision, provider |-> 0]

NoAnswer == [before |-> NoRevision, after |-> NoRevision, update |-> NoRevision]

Bodies == 0..(MaxRevision + 1)

NoCall == [pc |-> "idle", req |-> Elsewhere, kind |-> "none", result |-> Unasked, answer |-> "none"]

Calls(kind, r, result) ==
  [pc |-> "run", req |-> r, kind |-> kind, result |-> result, answer |-> "none"]

-----------------------------------------------------------------------------
(* What the stores say.                                                    *)

Revision == Len(subject.updates)

\* The update a request made, found by the identity its event must have.
UpdatesBy(r) == {n \in DOMAIN subject.updates : subject.updates[n] = r}

Latest(r) == IF attempts[r] = << >> THEN Proposed ELSE attempts[r][Len(attempts[r])]

\* What an operation record may say at all.
WellFormed(o) ==
  /\ o.woken \in {NoRevision, o.input}
  /\ (o.woken = NoRevision) = (ProgressRank[o.progress] <= ProgressRank.PREPARED)
  /\ (o.action # "NONE") = (o.progress = "ACTION_COMPLETED")
  /\ IF StageRank[o.stage] <= StageRank.WAITING_CAPABILITY
       THEN o.domain = "NONE" /\ o.evolution = NoRevision
       ELSE o.domain # "NONE"
  /\ o.stage = "WAITING_CAPABILITY" =>
       /\ o.capability # Unasked
       /\ ProgressRank[o.progress] >= ProgressRank.PERCEPTION_COMPLETED
  /\ o.evolution # NoRevision => o.domain = "APPROVED" /\ o.evolution = o.input + 1
  /\ o.stage = "EVOLUTION_COMMITTED" => o.evolution # NoRevision
  /\ o.domain # "NONE" => o.progress = "ACTION_COMPLETED"

\* What the journal lets a record be replaced by.
MayFollow(old, new) ==
  /\ StageRank[old.stage] <= StageRank[new.stage]
  /\ ProgressRank[old.progress] <= ProgressRank[new.progress]
  /\ old.domain # "NONE" => new.domain = old.domain
  /\ old.action # "NONE" => new.action = old.action
  /\ old.woken # NoRevision => new.woken = old.woken
  /\ old.evolution # NoRevision => new.evolution = old.evolution
  /\ old.capability # Unasked => new.capability # Unasked
  /\ Closing(old.capability) => new.capability = old.capability

-----------------------------------------------------------------------------
(* Steps of a call.                                                        *)

At(r, pc) == call.req = r /\ call.pc = pc

Goes(pc) == [call EXCEPT !.pc = pc]

Ends(answer) == [call EXCEPT !.pc = "idle", !.answer = answer]

\* A journal write that is refused is a fault of the call.
Save(r, new, next) ==
  LET saved == new.stage # "NONE" /\ WellFormed(new) /\ MayFollow(op[r], new)
  IN  /\ op' = IF saved THEN [op EXCEPT ![r] = new] ELSE op
      /\ call' = IF saved THEN next ELSE Ends("FAULT")

Fault == call' = Ends("FAULT") /\ UNCHANGED op

Stores == <<mode, subject, done, wake, think, asked, attempts>>

-----------------------------------------------------------------------------
(* A call begins.                                                          *)

\* A request that was answered is answered again; a mark that was not set is set now.
Replay(r, begun) ==
  /\ op' = [op EXCEPT ![r].stage = "COMPLETED"]
  /\ call' = [begun EXCEPT !.pc = "idle", !.answer = "COMPLETED"]

Reserve(r, body, begun) ==
  IF ~ subject.active
    THEN call' = [begun EXCEPT !.pc = "idle", !.answer = "FAULT"] /\ UNCHANGED op
    ELSE IF body # Revision
      THEN call' = [begun EXCEPT !.pc = "idle", !.answer = "REVISION_CONFLICT"] /\ UNCHANGED op
      ELSE /\ op' = [op EXCEPT ![r] = [NoOperation EXCEPT !.stage = "RESERVED", !.body = body,
                                                          !.input = Revision]]
           /\ call' = begun

\* A request is sent: for the first time, again, or as another one under the same identity.
\* Its body contains the revision the platform expects, and nothing else that matters here.
Submit(r, body) ==
  LET begun == Calls("submit", r, Unasked)
  IN  /\ call.pc = "idle"
      /\ IF op[r].body \notin {NoRevision, body}
           THEN call' = [begun EXCEPT !.pc = "idle", !.answer = "IDEMPOTENCY_KEY_REUSED"] /\ UNCHANGED op
           ELSE IF done[r] # NoAnswer THEN Replay(r, begun)
           ELSE IF op[r].stage = "NONE" THEN Reserve(r, body, begun)
           ELSE call' = begun /\ UNCHANGED op
      /\ UNCHANGED Stores

\* The platform delivers a capability result, which is kept before anything else happens.
Deliver(r, result) ==
  LET begun == Calls("deliver", r, result)
      refused(answer) == call' = [begun EXCEPT !.pc = "idle", !.answer = answer] /\ UNCHANGED attempts
      known == {n \in DOMAIN attempts[r] : attempts[r][n].id = result.id}
  IN  /\ call.pc = "idle" /\ mode = "capability"
      /\ IF op[r].stage = "NONE" \/ r \notin asked THEN refused("NOT_FOUND")
         ELSE IF known # {}
           THEN IF \E n \in known : attempts[r][n] = result
                  THEN call' = [begun EXCEPT !.pc = "accepted"] /\ UNCHANGED attempts
                  ELSE refused("CONFLICT")
         ELSE IF Closing(Latest(r)) THEN refused("CONFLICT")
         ELSE /\ attempts' = [attempts EXCEPT ![r] = Append(@, result)]
              /\ call' = [begun EXCEPT !.pc = "accepted"]
      /\ UNCHANGED <<mode, subject, op, done, wake, think, asked>>

-----------------------------------------------------------------------------
(* Waking and perceiving.                                                  *)

Running(r) == At(r, "run") /\ op[r].domain = "NONE"

\* The identities of all that follows are fixed before any of it.
Prepare(r) ==
  /\ Running(r) /\ op[r].progress = "NONE"
  /\ Save(r, [op[r] EXCEPT !.progress = "PREPARED"], Goes("run"))
  /\ UNCHANGED Stores

BeginWake(r) ==
  /\ Running(r) /\ op[r].progress = "PREPARED" /\ wake[r] = NoSession
  /\ IF subject.active
       THEN /\ wake' = [wake EXCEPT ![r].status = "RUNNING"]
            /\ call' = Goes("waking") /\ UNCHANGED op
       ELSE Fault /\ UNCHANGED wake
  /\ UNCHANGED <<mode, subject, done, think, asked, attempts>>

\* The wake reads the subject as it is now, or fails and is logged as failed.
EndWake(r) ==
  /\ At(r, "waking")
  /\ \/ /\ wake' = [wake EXCEPT ![r] = [status |-> "COMPLETED", revision |-> Revision]]
        /\ call' = Goes("run")
     \/ /\ wake' = [wake EXCEPT ![r] = [status |-> "FAILED", revision |-> Revision]]
        /\ call' = Ends("FAULT")
  /\ UNCHANGED <<mode, subject, op, done, think, asked, attempts>>

\* A wake that was completed is taken over, now or by a later call; any other ends the call.
CheckpointWake(r) ==
  /\ Running(r) /\ op[r].progress = "PREPARED" /\ wake[r] # NoSession
  /\ IF wake[r].status = "COMPLETED"
       THEN Save(r, [op[r] EXCEPT !.progress = "WAKE_COMPLETED", !.woken = wake[r].revision], Goes("run"))
       ELSE Fault
  /\ UNCHANGED Stores

\* Perception is a function of the wake's context.
Perceive(r) ==
  /\ Running(r) /\ op[r].progress = "WAKE_COMPLETED"
  /\ Save(r, [op[r] EXCEPT !.progress = "PERCEPTION_COMPLETED"], Goes("run"))
  /\ UNCHANGED Stores

-----------------------------------------------------------------------------
(* Thinking in the process.                                                *)

Perceived(r) == ProgressRank[op[r].progress] >= ProgressRank.PERCEPTION_COMPLETED

\* Mutant: a session left running is begun again.
BeginThinkingAgain(r) ==
  /\ Running(r) /\ mode = "deterministic" /\ Perceived(r) /\ think[r].status \in {"NONE", "RUNNING"}
  /\ think' = [think EXCEPT ![r].status = "RUNNING"]
  /\ call' = Goes("thinking")
  /\ UNCHANGED <<mode, subject, op, done, wake, asked, attempts>>

BeginThinking(r) ==
  /\ Running(r) /\ mode = "deterministic" /\ Perceived(r) /\ think[r] = NoThought
  /\ IF subject.active
       THEN /\ think' = [think EXCEPT ![r].status = "RUNNING"]
            /\ call' = Goes("thinking") /\ UNCHANGED op
       ELSE Fault /\ UNCHANGED think
  /\ UNCHANGED <<mode, subject, done, wake, asked, attempts>>

\* The provider is called, unless the budget is refused or leaves nothing to think with.
CallProvider(r) ==
  /\ At(r, "thinking")
  /\ think' = [think EXCEPT ![r].provider = @ + 1]
  /\ call' = Goes("thought")
  /\ UNCHANGED <<mode, subject, op, done, wake, asked, attempts>>

\* What came of it is kept: a result that may want to change the subject, one that waits, or
\* a failure.
EndThinking(r) ==
  /\ call.req = r /\ call.pc \in {"thinking", "thought"}
  /\ \/ \E mutates \in IF call.pc = "thought" THEN BOOLEAN ELSE {FALSE} :
          /\ think' = [think EXCEPT ![r].status = "COMPLETED", ![r].mutates = mutates]
          /\ call' = Goes("run")
     \/ /\ think' = [think EXCEPT ![r].status = "FAILED"]
        /\ call' = Ends("FAULT")
  /\ UNCHANGED <<mode, subject, op, done, wake, asked, attempts>>

-----------------------------------------------------------------------------
(* Thinking that waits for a capability.                                   *)

Ask(r) ==
  /\ Running(r) /\ mode = "capability" /\ Perceived(r) /\ r \notin asked
  /\ asked' = asked \cup {r}
  /\ UNCHANGED <<mode, subject, op, done, wake, think, attempts, call>>

\* Needs an active subject and a budget: without one the call ends, and nothing was written.
BeginWait(r) ==
  /\ (Running(r) /\ r \in asked) \/ At(r, "resume")
  /\ think[r] = NoThought
  /\ IF subject.active
       THEN \/ /\ think' = [think EXCEPT ![r].status = "WAITING_CAPABILITY"]
               /\ UNCHANGED call
            \/ /\ call' = Ends("NO_BUDGET")
               /\ UNCHANGED think
       ELSE call' = Ends("FAULT") /\ UNCHANGED think
  /\ UNCHANGED <<mode, subject, op, done, wake, asked, attempts>>

\* What the platform is told, or how the call goes on, when a result stands like this.
AfterResult(result) ==
  IF result.status = "SUCCEEDED" THEN Goes("resume")
  ELSE Ends(IF result.status = "TERMINAL" THEN "CAPABILITY_FAILED" ELSE "CAPABILITY_REQUIRED")

Waits(r, result) ==
  Save(r, [op[r] EXCEPT !.stage = "WAITING_CAPABILITY", !.capability = result], AfterResult(result))

\* A submission brings the journal up to the last result that was accepted.
CheckpointCapability(r) ==
  /\ Running(r) /\ mode = "capability" /\ r \in asked /\ think[r] # NoThought
  /\ IF op[r].capability # Latest(r) \/ op[r].stage = "RESERVED"
       THEN Waits(r, Latest(r))
       ELSE call' = AfterResult(Latest(r)) /\ UNCHANGED op
  /\ UNCHANGED Stores

\* A delivery goes on with the result it brought.
TakeResult(r) ==
  /\ At(r, "accepted")
  /\ IF done[r] # NoAnswer THEN Replay(r, call)
     ELSE IF op[r].domain # "NONE" THEN call' = Goes("run") /\ UNCHANGED op
     ELSE Waits(r, call.result)
  /\ UNCHANGED Stores

\* The session that waited is run again and completed with the result it waited for.
Resume(r) ==
  /\ At(r, "resume")
  /\ \/ /\ think[r].status = "WAITING_CAPABILITY"
        /\ think' = [think EXCEPT ![r].status = "RUNNING"]
     \/ /\ think[r].status = "RUNNING"
        /\ think' = [think EXCEPT ![r].status = "COMPLETED"]
  /\ UNCHANGED <<mode, subject, op, done, wake, asked, attempts, call>>

-----------------------------------------------------------------------------
(* After thinking.                                                         *)

\* The call has the thought: in the process it finds the session, a wait it resumes.
HasThought(r) ==
  \/ /\ At(r, "resume") /\ think[r].status = "COMPLETED"
  \/ /\ Running(r) /\ mode = "deterministic" /\ Perceived(r) /\ think[r].status = "COMPLETED"

\* A session that did not complete cannot be gone on with.
RefuseSession(r) ==
  /\ Running(r) /\ mode = "deterministic" /\ Perceived(r) /\ think[r].status \in {"RUNNING", "FAILED"}
  /\ Fault
  /\ UNCHANGED Stores

CheckpointThinking(r) ==
  /\ HasThought(r) /\ op[r].progress = "PERCEPTION_COMPLETED"
  /\ Save(r, [op[r] EXCEPT !.progress = "THINKING_COMPLETED"], call)
  /\ UNCHANGED Stores

\* Only a thought that wants to change the subject can be approved to do it.
Decide(r) ==
  /\ HasThought(r) /\ op[r].progress = "THINKING_COMPLETED"
  /\ \E action \in IF think[r].mutates THEN {"APPROVED", "DECLINED"} ELSE {"DECLINED"} :
       Save(r, [op[r] EXCEPT !.progress = "ACTION_COMPLETED", !.action = action], call)
  /\ UNCHANGED Stores

CompleteDomain(r) ==
  /\ HasThought(r) /\ op[r].progress = "ACTION_COMPLETED" /\ op[r].domain = "NONE"
  /\ Save(r, [op[r] EXCEPT !.stage = "DOMAIN_COMPLETED", !.domain = op[r].action], Goes("run"))
  /\ UNCHANGED Stores

-----------------------------------------------------------------------------
(* Evolution and the result.                                               *)

Finishing(r) == At(r, "run") /\ op[r].domain # "NONE"

Evolving(r) == Finishing(r) /\ op[r].domain = "APPROVED" /\ op[r].evolution = NoRevision

\* Mutant: what an earlier call did is not looked for.
EvolveAgain(r) ==
  /\ Evolving(r)
  /\ IF subject.active /\ Revision = op[r].input
       THEN subject' = [subject EXCEPT !.updates = Append(@, r)] /\ UNCHANGED <<op, call>>
       ELSE Fault /\ UNCHANGED subject
  /\ UNCHANGED <<mode, done, wake, think, asked, attempts>>

\* The subject is changed only if no earlier call did it, and only from the input revision.
Evolve(r) ==
  /\ Evolving(r) /\ UpdatesBy(r) = {}
  /\ IF subject.active /\ Revision = op[r].input
       THEN subject' = [subject EXCEPT !.updates = Append(@, r)] /\ UNCHANGED <<op, call>>
       ELSE Fault /\ UNCHANGED subject
  /\ UNCHANGED <<mode, done, wake, think, asked, attempts>>

AttachEvolution(r) ==
  /\ Evolving(r)
  /\ \E n \in UpdatesBy(r) : think[r].update # n /\ think' = [think EXCEPT ![r].update = n]
  /\ UNCHANGED <<mode, subject, op, done, wake, asked, attempts, call>>

\* Mutant: the journal is written before the think session knows of the update.
CheckpointEvolutionFirst(r) ==
  /\ Evolving(r)
  /\ \E n \in UpdatesBy(r) :
       Save(r, [op[r] EXCEPT !.stage = "EVOLUTION_COMMITTED", !.evolution = n], Goes("run"))
  /\ UNCHANGED Stores

CheckpointEvolution(r) ==
  /\ Evolving(r)
  /\ \E n \in UpdatesBy(r) :
       /\ think[r].update = n
       /\ Save(r, [op[r] EXCEPT !.stage = "EVOLUTION_COMMITTED", !.evolution = n], Goes("run"))
  /\ UNCHANGED Stores

\* The revision the result has to describe.
Output(o) == IF o.evolution = NoRevision THEN o.input ELSE o.evolution

\* Mutant: the result describes the subject as it is, whoever changed it.
SaveAnyResult(r) ==
  /\ Finishing(r) /\ ~ Evolving(r) /\ done[r] = NoAnswer
  /\ done' = [done EXCEPT ![r] = [before |-> op[r].input, after |-> Revision,
                                  update |-> op[r].evolution]]
  /\ UNCHANGED <<mode, subject, wake, think, asked, attempts, op, call>>

\* The result describes the subject as it is: one that moved on meanwhile cannot be described.
SaveResult(r) ==
  /\ Finishing(r) /\ ~ Evolving(r) /\ done[r] = NoAnswer
  /\ IF Revision = Output(op[r])
       THEN /\ done' = [done EXCEPT ![r] = [before |-> op[r].input, after |-> Revision,
                                            update |-> op[r].evolution]]
            /\ UNCHANGED <<op, call>>
       ELSE Fault /\ UNCHANGED done
  /\ UNCHANGED <<mode, subject, wake, think, asked, attempts>>

Close(r) ==
  /\ Finishing(r) /\ done[r] # NoAnswer
  /\ Save(r, [op[r] EXCEPT !.stage = "COMPLETED"], Ends("COMPLETED"))
  /\ UNCHANGED Stores

-----------------------------------------------------------------------------
(* Around the calls.                                                       *)

\* The process stops; what the call had in memory is gone.
Stop ==
  /\ call.pc # "idle"
  /\ call' = NoCall
  /\ UNCHANGED <<mode, subject, op, done, wake, think, asked, attempts>>

\* Another writer changes the subject, or suspends or resumes it.
ChangeElsewhere ==
  /\ Revision < MaxRevision
  /\ \E active \in BOOLEAN :
       subject' = [updates |-> Append(subject.updates, Elsewhere), active |-> active]
  /\ UNCHANGED <<mode, op, done, wake, think, asked, attempts, call>>

Init ==
  /\ mode \in {"deterministic", "capability"}
  /\ subject = [updates |-> << >>, active |-> TRUE]
  /\ op = [r \in Requests |-> NoOperation]
  /\ done = [r \in Requests |-> NoAnswer]
  /\ wake = [r \in Requests |-> NoSession]
  /\ think = [r \in Requests |-> NoThought]
  /\ asked = {}
  /\ attempts = [r \in Requests |-> << >>]
  /\ call = NoCall

Serve(r) ==
  \/ Prepare(r) \/ BeginWake(r) \/ EndWake(r) \/ CheckpointWake(r) \/ Perceive(r)
  \/ BeginThinking(r) \/ CallProvider(r) \/ EndThinking(r) \/ RefuseSession(r)
  \/ Ask(r) \/ BeginWait(r) \/ CheckpointCapability(r) \/ TakeResult(r) \/ Resume(r)
  \/ CheckpointThinking(r) \/ Decide(r) \/ CompleteDomain(r)
  \/ Evolve(r) \/ AttachEvolution(r) \/ CheckpointEvolution(r) \/ SaveResult(r) \/ Close(r)

Next ==
  \/ \E r \in Requests :
       \/ \E body \in Bodies : Submit(r, body)
       \/ \E result \in Results : Deliver(r, result)
       \/ Serve(r)
  \/ Stop
  \/ ChangeElsewhere

Spec == Init /\ [][Next]_vars

-----------------------------------------------------------------------------
(* Properties.                                                             *)

TypeOK ==
  /\ mode \in {"deterministic", "capability"}
  /\ subject \in [updates : Seq(Requests \cup {Elsewhere}), active : BOOLEAN]
  /\ DOMAIN op = Requests /\ DOMAIN done = Requests /\ DOMAIN wake = Requests
  /\ DOMAIN think = Requests /\ DOMAIN attempts = Requests
  /\ asked \subseteq Requests
  /\ call.req \in Requests \cup {Elsewhere}

\* What the journal says a request has done, the other stores have kept.
OnRecord(r) ==
  /\ op[r].stage # "NONE" => WellFormed(op[r])
  /\ op[r].woken # NoRevision => wake[r] = [status |-> "COMPLETED", revision |-> op[r].input]
  /\ ProgressRank[op[r].progress] >= ProgressRank.THINKING_COMPLETED => think[r].status = "COMPLETED"
  /\ op[r].evolution # NoRevision =>
       UpdatesBy(r) = {op[r].evolution} /\ think[r].update = op[r].evolution
  /\ op[r].stage = "COMPLETED" => done[r] # NoAnswer
  /\ think[r].update # NoRevision => UpdatesBy(r) = {think[r].update}
  /\ Closing(op[r].capability) => op[r].capability = Latest(r)

\* Whatever was written before the process stopped, and whatever else wrote the subject in
\* between, a journal that says WAKE_COMPLETED, THINKING_COMPLETED, EVOLUTION_COMMITTED or
\* COMPLETED has the session, the update or the result it speaks of in the store of that kind,
\* and a closed capability checkpoint is the last result that was accepted
\* (_restore_wake, _validate_completed_thinking, _complete_evolution, _build_result).
JournalFollows == TypeOK /\ \A r \in Requests : OnRecord(r)

\* A model is asked at most once for a request, however often it is sent again and wherever the
\* process stopped: a session that was begun is never begun again (handle_perception's find).
ThoughtOnce == \A r \in Requests : think[r].provider <= 1

\* What no later submission can get past: the sessions that did not complete, and a subject that
\* is not where the request left it.
Stuck(r) ==
  \/ ~ subject.active
  \/ wake[r].status \in {"RUNNING", "FAILED"}
  \/ think[r].status = "FAILED" \/ (think[r].status = "RUNNING" /\ mode = "deterministic")
  \/ Revision # op[r].input + (IF UpdatesBy(r) = {} THEN 0 ELSE 1)

\* A submission faults only for a reason that lies outside the journal: an inactive subject, a
\* session that was left running or failed, or a subject changed by someone else.  The service
\* and its ledger never disagree about what may be written next.
FaultsForAReason ==
  [][\A r \in Requests :
       call' # call /\ call'.req = r /\ call'.kind = "submit" /\ call'.answer = "FAULT" => Stuck(r)']_vars

\* Sent again, delivered twice, stopped anywhere: a request still changes the subject at most
\* once, from the revision it was admitted at, and has one answer with the subject's real
\* revisions (_submit, _complete_evolution, _build_result, save_completed).
Promise == INSTANCE Exchange WITH
  history <- subject.updates,
  admitted <- [r \in Requests |-> {op[r].input} \ {NoRevision}],
  answered <- [r \in Requests |-> IF done[r] = NoAnswer THEN {}
                                  ELSE {[before |-> done[r].before, after |-> done[r].after]}]

RefinesExchange == Promise!XSpec
=============================================================================
