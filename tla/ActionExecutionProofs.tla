----------------------- MODULE ActionExecutionProofs -----------------------
(***************************************************************************)
(* Proofs about ActionExecution.  The lock of the outbox makes a dispatch, *)
(* from its last checks to its receipt, and a cancellation exclude each    *)
(* other; what a planner believes of a step was confirmed by the adapter,  *)
(* whose receipts never change.  Nothing is said of the ledger beyond its  *)
(* type: the promises hold whatever its lost writes do to it.              *)
(***************************************************************************)
EXTENDS ActionExecution, TLAPS

\* A worker that holds the lock.
Locked(j) ==
  j.pc \in {"world", "answer", "stopped"} \/ (j.pc = "write" /\ j.back = "stopped")

\* A worker on its way to the dispatch of its request.
Pursuing(j) ==
  \/ j.pc \in {"ask", "gate", "accept", "call", "world", "answer"}
  \/ j.pc = "write" /\ j.back = "call"

\* Where a job stands determines what it has.
Placed(j) ==
  /\ j.pc = "write" => j.back # "none"
  /\ j.pc = "stop" \/ Locked(j) => j.at \in Requests
  /\ Pursuing(j) => j.at \in Requests /\ Ready(j.at, j.results)
  /\ j.seen.last \notin Receipts

\* What a planner believes is so.
Informed(j) == \A r \in Requests : j.results[r] \in Receipts => facts[r] = j.results[r]

\* What the lock protects.
Protected(j) ==
  /\ j.pc \in {"world", "answer"} =>
       outbox[j.at].state = "DISPATCHING" /\ outbox[j.at].attempts > 0
  /\ j.pc = "world" =>
       /\ facts[j.at] = "none"
       /\ j.at \in DOMAIN Original =>
            j.at \in links /\ facts[Original[j.at]] = "SUCCEEDED"
  /\ Locked(j) /\ j.pc \notin {"world", "answer"} =>
       facts[j.at] = "none" /\ outbox[j.at].state # "DELIVERED"

Sound(w, j) ==
  (Locked(j) => lock = w) /\ Placed(j) /\ Informed(j) /\ Protected(j)

\* The adapter and the outbox agree.
EntryInv == \A r \in Requests :
  /\ effects[r] = IF facts[r] = "none" THEN 0 ELSE 1
  /\ facts[r] # "none" => /\ outbox[r].state \in {"DISPATCHING", "UNKNOWN", "DELIVERED"}
                          /\ outbox[r].attempts > 0
  /\ outbox[r].state = "DELIVERED" => facts[r] # "none"

ToldInv == \A r \in Requests : told[r] \subseteq {Outcome(r)} \ {"open"}

IInv ==
  /\ TypeOK
  /\ \A w \in Workers : Sound(w, job[w])
  /\ EntryInv /\ DependenciesFirst /\ ToldInv

-----------------------------------------------------------------------------
(* Jobs.                                                                   *)

\* The helpers of the planner make jobs of jobs, and keep what a planner knows.
LEMMA OnwardType ==
  ASSUME NEW j \in Job, NEW rest \in SUBSET Requests
  PROVE  /\ Onward(j, rest) \in Job
         /\ Onward(j, rest).at = j.at /\ Onward(j, rest).results = j.results
         /\ Onward(j, rest).seen = j.seen
         /\ Onward(j, rest).pc \in {j.pc, "resume", "close"}
  BY ZenonT(60) DEF Onward, Job, Steps

LEMMA SettledType ==
  ASSUME NEW j \in Job, NEW r \in Requests, NEW result \in Results \cup {"none"}
  PROVE  /\ Settled(j, r, result) \in Job
         /\ Settled(j, r, result).results = [j.results EXCEPT ![r] = result]
         /\ Settled(j, r, result).seen = Unreserved
         /\ Settled(j, r, result).pc \in {"resume", "close"}
  <1> DEFINE
        k == [j EXCEPT !.pc = "resume", !.results[r] = result, !.at = "none",
                       !.seen = Unreserved, !.late = FALSE, !.result = "none"]
  <1>1. Unreserved \in Record
    BY DEF Unreserved, Record
  <1>2. k \in Job
    BY <1>1 DEF Job, Steps
  <1>3. /\ k.results = [j.results EXCEPT ![r] = result] /\ k.seen = Unreserved
        /\ k.pc = "resume"
    BY DEF Job
  <1>4. Settled(j, r, result) = Onward(k, j.todo \ {r})
    BY DEF Settled
  <1>5. j.todo \ {r} \in SUBSET Requests
    BY DEF Job
  <1> HIDE DEF k
  <1> QED
    BY <1>2, <1>3, <1>4, <1>5, OnwardType

LEMMA ResultingType ==
  ASSUME NEW j \in Job, NEW result \in Results \cup {"none"}
  PROVE  /\ Resulting(j, result) \in Job
         /\ Resulting(j, result).at = j.at /\ Resulting(j, result).results = j.results
         /\ Resulting(j, result).seen = Unreserved
         /\ Resulting(j, result).pc = "accept"
  <1>1. Unreserved \in Record
    BY DEF Unreserved, Record
  <1> QED
    BY <1>1 DEF Resulting, Job, Steps

LEMMA IdleType ==
  /\ Idle \in Job /\ Idle.pc = "idle" /\ Idle.seen = Unreserved
  /\ \A r \in Requests : Idle.results[r] = "none"
  /\ NoLedger \in Ledger
  <1>1. Unreserved \in Record /\ NoLedger \in Ledger /\ NoResults \in [Requests -> {"none"}]
    BY DEF Unreserved, Record, NoLedger, Ledger, NoResults
  <1> QED
    BY <1>1 DEF Idle, Job, Steps, NoResults

LEMMA RecordedType ==
  ASSUME NEW record \in Record, NEW result \in Results
  PROVE  Recorded(record, result) \in Record
  <1>1. (record.stopped \/ result = "CANCELLED") \in BOOLEAN
    OBVIOUS
  <1>2. (IF result = "PROPOSED" THEN record.proposed + 1 ELSE record.proposed) \in Nat
    BY DEF Record
  <1>3. result \in Results \cup {"none"}
    OBVIOUS
  <1> QED
    BY <1>1, <1>2, <1>3, Zenon DEF Recorded, Record

\* What one worker does leaves the others sound: without the lock it changes neither the
\* outbox nor a fact that another may rely on, and receipts and links are for ever.
LEMMA OthersSound ==
  ASSUME IInv, job' \in [Workers -> Job],
         \A r \in Requests : facts[r] # "none" => facts'[r] = facts[r],
         links \subseteq links',
         \A v \in Workers :
           \/ Sound(v, job[v])'
           \/ /\ job'[v] = job[v]
              /\ lock = v => outbox' = outbox /\ facts' = facts /\ lock' = lock
  PROVE  \A v \in Workers : Sound(v, job[v])'
  <1> SUFFICES ASSUME NEW v \in Workers, job'[v] = job[v],
                      lock = v => outbox' = outbox /\ facts' = facts /\ lock' = lock
               PROVE  Sound(v, job[v])'
    OBVIOUS
  <1>1. Sound(v, job[v])
    BY DEF IInv
  <1>2. job[v] \in Job
    BY DEF IInv, TypeOK
  <1>3. Placed(job[v])'
    BY <1>1 DEF Sound, Placed, Locked, Pursuing, Ready
  <1>4. Informed(job[v])'
    BY <1>1 DEF Sound, Informed, Receipts
  <1>5. CASE Locked(job[v])
    <2>1. lock = v /\ outbox' = outbox /\ facts' = facts /\ lock' = lock
      BY <1>1, <1>5 DEF Sound
    <2>2. Protected(job[v])'
      BY <1>1, <2>1 DEF Sound, Protected, Locked
    <2> QED
      BY <1>3, <1>4, <2>1, <2>2 DEF Sound, Locked
  <1>6. CASE ~Locked(job[v])
    BY <1>3, <1>4, <1>6 DEF Sound, Protected, Locked
  <1> QED
    BY <1>5, <1>6

\* A step of one worker that changes no document, or the ledger only.
LEMMA LocalStep ==
  ASSUME IInv, NEW w \in Workers, NEW j \in Job,
         job' = [job EXCEPT ![w] = j], ledger' \in Ledger,
         UNCHANGED <<outbox, links, due, facts, effects, expired, told>>,
         lock' = lock \/ (lock \in {w, "none"} /\ lock' \in {w, "none"}),
         Sound(w, job[w])'
  PROVE  IInv'
  <1>1. TypeOK'
    BY DEF IInv, TypeOK
  <1>2. \A v \in Workers : Sound(v, job[v])'
    <2>1. \A v \in Workers \ {w} : job'[v] = job[v] /\ (lock = v => lock' = lock)
      BY ExecutionAssumption DEF IInv, TypeOK
    <2> QED
      BY <2>1, <1>1, OthersSound DEF TypeOK
  <1>3. EntryInv' /\ DependenciesFirst' /\ ToldInv'
    BY DEF IInv, EntryInv, DependenciesFirst, ToldInv, Outcome
  <1> QED
    BY <1>1, <1>2, <1>3 DEF IInv

-----------------------------------------------------------------------------
(* The actions that change no document.                                    *)

\* A worker without the lock only needs to be placed and informed.
LEMMA UnlockedStep ==
  ASSUME NEW w \in Workers, NEW j \in Job, IInv,
         job' = [job EXCEPT ![w] = j], UNCHANGED <<documents, told>>,
         lock' = lock \/ (lock = w /\ lock' = "none"),
         ~Locked(j), Placed(j), Informed(j)
  PROVE  IInv'
  <1>1. job'[w] = j
    BY DEF IInv, TypeOK
  <1>2. Sound(w, job[w])'
    BY <1>1 DEF Sound, Placed, Protected, Informed, Locked, Pursuing, Ready, documents
  <1> QED
    BY <1>2, LocalStep DEF documents, IInv, TypeOK

LEMMA BeginRunStep == ASSUME IInv, NEW w \in Planners, BeginRun(w) PROVE IInv'
  <1>1. PICK p \in Plans, again \in BOOLEAN :
          job' = [job EXCEPT ![w] =
                    [Idle EXCEPT !.pc = "reserve", !.plan = p, !.retry = again, !.todo = p]]
    BY DEF BeginRun
  <1> DEFINE
        j == [Idle EXCEPT !.pc = "reserve", !.plan = p, !.retry = again, !.todo = p]
  <1>2. p \in SUBSET Requests
    BY ExecutionAssumption
  <1>3. /\ j \in Job /\ j.pc = "reserve" /\ j.seen = Idle.seen /\ j.results = Idle.results
    BY <1>2, IdleType DEF Job, Steps
  <1>4. Informed(j) /\ j.seen.last \notin Receipts
    BY <1>3, IdleType DEF Informed, Receipts, Unreserved
  <1>5. job' = [job EXCEPT ![w] = j]
    BY <1>1
  <1> HIDE DEF j
  <1>6. ~Locked(j) /\ Placed(j)
    BY <1>3, <1>4 DEF Locked, Placed, Pursuing
  <1> QED
    BY <1>3, <1>4, <1>5, <1>6, UnlockedStep DEF BeginRun, Workers

LEMMA ReserveStep == ASSUME IInv, NEW w \in Planners, Reserve(w) PROVE IInv'
  <1>1. PICK r \in Requests :
          LET next == Onward(job[w], job[w].todo \ {r})
          IN  job' = [job EXCEPT ![w] =
                        IF ledger[r].reserved THEN next
                        ELSE [next EXCEPT !.pc = "write", !.back = next.pc,
                                          !.draft = [ledger EXCEPT ![r].reserved = TRUE]]]
    BY DEF Reserve
  <1> DEFINE
        next == Onward(job[w], job[w].todo \ {r})
        draft == [ledger EXCEPT ![r].reserved = TRUE]
        later == [next EXCEPT !.pc = "write", !.back = next.pc, !.draft = draft]
  <1>2. job[w] \in Job /\ job[w].pc = "reserve" /\ Sound(w, job[w]) /\ w \in Workers
    BY DEF Reserve, IInv, TypeOK, Workers
  <1>3. /\ next \in Job /\ next.results = job[w].results /\ next.seen = job[w].seen
        /\ next.pc \in {"reserve", "resume", "close"}
    <2>1. job[w].todo \ {r} \in SUBSET Requests
      BY <1>2 DEF Job
    <2> QED
      BY <1>2, <2>1, OnwardType
  <1>4. draft \in Ledger
    BY ZenonT(60) DEF IInv, TypeOK, Ledger, Record
  <1>5. later \in Job /\ later.results = next.results /\ later.seen = next.seen
        /\ later.pc = "write" /\ later.back \in {"reserve", "resume", "close"}
    <2> HIDE DEF next, draft
    <2> QED
      BY <1>3, <1>4 DEF Job, Steps
  <1>6. job' = [job EXCEPT ![w] = next] \/ job' = [job EXCEPT ![w] = later]
    BY <1>1
  <1> HIDE DEF next, later
  <1>7. Informed(next) /\ Informed(later)
    BY <1>2, <1>3, <1>5 DEF Sound, Informed
  <1>8. ~Locked(next) /\ Placed(next) /\ ~Locked(later) /\ Placed(later)
    BY <1>2, <1>3, <1>5 DEF Sound, Placed, Locked, Pursuing
  <1> QED
    BY <1>2, <1>3, <1>5, <1>6, <1>7, <1>8, UnlockedStep DEF Reserve

\* A planner that is through with a step believes what the adapter confirmed of it.
LEMMA SettledSound ==
  ASSUME NEW w \in Workers, IInv, NEW r \in Requests, NEW result \in Results \cup {"none"},
         result \in Receipts => facts[r] = result
  PROVE  /\ Settled(job[w], r, result) \in Job
         /\ Settled(job[w], r, result).pc \in {"resume", "close"}
         /\ ~Locked(Settled(job[w], r, result)) /\ Placed(Settled(job[w], r, result))
         /\ Informed(Settled(job[w], r, result))
  <1> DEFINE j == Settled(job[w], r, result)
  <1>1. job[w] \in Job /\ Informed(job[w])
    BY DEF IInv, TypeOK, Sound
  <1>2. /\ j \in Job /\ j.results = [job[w].results EXCEPT ![r] = result]
        /\ j.seen = Unreserved /\ j.pc \in {"resume", "close"}
    BY <1>1, SettledType
  <1> HIDE DEF j
  <1>3. Informed(j)
    BY <1>1, <1>2 DEF Informed, Job
  <1>4. ~Locked(j) /\ Placed(j)
    BY <1>2 DEF Locked, Placed, Pursuing, Unreserved, Receipts
  <1> QED
    BY <1>2, <1>3, <1>4 DEF j

LEMMA AnswersAreFacts ==
  ASSUME NEW r \in Requests, NEW a \in Answers(r)
  PROVE  a = facts[r] \/ a = "UNKNOWN"
  BY DEF Answers, Facts

LEMMA ConfirmedIsSo ==
  ASSUME NEW r \in Requests, NEW result \in Receipts, Confirmed(r, result)
  PROVE  facts[r] = result
  BY AnswersAreFacts DEF Confirmed, Receipts

LEMMA ResumeStep == ASSUME IInv, NEW w \in Planners, Resume(w) PROVE IInv'
  <1>1. PICK r \in Requests :
          \/ job' = [job EXCEPT ![w] = Settled(@, r, "none")]
          \/ /\ ledger[r].last \in Terminal /\ Confirmed(r, ledger[r].last)
             /\ job' = [job EXCEPT ![w] = Settled(@, r, ledger[r].last)]
          \/ /\ Ready(r, job[w].results) /\ ledger[r].last \notin Terminal
             /\ job' = [job EXCEPT ![w].pc = "ask", ![w].at = r, ![w].seen = ledger[r],
                                   ![w].late = Lapsed(r)]
    BY DEF Resume
  <1>2. job[w] \in Job /\ Sound(w, job[w]) /\ w \in Workers /\ ledger[r] \in Record
    BY DEF IInv, TypeOK, Workers, Ledger
  <1>3. UNCHANGED <<documents, lock, told>>
    BY DEF Resume
  <1>4. CASE job' = [job EXCEPT ![w] = Settled(@, r, "none")]
    BY <1>2, <1>3, <1>4, SettledSound, UnlockedStep DEF Receipts
  <1>5. CASE /\ ledger[r].last \in Terminal /\ Confirmed(r, ledger[r].last)
             /\ job' = [job EXCEPT ![w] = Settled(@, r, ledger[r].last)]
    <2>1. ledger[r].last \in Results \cup {"none"}
      BY <1>5 DEF Results
    <2>2. ledger[r].last \in Receipts => facts[r] = ledger[r].last
      BY <1>5, ConfirmedIsSo
    <2> QED
      BY <1>2, <1>3, <1>5, <2>1, <2>2, SettledSound, UnlockedStep
  <1>6. CASE /\ Ready(r, job[w].results) /\ ledger[r].last \notin Terminal
             /\ job' = [job EXCEPT ![w].pc = "ask", ![w].at = r, ![w].seen = ledger[r],
                                   ![w].late = Lapsed(r)]
    <2> DEFINE
          j == [job[w] EXCEPT !.pc = "ask", !.at = r, !.seen = ledger[r], !.late = Lapsed(r)]
    <2>1. Lapsed(r) \in BOOLEAN
      BY DEF Lapsed
    <2>2. /\ j \in Job /\ j.pc = "ask" /\ j.at = r /\ j.seen = ledger[r]
          /\ j.results = job[w].results
      <3> HIDE DEF Record
      <3> QED
        BY <1>2, <2>1, Zenon DEF Job, Steps
    <2>3. job' = [job EXCEPT ![w] = j]
      BY <1>2, <1>6 DEF IInv, TypeOK
    <2> HIDE DEF j
    <2>4. ~Locked(j) /\ Placed(j) /\ Informed(j)
      BY <1>2, <1>6, <2>2 DEF Locked, Placed, Pursuing, Sound, Informed, Terminal
    <2> QED
      BY <1>2, <1>3, <2>2, <2>3, <2>4, UnlockedStep
  <1> QED
    BY <1>1, <1>4, <1>5, <1>6

LEMMA WriteStep == ASSUME IInv, NEW w \in Workers, Write(w) PROVE IInv'
  <1> DEFINE
        j == [job[w] EXCEPT !.pc = job[w].back, !.draft = NoLedger, !.back = "none"]
  <1>1. job[w] \in Job /\ Sound(w, job[w]) /\ job[w].pc = "write" /\ job[w].back # "none"
    BY DEF IInv, TypeOK, Write, Sound, Placed
  <1>2. /\ j \in Job /\ j.pc = job[w].back /\ j.at = job[w].at /\ j.results = job[w].results
        /\ j.seen = job[w].seen /\ j.pc \in {"reserve", "resume", "call", "close", "stopped"}
    BY <1>1, IdleType DEF Job, Steps
  <1>3. job' = [job EXCEPT ![w] = j] /\ ledger' \in Ledger
    BY <1>1 DEF Write, IInv, TypeOK, Job
  <1>4. UNCHANGED <<outbox, links, due, facts, effects, expired, lock, told>>
    BY DEF Write
  <1> HIDE DEF j
  <1>5. job'[w] = j
    BY <1>3 DEF IInv, TypeOK
  <1>6. Sound(w, job[w])'
    BY <1>1, <1>2, <1>4, <1>5
    DEF Sound, Placed, Protected, Informed, Locked, Pursuing, Ready
  <1> QED
    BY <1>2, <1>3, <1>4, <1>6, LocalStep

\* A planner that has a result to record, or goes on towards the dispatch of its request.
LEMMA ResultingSound ==
  ASSUME NEW w \in Workers, IInv, Pursuing(job[w]), NEW result \in Results \cup {"none"}
  PROVE  /\ Resulting(job[w], result) \in Job
         /\ ~Locked(Resulting(job[w], result)) /\ Placed(Resulting(job[w], result))
         /\ Informed(Resulting(job[w], result))
  <1> DEFINE j == Resulting(job[w], result)
  <1>1. job[w] \in Job /\ Sound(w, job[w])
    BY DEF IInv, TypeOK
  <1>2. /\ j \in Job /\ j.at = job[w].at /\ j.results = job[w].results
        /\ j.seen = Unreserved /\ j.pc = "accept"
    BY <1>1, ResultingType
  <1> HIDE DEF j
  <1>3. ~Locked(j) /\ Placed(j) /\ Informed(j)
    BY <1>1, <1>2 DEF Locked, Placed, Pursuing, Sound, Informed, Unreserved, Receipts
  <1> QED
    BY <1>2, <1>3 DEF j

LEMMA AskStep == ASSUME IInv, NEW w \in Planners, Ask(w) PROVE IInv'
  <1> DEFINE r == job[w].at
  <1>1. PICK a \in Answers(r) :
          job' = [job EXCEPT ![w] =
                    IF ~NotExecuted(a) THEN Resulting(@, a)
                    ELSE IF @.seen.last # "none" /\ ~@.retry THEN Settled(@, r, @.seen.last)
                    ELSE [@ EXCEPT !.pc = "gate"]]
    BY DEF Ask
  <1>2. /\ job[w] \in Job /\ Sound(w, job[w]) /\ w \in Workers /\ job[w].pc = "ask"
        /\ Pursuing(job[w]) /\ r \in Requests
    BY DEF IInv, TypeOK, Workers, Ask, Pursuing, Sound, Placed
  <1>3. UNCHANGED <<documents, lock, told>>
    BY DEF Ask
  <1>4. CASE job' = [job EXCEPT ![w] = Resulting(@, a)]
    <2>1. facts[r] \in Receipts \cup {"none"}
      BY <1>2 DEF IInv, TypeOK
    <2>2. a \in Results \cup {"none"}
      BY <1>2, <2>1, AnswersAreFacts DEF Results, Terminal
    <2> HIDE DEF r
    <2> QED
      BY <1>2, <1>3, <1>4, <2>2, ResultingSound, UnlockedStep
  <1>5. CASE job' = [job EXCEPT ![w] = Settled(@, r, @.seen.last)]
    <2>1. job[w].seen.last \notin Receipts /\ job[w].seen.last \in Results \cup {"none"}
      BY <1>2 DEF Sound, Placed, Job, Record
    <2> HIDE DEF r
    <2> QED
      BY <1>2, <1>3, <1>5, <2>1, SettledSound, UnlockedStep
  <1>6. CASE job' = [job EXCEPT ![w] = [@ EXCEPT !.pc = "gate"]]
    <2> DEFINE
          j == [job[w] EXCEPT !.pc = "gate"]
    <2>1. /\ j \in Job /\ j.pc = "gate" /\ j.at = job[w].at /\ j.seen = job[w].seen
          /\ j.results = job[w].results
      BY <1>2 DEF Job, Steps
    <2>2. job' = [job EXCEPT ![w] = j]
      BY <1>6
    <2> HIDE DEF j
    <2>3. ~Locked(j) /\ Placed(j) /\ Informed(j)
      BY <1>2, <2>1 DEF Locked, Placed, Pursuing, Sound, Informed
    <2> QED
      BY <1>2, <1>3, <2>1, <2>2, <2>3, UnlockedStep
  <1> QED
    BY <1>1, <1>4, <1>5, <1>6

LEMMA GateStep == ASSUME IInv, NEW w \in Planners, Gate(w) PROVE IInv'
  <1>1. PICK result \in {"EXPIRED", "UNKNOWN", "CANCELLED", "PROPOSED"} :
          job' = [job EXCEPT ![w] = Resulting(@, result)]
    BY DEF Gate
  <1>2. w \in Workers /\ Pursuing(job[w]) /\ result \in Results
    BY DEF Workers, Gate, Pursuing, Results, Terminal
  <1> QED
    BY <1>1, <1>2, ResultingSound, UnlockedStep DEF Gate

LEMMA AcceptStep == ASSUME IInv, NEW w \in Planners, Accept(w) PROVE IInv'
  <1> DEFINE
        r == job[w].at
        result == job[w].result
        proposing == [job[w] EXCEPT !.pc = "call", !.result = "none"]
        next == IF result = "PROPOSED" THEN proposing ELSE Settled(job[w], r, result)
        draft == [ledger EXCEPT ![r] = Recorded(@, result)]
        j == [next EXCEPT !.pc = "write", !.back = next.pc, !.draft = draft]
  <1>1. /\ job[w] \in Job /\ Sound(w, job[w]) /\ w \in Workers /\ job[w].pc = "accept"
        /\ Pursuing(job[w]) /\ r \in Requests /\ Ready(r, job[w].results)
    BY DEF IInv, TypeOK, Workers, Accept, Pursuing, Sound, Placed
  <1>2. job' = [job EXCEPT ![w] = j] /\ Confirmed(r, result)
    BY DEF Accept
  <1>3. result \in Receipts => facts[r] = result
    BY <1>1, <1>2, ConfirmedIsSo
  <1>4. result \in Results \cup {"none"}
    BY <1>1 DEF Job
  <1>5. /\ proposing \in Job /\ proposing.pc = "call" /\ proposing.at = r
        /\ proposing.results = job[w].results /\ proposing.seen = job[w].seen
    BY <1>1 DEF Job, Steps
  <1>6. draft \in Ledger
    <2>1. ledger[r] \in Record /\ ledger \in Ledger
      BY <1>1 DEF IInv, TypeOK, Ledger
    <2>2. Recorded(ledger[r], result) \in Record
      <3>1. (ledger[r].stopped \/ result = "CANCELLED") \in BOOLEAN
        OBVIOUS
      <3>2. (IF result = "PROPOSED" THEN ledger[r].proposed + 1 ELSE ledger[r].proposed) \in Nat
        BY <2>1 DEF Record
      <3> HIDE DEF result
      <3> QED
        BY <2>1, <1>4, <3>1, <3>2, Zenon DEF Recorded, Record
    <2> QED
      BY <2>1, <2>2 DEF Ledger
  <1>7. /\ next \in Job /\ Informed(next) /\ Placed(next) /\ ~Locked(next)
        /\ \/ next.pc \in {"resume", "close"}
           \/ next.pc = "call" /\ next.at = r /\ Ready(r, next.results)
    <2>1. CASE result = "PROPOSED"
      <3>1. next = proposing
        BY <2>1
      <3> HIDE DEF next, proposing
      <3> QED
        BY <1>1, <1>5, <3>1 DEF Informed, Placed, Locked, Pursuing, Sound
    <2>2. CASE result # "PROPOSED"
      <3>1. next = Settled(job[w], r, result)
        BY <2>2
      <3> HIDE DEF next, r, result
      <3> QED
        BY <1>1, <1>3, <1>4, <3>1, SettledSound
    <2> QED
      BY <2>1, <2>2
  <1>8. /\ j \in Job /\ j.pc = "write" /\ j.back = next.pc /\ j.at = next.at
        /\ j.results = next.results /\ j.seen = next.seen
    <2> HIDE DEF next, draft
    <2> QED
      BY <1>6, <1>7 DEF Job, Steps
  <1> HIDE DEF j, next, draft, proposing
  <1>9. ~Locked(j) /\ Placed(j) /\ Informed(j)
    BY <1>1, <1>7, <1>8 DEF Locked, Placed, Pursuing, Informed
  <1> QED
    BY <1>1, <1>2, <1>8, <1>9, UnlockedStep DEF Accept

LEMMA RefusedStep == ASSUME IInv, NEW w \in Planners, Refused(w) PROVE IInv'
  <1>1. w \in Workers /\ Pursuing(job[w]) /\ "UNKNOWN" \in Results
    BY DEF Workers, Refused, Pursuing, Results
  <1> QED
    BY <1>1, ResultingSound, UnlockedStep DEF Refused

LEMMA IdleSound == ~Locked(Idle) /\ Placed(Idle) /\ Informed(Idle)
  BY IdleType DEF Locked, Placed, Pursuing, Informed, Unreserved, Receipts

LEMMA AbandonStep == ASSUME IInv, NEW w \in Workers, Abandon(w) PROVE IInv'
  BY IdleType, IdleSound, UnlockedStep DEF Abandon

LEMMA BeginCancelStep == ASSUME IInv, NEW w \in Owners, BeginCancel(w) PROVE IInv'
  <1>1. PICK r \in Requests : job' = [job EXCEPT ![w].pc = "stop", ![w].at = r]
    BY DEF BeginCancel
  <1> DEFINE
        j == [job[w] EXCEPT !.pc = "stop", !.at = r]
  <1>2. job[w] \in Job /\ Sound(w, job[w]) /\ w \in Workers
    BY DEF IInv, TypeOK, Workers
  <1>3. /\ j \in Job /\ j.pc = "stop" /\ j.at = r /\ j.seen = job[w].seen
        /\ j.results = job[w].results
    BY <1>2 DEF Job, Steps
  <1>4. job' = [job EXCEPT ![w] = j]
    BY <1>1, <1>2 DEF IInv, TypeOK
  <1> HIDE DEF j
  <1>5. ~Locked(j) /\ Placed(j) /\ Informed(j)
    BY <1>2, <1>3 DEF Locked, Placed, Pursuing, Sound, Informed
  <1> QED
    BY <1>2, <1>3, <1>4, <1>5, UnlockedStep DEF BeginCancel

LEMMA StopStep == ASSUME IInv, NEW w \in Owners, Stop(w) PROVE IInv'
  <1> DEFINE r == job[w].at
  <1>1. /\ job[w] \in Job /\ Sound(w, job[w]) /\ w \in Workers /\ job[w].pc = "stop"
        /\ r \in Requests
    BY DEF IInv, TypeOK, Workers, Stop, Sound, Placed
  <1>2. CASE /\ "SUCCEEDED" \in Facts(r)
             /\ told' = [told EXCEPT ![r] = @ \cup {"SUCCEEDED"}]
             /\ job' = [job EXCEPT ![w] = Idle]
             /\ UNCHANGED lock
    <2>1. facts[r] = "SUCCEEDED" /\ UNCHANGED documents
      BY <1>2 DEF Facts, Stop
    <2>2. TypeOK'
      BY <1>1, <1>2, <2>1, IdleType DEF IInv, TypeOK, documents
    <2>3. Sound(w, job[w])'
      <3>1. job'[w] = Idle
        BY <1>1, <1>2 DEF IInv, TypeOK
      <3> QED
        BY <2>1, <3>1, IdleSound
        DEF Sound, Placed, Protected, Informed, Locked, Pursuing, Ready, documents
    <2>4. \A v \in Workers : Sound(v, job[v])'
      BY <1>1, <1>2, <2>1, <2>2, <2>3, OthersSound DEF TypeOK, IInv, documents
    <2>5. EntryInv' /\ DependenciesFirst' /\ ToldInv'
      BY <1>1, <1>2, <2>1
      DEF IInv, TypeOK, EntryInv, DependenciesFirst, ToldInv, Outcome, documents
    <2> QED
      BY <2>2, <2>4, <2>5 DEF IInv
  <1>3. CASE /\ \E a \in Facts(r) : NotExecuted(a)
             /\ outbox[r].state # "DELIVERED"
             /\ lock' = w
             /\ \/ job' = [job EXCEPT ![w].pc = "stopped"]
                \/ job' = [job EXCEPT ![w].pc = "write", ![w].back = "stopped",
                             ![w].draft = [ledger EXCEPT ![r] = Recorded(@, "CANCELLED")]]
             /\ UNCHANGED told
    <2> DEFINE
          draft == [ledger EXCEPT ![r] = Recorded(@, "CANCELLED")]
          now == [job[w] EXCEPT !.pc = "stopped"]
          first == [job[w] EXCEPT !.pc = "write", !.back = "stopped", !.draft = draft]
    <2>1. draft \in Ledger
      BY <1>1, RecordedType DEF IInv, TypeOK, Ledger, Results
    <2>2. /\ now \in Job /\ now.pc = "stopped" /\ now.at = r /\ now.seen = job[w].seen
          /\ now.results = job[w].results
      BY <1>1 DEF Job, Steps
    <2>3. /\ first \in Job /\ first.pc = "write" /\ first.back = "stopped" /\ first.at = r
          /\ first.seen = job[w].seen /\ first.results = job[w].results
      <3> HIDE DEF draft
      <3> QED
        BY <1>1, <2>1 DEF Job, Steps
    <2>4. PICK j \in {now, first} : job' = [job EXCEPT ![w] = j]
      BY <1>1, <1>3 DEF IInv, TypeOK
    <2>5. facts[r] = "none" /\ lock = "none" /\ UNCHANGED documents
      BY <1>3 DEF Facts, NotExecuted, Stop
    <2> HIDE DEF now, first, draft, r
    <2>6. /\ j \in Job /\ j.at = r /\ j.seen = job[w].seen /\ j.results = job[w].results
          /\ j.pc = "stopped" \/ (j.pc = "write" /\ j.back = "stopped")
      BY <2>2, <2>3, <2>4
    <2>7. job'[w] = j
      BY <1>1, <2>4 DEF IInv, TypeOK
    <2>8. Sound(w, job[w])'
      BY <1>1, <1>3, <2>5, <2>6, <2>7
      DEF Sound, Placed, Protected, Informed, Locked, Pursuing, Ready, documents
    <2> QED
      BY <1>1, <1>3, <2>4, <2>5, <2>6, <2>8, LocalStep DEF documents, IInv, TypeOK
  <1> QED
    BY <1>2, <1>3 DEF Stop

-----------------------------------------------------------------------------
(* The actions that change the outbox, the facts or what was told.         *)

\* An entry may change as long as it shows what happened and stays cancelled.
LEMMA OutboxStep ==
  ASSUME IInv, TypeOK', NEW r \in Requests,
         \A q \in Requests \ {r} : outbox'[q] = outbox[q],
         outbox'[r].attempts >= outbox[r].attempts,
         facts[r] # "none" => outbox'[r].state \in {"DISPATCHING", "UNKNOWN", "DELIVERED"},
         outbox'[r].state = "DELIVERED" => facts[r] # "none",
         facts[r] = "none" /\ outbox[r].state = "CANCELLED" => outbox'[r].state = "CANCELLED",
         links \subseteq links', UNCHANGED <<facts, effects, told>>
  PROVE  EntryInv' /\ DependenciesFirst' /\ ToldInv'
  <1>1. EntryInv'
    BY DEF IInv, EntryInv, TypeOK, Entry
  <1>2. DependenciesFirst'
    BY DEF IInv, DependenciesFirst
  <1>3. ToldInv'
    BY DEF IInv, ToldInv, Outcome
  <1> QED
    BY <1>1, <1>2, <1>3

\* Entered changes the state of one entry.
LEMMA EnteredType ==
  ASSUME IInv, NEW r \in Requests, NEW state \in DeliveryStates, Entered(r, state)
  PROVE  /\ outbox' \in [Requests -> Entry]
         /\ outbox'[r].state = state /\ outbox'[r].attempts = outbox[r].attempts
         /\ \A q \in Requests : outbox'[q].attempts = outbox[q].attempts
         /\ \A q \in Requests \ {r} : outbox'[q] = outbox[q]
  BY DEF Entered, IInv, TypeOK, Entry

LEMMA FactsShown ==
  ASSUME IInv, NEW r \in Requests
  PROVE  /\ outbox[r] \in Entry /\ facts[r] \in Receipts \cup {"none"}
         /\ "SUCCEEDED" \in Answers(r) => facts[r] = "SUCCEEDED"
         /\ outbox[r] = NoEntry => facts[r] = "none"
  BY AnswersAreFacts DEF IInv, TypeOK, EntryInv, NoEntry

\* A worker that may use the lock changes one entry.
LEMMA EntryStep ==
  ASSUME IInv, NEW w \in Workers, NEW j \in Job, job' = [job EXCEPT ![w] = j],
         lock \in {w, "none"}, lock' \in {w, "none"},
         UNCHANGED <<links, due, ledger, facts, effects, expired, told>>,
         NEW r \in Requests, outbox' \in [Requests -> Entry],
         \A q \in Requests \ {r} : outbox'[q] = outbox[q],
         outbox'[r].attempts >= outbox[r].attempts,
         outbox'[r].attempts <= MaxAttempts[r],
         facts[r] # "none" => outbox'[r].state \in {"DISPATCHING", "UNKNOWN", "DELIVERED"},
         outbox'[r].state = "DELIVERED" => facts[r] # "none",
         facts[r] = "none" /\ outbox[r].state = "CANCELLED" => outbox'[r].state = "CANCELLED",
         Sound(w, job[w])'
  PROVE  IInv'
  <1>1. TypeOK'
    <2>1. \A q \in Requests : outbox'[q].attempts <= MaxAttempts[q]
      BY DEF IInv, TypeOK
    <2> QED
      BY <2>1 DEF IInv, TypeOK
  <1>2. \A v \in Workers : Sound(v, job[v])'
    <2>1. \A v \in Workers \ {w} : job'[v] = job[v] /\ lock # v
      BY ExecutionAssumption DEF IInv, TypeOK
    <2> QED
      BY <1>1, <2>1, OthersSound DEF TypeOK
  <1>3. EntryInv' /\ DependenciesFirst' /\ ToldInv'
    BY <1>1, OutboxStep
  <1> QED
    BY <1>1, <1>2, <1>3 DEF IInv

\* At the end of a run only the steps still to be filed change.
LEMMA ClosingSound ==
  ASSUME IInv, NEW w \in Planners, NEW r \in Requests, job[w].pc = "close",
         job' = [job EXCEPT ![w].todo = @ \ {r}], UNCHANGED <<links, due, facts, lock>>
  PROVE  /\ [job[w] EXCEPT !.todo = @ \ {r}] \in Job
         /\ job' = [job EXCEPT ![w] = [job[w] EXCEPT !.todo = @ \ {r}]]
         /\ w \in Workers /\ Sound(w, job[w])'
  <1> DEFINE
        j == [job[w] EXCEPT !.todo = @ \ {r}]
  <1>1. job[w] \in Job /\ Sound(w, job[w]) /\ w \in Workers
    BY DEF IInv, TypeOK, Workers
  <1>2. /\ j \in Job /\ j.pc = "close" /\ j.seen = job[w].seen /\ j.results = job[w].results
    BY <1>1 DEF Job, Steps
  <1>3. job' = [job EXCEPT ![w] = j]
    OBVIOUS
  <1> HIDE DEF j
  <1>4. job'[w] = j
    BY <1>1, <1>3 DEF IInv, TypeOK
  <1>5. Sound(w, job[w])'
    BY <1>1, <1>2, <1>4 DEF Sound, Placed, Protected, Informed, Locked, Pursuing
  <1> QED
    BY <1>1, <1>2, <1>3, <1>5 DEF j

LEMMA CollectStep == ASSUME IInv, NEW w \in Planners, Collect(w) PROVE IInv'
  <1>1. PICK r \in Requests : /\ "SUCCEEDED" \in Answers(r) /\ Entered(r, "DELIVERED")
                              /\ job' = [job EXCEPT ![w].todo = @ \ {r}]
    BY DEF Collect
  <1>2. facts[r] = "SUCCEEDED" /\ outbox[r] \in Entry /\ outbox[r].attempts <= MaxAttempts[r]
    BY <1>1, FactsShown DEF IInv, TypeOK
  <1>3. /\ outbox' \in [Requests -> Entry] /\ outbox'[r].state = "DELIVERED"
        /\ outbox'[r].attempts = outbox[r].attempts
        /\ \A q \in Requests \ {r} : outbox'[q] = outbox[q]
    BY <1>1, EnteredType DEF DeliveryStates
  <1>4. outbox'[r].attempts >= outbox[r].attempts /\ outbox'[r].attempts <= MaxAttempts[r]
    BY <1>2, <1>3 DEF Entry
  <1> QED
    BY <1>1, <1>2, <1>3, <1>4, ClosingSound, EntryStep DEF Collect

LEMMA RetainStep == ASSUME IInv, NEW w \in Planners, Retain(w) PROVE IInv'
  <1>1. PICK r \in Requests :
          /\ (outbox[r] = NoEntry /\ Entered(r, "PENDING")) \/ UNCHANGED outbox
          /\ job' = [job EXCEPT ![w].todo = @ \ {r}]
    BY DEF Retain
  <1>2. outbox[r] \in Entry /\ outbox[r].attempts <= MaxAttempts[r]
    BY FactsShown DEF IInv, TypeOK
  <1>3. CASE outbox[r] = NoEntry /\ Entered(r, "PENDING")
    <2>1. /\ outbox' \in [Requests -> Entry] /\ outbox'[r].state = "PENDING"
          /\ outbox'[r].attempts = outbox[r].attempts
          /\ \A q \in Requests \ {r} : outbox'[q] = outbox[q]
      BY <1>3, EnteredType DEF DeliveryStates
    <2>2. outbox'[r].attempts >= outbox[r].attempts /\ outbox'[r].attempts <= MaxAttempts[r]
      BY <1>2, <2>1 DEF Entry
    <2>3. facts[r] = "none" /\ outbox[r].state # "CANCELLED"
      BY <1>3, FactsShown DEF NoEntry
    <2> QED
      BY <1>1, <2>1, <2>2, <2>3, ClosingSound, EntryStep DEF Retain
  <1>4. CASE UNCHANGED outbox
    <2>1. UNCHANGED <<documents, told>> /\ job[w].pc = "close" /\ UNCHANGED lock
      BY <1>4 DEF Retain, documents
    <2> QED
      BY <1>1, <2>1, ClosingSound, LocalStep DEF documents, IInv, TypeOK
  <1> QED
    BY <1>1, <1>3, <1>4

LEMMA CallStep == ASSUME IInv, NEW w \in Planners, Call(w) PROVE IInv'
  <1> DEFINE r == job[w].at
  <1>1. /\ job[w] \in Job /\ Sound(w, job[w]) /\ w \in Workers /\ job[w].pc = "call"
        /\ Pursuing(job[w]) /\ r \in Requests /\ Ready(r, job[w].results)
    BY DEF IInv, TypeOK, Workers, Call, Pursuing, Sound, Placed
  <1>2. UNCHANGED <<links, due, ledger, facts, effects, expired, told>>
    BY DEF Call
  <1>3. /\ outbox[r] \in Entry /\ outbox[r].attempts <= MaxAttempts[r]
        /\ facts[r] \in Receipts \cup {"none"}
    BY <1>1, FactsShown DEF IInv, TypeOK
  <1>4. CASE /\ \E a \in Answers(r) \cap Receipts : job' = [job EXCEPT ![w] = Resulting(@, a)]
             /\ UNCHANGED <<outbox, lock>>
    <2>1. PICK a \in Receipts : job' = [job EXCEPT ![w] = Resulting(@, a)]
      BY <1>4
    <2>2. a \in Results \cup {"none"}
      BY DEF Results, Terminal
    <2> QED
      BY <1>1, <1>2, <1>4, <2>1, <2>2, ResultingSound, UnlockedStep DEF documents
  <1>5. CASE /\ lock = "none"
             /\ \E a \in Facts(r) \cap Receipts : job' = [job EXCEPT ![w] = Resulting(@, a)]
             /\ Entered(r, "DELIVERED")
             /\ UNCHANGED lock
    <2>1. PICK a \in Facts(r) \cap Receipts : job' = [job EXCEPT ![w] = Resulting(@, a)]
      BY <1>5
    <2>2. a \in Results \cup {"none"} /\ facts[r] # "none"
      BY <1>3 DEF Results, Terminal, Facts, Receipts
    <2> DEFINE
          j == Resulting(job[w], a)
    <2>3. j \in Job /\ ~Locked(j) /\ Placed(j) /\ Informed(j)
      BY <1>1, <2>2, ResultingSound
    <2>4. job' = [job EXCEPT ![w] = j]
      BY <2>1
    <2> HIDE DEF j
    <2>5. Sound(w, job[w])'
      <3>1. job'[w] = j
        BY <1>1, <2>4 DEF IInv, TypeOK
      <3> QED
        BY <1>2, <2>3, <3>1 DEF Sound, Placed, Protected, Informed, Locked, Pursuing, Ready
    <2>6. /\ outbox' \in [Requests -> Entry] /\ outbox'[r].state = "DELIVERED"
          /\ outbox'[r].attempts = outbox[r].attempts
          /\ \A q \in Requests \ {r} : outbox'[q] = outbox[q]
      BY <1>1, <1>5, EnteredType DEF DeliveryStates
    <2>7. outbox'[r].attempts >= outbox[r].attempts /\ outbox'[r].attempts <= MaxAttempts[r]
      BY <1>3, <2>6 DEF Entry
    <2> HIDE DEF r
    <2> QED
      BY <1>1, <1>2, <1>5, <2>2, <2>3, <2>4, <2>5, <2>6, <2>7, EntryStep
  <1>6. CASE /\ lock = "none" /\ outbox[r].state # "CANCELLED"
             /\ \E a \in Facts(r) : NotExecuted(a)
             /\ ~Spent(r) /\ Current(r) /\ Bound(r)
             /\ outbox' = [outbox EXCEPT ![r] = Checkpoint(@)]
             /\ lock' = w
             /\ job' = [job EXCEPT ![w].pc = "world"]
    <2> DEFINE
          j == [job[w] EXCEPT !.pc = "world"]
    <2>1. /\ j \in Job /\ j.pc = "world" /\ j.at = r /\ j.seen = job[w].seen
          /\ j.results = job[w].results
      BY <1>1 DEF Job, Steps
    <2>2. job' = [job EXCEPT ![w] = j]
      BY <1>6
    <2>3. facts[r] = "none"
      BY <1>6 DEF Facts, NotExecuted
    <2>4. r \in DOMAIN Original => r \in links /\ facts[Original[r]] = "SUCCEEDED"
      <3> SUFFICES ASSUME r \in DOMAIN Original
                   PROVE  r \in links /\ facts[Original[r]] = "SUCCEEDED"
        OBVIOUS
      <3>1. Original[r] \in Requests
        BY ExecutionAssumption
      <3>2. r \in links /\ "SUCCEEDED" \in Answers(Original[r])
        BY <1>6 DEF Bound
      <3> QED
        BY <3>1, <3>2, FactsShown
    <2>5. MaxAttempts[r] \in 1..3 /\ outbox[r].attempts \in 0..3 /\ outbox[r].attempts < MaxAttempts[r]
      BY <1>1, <1>3, <1>6, ExecutionAssumption DEF Spent, Entry
    <2>6. /\ outbox' \in [Requests -> Entry] /\ outbox'[r].state = "DISPATCHING"
          /\ outbox'[r].attempts = outbox[r].attempts + 1
          /\ \A q \in Requests \ {r} : outbox'[q] = outbox[q]
      <3> DEFINE entry == Checkpoint(outbox[r])
      <3>1. /\ entry \in Entry /\ entry.state = "DISPATCHING"
            /\ entry.attempts = outbox[r].attempts + 1
        <4>1. outbox[r].attempts + 1 \in 0..3
          BY <2>5
        <4> QED
          BY <1>3, <4>1 DEF Checkpoint, Entry, DeliveryStates
      <3>2. outbox' = [outbox EXCEPT ![r] = entry] /\ outbox \in [Requests -> Entry]
        BY <1>6 DEF IInv, TypeOK
      <3> HIDE DEF entry, r
      <3> QED
        BY <1>1, <3>1, <3>2
    <2> HIDE DEF j
    <2>7. job'[w] = j
      BY <1>1, <2>2 DEF IInv, TypeOK
    <2>8. Sound(w, job[w])'
      BY <1>1, <1>2, <1>6, <2>1, <2>3, <2>4, <2>5, <2>6, <2>7
      DEF Sound, Placed, Protected, Informed, Locked, Pursuing, Ready
    <2>9. outbox'[r].attempts >= outbox[r].attempts /\ outbox'[r].attempts <= MaxAttempts[r]
      BY <2>5, <2>6
    <2> HIDE DEF r
    <2> QED
      BY <1>1, <1>2, <1>6, <2>1, <2>2, <2>3, <2>6, <2>8, <2>9, EntryStep
  <1> QED
    BY <1>4, <1>5, <1>6 DEF Call

LEMMA AnswerStep == ASSUME IInv, NEW w \in Planners, Answer(w) PROVE IInv'
  <1> DEFINE r == job[w].at
  <1>1. /\ job[w] \in Job /\ Sound(w, job[w]) /\ w \in Workers /\ job[w].pc = "answer"
        /\ Pursuing(job[w]) /\ r \in Requests /\ lock = w
    BY DEF IInv, TypeOK, Workers, Answer, Pursuing, Sound, Placed, Locked
  <1>2. /\ UNCHANGED <<links, due, ledger, facts, effects, expired, told>> /\ lock' = "none"
    BY DEF Answer
  <1>3. /\ outbox[r] \in Entry /\ outbox[r].attempts <= MaxAttempts[r]
        /\ facts[r] \in Receipts \cup {"none"} /\ outbox[r].state = "DISPATCHING"
    BY <1>1, FactsShown DEF IInv, TypeOK, Sound, Protected
  <1>4. PICK result \in Results \cup {"none"}, state \in {"DELIVERED", "UNKNOWN"} :
          /\ state = "DELIVERED" => facts[r] # "none"
          /\ Entered(r, state)
          /\ job' = [job EXCEPT ![w] = Resulting(@, result)]
    BY <1>3 DEF Answer, Results, Terminal
  <1> DEFINE
        j == Resulting(job[w], result)
  <1>5. j \in Job /\ ~Locked(j) /\ Placed(j) /\ Informed(j)
    BY <1>1, ResultingSound
  <1>6. job' = [job EXCEPT ![w] = j]
    BY <1>4
  <1> HIDE DEF j
  <1>7. Sound(w, job[w])'
    <2>1. job'[w] = j
      BY <1>1, <1>6 DEF IInv, TypeOK
    <2> QED
      BY <1>2, <1>5, <2>1 DEF Sound, Placed, Protected, Informed, Locked, Pursuing, Ready
  <1>8. /\ outbox' \in [Requests -> Entry] /\ outbox'[r].state = state
        /\ outbox'[r].attempts = outbox[r].attempts
        /\ \A q \in Requests \ {r} : outbox'[q] = outbox[q]
    BY <1>1, <1>4, EnteredType DEF DeliveryStates
  <1>9. outbox'[r].attempts >= outbox[r].attempts /\ outbox'[r].attempts <= MaxAttempts[r]
    BY <1>3, <1>8 DEF Entry
  <1> HIDE DEF r
  <1> QED
    BY <1>1, <1>2, <1>3, <1>4, <1>5, <1>6, <1>7, <1>8, <1>9, EntryStep

LEMMA WorldStep == ASSUME IInv, NEW w \in Planners, World(w) PROVE IInv'
  <1> DEFINE
        r == job[w].at
        j == [job[w] EXCEPT !.pc = "answer"]
  <1>1. /\ job[w] \in Job /\ Sound(w, job[w]) /\ w \in Workers /\ job[w].pc = "world"
        /\ Pursuing(job[w]) /\ r \in Requests /\ lock = w /\ Ready(r, job[w].results)
    BY DEF IInv, TypeOK, Workers, World, Pursuing, Sound, Placed, Locked
  <1>2. UNCHANGED <<outbox, links, due, ledger, expired, lock, told>>
    BY DEF World
  <1>3. /\ facts[r] = "none" /\ outbox[r].state = "DISPATCHING" /\ outbox[r].attempts > 0
        /\ r \in DOMAIN Original => r \in links /\ facts[Original[r]] = "SUCCEEDED"
    BY <1>1 DEF Sound, Protected
  <1>4. /\ j \in Job /\ j.pc = "answer" /\ j.at = r /\ j.seen = job[w].seen
        /\ j.results = job[w].results /\ job' = [job EXCEPT ![w] = j]
    BY <1>1 DEF Job, Steps, World
  <1> HIDE DEF j
  <1>5. \/ UNCHANGED <<facts, effects>>
        \/ \E o \in Receipts : /\ facts' = [facts EXCEPT ![r] = o]
                               /\ effects' = [effects EXCEPT ![r] = @ + 1]
    BY DEF World
  <1> HIDE DEF r
  <1>6. \A q \in Requests : facts[q] # "none" => facts'[q] = facts[q]
    BY <1>1, <1>3, <1>5 DEF IInv, TypeOK
  <1>7. TypeOK'
    <2>1. facts' \in [Requests -> Receipts \cup {"none"}] /\ effects' \in [Requests -> Nat]
      BY <1>1, <1>5 DEF IInv, TypeOK
    <2> QED
      BY <1>1, <1>2, <1>4, <2>1 DEF IInv, TypeOK
  <1>8. \A v \in Workers : Sound(v, job[v])'
    <2>1. job'[w] = j /\ \A v \in Workers \ {w} : job'[v] = job[v] /\ lock # v
      BY <1>1, <1>4 DEF IInv, TypeOK
    <2>2. Informed(job[w])'
      BY <1>1, <1>4, <1>6, <2>1 DEF Sound, Informed, Receipts
    <2>3. Sound(w, job[w])'
      BY <1>1, <1>2, <1>3, <1>4, <2>1, <2>2
      DEF Sound, Placed, Protected, Informed, Locked, Pursuing, Ready
    <2> QED
      BY <1>2, <1>6, <1>7, <2>1, <2>3, OthersSound DEF TypeOK
  <1>9. CASE UNCHANGED <<facts, effects>>
    BY <1>2, <1>7, <1>8, <1>9
    DEF IInv, EntryInv, DependenciesFirst, ToldInv, Outcome
  <1>10. ASSUME NEW o \in Receipts, facts' = [facts EXCEPT ![r] = o],
                effects' = [effects EXCEPT ![r] = @ + 1]
         PROVE  IInv'
    <2>1. /\ facts'[r] = o /\ o # "none" /\ effects[r] = 0 /\ effects'[r] = 1
          /\ \A q \in Requests \ {r} : facts'[q] = facts[q] /\ effects'[q] = effects[q]
      BY <1>1, <1>3, <1>10 DEF IInv, TypeOK, EntryInv, Receipts
    <2>2. EntryInv'
      BY <1>2, <1>3, <2>1 DEF IInv, EntryInv
    <2>3. \A d \in Needs[r] : facts[d] = "SUCCEEDED"
      <3>1. \A d \in Needs[r] : d \in Requests
        BY <1>1, ExecutionAssumption
      <3> QED
        BY <1>1, <3>1 DEF Sound, Informed, Ready, Receipts
    <2>4. \A q \in Requests : Needs[q] \subseteq Requests
      BY ExecutionAssumption
    <2>5. \A q \in DOMAIN Original : Original[q] \in Requests
      BY ExecutionAssumption
    <2>6. DependenciesFirst'
      <3> SUFFICES ASSUME NEW q \in Requests, effects'[q] > 0
                   PROVE  /\ \A d \in Needs[q] : facts'[d] = "SUCCEEDED"
                          /\ q \in DOMAIN Original =>
                               q \in links' /\ facts'[Original[q]] = "SUCCEEDED"
        BY DEF DependenciesFirst
      <3>1. /\ \A d \in Needs[q] : facts[d] = "SUCCEEDED"
            /\ q \in DOMAIN Original => q \in links /\ facts[Original[q]] = "SUCCEEDED"
        BY <1>3, <2>1, <2>3 DEF IInv, DependenciesFirst
      <3> QED
        BY <1>2, <1>6, <2>4, <2>5, <3>1
    <2>7. ToldInv'
      <3>1. told[r] = {}
        BY <1>1, <1>3 DEF IInv, ToldInv, Outcome
      <3> QED
        BY <1>2, <2>1, <3>1 DEF IInv, ToldInv, Outcome
    <2> QED
      BY <1>7, <1>8, <2>2, <2>6, <2>7 DEF IInv
  <1> QED
    BY <1>5, <1>9, <1>10

LEMMA StoppedStep == ASSUME IInv, NEW w \in Owners, Stopped(w) PROVE IInv'
  <1> DEFINE r == job[w].at
  <1>1. /\ job[w] \in Job /\ Sound(w, job[w]) /\ w \in Workers /\ job[w].pc = "stopped"
        /\ r \in Requests /\ lock = w /\ facts[r] = "none"
    BY DEF IInv, TypeOK, Workers, Stopped, Sound, Placed, Locked, Protected
  <1>2. /\ Entered(r, "CANCELLED") /\ job' = [job EXCEPT ![w] = Idle] /\ lock' = "none"
        /\ told' \in {told, [told EXCEPT ![r] = @ \cup {"CANCELLED"}]}
        /\ UNCHANGED <<links, due, ledger, facts, effects, expired>>
    BY DEF Stopped
  <1> HIDE DEF r
  <1>3. /\ outbox' \in [Requests -> Entry] /\ outbox'[r].state = "CANCELLED"
        /\ \A q \in Requests : outbox'[q].attempts = outbox[q].attempts
        /\ \A q \in Requests \ {r} : outbox'[q] = outbox[q]
    BY <1>1, <1>2, EnteredType DEF DeliveryStates
  <1>4. TypeOK'
    <2>1. told' \in [Requests -> SUBSET {"SUCCEEDED", "FAILED_TERMINAL", "CANCELLED"}]
      BY <1>1, <1>2 DEF IInv, TypeOK
    <2> QED
      BY <1>1, <1>2, <1>3, <2>1, IdleType DEF IInv, TypeOK
  <1>5. \A v \in Workers : Sound(v, job[v])'
    <2>1. job'[w] = Idle /\ \A v \in Workers \ {w} : job'[v] = job[v] /\ lock # v
      BY <1>1, <1>2 DEF IInv, TypeOK
    <2>2. Sound(w, job[w])'
      BY <1>2, <2>1, IdleSound
      DEF Sound, Placed, Protected, Informed, Locked, Pursuing, Ready
    <2> QED
      BY <1>2, <1>4, <2>1, <2>2, OthersSound DEF TypeOK
  <1>6. EntryInv' /\ DependenciesFirst'
    BY <1>1, <1>2, <1>3 DEF IInv, EntryInv, DependenciesFirst
  <1>7. ToldInv'
    BY <1>1, <1>2, <1>3 DEF IInv, TypeOK, ToldInv, Outcome
  <1> QED
    BY <1>4, <1>5, <1>6, <1>7 DEF IInv

LEMMA ReturnStep == ASSUME IInv, NEW w \in Planners, Return(w) PROVE IInv'
  <1>1. /\ job[w] \in Job /\ Sound(w, job[w]) /\ w \in Workers
        /\ job' = [job EXCEPT ![w] = Idle] /\ UNCHANGED <<documents, lock>>
        /\ told' = [r \in Requests |-> told[r] \cup ({job[w].results[r]} \cap Receipts)]
    BY DEF IInv, TypeOK, Workers, Return
  <1>2. TypeOK'
    BY <1>1, IdleType DEF IInv, TypeOK, documents, Receipts
  <1>3. \A v \in Workers : Sound(v, job[v])'
    <2>1. job'[w] = Idle /\ \A v \in Workers \ {w} : job'[v] = job[v]
      BY <1>1 DEF IInv, TypeOK
    <2>2. Sound(w, job[w])'
      BY <1>1, <2>1, IdleSound
      DEF Sound, Placed, Protected, Informed, Locked, Pursuing, Ready, documents
    <2> QED
      BY <1>1, <1>2, <2>1, <2>2, OthersSound DEF TypeOK, documents
  <1>4. EntryInv' /\ DependenciesFirst'
    BY <1>1 DEF IInv, EntryInv, DependenciesFirst, documents
  <1>5. ToldInv'
    BY <1>1 DEF IInv, ToldInv, Outcome, Sound, Informed, Receipts, documents
  <1> QED
    BY <1>2, <1>3, <1>4, <1>5 DEF IInv

LEMMA PendingStep ==
  ASSUME IInv, NEW r \in Requests, lock = "none", outbox[r] = NoEntry, Entered(r, "PENDING"),
         links \subseteq links', links' \subseteq DOMAIN Original,
         UNCHANGED <<due, ledger, facts, effects, expired, lock, job, told>>
  PROVE  IInv'
  <1>1. /\ outbox' \in [Requests -> Entry] /\ outbox'[r].state = "PENDING"
        /\ outbox'[r].attempts = outbox[r].attempts
        /\ \A q \in Requests : outbox'[q].attempts = outbox[q].attempts
        /\ \A q \in Requests \ {r} : outbox'[q] = outbox[q]
    BY EnteredType DEF DeliveryStates
  <1>2. TypeOK'
    BY <1>1 DEF IInv, TypeOK
  <1>3. \A v \in Workers : Sound(v, job[v])'
    <2>1. \A v \in Workers : lock # v
      BY ExecutionAssumption
    <2> QED
      BY <1>2, <2>1, OthersSound DEF TypeOK
  <1>4. facts[r] = "none" /\ outbox[r].state # "CANCELLED" /\ outbox[r] \in Entry
    BY FactsShown DEF NoEntry
  <1>5. outbox'[r].attempts >= outbox[r].attempts
    BY <1>1, <1>4 DEF Entry
  <1>6. EntryInv' /\ DependenciesFirst' /\ ToldInv'
    BY <1>1, <1>2, <1>4, <1>5, OutboxStep
  <1> QED
    BY <1>2, <1>3, <1>6 DEF IInv

LEMMA CompensateStep == ASSUME IInv, NEW c \in DOMAIN Original, Compensate(c) PROVE IInv'
  <1>1. /\ lock = "none" /\ links' = links \cup {c} /\ links \subseteq DOMAIN Original
        /\ UNCHANGED <<due, ledger, facts, effects, expired, lock, job, told>>
        /\ Original[c] \in Requests
    BY ExecutionAssumption DEF Compensate, IInv, TypeOK
  <1>2. CASE outbox[Original[c]] = NoEntry
    BY <1>1, <1>2, PendingStep DEF Compensate
  <1>3. CASE outbox[Original[c]] # NoEntry
    <2>1. outbox' = outbox
      BY <1>3 DEF Compensate
    <2>2. TypeOK'
      BY <1>1, <2>1 DEF IInv, TypeOK
    <2>3. \A v \in Workers : Sound(v, job[v])'
      BY <1>1, <2>1, <2>2, OthersSound DEF TypeOK
    <2> QED
      BY <1>1, <2>1, <2>2, <2>3
      DEF IInv, EntryInv, DependenciesFirst, ToldInv, Outcome
  <1> QED
    BY <1>2, <1>3

LEMMA AskOriginalStep == ASSUME IInv, NEW c \in DOMAIN Original, AskOriginal(c) PROVE IInv'
  <1>1. UNCHANGED <<outbox, links, ledger, facts, effects, expired, lock, job, told>>
    BY DEF AskOriginal
  <1>2. TypeOK'
    BY <1>1 DEF IInv, TypeOK, AskOriginal
  <1>3. \A v \in Workers : Sound(v, job[v])'
    BY <1>1, <1>2, OthersSound DEF TypeOK
  <1> QED
    BY <1>1, <1>2, <1>3 DEF IInv, EntryInv, DependenciesFirst, ToldInv, Outcome

LEMMA ExpireStep == ASSUME IInv, NEW p \in Plans, Expire(p) PROVE IInv'
  <1>1. TypeOK'
    BY DEF IInv, TypeOK, Expire
  <1>2. \A v \in Workers : Sound(v, job[v])'
    BY <1>1, OthersSound DEF TypeOK, Expire
  <1> QED
    BY <1>1, <1>2 DEF IInv, EntryInv, DependenciesFirst, ToldInv, Outcome, Expire

-----------------------------------------------------------------------------
(* The invariant.                                                          *)

LEMMA InitInv == Init => IInv
  <1> SUFFICES ASSUME Init PROVE IInv
    OBVIOUS
  <1>1. TypeOK
    <2>1. NoEntry \in Entry /\ NoEntry.attempts = 0
      BY DEF NoEntry, Entry
    <2>2. \A r \in Requests : MaxAttempts[r] \in 1..3
      BY ExecutionAssumption
    <2> QED
      BY <2>1, <2>2, IdleType DEF Init, TypeOK
  <1>2. \A w \in Workers : Sound(w, job[w])
    BY IdleSound DEF Init, Sound, Protected, Locked, Idle
  <1>3. EntryInv /\ DependenciesFirst /\ ToldInv
    BY DEF Init, EntryInv, DependenciesFirst, ToldInv, NoEntry
  <1> QED
    BY <1>1, <1>2, <1>3 DEF IInv

LEMMA NextInv == IInv /\ [Next]_vars => IInv'
  <1> SUFFICES ASSUME IInv, [Next]_vars PROVE IInv'
    OBVIOUS
  <1>1. ASSUME NEW w \in Planners, Run(w) PROVE IInv'
    BY <1>1, BeginRunStep, ReserveStep, WriteStep, ResumeStep, AskStep, GateStep, AcceptStep,
       CallStep, WorldStep, AnswerStep, RefusedStep, CollectStep, RetainStep, ReturnStep,
       AbandonStep
    DEF Run, Workers
  <1>2. ASSUME NEW w \in Owners, Cancel(w) PROVE IInv'
    BY <1>2, BeginCancelStep, StopStep, WriteStep, StoppedStep, AbandonStep DEF Cancel, Workers
  <1>3. ASSUME NEW c \in DOMAIN Original, Compensate(c) PROVE IInv'
    BY <1>3, CompensateStep
  <1>7. ASSUME NEW c \in DOMAIN Original, AskOriginal(c) PROVE IInv'
    BY <1>7, AskOriginalStep
  <1>4. ASSUME NEW r \in Requests, Propose(r) PROVE IInv'
    BY <1>4, PendingStep DEF Propose, IInv, TypeOK
  <1>5. ASSUME NEW p \in Plans, Expire(p) PROVE IInv'
    BY <1>5, ExpireStep
  <1>6. CASE UNCHANGED vars
    BY <1>6
    DEF vars, IInv, TypeOK, Sound, Placed, Informed, Protected, Locked, Pursuing, Ready,
        EntryInv, DependenciesFirst, ToldInv, Outcome
  <1> QED
    BY <1>1, <1>2, <1>3, <1>4, <1>5, <1>6, <1>7 DEF Next

\* What run, execute, collect, cancel and compensation keep true at every step.
THEOREM Invariant == Spec => []IInv
  BY InitInv, NextInv, PTL DEF Spec

\* The documents and jobs stay well formed, and no request is attempted more often than its
\* capability allows, for every number of planners, owners and steps.
THEOREM TypeCorrect == Spec => []TypeOK
  BY Invariant, PTL DEF IInv

\* Whatever the world did of a request, its entry in the outbox shows an attempt: the save
\* before the call in execute is never undone.
THEOREM EffectsLeaveTraces == Spec => []EffectsAreTraceable
  <1>1. IInv => EffectsAreTraceable
    BY DEF IInv, TypeOK, Entry, EntryInv, EffectsAreTraceable
  <1> QED
    BY <1>1, Invariant, PTL

\* A step has its effect only after those it depends on and, when it compensates, after its
\* original: run and _compensation_binding, under every loss of ledger writes.
THEOREM OrderIsKept == Spec => []DependenciesFirst
  BY Invariant, PTL DEF IInv

-----------------------------------------------------------------------------
(* ActionExecution implements ActionEffect.                                *)

\* Whoever is told anything new is told how the request ended.
LEMMA OnlyTruthTold ==
  ASSUME IInv', \A r \in Requests : told[r] \subseteq told'[r]
  PROVE  /\ told' \in [Requests -> SUBSET {"SUCCEEDED", "FAILED_TERMINAL", "CANCELLED"}]
         /\ Effect!Truthful
  BY DEF IInv, TypeOK, ToldInv, Effect!Truthful

LEMMA QuietStep ==
  ASSUME IInv', \A r \in Requests : told[r] \subseteq told'[r],
         UNCHANGED effects, \A r \in Requests : Outcome(r)' = Outcome(r)
  PROVE  Effect!ENext
  <1>1. UNCHANGED <<[r \in Requests |-> Outcome(r)], effects>>
    OBVIOUS
  <1> QED
    BY <1>1, OnlyTruthTold DEF Effect!ENext

\* Most actions leave the facts, and what is cancelled, alone.
LEMMA UncancelledStep ==
  ASSUME IInv', UNCHANGED <<facts, effects, told>>,
         \A r \in Requests : (outbox'[r].state = "CANCELLED") <=> (outbox[r].state = "CANCELLED")
  PROVE  Effect!ENext
  <1>1. \A r \in Requests : Outcome(r)' = Outcome(r)
    BY DEF Outcome
  <1> QED
    BY <1>1, QuietStep

LEMMA RunMaps == ASSUME IInv, IInv', NEW w \in Planners, Run(w) PROVE Effect!ENext
  <1> USE DEF DeliveryStates
  <1>1. CASE BeginRun(w) \/ Reserve(w) \/ Write(w) \/ Resume(w) \/ Ask(w) \/ Gate(w)
             \/ Accept(w) \/ Refused(w) \/ Abandon(w)
    BY <1>1, UncancelledStep
    DEF BeginRun, Reserve, Write, Resume, Ask, Gate, Accept, Refused, Abandon, documents
  <1>2. CASE Call(w)
    <2> DEFINE r == job[w].at
    <2>1. r \in Requests
      BY <1>2 DEF IInv, Sound, Placed, Pursuing, Call, Workers
    <2>2. UNCHANGED <<facts, effects, told>>
      BY <1>2 DEF Call
    <2>3. \/ UNCHANGED outbox
          \/ outbox[r].state # "CANCELLED" /\ Entered(r, "DELIVERED")
          \/ outbox[r].state # "CANCELLED" /\ outbox' = [outbox EXCEPT ![r] = Checkpoint(@)]
      BY <1>2 DEF Call
    <2>4. \A q \in Requests : (outbox'[q].state = "CANCELLED") <=> (outbox[q].state = "CANCELLED")
      <3> HIDE DEF r
      <3>1. CASE UNCHANGED outbox
        BY <3>1
      <3>2. CASE outbox[r].state # "CANCELLED" /\ Entered(r, "DELIVERED")
        BY <2>1, <3>2, EnteredType
      <3>3. CASE /\ outbox[r].state # "CANCELLED"
                 /\ outbox' = [outbox EXCEPT ![r] = Checkpoint(@)]
        BY <2>1, <3>3 DEF IInv, TypeOK, Entry, Checkpoint
      <3> QED
        BY <2>3, <3>1, <3>2, <3>3
    <2> QED
      BY <2>2, <2>4, UncancelledStep
  <1>3. CASE World(w)
    <2>1. PICK r \in Requests :
            /\ r = job[w].at /\ facts[r] = "none" /\ effects[r] = 0
            /\ outbox[r].state = "DISPATCHING" /\ UNCHANGED <<outbox, told>>
      <3>1. Sound(w, job[w]) /\ job[w].pc = "world"
        BY <1>3 DEF World, IInv, Workers
      <3>2. /\ job[w].at \in Requests /\ facts[job[w].at] = "none"
            /\ outbox[job[w].at].state = "DISPATCHING"
        BY <3>1 DEF Sound, Placed, Protected, Locked
      <3> QED
        BY <1>3, <3>2 DEF World, IInv, EntryInv
    <2>2. CASE UNCHANGED <<facts, effects>>
      BY <2>1, <2>2, UncancelledStep
    <2>3. ASSUME NEW o \in Receipts, facts' = [facts EXCEPT ![r] = o],
                 effects' = [effects EXCEPT ![r] = @ + 1]
          PROVE  Effect!ENext
      <3>1. Outcome(r) = "open" /\ Outcome(r)' = o /\ o \in {"SUCCEEDED", "FAILED_TERMINAL"}
        BY <2>1, <2>3 DEF Outcome, IInv, TypeOK, Receipts
      <3>2. \A q \in Requests \ {r} : Outcome(q)' = Outcome(q)
        BY <2>1, <2>3 DEF Outcome, IInv, TypeOK
      <3>3. effects' = [effects EXCEPT ![r] = 1]
        BY <2>1, <2>3 DEF IInv, TypeOK
      <3>4. [q \in Requests |-> Outcome(q)]' =
              [[q \in Requests |-> Outcome(q)] EXCEPT ![r] = o]
        BY <2>1, <3>1, <3>2
      <3>5. Effect!CarryOut(r)
        BY <2>1, <3>1, <3>3, <3>4 DEF Effect!CarryOut
      <3> QED
        BY <2>1, <3>5, OnlyTruthTold DEF Effect!ENext
    <2> QED
      BY <1>3, <2>1, <2>2, <2>3 DEF World
  <1>4. CASE Answer(w)
    <2>1. job[w].at \in Requests /\ outbox[job[w].at].state = "DISPATCHING"
      BY <1>4 DEF IInv, Sound, Placed, Protected, Locked, Answer, Workers
    <2>2. Entered(job[w].at, "DELIVERED") \/ Entered(job[w].at, "UNKNOWN")
      BY <1>4 DEF Answer
    <2>3. \A q \in Requests : (outbox'[q].state = "CANCELLED") <=> (outbox[q].state = "CANCELLED")
      BY <2>1, <2>2, EnteredType
    <2> QED
      BY <1>4, <2>3, UncancelledStep DEF Answer
  <1>5. CASE Collect(w)
    <2>1. PICK r \in Requests : "SUCCEEDED" \in Answers(r) /\ Entered(r, "DELIVERED")
      BY <1>5 DEF Collect
    <2>2. outbox[r].state # "CANCELLED" /\ outbox'[r].state = "DELIVERED"
      BY <2>1, FactsShown, EnteredType DEF IInv, EntryInv
    <2>3. \A q \in Requests : (outbox'[q].state = "CANCELLED") <=> (outbox[q].state = "CANCELLED")
      BY <2>1, <2>2, EnteredType
    <2> QED
      BY <1>5, <2>3, UncancelledStep DEF Collect
  <1>6. CASE Retain(w)
    <2>1. \A q \in Requests : (outbox'[q].state = "CANCELLED") <=> (outbox[q].state = "CANCELLED")
      BY <1>6, EnteredType DEF Retain, NoEntry
    <2> QED
      BY <1>6, <2>1, UncancelledStep DEF Retain
  <1>7. CASE Return(w)
    <2>1. UNCHANGED <<facts, effects, outbox>> /\ \A r \in Requests : told[r] \subseteq told'[r]
      BY <1>7 DEF Return, documents
    <2>2. \A r \in Requests : Outcome(r)' = Outcome(r)
      BY <2>1 DEF Outcome
    <2> QED
      BY <2>1, <2>2, QuietStep
  <1> QED
    BY <1>1, <1>2, <1>3, <1>4, <1>5, <1>6, <1>7 DEF Run

LEMMA CancelMaps == ASSUME IInv, IInv', NEW w \in Owners, Cancel(w) PROVE Effect!ENext
  <1>1. CASE BeginCancel(w) \/ Write(w) \/ Abandon(w)
    BY <1>1, UncancelledStep DEF BeginCancel, Write, Abandon, documents
  <1>2. CASE Stop(w)
    <2>1. job[w].at \in Requests
      BY <1>2 DEF IInv, Sound, Placed, Stop, Workers
    <2>2. UNCHANGED <<facts, effects, outbox>> /\ \A r \in Requests : told[r] \subseteq told'[r]
      BY <1>2, <2>1 DEF Stop, documents, IInv, TypeOK
    <2>3. \A r \in Requests : Outcome(r)' = Outcome(r)
      BY <2>2 DEF Outcome
    <2> QED
      BY <2>2, <2>3, QuietStep
  <1>3. CASE Stopped(w)
    <2>1. PICK r \in Requests : /\ r = job[w].at /\ facts[r] = "none" /\ Entered(r, "CANCELLED")
      BY <1>3 DEF IInv, Sound, Placed, Protected, Locked, Stopped, Workers
    <2>2. /\ UNCHANGED <<facts, effects>>
          /\ \A q \in Requests : told[q] \subseteq told'[q]
      BY <1>3, <2>1 DEF Stopped, IInv, TypeOK
    <2>3. /\ outbox'[r].state = "CANCELLED"
          /\ \A q \in Requests \ {r} : outbox'[q] = outbox[q]
      BY <2>1, EnteredType DEF DeliveryStates
    <2>4. Outcome(r)' = "CANCELLED" /\ \A q \in Requests \ {r} : Outcome(q)' = Outcome(q)
      BY <2>1, <2>2, <2>3 DEF Outcome
    <2>5. CASE Outcome(r) = "open"
      <3>1. [q \in Requests |-> Outcome(q)]' =
              [[q \in Requests |-> Outcome(q)] EXCEPT ![r] = "CANCELLED"]
        BY <2>1, <2>4
      <3>2. effects[r] = 0
        BY <2>1 DEF IInv, EntryInv
      <3>3. Effect!CallOff(r)
        BY <2>1, <2>2, <2>5, <3>1, <3>2 DEF Effect!CallOff
      <3> QED
        BY <2>1, <2>2, <3>3, OnlyTruthTold DEF Effect!ENext
    <2>6. CASE Outcome(r) # "open"
      <3>1. \A q \in Requests : Outcome(q)' = Outcome(q)
        BY <2>1, <2>4, <2>6 DEF Outcome
      <3> QED
        BY <2>2, <3>1, QuietStep
    <2> QED
      BY <2>5, <2>6
  <1> QED
    BY <1>1, <1>2, <1>3 DEF Cancel

LEMMA PendingMaps ==
  ASSUME IInv, IInv', NEW r \in Requests, UNCHANGED <<facts, effects, told>>,
         UNCHANGED outbox \/ (outbox[r] = NoEntry /\ Entered(r, "PENDING"))
  PROVE  Effect!ENext
  <1>1. \A q \in Requests : (outbox'[q].state = "CANCELLED") <=> (outbox[q].state = "CANCELLED")
    BY EnteredType DEF NoEntry, DeliveryStates
  <1> QED
    BY <1>1, UncancelledStep

LEMMA InitMaps == Init => Effect!EInit
  BY DEF Init, Effect!EInit, Outcome, NoEntry

LEMMA NextMaps == IInv /\ IInv' /\ [Next]_vars => [Effect!ENext]_Effect!evars
  <1> SUFFICES ASSUME IInv, IInv', Next PROVE Effect!ENext
    BY DEF vars, Effect!evars, Outcome
  <1>1. ASSUME NEW c \in DOMAIN Original, Compensate(c) PROVE Effect!ENext
    <2>1. Original[c] \in Requests
      BY ExecutionAssumption
    <2> QED
      BY <1>1, <2>1, PendingMaps DEF Compensate
  <1>2. ASSUME NEW r \in Requests, Propose(r) PROVE Effect!ENext
    BY <1>2, PendingMaps DEF Propose
  <1>3. ASSUME NEW p \in Plans, Expire(p) PROVE Effect!ENext
    BY <1>3, UncancelledStep DEF Expire
  <1>4. ASSUME NEW c \in DOMAIN Original, AskOriginal(c) PROVE Effect!ENext
    BY <1>4, UncancelledStep DEF AskOriginal
  <1> QED
    BY <1>1, <1>2, <1>3, <1>4, RunMaps, CancelMaps DEF Next

\* However runs, cancellations and crashes interleave and whatever the ledger loses, every
\* request has at most one effect, none once it was called off, and nobody is told but how
\* it ended (ActionPlanningService and ExecutionService).
THEOREM ExecutionKeepsItsPromise == Spec => RefinesEffect
  BY InitMaps, NextMaps, Invariant, PTL DEF Spec, RefinesEffect, Effect!ESpec
=============================================================================
