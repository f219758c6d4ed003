--------------------------- MODULE SchedulerProofs ---------------------------
(***************************************************************************)
(* The safety of Scheduler for any tasks, workers, limits and numbers of   *)
(* failures.  The stored queue is sound (QueueInv): of every task the      *)
(* attempts before the last are known not to have been delivered, the last *)
(* one is as the state says, and no later one is known anywhere.  A queue  *)
(* about to be saved over the revision it was loaded from is the stored    *)
(* one but for one record, which is sound as well (DraftInv).  A call that *)
(* speaks with the adapter is about an attempt that is in the queue        *)
(* (CallInv), and has been told the truth (ReplyInv).                      *)
(***************************************************************************)
EXTENDS Scheduler, FiniteSetTheorems, TLAPS

-----------------------------------------------------------------------------
(* The inductive invariant.                                                *)

Final == {"DELIVERED", "FAILED", "NOT_DELIVERED"}

\* It is known of an attempt that it was and will not be delivered.
Dead(l, a) == l[a] \in {"FAILED", "NOT_DELIVERED"}

\* Nobody has heard of an attempt.
Unborn(l, f, a) == l[a] = "none" /\ a \notin f

Proper(t, r) ==
  /\ r \in TaskRecord
  /\ r.attempts <= MaxAttempts[t]
  /\ r.state \in {"UNKNOWN", "RETRY_WAIT", "COMPLETED"} => r.attempts > 0
  /\ r.state \in Waiting => r.attempts < MaxAttempts[t]

\* What a record says of the attempts of its task is so, as the adapter knows them.
Accounted(l, f, t, r) ==
  /\ \A n \in 1..MostAttempts :
       /\ n < r.attempts => Dead(l, <<t, n>>)
       /\ n > r.attempts => Unborn(l, f, <<t, n>>)
  /\ r.state = "COMPLETED" => l[<<t, r.attempts>>] = "DELIVERED"
  /\ r.state \notin {"UNKNOWN", "COMPLETED"} /\ r.attempts > 0 => Dead(l, <<t, r.attempts>>)

QueueInv ==
  /\ IsFiniteSet(DOMAIN queue)
  /\ \A t \in DOMAIN queue : Proper(t, queue[t]) /\ Accounted(ledger, flight, t, queue[t])
  /\ \A t \in Tasks \ DOMAIN queue, n \in 1..MostAttempts : Unborn(ledger, flight, <<t, n>>)
  /\ WithinCapacity

\* A record that a call may put in the place of the stored one.
Follows(t, r) ==
  /\ Proper(t, r) /\ Accounted(ledger, flight, t, r)
  /\ t \in DOMAIN queue => queue[t].state \notin Terminal /\ queue[t].attempts <= r.attempts
  /\ t \notin DOMAIN queue =>
       r.state = "QUEUED" /\ r.attempts = 0 /\ Cardinality(Active(queue)) < Capacity

With(t, r) == [u \in DOMAIN queue \cup {t} |-> IF u = t THEN r ELSE queue[u]]

Fits(w) ==
  LET t == attempt[w][1]
      r == draft[w][t]
  IN  /\ draft[w] = With(t, r)
      /\ Follows(t, r)
      /\ after[w] = "dispatch" => attempt[w][2] = r.attempts /\ r.attempts > 0

DraftInv == \A w \in Workers : pc[w] = "save" /\ w \in fresh => Fits(w)

Talking == {"query", "answered", "dispatch", "await", "received"}

Present(a) == a[1] \in DOMAIN queue /\ a[2] \in 1..queue[a[1]].attempts

CallInv == \A w \in Workers : pc[w] \in Talking => Present(attempt[w])

ReplyInv ==
  \A w \in Workers : pc[w] \in {"answered", "received"} =>
    /\ reply[w] # "none"
    /\ reply[w] \in Final => ledger[attempt[w]] = reply[w]

IInv == TypeOK /\ QueueInv /\ DraftInv /\ CallInv /\ ReplyInv /\ ReportsAreDurable

-----------------------------------------------------------------------------
(* The limits, and the types of what is computed from them.                *)

LEMMA Limits ==
  /\ MostAttempts \in 1..10
  /\ \A t \in Tasks : MaxAttempts[t] \in 1..MostAttempts
  <1> DEFINE S == {MaxAttempts[t] : t \in Tasks}
  <1>1. S # {} /\ S \subseteq 1..10
    BY SchedulerAssumption
  <1>2. \E n \in S : \A m \in S : m <= n
    <2> HIDE DEF S
    <2> SUFFICES ASSUME \A n \in S : \E m \in S : m > n PROVE FALSE
      BY <1>1
    <2>1. S \cap {9, 10} = {}
      BY <1>1
    <2>2. S \cap {7, 8} = {}
      BY <1>1, <2>1
    <2>3. S \cap {5, 6} = {}
      BY <1>1, <2>1, <2>2
    <2>4. S \cap {3, 4} = {}
      BY <1>1, <2>1, <2>2, <2>3
    <2>5. S \subseteq {1, 2}
      BY <1>1, <2>1, <2>2, <2>3, <2>4
    <2>6. 2 \notin S
      BY <2>5
    <2>7. 1 \notin S
      BY <2>5, <2>6
    <2> QED
      BY <1>1, <2>5, <2>6, <2>7
  <1>3. \E n \in S : \A t \in Tasks : MaxAttempts[t] <= n
    BY <1>2
  <1>4. MostAttempts \in S /\ \A t \in Tasks : MaxAttempts[t] <= MostAttempts
    BY <1>3 DEF MostAttempts
  <1> QED
    BY <1>1, <1>4, SchedulerAssumption

LEMMA AttemptType == NoAttempt \in Attempts
  <1>1. PICK t \in Tasks : TRUE
    BY SchedulerAssumption
  <1>2. <<t, 0>> \in Attempts /\ <<t, 0>>[2] = 0
    BY Limits DEF Attempts
  <1> QED
    BY <1>2 DEF NoAttempt

LEMMA DoubledType == \A n \in 1..10 : Doubled[n] \in Nat
  BY DEF Doubled

LEMMA OlderType == \A x \in Int : Older(x) \in Int
  BY SchedulerAssumption DEF Older

\* A record with another state and another time keeps its form and its attempts.
Turned(q, state, x) == [q EXCEPT !.state = state, !.next = x]
Postponed(q, x) == [q EXCEPT !.next = x]

States == Terminal \cup Waiting \cup {"UNKNOWN"}

LEMMA TurnedType ==
  ASSUME NEW q \in TaskRecord, NEW s \in States, NEW x \in Int
  PROVE  /\ Turned(q, s, x) \in TaskRecord
         /\ Turned(q, s, x).attempts = q.attempts
         /\ Turned(q, s, x).state = s
  <1>1. TaskRecord = [state : States, attempts : Nat, next : Int, cancel : BOOLEAN, created : Int,
                          due : Int, seq : Nat]
    BY DEF TaskRecord, States
  <1> QED
    BY <1>1 DEF Turned

LEMMA PostponedType ==
  ASSUME NEW q \in TaskRecord, NEW x \in Int
  PROVE  /\ Postponed(q, x) \in TaskRecord
         /\ Postponed(q, x).attempts = q.attempts
         /\ Postponed(q, x).state = q.state
  <1>1. TaskRecord = [state : States, attempts : Nat, next : Int, cancel : BOOLEAN, created : Int,
                          due : Int, seq : Nat]
    BY DEF TaskRecord, States
  <1> QED
    BY <1>1 DEF Postponed

LEMMA NoTimeType == NoTime \in Int
  BY SchedulerAssumption DEF NoTime

LEMMA CancelledType ==
  ASSUME NEW q \in TaskRecord
  PROVE  /\ Cancelled(q) \in TaskRecord
         /\ Cancelled(q).attempts = q.attempts
         /\ Cancelled(q).state = IF q.state = "UNKNOWN" THEN "UNKNOWN" ELSE "CANCELLED"
  <1>1. CASE q.state = "UNKNOWN"
    <2>1. Cancelled(q) = [q EXCEPT !.cancel = TRUE, !.next = NoTime]
      BY <1>1 DEF Cancelled
    <2> QED
      BY <1>1, <2>1, NoTimeType DEF TaskRecord
  <1>2. CASE q.state # "UNKNOWN"
    <2>1. Cancelled(q) = [q EXCEPT !.state = "CANCELLED", !.cancel = TRUE, !.next = NoTime]
      BY <1>2 DEF Cancelled
    <2> QED
      BY <1>2, <2>1, NoTimeType DEF TaskRecord, Terminal
  <1> QED
    BY <1>1, <1>2

LEMMA CheckpointType ==
  ASSUME NEW q \in TaskRecord
  PROVE  /\ Checkpoint(q) \in TaskRecord
         /\ Checkpoint(q).attempts = q.attempts + 1
         /\ Checkpoint(q).state = "UNKNOWN"
  <1> DEFINE n == q.attempts + 1
  <1>1. Checkpoint(q) = [q EXCEPT !.state = "UNKNOWN", !.attempts = n, !.next = NoTime]
    BY DEF Checkpoint, TaskRecord
  <1>2. n \in Nat
    BY DEF TaskRecord
  <1> HIDE DEF n
  <1>3. Checkpoint(q) \in TaskRecord /\ Checkpoint(q).attempts = n /\ Checkpoint(q).state = "UNKNOWN"
    BY <1>1, <1>2, NoTimeType DEF TaskRecord
  <1> QED
    BY <1>3 DEF n

LEMMA SettledType ==
  ASSUME NEW q \in TaskRecord, NEW limit \in 1..10, q.attempts \in 1..limit, NEW now \in Int,
         NEW status \in Final \cup {"UNKNOWN"}, NEW r, r = Settled(q, limit, status, now)
  PROVE  /\ r \in TaskRecord /\ r.attempts = q.attempts
         /\ status = "DELIVERED" => r.state = "COMPLETED"
         /\ status = "UNKNOWN" => r.state = q.state
         /\ status \in {"FAILED", "NOT_DELIVERED"} =>
              r.state \in {"CANCELLED", "RETRY_EXHAUSTED"} \/ (r.state = "RETRY_WAIT" /\ q.attempts < limit)
  <1> DEFINE delay == RetryBase * Doubled[q.attempts]
  <1>1. now + RetryBase \in Int /\ now + delay \in Int /\ NoTime \in Int
    <2>1. Doubled[q.attempts] \in Nat
      BY DoubledType
    <2> QED
      BY <2>1, NoTimeType, SchedulerAssumption
  <1>2. /\ "COMPLETED" \in States /\ "CANCELLED" \in States
        /\ "RETRY_EXHAUSTED" \in States /\ "RETRY_WAIT" \in States
    BY DEF States, Terminal, Waiting
  <1>3. CASE status = "DELIVERED"
    <2>1. r = Turned(q, "COMPLETED", NoTime)
      BY <1>3 DEF Settled, Undecided, Turned
    <2>2. r \in TaskRecord /\ r.attempts = q.attempts /\ r.state = "COMPLETED"
      <3>1. Turned(q, "COMPLETED", NoTime) \in TaskRecord
        BY <1>1, <1>2, TurnedType
      <3>2. Turned(q, "COMPLETED", NoTime).attempts = q.attempts
        BY <1>1, <1>2, TurnedType
      <3>3. Turned(q, "COMPLETED", NoTime).state = "COMPLETED"
        BY <1>1, <1>2, TurnedType
      <3> QED
        BY <2>1, <3>1, <3>2, <3>3
    <2> QED
      BY <1>3, <2>2
  <1>4. CASE status = "UNKNOWN"
    <2>1. r = Postponed(q, now + RetryBase)
      BY <1>4 DEF Settled, Undecided, Postponed
    <2> QED
      BY <1>1, <1>4, <2>1, PostponedType
  <1>5. CASE status \in {"FAILED", "NOT_DELIVERED"}
    <2>1. r = IF q.cancel THEN Turned(q, "CANCELLED", NoTime)
              ELSE IF q.attempts >= limit THEN Turned(q, "RETRY_EXHAUSTED", NoTime)
              ELSE Turned(q, "RETRY_WAIT", now + delay)
      <3>1. status # "DELIVERED" /\ ~Undecided(status)
        BY <1>5 DEF Undecided
      <3> QED
        BY <3>1 DEF Settled, Exhausted, Turned
    <2> HIDE DEF delay
    <2>2. \/ r = Turned(q, "CANCELLED", NoTime)
          \/ r = Turned(q, "RETRY_EXHAUSTED", NoTime)
          \/ r = Turned(q, "RETRY_WAIT", now + delay) /\ ~(q.attempts >= limit)
      BY <2>1
    <2>3. CASE r = Turned(q, "CANCELLED", NoTime)
      <3>1. Turned(q, "CANCELLED", NoTime) \in TaskRecord
        BY <1>1, <1>2, TurnedType
      <3>2. Turned(q, "CANCELLED", NoTime).attempts = q.attempts
        BY <1>1, <1>2, TurnedType
      <3>3. Turned(q, "CANCELLED", NoTime).state = "CANCELLED"
        BY <1>1, <1>2, TurnedType
      <3> QED
        BY <1>5, <2>3, <3>1, <3>2, <3>3
    <2>4. CASE r = Turned(q, "RETRY_EXHAUSTED", NoTime)
      <3>1. Turned(q, "RETRY_EXHAUSTED", NoTime) \in TaskRecord
        BY <1>1, <1>2, TurnedType
      <3>2. Turned(q, "RETRY_EXHAUSTED", NoTime).attempts = q.attempts
        BY <1>1, <1>2, TurnedType
      <3>3. Turned(q, "RETRY_EXHAUSTED", NoTime).state = "RETRY_EXHAUSTED"
        BY <1>1, <1>2, TurnedType
      <3> QED
        BY <1>5, <2>4, <3>1, <3>2, <3>3
    <2>5. CASE r = Turned(q, "RETRY_WAIT", now + delay) /\ ~(q.attempts >= limit)
      <3>1. PICK x \in Int : x = now + delay
        BY <1>1
      <3>2. Turned(q, "RETRY_WAIT", x) \in TaskRecord
        BY <1>2, <3>1, TurnedType
      <3>3. Turned(q, "RETRY_WAIT", x).attempts = q.attempts
        BY <1>2, <3>1, TurnedType
      <3>4. Turned(q, "RETRY_WAIT", x).state = "RETRY_WAIT"
        BY <1>2, <3>1, TurnedType
      <3>5. q.attempts < limit
        BY <2>5
      <3>6. r.state = "RETRY_WAIT" /\ r.attempts = q.attempts /\ r \in TaskRecord
        BY <2>5, <3>1, <3>2, <3>3, <3>4
      <3> QED
        BY <1>5, <3>5, <3>6
    <2> QED
      BY <2>2, <2>3, <2>4, <2>5
  <1> QED
    BY <1>3, <1>4, <1>5 DEF Final

LEMMA FreshProper ==
  ASSUME NEW t \in Tasks, NEW n \in Nat,
         \A m \in 1..MostAttempts : Unborn(ledger, flight, <<t, m>>)
  PROVE  Proper(t, FreshTask(t, n)) /\ Accounted(ledger, flight, t, FreshTask(t, n))
  <1>1. /\ FreshTask(t, n) \in TaskRecord
        /\ FreshTask(t, n).state = "QUEUED" /\ FreshTask(t, n).attempts = 0
    BY SchedulerAssumption DEF FreshTask, TaskRecord, Terminal, Waiting, NoTime
  <1>2. Proper(t, FreshTask(t, n))
    BY <1>1, SchedulerAssumption DEF Proper, Waiting
  <1>3. Accounted(ledger, flight, t, FreshTask(t, n))
    BY <1>1, Limits DEF Accounted
  <1> QED
    BY <1>2, <1>3

-----------------------------------------------------------------------------
(* What is known of attempts only grows, and only about those in the       *)
(* queue: then every account stays true.                                   *)

Advances ==
  \A a \in Attempts :
    /\ ledger[a] \in Final => ledger'[a] = ledger[a]
    /\ a[2] > 0 /\ ledger'[a] # ledger[a] => Present(a)
    /\ a[2] > 0 /\ a \in flight' => a \in flight \/ Present(a)

LEMMA AccountKept ==
  ASSUME TypeOK, Advances, NEW t \in Tasks, NEW r, Proper(t, r),
         Accounted(ledger, flight, t, r),
         t \in DOMAIN queue => queue[t].attempts <= r.attempts
  PROVE  Accounted(ledger', flight', t, r)
  <1>1. r.attempts \in 0..MostAttempts
    BY Limits DEF Proper, TaskRecord
  <1>2. \A n \in 0..MostAttempts : <<t, n>> \in Attempts
    BY DEF Attempts
  <1>3. \A n \in 0..MostAttempts : Dead(ledger, <<t, n>>) => Dead(ledger', <<t, n>>)
    BY <1>2 DEF Dead, Advances, Final
  <1>4. \A n \in 1..MostAttempts : n > r.attempts => ~Present(<<t, n>>)
    BY <1>1 DEF Present, TypeOK, TaskRecord
  <1>5. \A n \in 1..MostAttempts :
          n > r.attempts /\ Unborn(ledger, flight, <<t, n>>) => Unborn(ledger', flight', <<t, n>>)
    BY <1>2, <1>4 DEF Unborn, Advances
  <1>6. ledger[<<t, r.attempts>>] = "DELIVERED" => ledger'[<<t, r.attempts>>] = "DELIVERED"
    BY <1>1, <1>2 DEF Advances, Final
  <1> QED
    BY <1>1, <1>3, <1>5, <1>6 DEF Accounted

LEMMA AdvanceStep ==
  ASSUME IInv, Advances, UNCHANGED <<queue, draft, after, fresh, told>>,
         \A w \in Workers : pc'[w] = "save" => pc[w] = "save" /\ attempt'[w] = attempt[w]
  PROVE  QueueInv' /\ DraftInv' /\ ReportsAreDurable'
  <1>1. QueueInv'
    <2>1. \A t \in DOMAIN queue : Accounted(ledger', flight', t, queue[t])
      BY AccountKept DEF IInv, QueueInv, TypeOK, TaskRecord
    <2>2. ASSUME NEW t \in Tasks \ DOMAIN queue, NEW n \in 1..MostAttempts
          PROVE  Unborn(ledger', flight', <<t, n>>)
      <3>1. <<t, n>> \in Attempts /\ ~Present(<<t, n>>)
        BY DEF Attempts, Present
      <3> QED
        BY <3>1 DEF IInv, QueueInv, Unborn, Advances
    <2> QED
      BY <2>1, <2>2 DEF IInv, QueueInv, WithinCapacity
  <1>2. DraftInv'
    <2> SUFFICES ASSUME NEW w \in Workers, pc'[w] = "save", w \in fresh' PROVE Fits(w)'
      BY DEF DraftInv
    <2> DEFINE t == attempt[w][1]
               r == draft[w][t]
    <2>1. Fits(w) /\ attempt'[w] = attempt[w] /\ t \in Tasks
      BY DEF IInv, DraftInv, TypeOK, Attempts
    <2>2. Proper(t, r) /\ Accounted(ledger, flight, t, r)
          /\ (t \in DOMAIN queue => queue[t].attempts <= r.attempts)
      BY <2>1 DEF Fits, Follows
    <2>3. Accounted(ledger', flight', t, r)
      BY <2>1, <2>2, AccountKept DEF IInv
    <2> QED
      BY <2>1, <2>3 DEF Fits, Follows, With
  <1>3. ReportsAreDurable'
    BY DEF IInv, ReportsAreDurable
  <1> QED
    BY <1>1, <1>2, <1>3

-----------------------------------------------------------------------------
(* A step of one call that changes neither the queue nor the adapter.      *)

OthersRest(w) ==
  \A v \in Workers \ {w} :
    /\ pc'[v] = pc[v] /\ attempt'[v] = attempt[v] /\ reply'[v] = reply[v]
    /\ draft'[v] = draft[v] /\ after'[v] = after[v]

LEMMA LocalStep ==
  ASSUME IInv, NEW w \in Workers, TypeOK', OthersRest(w),
         UNCHANGED <<queue, ledger, flight, told>>, fresh' \subseteq fresh \cup {w},
         pc'[w] = "save" => Fits(w)',
         pc'[w] \in Talking => Present(attempt'[w]),
         pc'[w] \in {"answered", "received"} =>
           reply'[w] # "none" /\ (reply'[w] \in Final => ledger[attempt'[w]] = reply'[w])
  PROVE  IInv'
  <1>1. QueueInv' /\ ReportsAreDurable'
    BY DEF IInv, QueueInv, WithinCapacity, ReportsAreDurable
  <1>2. DraftInv'
    <2> SUFFICES ASSUME NEW v \in Workers \ {w}, pc'[v] = "save", v \in fresh' PROVE Fits(v)'
      BY DEF DraftInv
    <2>1. Fits(v) /\ attempt'[v] = attempt[v] /\ draft'[v] = draft[v] /\ after'[v] = after[v]
      BY DEF IInv, DraftInv, OthersRest
    <2> QED
      BY <2>1 DEF Fits, Follows, With
  <1>3. CallInv'
    BY DEF IInv, CallInv, OthersRest, Present
  <1>4. ReplyInv'
    BY DEF IInv, ReplyInv, OthersRest
  <1> QED
    BY <1>1, <1>2, <1>3, <1>4 DEF IInv

LEMMA ReturnStep ==
  ASSUME IInv, NEW w \in Workers, Return(w), fresh' \subseteq fresh, faults' \in 0..MaxFaults,
         UNCHANGED <<queue, ledger, flight, told>>
  PROVE  IInv'
  <1>1. TypeOK'
    BY AttemptType DEF IInv, TypeOK, Return, Goto, PCs, Statuses, EmptyQueue
  <1>2. OthersRest(w) /\ pc'[w] = "idle"
    BY DEF IInv, TypeOK, Return, Goto, OthersRest
  <1> QED
    BY <1>1, <1>2, LocalStep DEF Talking

LEMMA GoOnStep ==
  ASSUME IInv, NEW w \in Workers, GoOn(w), UNCHANGED <<queue, ledger, flight, fresh, told, faults>>
  PROVE  IInv'
  <1>1. TypeOK'
    BY AttemptType DEF IInv, TypeOK, GoOn, Goto, PCs, Statuses, EmptyQueue
  <1>2. OthersRest(w) /\ pc'[w] = "select"
    BY DEF IInv, TypeOK, GoOn, Goto, OthersRest
  <1> QED
    BY <1>1, <1>2, LocalStep DEF Talking

LEMMA PrepareStep ==
  ASSUME IInv, NEW w \in Workers, NEW t \in Tasks, NEW n \in 0..MostAttempts, NEW r,
         NEW next \in {"idle", "select", "dispatch"},
         Prepare(w, <<t, n>>, r, next), Follows(t, r),
         next = "dispatch" => n = r.attempts /\ n > 0,
         UNCHANGED <<queue, ledger, flight, told, faults>>
  PROVE  IInv'
  <1>1. /\ <<t, n>> \in Attempts
        /\ DOMAIN [u \in DOMAIN queue \cup {t} |-> IF u = t THEN r ELSE queue[u]] \subseteq Tasks
    BY DEF Attempts, IInv, TypeOK
  <1>2. TypeOK'
    BY <1>1 DEF IInv, TypeOK, Prepare, Goto, PCs, Statuses
  <1>3. /\ OthersRest(w) /\ pc'[w] = "save" /\ attempt'[w] = <<t, n>> /\ after'[w] = next
        /\ draft'[w] = [u \in DOMAIN queue \cup {t} |-> IF u = t THEN r ELSE queue[u]]
    BY DEF IInv, TypeOK, Prepare, Goto, OthersRest
  <1>4. draft'[w][t] = r /\ attempt'[w][1] = t /\ attempt'[w][2] = n
    BY <1>3
  <1>5. Fits(w)'
    BY <1>3, <1>4 DEF Fits, Follows, With
  <1> QED
    BY <1>2, <1>3, <1>5, LocalStep DEF Talking, Prepare

-----------------------------------------------------------------------------
(* What the calls put in the place of a record follows it.                 *)

LEMMA Recorded ==
  ASSUME IInv, NEW t \in DOMAIN queue
  PROVE  /\ t \in Tasks /\ Proper(t, queue[t]) /\ Accounted(ledger, flight, t, queue[t])
         /\ queue[t].attempts \in 0..MaxAttempts[t]
         /\ MaxAttempts[t] \in 1..MostAttempts /\ MostAttempts \in 1..10
  BY Limits DEF IInv, TypeOK, QueueInv, Proper, TaskRecord

LEMMA Submitted ==
  ASSUME IInv, NEW t \in Tasks \ DOMAIN queue, HasRoom(queue)
  PROVE  Follows(t, FreshTask(t, Cardinality(DOMAIN queue) + 1))
  <1>1. Cardinality(DOMAIN queue) + 1 \in Nat
    BY FS_CardinalityType DEF IInv, QueueInv
  <1>2. \A n \in 1..MostAttempts : Unborn(ledger, flight, <<t, n>>)
    BY DEF IInv, QueueInv
  <1>3. FreshTask(t, Cardinality(DOMAIN queue) + 1).state = "QUEUED"
        /\ FreshTask(t, Cardinality(DOMAIN queue) + 1).attempts = 0
    BY DEF FreshTask
  <1> QED
    BY <1>1, <1>2, <1>3, FreshProper DEF Follows, HasRoom

LEMMA CancelFollows ==
  ASSUME IInv, NEW t \in Active(queue)
  PROVE  Follows(t, Cancelled(queue[t]))
  <1> DEFINE q == queue[t]
             r == Cancelled(q)
  <1>1. t \in DOMAIN queue /\ q.state \notin Terminal
    BY DEF Active
  <1>2. /\ q \in TaskRecord /\ r \in TaskRecord /\ r.attempts = q.attempts
        /\ r.state = IF q.state = "UNKNOWN" THEN "UNKNOWN" ELSE "CANCELLED"
    BY <1>1, Recorded, CancelledType DEF Proper
  <1>3. Proper(t, r)
    BY <1>1, <1>2, Recorded DEF Proper, Waiting
  <1>4. Accounted(ledger, flight, t, r)
    BY <1>1, <1>2, Recorded DEF Accounted, Terminal
  <1> QED
    BY <1>1, <1>2, <1>3, <1>4, Recorded DEF Follows

LEMMA CheckpointFollows ==
  ASSUME IInv, NEW t \in DOMAIN queue, queue[t].state \in Waiting
  PROVE  /\ Follows(t, Checkpoint(queue[t]))
         /\ Checkpoint(queue[t]).attempts = queue[t].attempts + 1
         /\ queue[t].attempts + 1 \in 1..MostAttempts
  <1> DEFINE q == queue[t]
             r == Checkpoint(q)
  <1>1. /\ q \in TaskRecord /\ r \in TaskRecord
        /\ r.attempts = q.attempts + 1 /\ r.state = "UNKNOWN"
    BY Recorded, CheckpointType DEF Proper
  <1>2. q.attempts < MaxAttempts[t] /\ q.attempts + 1 \in 1..MostAttempts
    BY Recorded DEF Proper
  <1>3. Proper(t, r)
    BY <1>1, <1>2, Recorded, SchedulerAssumption DEF Proper, Waiting
  <1>4. Accounted(ledger, flight, t, r)
    <2>1. \A n \in 1..MostAttempts : n < r.attempts => n < q.attempts \/ n = q.attempts
      BY <1>1, <1>2, Recorded
    <2>2. q.attempts > 0 => Dead(ledger, <<t, q.attempts>>)
      BY Recorded DEF Accounted, Waiting
    <2>3. \A n \in 1..MostAttempts : n > r.attempts => n > q.attempts
      BY <1>1, <1>2, Recorded
    <2> QED
      BY <1>1, <2>1, <2>2, <2>3, Recorded DEF Accounted
  <1>5. q.state \notin Terminal /\ q.attempts <= r.attempts
    BY <1>1, Recorded DEF Waiting, Terminal
  <1> HIDE DEF q, r
  <1>6. Follows(t, r)
    BY <1>3, <1>4, <1>5 DEF Follows, q
  <1> QED
    BY <1>1, <1>2, <1>6 DEF q, r

\* A pending attempt after what its adapter said of it, or after a verification that failed.
LEMMA PendingFollows ==
  ASSUME IInv, NEW t \in DOMAIN queue, queue[t].state = "UNKNOWN",
         NEW r \in TaskRecord, r.attempts = queue[t].attempts,
         \/ r.state = "UNKNOWN"
         \/ r.state = "COMPLETED" /\ ledger[<<t, r.attempts>>] = "DELIVERED"
         \/ /\ r.state \in {"CANCELLED", "RETRY_EXHAUSTED", "RETRY_WAIT"}
            /\ Dead(ledger, <<t, r.attempts>>)
            /\ r.state = "RETRY_WAIT" => r.attempts < MaxAttempts[t]
  PROVE  Follows(t, r)
  <1>1. Proper(t, r)
    BY Recorded DEF Proper, Waiting
  <1>2. Accounted(ledger, flight, t, r)
    BY Recorded DEF Accounted
  <1> QED
    BY <1>1, <1>2, Recorded DEF Follows, Terminal

LEMMA SettledFollows ==
  ASSUME IInv, NEW t \in DOMAIN queue, queue[t].state = "UNKNOWN", NEW now \in Int,
         NEW status \in Final \cup {"UNKNOWN"},
         status \in Final => ledger[<<t, queue[t].attempts>>] = status
  PROVE  Follows(t, Settled(queue[t], MaxAttempts[t], status, now))
  <1> DEFINE q == queue[t]
             r == Settled(q, MaxAttempts[t], status, now)
  <1>1. q \in TaskRecord /\ q.attempts \in 1..MaxAttempts[t] /\ MaxAttempts[t] \in 1..10
    BY Recorded, SchedulerAssumption DEF Proper, TaskRecord
  <1>2. /\ r \in TaskRecord /\ r.attempts = q.attempts
        /\ status = "DELIVERED" => r.state = "COMPLETED"
        /\ status = "UNKNOWN" => r.state = "UNKNOWN"
        /\ status \in {"FAILED", "NOT_DELIVERED"} =>
             \/ r.state \in {"CANCELLED", "RETRY_EXHAUSTED"}
             \/ r.state = "RETRY_WAIT" /\ q.attempts < MaxAttempts[t]
    BY <1>1, SettledType
  <1> HIDE DEF r
  <1>3. status \in {"FAILED", "NOT_DELIVERED"} => Dead(ledger, <<t, r.attempts>>)
    BY <1>2 DEF Dead, Final
  <1>4. Follows(t, r)
    BY <1>2, <1>3, PendingFollows DEF Final
  <1> QED
    BY <1>4 DEF r

-----------------------------------------------------------------------------
(* The steps of clients and tickers that load the queue.                   *)

LEMMA SubmitStep ==
  ASSUME IInv, NEW w \in Workers, NEW t \in Tasks, Submit(w, t) PROVE IInv'
  <1>1. 0 \in 0..MostAttempts
    BY Limits
  <1> QED
    BY <1>1, Submitted, PrepareStep DEF Submit

LEMMA CancelStep ==
  ASSUME IInv, NEW w \in Workers, NEW t \in Tasks, Cancel(w, t) PROVE IInv'
  <1>1. t \in Active(queue) /\ t \in DOMAIN queue
    BY DEF Cancel, Active
  <1>2. queue[t].attempts \in 0..MostAttempts
    BY <1>1, Recorded
  <1> QED
    BY <1>1, <1>2, CancelFollows, PrepareStep DEF Cancel

LEMMA SelectStep ==
  ASSUME IInv, NEW w \in Workers, Select(w) PROVE IInv'
  <1>1. PICK t \in Candidates(queue, began[w]) :
          Prepare(w, <<t, queue[t].attempts + 1>>, Checkpoint(queue[t]), "dispatch")
    BY DEF Select
  <1>2. t \in DOMAIN queue /\ queue[t].state \in Waiting /\ t \in Tasks
    BY DEF Candidates, Ready, IInv, TypeOK
  <1> DEFINE n == queue[t].attempts + 1
  <1>3. n \in 1..MostAttempts /\ n \in 0..MostAttempts
        /\ Follows(t, Checkpoint(queue[t])) /\ n = Checkpoint(queue[t]).attempts
    BY <1>2, Limits, CheckpointFollows
  <1> HIDE DEF n
  <1>4. Prepare(w, <<t, n>>, Checkpoint(queue[t]), "dispatch")
    BY <1>1 DEF n
  <1> QED
    BY <1>2, <1>3, <1>4, PrepareStep DEF Select

LEMMA ApplyStep ==
  ASSUME IInv, NEW w \in Workers, Apply(w) PROVE IInv'
  <1> DEFINE t == attempt[w][1]
             n == attempt[w][2]
             r == Settled(queue[t], MaxAttempts[t], reply[w], began[w])
             next == IF reply[w] = "UNKNOWN" THEN AfterVerify(w) ELSE "idle"
  <1>1. /\ t \in DOMAIN queue /\ t \in Tasks /\ n \in 0..MostAttempts
        /\ attempt[w] = <<t, n>> /\ queue[t].state = "UNKNOWN" /\ queue[t].attempts = n
    BY DEF Apply, IInv, CallInv, Talking, Present, TypeOK, Attempts
  <1>2. /\ reply[w] \in Final \cup {"UNKNOWN"} /\ began[w] \in Int
        /\ reply[w] \in Final => ledger[<<t, n>>] = reply[w]
    BY <1>1 DEF Apply, IInv, ReplyInv, TypeOK, Statuses, Final
  <1>3. Follows(t, r)
    BY <1>1, <1>2, SettledFollows
  <1>4. next \in {"idle", "select", "dispatch"} /\ next # "dispatch"
    BY DEF AfterVerify
  <1>5. Prepare(w, <<t, n>>, r, next) /\ UNCHANGED <<queue, ledger, flight, told, faults>>
    BY <1>1 DEF Apply
  <1> HIDE DEF t, n, r, next
  <1> QED
    BY <1>1, <1>3, <1>4, <1>5, PrepareStep

LEMMA PutOffStep ==
  ASSUME IInv, NEW w \in Workers, PutOff(w) PROVE IInv'
  <1> DEFINE t == attempt[w][1]
             n == attempt[w][2]
             r == [queue[t] EXCEPT !.next = began[w] + RetryBase]
  <1>1. /\ t \in DOMAIN queue /\ t \in Tasks /\ n \in 0..MostAttempts
        /\ attempt[w] = <<t, n>> /\ began[w] + RetryBase \in Int
    BY SchedulerAssumption DEF PutOff, IInv, CallInv, Talking, Present, TypeOK, Attempts
  <1>2. CASE queue[t].state = "UNKNOWN"
    <2>1. r \in TaskRecord /\ r.attempts = queue[t].attempts /\ r.state = "UNKNOWN"
      BY <1>1, <1>2, Recorded DEF Proper, TaskRecord
    <2>2. Follows(t, r)
      BY <1>1, <1>2, <2>1, PendingFollows
    <2>3. Prepare(w, <<t, n>>, r, "select") /\ UNCHANGED <<queue, ledger, flight, told, faults>>
      BY <1>1, <1>2 DEF PutOff
    <2> HIDE DEF t, n, r
    <2> QED
      BY <1>1, <2>2, <2>3, PrepareStep
  <1>3. CASE queue[t].state # "UNKNOWN"
    BY <1>3, GoOnStep DEF PutOff
  <1> QED
    BY <1>2, <1>3
-----------------------------------------------------------------------------
(* The steps of a call that talks to the adapter, and of the adapter.      *)

LEMMA TalkStep ==
  ASSUME IInv, TypeOK', Advances, NEW w \in Workers, pc[w] \in Talking, NEW to \in Talking,
         pc' = [pc EXCEPT ![w] = to],
         UNCHANGED <<queue, attempt, draft, after, fresh, told>>,
         \A v \in Workers \ {w} : reply'[v] = reply[v],
         to \in {"answered", "received"} =>
           reply'[w] # "none" /\ (reply'[w] \in Final => ledger'[attempt[w]] = reply'[w])
  PROVE  IInv'
  <1>1. /\ pc'[w] = to
        /\ \A v \in Workers \ {w} : pc'[v] = pc[v]
    BY DEF IInv, TypeOK
  <1>2. QueueInv' /\ DraftInv' /\ ReportsAreDurable'
    BY <1>1, AdvanceStep DEF Talking
  <1>3. CallInv'
    BY <1>1 DEF IInv, CallInv, Present
  <1>4. ASSUME NEW v \in Workers \ {w}, pc'[v] \in {"answered", "received"}
        PROVE  reply'[v] # "none" /\ (reply'[v] \in Final => ledger'[attempt'[v]] = reply'[v])
    <2>1. /\ attempt[v] \in Attempts /\ reply[v] # "none"
          /\ reply[v] \in Final => ledger[attempt[v]] = reply[v]
      BY <1>1, <1>4 DEF IInv, TypeOK, ReplyInv
    <2> QED
      BY <2>1 DEF Advances
  <1>5. ReplyInv'
    BY <1>1, <1>4 DEF ReplyInv
  <1> QED
    BY <1>2, <1>3, <1>5 DEF IInv

LEMMA AdapterStep ==
  ASSUME IInv, TypeOK', Advances,
         UNCHANGED <<queue, pc, attempt, reply, draft, after, fresh, told>>
  PROVE  IInv'
  <1>1. QueueInv' /\ DraftInv' /\ ReportsAreDurable'
    BY AdvanceStep
  <1>2. CallInv'
    BY DEF IInv, CallInv, Present
  <1>3. ReplyInv'
    BY DEF IInv, TypeOK, ReplyInv, Advances
  <1> QED
    BY <1>1, <1>2, <1>3 DEF IInv

\* Only attempts that are in the queue are under way.
LEMMA FlightKnown ==
  ASSUME IInv, NEW a \in flight, a[2] > 0
  PROVE  Present(a)
  <1>1. PICK t \in Tasks, n \in 0..MostAttempts : a = <<t, n>>
    BY DEF IInv, TypeOK, Attempts
  <1>2. n \in 1..MostAttempts
    BY <1>1, Limits
  <1>3. t \in DOMAIN queue
    BY <1>1, <1>2 DEF IInv, QueueInv, Unborn
  <1>4. queue[t].attempts \in Nat /\ ~(n > queue[t].attempts)
    BY <1>1, <1>2, <1>3 DEF IInv, TypeOK, TaskRecord, QueueInv, Accounted, Unborn
  <1> QED
    BY <1>1, <1>2, <1>3, <1>4 DEF Present

LEMMA ArriveStep ==
  ASSUME IInv, NEW a \in Attempts, Arrive(a) PROVE IInv'
  <1>1. TypeOK'
    BY DEF Arrive, IInv, TypeOK, Statuses
  <1>2. \A b \in Attempts : b # a => ledger'[b] = ledger[b]
    BY DEF Arrive, IInv, TypeOK
  <1>3. ledger[a] \in Final => ledger'[a] = ledger[a]
    BY DEF Arrive, Final
  <1>4. a[2] > 0 => Present(a)
    BY FlightKnown DEF Arrive
  <1>5. Advances
    BY <1>2, <1>3, <1>4 DEF Arrive, Advances
  <1> QED
    BY <1>1, <1>5, AdapterStep DEF Arrive

LEMMA LoseStep ==
  ASSUME IInv, NEW a \in Attempts, Lose(a) PROVE IInv'
  <1>1. TypeOK'
    BY DEF Lose, IInv, TypeOK
  <1>2. Advances
    BY DEF Lose, Advances
  <1> QED
    BY <1>1, <1>2, AdapterStep DEF Lose

LEMMA BeginVerifyStep ==
  ASSUME IInv, NEW w \in Workers, BeginVerify(w) PROVE IInv'
  <1>1. PICK t \in OldestUnverified(queue, 0) :
          attempt' = [attempt EXCEPT ![w] = <<t, queue[t].attempts>>]
    BY DEF BeginVerify
  <1>2. t \in DOMAIN queue /\ queue[t].state = "UNKNOWN"
    BY DEF OldestUnverified, Unverified
  <1>3. queue[t].attempts \in 1..MostAttempts /\ t \in Tasks
    BY <1>2, Recorded DEF Proper
  <1> DEFINE n == queue[t].attempts
  <1> HIDE DEF n
  <1>4. attempt' = [attempt EXCEPT ![w] = <<t, n>>] /\ n \in 1..MostAttempts /\ n = queue[t].attempts
    BY <1>1, <1>3 DEF n
  <1>5. <<t, n>> \in Attempts
    BY <1>3, <1>4 DEF Attempts
  <1>6. TypeOK'
    BY <1>4, <1>5 DEF BeginVerify, IInv, TypeOK, Goto, PCs
  <1>7. OthersRest(w) /\ pc'[w] = "query" /\ attempt'[w] = <<t, n>>
    BY <1>4 DEF BeginVerify, IInv, TypeOK, Goto, OthersRest
  <1>8. Present(<<t, n>>)
    BY <1>2, <1>3, <1>4 DEF Present
  <1> QED
    BY <1>6, <1>7, <1>8, LocalStep DEF BeginVerify

LEMMA DispatchStep ==
  ASSUME IInv, NEW w \in Workers, Dispatch(w) PROVE IInv'
  <1>1. attempt[w] \in Attempts /\ Present(attempt[w]) /\ pc[w] \in Talking
    BY DEF Dispatch, IInv, TypeOK, CallInv, Talking
  <1>2. TypeOK'
    BY <1>1 DEF Dispatch, IInv, TypeOK, Goto, PCs
  <1>3. Advances
    BY <1>1 DEF Dispatch, Advances
  <1>4. "await" \in Talking
    BY DEF Talking
  <1> QED
    BY <1>1, <1>2, <1>3, <1>4, TalkStep DEF Dispatch, Goto

LEMMA ReceiptStep ==
  ASSUME IInv, NEW w \in Workers, Receipt(w) PROVE IInv'
  <1>1. attempt[w] \in Attempts /\ pc[w] \in Talking /\ "received" \in Talking
    BY DEF Receipt, IInv, TypeOK, Talking
  <1>2. ledger[attempt[w]] \in Statuses
    BY <1>1 DEF IInv, TypeOK
  <1>3. TypeOK'
    BY <1>2 DEF Receipt, IInv, TypeOK, Goto, PCs
  <1>4. /\ reply'[w] = ledger[attempt[w]]
        /\ \A v \in Workers \ {w} : reply'[v] = reply[v]
    BY DEF Receipt, IInv, TypeOK
  <1>5. Advances
    BY DEF Receipt, Advances
  <1> QED
    BY <1>1, <1>3, <1>4, <1>5, TalkStep DEF Receipt, Goto

LEMMA AnswerStep ==
  ASSUME IInv, NEW w \in Workers, Answer(w) PROVE IInv'
  <1> DEFINE a == attempt[w]
  <1>1. /\ a \in Attempts /\ Present(a) /\ pc[w] \in Talking /\ "answered" \in Talking
    BY DEF Answer, IInv, TypeOK, CallInv, Talking
  <1>2. PICK s \in Final :
          /\ ledger[a] = s \/ ledger[a] \in {"none", "UNKNOWN"}
          /\ ledger' = [ledger EXCEPT ![a] = s]
          /\ Answers(w, s)
    BY DEF Answer, Final
  <1> HIDE DEF a
  <1>3. /\ ledger'[a] = s /\ \A b \in Attempts : b # a => ledger'[b] = ledger[b]
        /\ reply'[w] = s /\ \A v \in Workers \ {w} : reply'[v] = reply[v]
    BY <1>1, <1>2 DEF Answers, IInv, TypeOK
  <1>4. TypeOK'
    <2>1. s \in Statuses
      BY DEF Final, Statuses
    <2> QED
      BY <1>2, <2>1 DEF Answers, IInv, TypeOK, Goto, PCs
  <1>5. Advances
    BY <1>1, <1>2, <1>3 DEF Advances, Final, Answers
  <1>6. s # "none"
    BY DEF Final
  <1> QED
    BY <1>1, <1>2, <1>3, <1>4, <1>5, <1>6, TalkStep DEF Answers, Goto, a

LEMMA NoAnswerStep ==
  ASSUME IInv, NEW w \in Workers, NoAnswer(w) PROVE IInv'
  <1>1. pc[w] \in Talking /\ "answered" \in Talking
    BY DEF NoAnswer, Talking
  <1>2. PICK s \in {"UNKNOWN", "error"} : Answers(w, s)
    BY DEF NoAnswer
  <1>3. reply'[w] = s /\ \A v \in Workers \ {w} : reply'[v] = reply[v]
    BY <1>2 DEF Answers, IInv, TypeOK
  <1>4. TypeOK'
    BY <1>2 DEF NoAnswer, Answers, IInv, TypeOK, Goto, PCs, Statuses
  <1>5. Advances
    BY <1>2 DEF NoAnswer, Answers, Advances
  <1>6. s # "none" /\ s \notin Final
    BY DEF Final
  <1> QED
    BY <1>1, <1>2, <1>3, <1>4, <1>5, <1>6, TalkStep DEF NoAnswer, Answers, Goto
-----------------------------------------------------------------------------
(* A save puts a sound record in the place of one.                         *)

LEMMA SavedQueue ==
  ASSUME IInv, NEW t \in Tasks, NEW r, Follows(t, r), queue' = With(t, r),
         UNCHANGED <<ledger, flight>>
  PROVE  /\ DOMAIN queue' = DOMAIN queue \cup {t} /\ queue'[t] = r
         /\ \A u \in DOMAIN queue \ {t} : queue'[u] = queue[u]
         /\ QueueInv'
  <1>1. /\ DOMAIN queue' = DOMAIN queue \cup {t} /\ queue'[t] = r
        /\ \A u \in DOMAIN queue \ {t} : queue'[u] = queue[u]
    BY DEF With
  <1>2. IsFiniteSet(DOMAIN queue) /\ IsFiniteSet(DOMAIN queue')
    BY <1>1, FS_AddElement DEF IInv, QueueInv
  <1>3. \A u \in DOMAIN queue' : Proper(u, queue'[u]) /\ Accounted(ledger', flight', u, queue'[u])
    BY <1>1 DEF IInv, QueueInv, Follows
  <1>4. \A u \in Tasks \ DOMAIN queue', n \in 1..MostAttempts : Unborn(ledger', flight', <<u, n>>)
    BY <1>1 DEF IInv, QueueInv
  <1>5. IsFiniteSet(Active(queue)) /\ Cardinality(Active(queue)) \in Nat
    BY <1>2, FS_Subset, FS_CardinalityType DEF Active
  <1>6. WithinCapacity'
    <2>1. CASE t \in DOMAIN queue
      <3>1. Active(queue') \subseteq Active(queue)
        BY <1>1, <2>1 DEF Active, Follows
      <3>2. Cardinality(Active(queue')) <= Cardinality(Active(queue))
        BY <1>5, <3>1, FS_Subset
      <3>3. Cardinality(Active(queue')) \in Nat
        BY <1>5, <3>1, FS_Subset, FS_CardinalityType
      <3> QED
        BY <1>5, <3>2, <3>3, SchedulerAssumption DEF IInv, QueueInv, WithinCapacity
    <2>2. CASE t \notin DOMAIN queue
      <3>1. Active(queue') = Active(queue) \cup {t} /\ t \notin Active(queue)
        BY <1>1, <2>2 DEF Active, Follows, Terminal
      <3>2. Cardinality(Active(queue')) = Cardinality(Active(queue)) + 1
        BY <1>5, <3>1, FS_AddElement
      <3> QED
        BY <1>5, <2>2, <3>2, SchedulerAssumption DEF WithinCapacity, Follows
    <2> QED
      BY <2>1, <2>2
  <1> QED
    BY <1>1, <1>2, <1>3, <1>4, <1>6 DEF QueueInv

\* What Save does with the call that saves, whichever call it is.
Moved(w) ==
  /\ pc' = [pc EXCEPT ![w] = after[w]]
  /\ \/ after[w] \in {"idle", "select"} /\ attempt' = [attempt EXCEPT ![w] = NoAttempt]
     \/ after[w] = "dispatch" /\ UNCHANGED attempt
  /\ \A v \in Workers \ {w} : reply'[v] = reply[v]

LEMMA SaveMoves ==
  ASSUME IInv, NEW w \in Workers, Save(w)
  PROVE  /\ Moved(w)
         /\ attempt' \in [Workers -> Attempts] /\ pc' \in [Workers -> PCs]
         /\ began' \in [Workers -> Int] /\ reply' \in [Workers -> Statuses \cup {"error"}]
         /\ DOMAIN draft' = Workers /\ \A v \in Workers : DOMAIN draft'[v] \subseteq Tasks
         /\ after' \in [Workers -> {"idle", "select", "dispatch"}]
  <1>1. CASE after[w] = "idle" /\ Return(w)
    BY <1>1, AttemptType DEF IInv, TypeOK, Return, Goto, Moved, PCs, Statuses, EmptyQueue
  <1>2. CASE after[w] = "select" /\ GoOn(w)
    BY <1>2, AttemptType DEF IInv, TypeOK, GoOn, Goto, Moved, PCs, Statuses, EmptyQueue
  <1>3. CASE after[w] = "dispatch" /\ Goto(w, "dispatch")
             /\ draft' = [draft EXCEPT ![w] = EmptyQueue] /\ after' = [after EXCEPT ![w] = "idle"]
             /\ UNCHANGED <<attempt, began, reply>>
    BY <1>3 DEF IInv, TypeOK, Goto, Moved, PCs, Statuses, EmptyQueue
  <1> QED
    BY <1>1, <1>2, <1>3 DEF Save

LEMMA SaveStep ==
  ASSUME IInv, NEW w \in Workers, Save(w) PROVE IInv'
  <1> DEFINE t == attempt[w][1]
             r == draft[w][t]
  <1>1. t \in Tasks /\ Fits(w) /\ fresh' = {}
    BY DEF Save, MaySave, IInv, DraftInv, TypeOK, Attempts
  <1>2. Follows(t, r) /\ queue' = With(t, r) /\ UNCHANGED <<ledger, flight, faults>>
    BY <1>1 DEF Save, Fits
  <1>3. /\ DOMAIN queue' = DOMAIN queue \cup {t} /\ queue'[t] = r
        /\ \A u \in DOMAIN queue \ {t} : queue'[u] = queue[u]
        /\ QueueInv'
    BY <1>1, <1>2, SavedQueue
  <1>4. told' \subseteq told \cup {<<t, r.state>>}
    BY DEF Save
  <1>5. after[w] = "dispatch" => attempt[w][2] = r.attempts /\ r.attempts > 0
    BY <1>1 DEF Fits
  <1> HIDE DEF r
  <1>6. Proper(t, r) /\ r \in TaskRecord
    BY <1>2 DEF Follows, Proper
  <1>7. TypeOK'
    <2>1. \A u \in DOMAIN queue' : Proper(u, queue'[u])
      BY <1>3 DEF QueueInv
    <2>2. <<t, r.state>> \in Tasks \X (Terminal \cup Waiting \cup {"UNKNOWN"})
      BY <1>1, <1>6 DEF TaskRecord
    <2>3. DOMAIN queue' \subseteq Tasks /\ told' \subseteq Tasks \X (Terminal \cup Waiting \cup {"UNKNOWN"})
      BY <1>1, <1>3, <1>4, <2>2 DEF IInv, TypeOK
    <2>4. ledger' \in [Attempts -> Statuses] /\ flight' \subseteq Attempts
          /\ faults' \in 0..MaxFaults /\ fresh' \subseteq Workers
      BY <1>1, <1>2 DEF IInv, TypeOK
    <2> QED
      BY <2>1, <2>3, <2>4, SaveMoves DEF TypeOK, Proper
  <1> DEFINE Known(a) == a[1] \in DOMAIN queue' /\ a[2] \in 1..queue'[a[1]].attempts
  <1>8. ASSUME NEW a, Present(a) PROVE Known(a)
    <2>1. CASE a[1] # t
      BY <1>3, <1>8, <2>1 DEF Present
    <2>2. CASE a[1] = t
      BY <1>2, <1>3, <1>6, <1>8, <2>2, Recorded DEF Present, Follows, TaskRecord
    <2> QED
      BY <2>1, <2>2
  <1>9. CallInv'
    <2> SUFFICES ASSUME NEW v \in Workers, pc'[v] \in Talking PROVE Known(attempt'[v])
      BY DEF CallInv, Present
    <2>1. CASE v # w
      <3>1. Present(attempt[v]) /\ attempt'[v] = attempt[v]
        BY <2>1, SaveMoves DEF Moved, IInv, TypeOK, CallInv
      <3> QED
        BY <1>8, <3>1
    <2>2. CASE v = w
      <3>1. after[w] = "dispatch" /\ attempt'[w] = attempt[w]
        BY <2>2, SaveMoves DEF Moved, IInv, TypeOK, Talking
      <3> QED
        BY <1>3, <1>5, <1>6, <2>2, <3>1 DEF TaskRecord
    <2> QED
      BY <2>1, <2>2
  <1>10. ReplyInv'
    <2> SUFFICES ASSUME NEW v \in Workers, pc'[v] \in {"answered", "received"}
                 PROVE  reply'[v] # "none" /\ (reply'[v] \in Final => ledger'[attempt'[v]] = reply'[v])
      BY DEF ReplyInv
    <2>1. v # w
      BY SaveMoves DEF Moved, IInv, TypeOK
    <2>2. pc'[v] = pc[v] /\ reply'[v] = reply[v] /\ attempt'[v] = attempt[v]
      BY <2>1, SaveMoves DEF Moved, IInv, TypeOK
    <2> QED
      BY <1>2, <2>2 DEF IInv, ReplyInv
  <1>11. ReportsAreDurable'
    <2> SUFFICES ASSUME NEW x \in told'
                 PROVE  x[1] \in DOMAIN queue' /\ (x[2] \in Terminal => queue'[x[1]].state = x[2])
      BY DEF ReportsAreDurable
    <2>1. CASE x \in told
      BY <1>2, <1>3, <2>1 DEF IInv, ReportsAreDurable, Follows
    <2>2. CASE x = <<t, r.state>>
      BY <1>3, <2>2
    <2> QED
      BY <1>4, <2>1, <2>2
  <1>12. DraftInv'
    BY <1>1 DEF DraftInv
  <1> QED
    BY <1>3, <1>7, <1>9, <1>10, <1>11, <1>12 DEF IInv
-----------------------------------------------------------------------------
(* Time, restarts and the invariant of every behaviour.                    *)

\* A record as it is one unit of time later.
Aged(r) == [r EXCEPT !.next = Older(@), !.created = Older(@), !.due = Older(@)]

LEMMA AgedType ==
  ASSUME NEW r \in TaskRecord
  PROVE  /\ Aged(r) \in TaskRecord
         /\ Aged(r).state = r.state /\ Aged(r).attempts = r.attempts
  <1>1. PICK x \in Int, y \in Int, z \in Int : Aged(r) = [r EXCEPT !.next = x, !.created = y, !.due = z]
    BY OlderType DEF Aged, TaskRecord
  <1> QED
    BY <1>1 DEF TaskRecord

LEMMA AgedSound ==
  ASSUME NEW t \in Tasks, NEW r, Proper(t, r), Accounted(ledger, flight, t, r)
  PROVE  Proper(t, Aged(r)) /\ Accounted(ledger, flight, t, Aged(r))
  <1>1. Aged(r) \in TaskRecord /\ Aged(r).state = r.state /\ Aged(r).attempts = r.attempts
    BY AgedType DEF Proper
  <1> QED
    BY <1>1 DEF Proper, Accounted

LEMMA AgedQueue ==
  \A q : /\ DOMAIN OlderQueue(q) = DOMAIN q
         /\ \A t \in DOMAIN q : OlderQueue(q)[t] = Aged(q[t])
  BY DEF OlderQueue, Aged

LEMMA ElapseStep ==
  ASSUME IInv, Elapse PROVE IInv'
  <1>1. /\ DOMAIN queue' = DOMAIN queue
        /\ \A t \in DOMAIN queue : queue'[t] = Aged(queue[t])
    BY AgedQueue DEF Elapse
  <1>2. \A t \in DOMAIN queue :
          /\ queue'[t] \in TaskRecord /\ queue'[t].state = queue[t].state
          /\ queue'[t].attempts = queue[t].attempts
    BY <1>1, AgedType DEF IInv, TypeOK
  <1>3. TypeOK'
    <2>1. began' \in [Workers -> Int]
      BY OlderType DEF Elapse, IInv, TypeOK
    <2>2. DOMAIN draft' = Workers /\ \A w \in Workers : DOMAIN draft'[w] \subseteq Tasks
      BY AgedQueue DEF Elapse, IInv, TypeOK
    <2>3. /\ ledger' \in [Attempts -> Statuses] /\ flight' \subseteq Attempts
          /\ pc' \in [Workers -> PCs] /\ attempt' \in [Workers -> Attempts]
          /\ reply' \in [Workers -> Statuses \cup {"error"}]
          /\ after' \in [Workers -> {"idle", "select", "dispatch"}]
          /\ fresh' \subseteq Workers /\ faults' \in 0..MaxFaults
          /\ told' \subseteq Tasks \X (Terminal \cup Waiting \cup {"UNKNOWN"})
      BY DEF Elapse, IInv, TypeOK
    <2>4. \A t \in DOMAIN queue' :
            /\ queue'[t].attempts <= MaxAttempts[t]
            /\ queue'[t].state \in {"UNKNOWN", "RETRY_WAIT", "COMPLETED"} => queue'[t].attempts > 0
      BY <1>1, <1>2 DEF IInv, TypeOK
    <2>5. DOMAIN queue' \subseteq Tasks /\ \A t \in DOMAIN queue' : queue'[t] \in TaskRecord
      BY <1>1, <1>2 DEF IInv, TypeOK
    <2> QED
      BY <2>1, <2>2, <2>3, <2>4, <2>5 DEF TypeOK
  <1>4. Active(queue') = Active(queue)
    BY <1>1, <1>2 DEF Active
  <1>5. QueueInv'
    <2>1. \A t \in DOMAIN queue' : Proper(t, queue'[t]) /\ Accounted(ledger', flight', t, queue'[t])
      BY <1>1, Recorded, AgedSound DEF Elapse
    <2> QED
      BY <1>1, <1>4, <2>1 DEF Elapse, IInv, QueueInv, WithinCapacity
  <1>6. DraftInv'
    <2> SUFFICES ASSUME NEW w \in Workers, pc'[w] = "save", w \in fresh' PROVE Fits(w)'
      BY DEF DraftInv
    <2> DEFINE t == attempt[w][1]
               r == draft[w][t]
    <2>1. Fits(w) /\ t \in Tasks /\ attempt'[w] = attempt[w] /\ after'[w] = after[w]
      BY DEF Elapse, IInv, DraftInv, TypeOK, Attempts
    <2>2. /\ draft[w] = With(t, r) /\ Follows(t, r)
          /\ after[w] = "dispatch" => attempt[w][2] = r.attempts /\ r.attempts > 0
      BY <2>1 DEF Fits
    <2>3. DOMAIN draft[w] = DOMAIN queue \cup {t} /\ \A u \in DOMAIN queue \ {t} : draft[w][u] = queue[u]
      BY <2>2 DEF With
    <2>4. draft'[w] = OlderQueue(draft[w])
      BY DEF Elapse
    <2>5. draft'[w][t] = Aged(r)
      BY <2>3, <2>4, AgedQueue
    <2>6. draft'[w] = [u \in DOMAIN queue' \cup {t} |-> IF u = t THEN Aged(r) ELSE queue'[u]]
      <3>1. DOMAIN draft[w] = DOMAIN queue' \cup {t}
        BY <1>1, <2>3
      <3>2. \A u \in DOMAIN queue' \cup {t} : Aged(draft[w][u]) = IF u = t THEN Aged(r) ELSE queue'[u]
        BY <1>1, <2>3
      <3>3. draft'[w] = [u \in DOMAIN draft[w] |-> Aged(draft[w][u])]
        BY <2>4 DEF OlderQueue, Aged
      <3> QED
        BY <3>1, <3>2, <3>3
    <2>7. Aged(r) \in TaskRecord /\ Aged(r).state = r.state /\ Aged(r).attempts = r.attempts
          /\ Proper(t, Aged(r)) /\ Accounted(ledger, flight, t, Aged(r))
      BY <2>1, <2>2, AgedType, AgedSound DEF Follows, Proper
    <2> HIDE DEF r
    <2>8. /\ Proper(t, Aged(r)) /\ Accounted(ledger', flight', t, Aged(r))
          /\ t \in DOMAIN queue' => queue'[t].state \notin Terminal /\ queue'[t].attempts <= Aged(r).attempts
          /\ t \notin DOMAIN queue' =>
               Aged(r).state = "QUEUED" /\ Aged(r).attempts = 0 /\ Cardinality(Active(queue')) < Capacity
      BY <1>1, <1>2, <1>4, <2>2, <2>7 DEF Follows, Elapse
    <2>9. after'[w] = "dispatch" => attempt'[w][2] = Aged(r).attempts /\ Aged(r).attempts > 0
      BY <2>1, <2>2, <2>7
    <2> QED
      BY <2>1, <2>5, <2>6, <2>8, <2>9 DEF Fits, Follows, With
  <1>7. CallInv'
    BY <1>1, <1>2 DEF Elapse, IInv, CallInv, Present
  <1>8. ReplyInv'
    BY DEF Elapse, IInv, ReplyInv
  <1>9. ReportsAreDurable'
    BY <1>1, <1>2 DEF Elapse, IInv, ReportsAreDurable
  <1> QED
    BY <1>3, <1>5, <1>6, <1>7, <1>8, <1>9 DEF IInv

LEMMA RestartStep ==
  ASSUME IInv, Restart PROVE IInv'
  <1>1. TypeOK'
    <2>1. /\ pc' \in [Workers -> PCs] /\ attempt' \in [Workers -> Attempts]
          /\ began' \in [Workers -> Int] /\ reply' \in [Workers -> Statuses \cup {"error"}]
          /\ DOMAIN draft' = Workers /\ \A w \in Workers : DOMAIN draft'[w] \subseteq Tasks
          /\ after' \in [Workers -> {"idle", "select", "dispatch"}]
      BY AttemptType DEF Restart, PCs, Statuses, EmptyQueue
    <2>2. faults' \in 0..MaxFaults /\ fresh' \subseteq Workers
      BY SchedulerAssumption DEF Restart, IInv, TypeOK
    <2>3. UNCHANGED <<queue, ledger, flight, told>>
      BY DEF Restart
    <2> QED
      BY <2>1, <2>2, <2>3 DEF IInv, TypeOK
  <1>2. QueueInv' /\ ReportsAreDurable'
    BY DEF Restart, IInv, QueueInv, WithinCapacity, ReportsAreDurable
  <1>3. DraftInv' /\ CallInv' /\ ReplyInv'
    BY DEF Restart, DraftInv, CallInv, ReplyInv, Talking
  <1> QED
    BY <1>1, <1>2, <1>3 DEF IInv

LEMMA InitInv == Init => IInv
  <1> SUFFICES ASSUME Init PROVE IInv
    OBVIOUS
  <1>1. DOMAIN queue = {} /\ Active(queue) = {}
    BY DEF Init, EmptyQueue, Active
  <1>2. TypeOK
    BY <1>1, AttemptType, SchedulerAssumption DEF Init, TypeOK, PCs, Statuses, EmptyQueue
  <1>3. QueueInv
    <2>1. \A t \in Tasks, n \in 1..MostAttempts : <<t, n>> \in Attempts
      BY DEF Attempts
    <2>2. WithinCapacity
      BY <1>1, FS_EmptySet, SchedulerAssumption DEF WithinCapacity
    <2> QED
      BY <1>1, <2>1, <2>2, FS_EmptySet DEF Init, QueueInv, Unborn
  <1>4. DraftInv /\ CallInv /\ ReplyInv /\ ReportsAreDurable
    BY DEF Init, DraftInv, CallInv, ReplyInv, ReportsAreDurable, Talking
  <1> QED
    BY <1>2, <1>3, <1>4 DEF IInv

LEMMA NextInv == IInv /\ [Next]_vars => IInv'
  <1> SUFFICES ASSUME IInv, [Next]_vars PROVE IInv'
    OBVIOUS
  <1>1. CASE UNCHANGED vars
    <2>1. TypeOK'
      BY <1>1 DEF vars, IInv, TypeOK
    <2>2. Advances
      BY <1>1 DEF vars, Advances
    <2> QED
      BY <1>1, <2>1, <2>2, AdapterStep DEF vars
  <1>2. ASSUME NEW w \in Workers, Save(w) \/ Conflict(w) \/ Raise(w) PROVE IInv'
    <2>1. CASE Save(w)
      BY <2>1, SaveStep
    <2>2. CASE Conflict(w)
      BY <2>2, ReturnStep DEF Conflict, IInv, TypeOK
    <2>3. CASE Raise(w)
      <3>1. faults' \in 0..MaxFaults /\ fresh' \subseteq fresh
        BY <2>3, SchedulerAssumption DEF Raise, IInv, TypeOK
      <3> QED
        BY <2>3, <3>1, ReturnStep DEF Raise
    <2> QED
      BY <1>2, <2>1, <2>2, <2>3
  <1>3. ASSUME NEW w \in Tickers, Ticks(w) PROVE IInv'
    <2>1. w \in Workers /\ faults \in 0..MaxFaults
      BY DEF Workers, IInv, TypeOK
    <2>2. CASE BeginVerify(w) \/ Select(w) \/ Dispatch(w) \/ Receipt(w) \/ Apply(w) \/ PutOff(w)
               \/ Answer(w) \/ NoAnswer(w)
      BY <2>1, <2>2, BeginVerifyStep, SelectStep, DispatchStep, ReceiptStep, ApplyStep,
         PutOffStep, AnswerStep, NoAnswerStep
    <2>3. CASE Defer(w) \/ NoReceipt(w) \/ NotPending(w)
      BY <2>1, <2>3, ReturnStep DEF Defer, NoReceipt, NotPending
    <2>4. CASE Mismatch(w)
      BY <2>1, <2>4, ReturnStep, GoOnStep DEF Mismatch
    <2> QED
      BY <1>3, <2>2, <2>3, <2>4 DEF Ticks
  <1>4. ASSUME NEW w \in Clients, NEW t \in Tasks, Submit(w, t) \/ Cancel(w, t) PROVE IInv'
    BY <1>4, SubmitStep, CancelStep DEF Workers
  <1> QED
    BY <1>1, <1>2, <1>3, <1>4, ElapseStep, RestartStep, ArriveStep, LoseStep DEF Next

LEMMA Invariance == Spec => []IInv
  BY InitInv, NextInv, PTL DEF Spec
-----------------------------------------------------------------------------
(* What every behaviour keeps.                                             *)

LEMMA OpenAttempts == IInv => NoAttemptLeftOpen
  <1> SUFFICES ASSUME IInv, NEW t \in DOMAIN queue, NEW n \in 1..MostAttempts
               PROVE  /\ n < queue[t].attempts => ledger[<<t, n>>] \in {"FAILED", "NOT_DELIVERED"}
                      /\ n > queue[t].attempts => ledger[<<t, n>>] = "none" /\ <<t, n>> \notin flight
    BY DEF NoAttemptLeftOpen
  <1> QED
    BY DEF IInv, QueueInv, Accounted, Dead, Unborn

\* The variables keep their types, whoever submits, cancels, ticks or restarts when.
THEOREM TypeCorrect == Spec => []TypeOK
  BY Invariance, PTL DEF IInv

\* SchedulerService never starts another attempt of a task while one of them may still be
\* delivered, whatever is lost, late, repeated or restarted, and asks for no delivery of an
\* attempt that it has not saved.
THEOREM AttemptsOneByOne == Spec => []NoAttemptLeftOpen
  BY Invariance, OpenAttempts, PTL

\* What a caller of submit, cancel or tick was told of a task stays true in the stored queue.
THEOREM ReportsStand == Spec => []ReportsAreDurable
  BY Invariance, PTL DEF IInv

\* However many clients submit at once, no more tasks are admitted than the queue may hold.
THEOREM CapacityKept == Spec => []WithinCapacity
  BY Invariance, PTL DEF IInv, QueueInv

-----------------------------------------------------------------------------
(* The scheduler implements the promise of Delivery.                       *)

Outcome(t) == IF t \notin DOMAIN queue THEN "absent"
              ELSE IF queue[t].state \in Terminal THEN queue[t].state
              ELSE "open"

DeliveredAt(t) == {n \in 1..MostAttempts : ledger[<<t, n>>] = "DELIVERED"}

Times(t) == Cardinality(DeliveredAt(t))

LEMMA OneOrNone ==
  /\ \A t : DeliveredAt(t) = {} => Times(t) = 0
  /\ \A t, n : DeliveredAt(t) = {n} => Times(t) = 1
  BY FS_EmptySet, FS_Singleton DEF Times

\* Of a task only the last attempt can have been delivered.
LEMMA DeliveredLast ==
  ASSUME IInv, NEW t \in Tasks
  PROVE  /\ t \notin DOMAIN queue => DeliveredAt(t) = {}
         /\ t \in DOMAIN queue => DeliveredAt(t) \subseteq {queue[t].attempts}
  <1>1. ASSUME t \notin DOMAIN queue PROVE DeliveredAt(t) = {}
    BY <1>1 DEF IInv, QueueInv, Unborn, DeliveredAt
  <1>2. ASSUME t \in DOMAIN queue, NEW n \in DeliveredAt(t) PROVE n = queue[t].attempts
    <2>1. n \in 1..MostAttempts /\ ledger[<<t, n>>] = "DELIVERED"
      BY <1>2 DEF DeliveredAt
    <2>2. ~(n < queue[t].attempts) /\ ~(n > queue[t].attempts)
      BY <1>2, <2>1 DEF IInv, QueueInv, Accounted, Dead, Unborn
    <2> QED
      BY <1>2, <2>1, <2>2, Recorded
  <1> QED
    BY <1>1, <1>2

LEMMA QuietMaps ==
  ASSUME \A t \in Tasks : Outcome(t)' = Outcome(t), \A t \in Tasks : Times(t)' = Times(t)
  PROVE  UNCHANGED Promise!dvars
  <1>1. [t \in Tasks |-> Outcome(t)]' = [t \in Tasks |-> Outcome(t)]
    OBVIOUS
  <1>2. [t \in Tasks |-> Times(t)]' = [t \in Tasks |-> Times(t)]
    OBVIOUS
  <1> QED
    BY <1>1, <1>2 DEF Promise!dvars, Outcome, Times, DeliveredAt

LEMMA SameQueueMaps ==
  ASSUME DOMAIN queue' = DOMAIN queue, UNCHANGED ledger,
         \A t \in DOMAIN queue : queue'[t].state = queue[t].state
  PROVE  UNCHANGED Promise!dvars
  BY QuietMaps DEF Outcome, Times, DeliveredAt

LEMMA DeliveredLastNext ==
  ASSUME IInv', NEW t \in Tasks, t \in DOMAIN queue'
  PROVE  DeliveredAt(t)' \subseteq {queue'[t].attempts}
  <1>1. (t \in DOMAIN queue => DeliveredAt(t) \subseteq {queue[t].attempts})'
    BY DeliveredLast, PTL
  <1> QED
    BY <1>1

\* The attempt of a task whose result was not known is delivered, or known not to be.
LEMMA SettlingMaps ==
  ASSUME IInv, IInv', NEW t \in Tasks, NEW n \in 0..MostAttempts, UNCHANGED queue,
         NEW s \in Statuses, ledger' = [ledger EXCEPT ![<<t, n>>] = s],
         n > 0 => Present(<<t, n>>), ledger[<<t, n>>] \in {"none", "UNKNOWN"}
  PROVE  Promise!DNext \/ UNCHANGED Promise!dvars
  <1>1. <<t, n>> \in Attempts /\ ledger'[<<t, n>>] = s
        /\ \A a \in Attempts : a # <<t, n>> => ledger'[a] = ledger[a]
    BY DEF Attempts, IInv, TypeOK
  <1>2. \A u \in Tasks, m \in 1..MostAttempts : <<u, m>> \in Attempts
    BY DEF Attempts
  <1>3. \A u \in Tasks \ {t} : DeliveredAt(u)' = DeliveredAt(u)
    BY <1>1, <1>2 DEF DeliveredAt
  <1>4. \A u \in Tasks : Outcome(u)' = Outcome(u)
    BY DEF Outcome
  <1>5. CASE n > 0 /\ s = "DELIVERED"
    <2>1. t \in DOMAIN queue /\ n \in 1..MostAttempts /\ n \in 1..queue[t].attempts
      BY <1>5, Limits DEF Present
    <2>2. n = queue[t].attempts /\ queue[t].state \notin Terminal
      <3>1. Accounted(ledger, flight, t, queue[t]) /\ queue[t].attempts \in Nat
        BY <2>1, Recorded DEF Proper, TaskRecord
      <3>2. ~(n < queue[t].attempts)
        BY <2>1, <3>1 DEF Accounted, Dead
      <3>3. n = queue[t].attempts
        BY <2>1, <3>1, <3>2
      <3> QED
        BY <1>5, <3>1, <3>3 DEF Accounted, Dead, Terminal
    <2>3. DeliveredAt(t)' = {n} /\ DeliveredAt(t) = {}
      <3>1. n \in DeliveredAt(t)' /\ n \notin DeliveredAt(t)
        BY <1>1, <1>5, <2>1 DEF DeliveredAt
      <3>2. DeliveredAt(t)' \subseteq {n} /\ DeliveredAt(t) \subseteq {n}
        BY <2>1, <2>2, DeliveredLast, DeliveredLastNext
      <3> QED
        BY <3>1, <3>2
    <2>4. Times(t)' = 1 /\ Times(t) = 0
      BY <2>3, OneOrNone, FS_Singleton DEF Times
    <2>5. \A u \in Tasks \ {t} : Times(u)' = Times(u)
      BY <1>3 DEF Times
    <2>6. [u \in Tasks |-> Times(u)]' = [[u \in Tasks |-> Times(u)] EXCEPT ![t] = 1]
      BY <2>4, <2>5
    <2>7. [u \in Tasks |-> Outcome(u)]' = [u \in Tasks |-> Outcome(u)]
      BY <1>4
    <2>8. Outcome(t) = "open"
      BY <2>1, <2>2 DEF Outcome
    <2>9. Promise!Deliver(t)
      BY <2>4, <2>6, <2>7, <2>8 DEF Promise!Deliver, Outcome, Times, DeliveredAt
    <2> QED
      BY <2>9 DEF Promise!DNext
  <1>6. CASE ~(n > 0 /\ s = "DELIVERED")
    <2>1. DeliveredAt(t)' = DeliveredAt(t)
      <3>1. \A m \in 1..MostAttempts :
              (ledger'[<<t, m>>] = "DELIVERED") <=> (ledger[<<t, m>>] = "DELIVERED")
        BY <1>1, <1>2, <1>6
      <3> QED
        BY <3>1 DEF DeliveredAt
    <2>2. \A u \in Tasks : Times(u)' = Times(u)
      BY <1>3, <2>1 DEF Times
    <2> QED
      BY <1>4, <2>2, QuietMaps
  <1> QED
    BY <1>5, <1>6

LEMMA ArriveMaps ==
  ASSUME IInv, IInv', NEW a \in Attempts, Arrive(a)
  PROVE  Promise!DNext \/ UNCHANGED Promise!dvars
  <1>1. PICK t \in Tasks, n \in 0..MostAttempts : a = <<t, n>>
    BY DEF Attempts
  <1>2. n > 0 => Present(a)
    BY <1>1, FlightKnown DEF Arrive
  <1>3. UNCHANGED queue
    BY DEF Arrive
  <1>4. CASE UNCHANGED ledger
    BY <1>3, <1>4, SameQueueMaps
  <1>5. ASSUME ledger[a] = "none", NEW s \in {"DELIVERED", "FAILED", "NOT_DELIVERED", "UNKNOWN"},
               ledger' = [ledger EXCEPT ![a] = s]
        PROVE  Promise!DNext \/ UNCHANGED Promise!dvars
    <2>1. s \in Statuses
      BY DEF Statuses
    <2> QED
      BY <1>1, <1>2, <1>3, <1>5, <2>1, SettlingMaps
  <1> QED
    BY <1>4, <1>5 DEF Arrive

LEMMA AnswerMaps ==
  ASSUME IInv, IInv', NEW w \in Workers, Answer(w)
  PROVE  Promise!DNext \/ UNCHANGED Promise!dvars
  <1> DEFINE a == attempt[w]
  <1>1. a \in Attempts /\ Present(a)
    BY DEF Answer, IInv, TypeOK, CallInv, Talking
  <1>2. PICK s \in Final :
          /\ ledger[a] = s \/ ledger[a] \in {"none", "UNKNOWN"}
          /\ ledger' = [ledger EXCEPT ![a] = s]
          /\ Answers(w, s)
    BY DEF Answer, Final
  <1>3. UNCHANGED queue /\ s \in Statuses
    BY <1>2 DEF Answers, Final, Statuses
  <1> HIDE DEF a
  <1>4. CASE ledger[a] = s
    <2>1. UNCHANGED ledger
      BY <1>1, <1>2, <1>4 DEF IInv, TypeOK
    <2> QED
      BY <1>3, <2>1, SameQueueMaps
  <1>5. CASE ledger[a] \in {"none", "UNKNOWN"}
    <2>1. PICK t \in Tasks, n \in 0..MostAttempts : a = <<t, n>>
      BY <1>1 DEF Attempts
    <2> QED
      BY <1>1, <1>2, <1>3, <1>5, <2>1, SettlingMaps
  <1> QED
    BY <1>2, <1>4, <1>5

LEMMA SaveMaps ==
  ASSUME IInv, IInv', NEW w \in Workers, Save(w)
  PROVE  Promise!DNext \/ UNCHANGED Promise!dvars
  <1>0. Fits(w) /\ attempt[w][1] \in Tasks
    BY DEF Save, MaySave, IInv, DraftInv, TypeOK, Attempts
  <1>1. PICK t, r : t \in Tasks /\ t = attempt[w][1] /\ r = draft[w][t]
    BY <1>0
  <1>2. Follows(t, r) /\ queue' = With(t, r) /\ UNCHANGED <<ledger, flight>>
    BY <1>0, <1>1 DEF Save, Fits
  <1>3. /\ DOMAIN queue' = DOMAIN queue \cup {t} /\ queue'[t] = r
        /\ \A u \in DOMAIN queue \ {t} : queue'[u] = queue[u]
    BY <1>1, <1>2, SavedQueue
  <1>4. /\ r \in TaskRecord /\ r.attempts \in 0..MostAttempts
        /\ r.state = "COMPLETED" => r.attempts > 0
        /\ Accounted(ledger, flight, t, r)
    BY <1>1, <1>2, Limits DEF Follows, Proper, TaskRecord
  <1>5. /\ \A u \in Tasks : DeliveredAt(u)' = DeliveredAt(u) /\ Times(u)' = Times(u)
        /\ DeliveredAt(t) \subseteq {r.attempts}
    <2>1. \A u \in Tasks : DeliveredAt(u)' = DeliveredAt(u)
      BY <1>2 DEF DeliveredAt
    <2> QED
      BY <1>1, <1>3, <2>1, DeliveredLastNext DEF Times
  <1>6. [u \in Tasks |-> Times(u)]' = [u \in Tasks |-> Times(u)]
    BY <1>5
  <1>7. \A u \in Tasks \ {t} : Outcome(u)' = Outcome(u)
    BY <1>3 DEF Outcome
  <1>8. ASSUME NEW x, Outcome(t)' = x
        PROVE  [u \in Tasks |-> Outcome(u)]' = [[u \in Tasks |-> Outcome(u)] EXCEPT ![t] = x]
    BY <1>1, <1>7, <1>8
  <1>9. CASE t \notin DOMAIN queue
    <2>1. Outcome(t) = "absent" /\ Outcome(t)' = "open"
      BY <1>2, <1>3, <1>9 DEF Outcome, Follows, Terminal
    <2>2. Promise!Admit(t)
      BY <1>1, <1>6, <1>8, <2>1 DEF Promise!Admit, Promise!Ends, Outcome, Times, DeliveredAt
    <2> QED
      BY <1>1, <2>2 DEF Promise!DNext
  <1>10. CASE t \in DOMAIN queue /\ r.state \notin Terminal
    <2>1. Outcome(t) = "open" /\ Outcome(t)' = "open"
      BY <1>2, <1>3, <1>10 DEF Outcome, Follows
    <2> QED
      BY <1>5, <1>7, <2>1, QuietMaps
  <1>11. CASE t \in DOMAIN queue /\ r.state = "COMPLETED"
    <2>1. Outcome(t) = "open" /\ Outcome(t)' = "COMPLETED"
      BY <1>2, <1>3, <1>11 DEF Outcome, Follows, Terminal
    <2>2. r.attempts \in DeliveredAt(t)
      BY <1>4, <1>11 DEF Accounted, DeliveredAt
    <2>3. Times(t) = 1
      BY <1>5, <2>2, OneOrNone
    <2>4. Promise!Complete(t)
      BY <1>1, <1>6, <1>8, <2>1, <2>3
         DEF Promise!Complete, Promise!Ends, Outcome, Times, DeliveredAt
    <2> QED
      BY <1>1, <2>4 DEF Promise!DNext
  <1>12. CASE t \in DOMAIN queue /\ r.state \in {"CANCELLED", "RETRY_EXHAUSTED"}
    <2>1. Outcome(t) = "open" /\ Outcome(t)' = r.state
      BY <1>2, <1>3, <1>12 DEF Outcome, Follows, Terminal
    <2>2. r.attempts \notin DeliveredAt(t)
      BY <1>4, <1>12 DEF Accounted, Dead, DeliveredAt
    <2>3. Times(t) = 0
      BY <1>5, <2>2, OneOrNone
    <2>4. Promise!GiveUp(t)
      BY <1>1, <1>6, <1>8, <1>12, <2>1, <2>3
         DEF Promise!GiveUp, Promise!Ends, Outcome, Times, DeliveredAt
    <2> QED
      BY <1>1, <2>4 DEF Promise!DNext
  <1> QED
    BY <1>9, <1>10, <1>11, <1>12 DEF Terminal

LEMMA InitMaps == Init => Promise!DInit
  <1> SUFFICES ASSUME Init PROVE Promise!DInit
    OBVIOUS
  <1>1. DOMAIN queue = {}
    BY DEF Init, EmptyQueue
  <1>2. \A t \in Tasks : Outcome(t) = "absent" /\ Times(t) = 0
    <2>1. \A t \in Tasks : DeliveredAt(t) = {}
      BY <1>1, InitInv, DeliveredLast
    <2> QED
      BY <1>1, <2>1, OneOrNone DEF Outcome
  <1> QED
    BY <1>2 DEF Promise!DInit, Outcome, Times, DeliveredAt

LEMMA NextMaps == IInv /\ IInv' /\ [Next]_vars => [Promise!DNext]_(Promise!dvars)
  <1> SUFFICES ASSUME IInv, IInv', [Next]_vars PROVE Promise!DNext \/ UNCHANGED Promise!dvars
    OBVIOUS
  <1>1. CASE UNCHANGED <<queue, ledger>>
    BY <1>1, SameQueueMaps
  <1>2. CASE Elapse
    <2>1. DOMAIN queue' = DOMAIN queue /\ \A t \in DOMAIN queue : queue'[t] = Aged(queue[t])
      BY <1>2, AgedQueue DEF Elapse
    <2>2. \A t \in DOMAIN queue : queue'[t].state = queue[t].state
      BY <2>1, AgedType DEF IInv, TypeOK
    <2> QED
      BY <1>2, <2>1, <2>2, SameQueueMaps DEF Elapse
  <1>3. ASSUME NEW w \in Tickers, Ticks(w) PROVE UNCHANGED <<queue, ledger>> \/ Answer(w)
    BY <1>3 DEF Ticks, BeginVerify, Select, Defer, Dispatch, NoReceipt, Receipt, Apply, Mismatch,
                NotPending, PutOff, NoAnswer, Answers
  <1>4. ASSUME NEW w \in Workers, Conflict(w) \/ Raise(w) PROVE UNCHANGED <<queue, ledger>>
    BY <1>4 DEF Conflict, Raise
  <1>5. ASSUME NEW w \in Clients, NEW t \in Tasks, Submit(w, t) \/ Cancel(w, t)
        PROVE  UNCHANGED <<queue, ledger>>
    BY <1>5 DEF Submit, Cancel
  <1>6. ASSUME NEW a \in Attempts, Lose(a) PROVE UNCHANGED <<queue, ledger>>
    BY <1>6 DEF Lose
  <1>7. UNCHANGED vars \/ Restart => UNCHANGED <<queue, ledger>>
    BY DEF vars, Restart
  <1>8. \A w \in Tickers : w \in Workers
    BY DEF Workers
  <1> QED
    BY <1>1, <1>2, <1>3, <1>4, <1>5, <1>6, <1>7, <1>8, SaveMaps, AnswerMaps, ArriveMaps DEF Next

\* Whatever is lost, late, repeated, cancelled or restarted, the opportunity of a task is
\* delivered at most once, and its final state says truly whether it was (SchedulerService
\* and its notification adapter).
THEOREM SchedulerKeepsItsPromise == Spec => RefinesDelivery
  BY InitMaps, NextMaps, Invariance, PTL DEF Spec, RefinesDelivery, Promise!DSpec
=============================================================================
