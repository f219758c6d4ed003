-------------------- MODULE InteractionMemoryEntriesProofs --------------------
(***************************************************************************)
(* The journal of InteractionJournal for any requests, results, writers    *)
(* and numbers of revisions. What is kept of one request is sound by       *)
(* itself (Sound): its operation record is well formed, agrees with the    *)
(* sessions, the updates of the subject and the result, and knows the      *)
(* result that closed its capability. The call being served finds its      *)
(* request where it left it (Served). A step concerns one request; what is *)
(* kept of the others stays sound although the subject moves on            *)
(* (FrameStep). From this follow that the stores hold what the journal     *)
(* says, that the promise of Exchange is kept, and that no record the      *)
(* service writes is refused, except after a wake that came too late.      *)
(* Entries: the document only grows by revisions, so a setting or a        *)
(* message that compares the revision it read with the present one         *)
(* compares the whole document, and everything it found on the way still   *)
(* holds (SettingInv, DeliveryInv).                                        *)
(* Memory: every version of a memory or a summary, stored or planned by a  *)
(* call that is under way, has the fields a write is checked by            *)
(* (MemoryTypes). A transaction that is accepted leaves summaries which    *)
(* stand, because that is checked of the document it makes (Loads); a      *)
(* lifecycle command is not checked so, but ends no memory that a summary  *)
(* rests on, and what has ended takes no further version (MayAppend,       *)
(* Commanded). What a memory says of which evidence is changed by a        *)
(* consolidation alone, of which there is one at a time and which reads    *)
(* all that rests on its evidence; so what it decided on still agrees with *)
(* the rest when it is written, whatever commands came between             *)
(* (MeaningInv).                                                           *)
(***************************************************************************)
EXTENDS InteractionMemoryEntries, FiniteSetTheorems, SequenceTheorems, TLAPS

-----------------------------------------------------------------------------
(* The inductive invariant.                                                *)

Verdicts == {"NONE", "APPROVED", "DECLINED"}

Capabilities == [id : ResultIds \cup {""}, status : ResultStatus \cup {"NONE", "PROPOSED"}]

Operations ==
  [stage : DOMAIN StageRank, body : Int, input : Int, progress : DOMAIN ProgressRank, woken : Int,
   capability : Capabilities, action : Verdicts, domain : Verdicts, evolution : Int]

Sessions == [status : {"NONE", "RUNNING", "COMPLETED", "FAILED"}, revision : Int]

Thoughts ==
  [status : {"NONE", "RUNNING", "WAITING_CAPABILITY", "COMPLETED", "FAILED"}, mutates : BOOLEAN,
   update : Int, provider : Nat]

ResultsKept == [before : Int, after : Int, update : Int]

Steps == {"idle", "run", "waking", "thinking", "thought", "accepted", "resume"}

Answers ==
  {"none", "FAULT", "NO_BUDGET", "NOT_FOUND", "CONFLICT", "REVISION_CONFLICT", "CAPABILITY_FAILED",
   "CAPABILITY_REQUIRED", "IDEMPOTENCY_KEY_REUSED", "COMPLETED"}

CallRecords ==
  [pc : Steps, req : Requests \cup {Elsewhere}, kind : {"none", "submit", "deliver"},
   result : Capabilities, answer : Answers]

\* A call answers when it ends, and only a delivery has a result to take.
CallType ==
  {c \in CallRecords : /\ c.pc # "idle" => c.answer = "none"
                       /\ c.pc = "accepted" => c.kind = "deliver"}

TypeInv ==
  /\ mode \in {"deterministic", "capability"}
  /\ subject \in [updates : Seq(Requests \cup {Elsewhere}), active : BOOLEAN]
  /\ op \in [Requests -> Operations]
  /\ done \in [Requests -> ResultsKept]
  /\ wake \in [Requests -> Sessions]
  /\ think \in [Requests -> Thoughts]
  /\ asked \subseteq Requests
  /\ attempts \in [Requests -> Seq(Results)]
  /\ call \in CallType

\* The updates of a request among those of the subject, and its last result.
Mine(r, u) == {n \in DOMAIN u : u[n] = r}

Last(a) == IF a = << >> THEN Proposed ELSE a[Len(a)]

\* The operation record of a request, and its updates.
OpSound(r, o, u) ==
  /\ o.stage = "NONE" => o = NoOperation
  /\ o.stage # "NONE" => WellFormed(o) /\ o.input \in 0..Len(u)
  /\ Mine(r, u) \subseteq {o.input + 1}
  /\ Mine(r, u) # {} => o.domain = "APPROVED"

\* Its result.
DoneSound(o, d) ==
  /\ d # NoAnswer => o.domain # "NONE" /\ (o.domain = "APPROVED" => o.evolution # NoRevision)
  /\ o.stage = "COMPLETED" => d # NoAnswer

\* Its wake session.
WakeSound(o, w, u) ==
  /\ w.status = "NONE" => w = NoSession
  /\ w # NoSession => o.progress # "NONE"
  /\ w.status = "COMPLETED" => w.revision \in o.input..Len(u)
  /\ o.woken # NoRevision => w.status = "COMPLETED" /\ w.revision = o.input

\* Its think session.
ThinkSound(r, o, t, u) ==
  /\ o.progress \in {"THINKING_COMPLETED", "ACTION_COMPLETED"} => t.status = "COMPLETED"
  /\ t.update # NoRevision => Mine(r, u) = {t.update}
  /\ o.evolution # NoRevision => Mine(r, u) = {o.evolution} /\ t.update = o.evolution
  /\ t.provider <= 1

\* Its capability results.
CapabilitySound(o, a) ==
  /\ \A n \in DOMAIN a : Closing(a[n]) => n = Len(a)
  /\ Closing(o.capability) => o.capability = Last(a)

\* The call that serves it.
Served(o, w, t, a, c) ==
  /\ c.pc # "idle" => o.stage # "NONE"
  /\ c.pc = "waking" => o.progress = "PREPARED" /\ w.status = "RUNNING"
  /\ c.pc = "thinking" => t.status = "RUNNING" /\ t.provider = 0
  /\ c.pc = "thought" => t.status = "RUNNING"
  /\ c.pc = "accepted" => \E n \in DOMAIN a : a[n] = c.result

Sound(r, o, d, w, t, a, u) ==
  OpSound(r, o, u) /\ DoneSound(o, d) /\ WakeSound(o, w, u) /\ ThinkSound(r, o, t, u)
  /\ CapabilitySound(o, a)

\* What a request has to have perceived before it asks for a capability.
Thinkable == {"PERCEPTION_COMPLETED", "THINKING_COMPLETED", "ACTION_COMPLETED"}

RequestInv(r) ==
  /\ Sound(r, op[r], done[r], wake[r], think[r], attempts[r], subject.updates)
  /\ r \in asked => op[r].progress \in Thinkable
  /\ call.req = r => Served(op[r], wake[r], think[r], attempts[r], call)

IInv == TypeInv /\ \A r \in Requests : RequestInv(r)
-----------------------------------------------------------------------------
(* The ranks, and what a well formed record says without them.             *)

LEMMA StageRanks ==
  /\ DOMAIN StageRank = {"NONE", "RESERVED", "WAITING_CAPABILITY", "DOMAIN_COMPLETED",
                         "EVOLUTION_COMMITTED", "COMPLETED"}
  /\ StageRank["NONE"] = 0 /\ StageRank["RESERVED"] = 1 /\ StageRank["WAITING_CAPABILITY"] = 2
  /\ StageRank["DOMAIN_COMPLETED"] = 3 /\ StageRank["EVOLUTION_COMMITTED"] = 4
  /\ StageRank["COMPLETED"] = 5
  BY DEF StageRank

LEMMA ProgressRanks ==
  /\ DOMAIN ProgressRank = {"NONE", "PREPARED", "WAKE_COMPLETED", "PERCEPTION_COMPLETED",
                            "THINKING_COMPLETED", "ACTION_COMPLETED"}
  /\ ProgressRank["NONE"] = 0 /\ ProgressRank["PREPARED"] = 1 /\ ProgressRank["WAKE_COMPLETED"] = 2
  /\ ProgressRank["PERCEPTION_COMPLETED"] = 3 /\ ProgressRank["THINKING_COMPLETED"] = 4
  /\ ProgressRank["ACTION_COMPLETED"] = 5
  BY DEF ProgressRank

Early == {"NONE", "RESERVED", "WAITING_CAPABILITY"}

Formed(o) ==
  /\ o.woken \in {NoRevision, o.input}
  /\ (o.woken = NoRevision) <=> (o.progress \in {"NONE", "PREPARED"})
  /\ (o.action # "NONE") <=> (o.progress = "ACTION_COMPLETED")
  /\ o.stage \in Early => o.domain = "NONE" /\ o.evolution = NoRevision
  /\ o.stage \notin Early => o.domain # "NONE"
  /\ o.stage = "WAITING_CAPABILITY" => o.capability # Unasked /\ o.progress \in Thinkable
  /\ o.evolution # NoRevision => o.domain = "APPROVED" /\ o.evolution = o.input + 1
  /\ o.stage = "EVOLUTION_COMMITTED" => o.evolution # NoRevision
  /\ o.domain # "NONE" => o.progress = "ACTION_COMPLETED"

LEMMA FormedMeans ==
  ASSUME NEW o \in Operations
  PROVE  WellFormed(o) <=> Formed(o)
  <1>1. /\ (StageRank[o.stage] <= StageRank.WAITING_CAPABILITY) <=> (o.stage \in Early)
        /\ o.stage \in DOMAIN StageRank /\ o.progress \in DOMAIN ProgressRank
    BY StageRanks DEF Operations, Early
  <1>2. /\ (ProgressRank[o.progress] <= ProgressRank.PREPARED) <=> (o.progress \in {"NONE", "PREPARED"})
        /\ (ProgressRank[o.progress] >= ProgressRank.PERCEPTION_COMPLETED) <=> (o.progress \in Thinkable)
    BY <1>1, ProgressRanks DEF Thinkable
  <1>3. WellFormed(o) <=>
          /\ o.woken \in {NoRevision, o.input}
          /\ (o.woken = NoRevision) <=> (o.progress \in {"NONE", "PREPARED"})
          /\ (o.action # "NONE") <=> (o.progress = "ACTION_COMPLETED")
          /\ IF o.stage \in Early THEN o.domain = "NONE" /\ o.evolution = NoRevision ELSE o.domain # "NONE"
          /\ o.stage = "WAITING_CAPABILITY" => o.capability # Unasked /\ o.progress \in Thinkable
          /\ o.evolution # NoRevision => o.domain = "APPROVED" /\ o.evolution = o.input + 1
          /\ o.stage = "EVOLUTION_COMMITTED" => o.evolution # NoRevision
          /\ o.domain # "NONE" => o.progress = "ACTION_COMPLETED"
    BY <1>1, <1>2 DEF WellFormed
  <1> QED
    BY <1>3 DEF Formed

-----------------------------------------------------------------------------
(* The updates of the subject.                                             *)

LEMMA MineAppended ==
  ASSUME NEW S, NEW u \in Seq(S), NEW x \in S, NEW r
  PROVE  /\ Len(Append(u, x)) = Len(u) + 1 /\ Append(u, x) \in Seq(S)
         /\ x # r => Mine(r, Append(u, x)) = Mine(r, u)
         /\ x = r => Mine(r, Append(u, x)) = Mine(r, u) \cup {Len(u) + 1}
  <1>1. /\ Len(Append(u, x)) = Len(u) + 1 /\ Append(u, x) \in Seq(S)
        /\ DOMAIN u = 1..Len(u) /\ DOMAIN Append(u, x) = 1..(Len(u) + 1) /\ Len(u) \in Nat
        /\ \A n \in 1..Len(u) : Append(u, x)[n] = u[n]
        /\ Append(u, x)[Len(u) + 1] = x
    OBVIOUS
  <1>2. 1..(Len(u) + 1) = 1..Len(u) \cup {Len(u) + 1}
    BY <1>1
  <1> QED
    <2> DEFINE v == Append(u, x)
    <2>1. Mine(r, v) = {n \in 1..Len(u) : u[n] = r} \cup {n \in {Len(u) + 1} : x = r}
      <3>1. Mine(r, v) = {n \in 1..Len(u) : v[n] = r} \cup {n \in {Len(u) + 1} : v[n] = r}
        BY <1>1, <1>2 DEF Mine
      <3> HIDE DEF v
      <3> QED
        BY <1>1, <3>1 DEF v
    <2>2. Mine(r, u) = {n \in 1..Len(u) : u[n] = r}
      BY <1>1 DEF Mine
    <2> QED
      BY <1>1, <2>1, <2>2

\* What is kept of a request whose own records do not change stays sound while others move
\* the subject on.
LEMMA FrameStep ==
  ASSUME IInv, NEW s \in Requests,
         op'[s] = op[s], done'[s] = done[s], wake'[s] = wake[s], think'[s] = think[s],
         attempts'[s] = attempts[s], s \in asked' <=> s \in asked,
         \/ subject'.updates = subject.updates
         \/ \E x \in (Requests \cup {Elsewhere}) \ {s} :
              subject'.updates = Append(subject.updates, x),
         call' = call \/ call'.req # s \/ call'.pc = "idle"
  PROVE  RequestInv(s)'
  <1> DEFINE u == subject.updates
             v == subject'.updates
  <1>1. u \in Seq(Requests \cup {Elsewhere}) /\ Len(u) \in Nat
    BY DEF IInv, TypeInv
  <1>2. Mine(s, v) = Mine(s, u) /\ Len(v) \in Nat /\ Len(u) <= Len(v)
    <2>1. CASE v = u
      BY <1>1, <2>1
    <2>2. ASSUME NEW x \in (Requests \cup {Elsewhere}) \ {s}, v = Append(u, x)
          PROVE  Mine(s, v) = Mine(s, u) /\ Len(v) \in Nat /\ Len(u) <= Len(v)
      <3>1. x \in Requests \cup {Elsewhere} /\ x # s
        OBVIOUS
      <3> HIDE DEF u, v
      <3>2. Len(Append(u, x)) = Len(u) + 1 /\ Mine(s, Append(u, x)) = Mine(s, u)
        BY <1>1, <3>1, MineAppended
      <3> QED
        BY <1>1, <2>2, <3>2
    <2> QED
      BY <2>1, <2>2
  <1>3. /\ RequestInv(s)
        /\ op[s] \in Operations /\ wake[s] \in Sessions
    BY DEF IInv, TypeInv
  <1> HIDE DEF u, v
  <1>4. \A n \in Int : n \in 0..Len(u) => n \in 0..Len(v)
    BY <1>1, <1>2
  <1>5. \A m, n \in Int : n \in m..Len(u) => n \in m..Len(v)
    BY <1>1, <1>2
  <1>6. OpSound(s, op[s], v)
    BY <1>2, <1>3, <1>4 DEF RequestInv, Sound, OpSound, Operations, u
  <1>7. WakeSound(op[s], wake[s], v)
    BY <1>3, <1>5 DEF RequestInv, Sound, WakeSound, Operations, Sessions, u
  <1>8. ThinkSound(s, op[s], think[s], v)
    BY <1>2, <1>3 DEF RequestInv, Sound, ThinkSound, u
  <1>9. Sound(s, op'[s], done'[s], wake'[s], think'[s], attempts'[s], subject'.updates)
    BY <1>3, <1>6, <1>7, <1>8 DEF RequestInv, Sound, v
  <1>10. call'.req = s => Served(op'[s], wake'[s], think'[s], attempts'[s], call')
    BY <1>3 DEF RequestInv, Served
  <1> QED
    BY <1>3, <1>9, <1>10 DEF RequestInv

\* A step that concerns one request.
Others(r) ==
  /\ \A s \in Requests \ {r} :
       /\ op'[s] = op[s] /\ done'[s] = done[s] /\ wake'[s] = wake[s] /\ think'[s] = think[s]
       /\ attempts'[s] = attempts[s] /\ (s \in asked' <=> s \in asked)
  /\ subject'.updates = subject.updates \/ subject'.updates = Append(subject.updates, r)
  /\ call'.req = r

LEMMA OwnStep ==
  ASSUME IInv, TypeInv', NEW r \in Requests, Others(r), RequestInv(r)'
  PROVE  IInv'
  <1>1. ASSUME NEW s \in Requests \ {r} PROVE RequestInv(s)'
    <2>1. call'.req # s
      BY DEF Others
    <2>2. \/ subject'.updates = subject.updates
          \/ \E x \in (Requests \cup {Elsewhere}) \ {s} : subject'.updates = Append(subject.updates, x)
      BY DEF Others
    <2> QED
      BY <2>1, <2>2, FrameStep DEF Others
  <1> QED
    BY <1>1 DEF IInv
-----------------------------------------------------------------------------
(* Steps that write nothing but the journal and the call.                  *)

LEMMA CallTypes ==
  ASSUME IInv
  PROVE  /\ call.pc # "idle" =>
              \A pc \in Steps \ {"accepted"} :
                Goes(pc) \in CallType /\ Goes(pc).req = call.req /\ Goes(pc).pc = pc
         /\ \A x \in Answers : Ends(x) \in CallType /\ Ends(x).req = call.req /\ Ends(x).pc = "idle"
  <1>1. call \in CallType
    BY DEF IInv, TypeInv
  <1>2. ASSUME NEW pc \in Steps \ {"accepted"}, call.pc # "idle"
        PROVE  Goes(pc) \in CallType /\ Goes(pc).req = call.req /\ Goes(pc).pc = pc
    BY <1>1, <1>2 DEF Goes, CallType, CallRecords
  <1>3. ASSUME NEW x \in Answers
        PROVE  Ends(x) \in CallType /\ Ends(x).req = call.req /\ Ends(x).pc = "idle"
    BY <1>1 DEF Ends, CallType, CallRecords, Steps, Answers
  <1> QED
    BY <1>2, <1>3

LEMMA QuietStep ==
  ASSUME IInv, NEW r \in Requests, UNCHANGED Stores, UNCHANGED op,
         call' \in CallType, call'.req = r,
         Served(op[r], wake[r], think[r], attempts[r], call')
  PROVE  IInv'
  <1>1. TypeInv'
    BY DEF IInv, TypeInv, Stores
  <1>2. Others(r)
    BY DEF Others, Stores
  <1>3. RequestInv(r)'
    BY DEF IInv, RequestInv, Stores
  <1> QED
    BY <1>1, <1>2, <1>3, OwnStep

LEMMA EndStep ==
  ASSUME IInv, NEW r \in Requests, call.req = r, UNCHANGED Stores, UNCHANGED op,
         NEW x \in Answers, call' = Ends(x)
  PROVE  IInv'
  <1>1. call' \in CallType /\ call'.req = r /\ call'.pc = "idle"
    BY CallTypes
  <1>2. Served(op[r], wake[r], think[r], attempts[r], call')
    BY <1>1 DEF Served
  <1> QED
    BY <1>1, <1>2, QuietStep

LEMMA FaultStep ==
  ASSUME IInv, NEW r \in Requests, call.req = r, UNCHANGED Stores, UNCHANGED op,
         call' = Ends("FAULT")
  PROVE  IInv'
  <1>1. "FAULT" \in Answers
    BY DEF Answers
  <1> QED
    BY <1>1, EndStep

\* What a record that is about to be saved has to agree with.
Agrees(r, new, next) ==
  /\ Mine(r, subject.updates) # {} => new.domain = "APPROVED"
  /\ DoneSound(new, done[r])
  /\ WakeSound(new, wake[r], subject.updates)
  /\ ThinkSound(r, new, think[r], subject.updates)
  /\ CapabilitySound(new, attempts[r])
  /\ r \in asked => new.progress \in Thinkable
  /\ Served(new, wake[r], think[r], attempts[r], next)

LEMMA WriteStep ==
  ASSUME IInv, NEW r \in Requests, op[r].stage # "NONE", UNCHANGED Stores,
         NEW new \in Operations, NEW next \in CallType, next.req = r,
         op' = [op EXCEPT ![r] = new], call' = next,
         new.input = op[r].input, new.stage # "NONE", Formed(new), Agrees(r, new, next)
  PROVE  IInv'
  <1>1. TypeInv'
    BY DEF IInv, TypeInv, Stores
  <1>2. /\ op'[r] = new
        /\ \A s \in Requests \ {r} : op'[s] = op[s]
    BY DEF IInv, TypeInv
  <1>3. Others(r)
    BY <1>2 DEF Others, Stores
  <1>4. OpSound(r, op[r], subject.updates) /\ WellFormed(new)
    BY FormedMeans DEF IInv, RequestInv, Sound
  <1>5. OpSound(r, new, subject.updates)
    BY <1>4 DEF OpSound, Agrees
  <1>6. RequestInv(r)'
    BY <1>2, <1>5 DEF RequestInv, Sound, Agrees, Stores
  <1> QED
    BY <1>1, <1>3, <1>6, OwnStep

LEMMA JournalStep ==
  ASSUME IInv, NEW r \in Requests, call.req = r, call.pc # "idle", UNCHANGED Stores,
         NEW new \in Operations, NEW next \in CallType, next.req = r, Save(r, new, next),
         new.input = op[r].input,
         new.stage # "NONE" /\ Formed(new) => Agrees(r, new, next)
  PROVE  IInv'
  <1>1. CASE op' = op /\ call' = Ends("FAULT")
    BY <1>1, FaultStep
  <1>2. CASE /\ new.stage # "NONE" /\ WellFormed(new)
             /\ op' = [op EXCEPT ![r] = new] /\ call' = next
    <2>1. Formed(new) /\ op[r].stage # "NONE"
      BY <1>2, FormedMeans DEF IInv, RequestInv, Served
    <2> QED
      BY <1>2, <2>1, WriteStep
  <1>3. \/ op' = op /\ call' = Ends("FAULT")
        \/ /\ new.stage # "NONE" /\ WellFormed(new)
           /\ op' = [op EXCEPT ![r] = new] /\ call' = next
    BY DEF Save
  <1> QED
    BY <1>1, <1>2, <1>3

\* What is kept of the request that is being served.
LEMMA Kept ==
  ASSUME IInv, NEW r \in Requests, call.req = r, call.pc # "idle"
  PROVE  /\ op[r] \in Operations /\ op[r].stage # "NONE" /\ Formed(op[r])
         /\ op[r].input \in 0..Len(subject.updates) /\ Len(subject.updates) \in Nat
         /\ done[r] \in ResultsKept /\ wake[r] \in Sessions /\ think[r] \in Thoughts
         /\ attempts[r] \in Seq(Results) /\ call \in CallType
         /\ OpSound(r, op[r], subject.updates) /\ DoneSound(op[r], done[r])
         /\ WakeSound(op[r], wake[r], subject.updates)
         /\ ThinkSound(r, op[r], think[r], subject.updates)
         /\ CapabilitySound(op[r], attempts[r])
         /\ r \in asked => op[r].progress \in Thinkable
         /\ Served(op[r], wake[r], think[r], attempts[r], call)
  <1>1. /\ op[r] \in Operations /\ done[r] \in ResultsKept /\ wake[r] \in Sessions
        /\ think[r] \in Thoughts /\ attempts[r] \in Seq(Results) /\ call \in CallType
        /\ Len(subject.updates) \in Nat
    BY DEF IInv, TypeInv
  <1>2. /\ OpSound(r, op[r], subject.updates) /\ DoneSound(op[r], done[r])
        /\ WakeSound(op[r], wake[r], subject.updates)
        /\ ThinkSound(r, op[r], think[r], subject.updates)
        /\ CapabilitySound(op[r], attempts[r])
        /\ r \in asked => op[r].progress \in Thinkable
        /\ Served(op[r], wake[r], think[r], attempts[r], call)
    BY DEF IInv, RequestInv, Sound
  <1>3. op[r].stage # "NONE"
    BY <1>2 DEF Served
  <1>4. WellFormed(op[r]) /\ op[r].input \in 0..Len(subject.updates)
    BY <1>2, <1>3 DEF OpSound
  <1>5. Formed(op[r])
    BY <1>1, <1>4, FormedMeans
  <1> QED
    BY <1>1, <1>2, <1>3, <1>4, <1>5

LEMMA PrepareStep ==
  ASSUME IInv, NEW r \in Requests, Prepare(r) PROVE IInv'
  <1>1. call.req = r /\ call.pc = "run" /\ op[r].domain = "NONE" /\ op[r].progress = "NONE"
    BY DEF Prepare, Running, At
  <1>2. PICK new : new = [op[r] EXCEPT !.progress = "PREPARED"]
    OBVIOUS
  <1>3. /\ new \in Operations /\ new.input = op[r].input /\ new.progress = "PREPARED"
        /\ new.stage = op[r].stage /\ new.domain = op[r].domain /\ new.woken = op[r].woken
        /\ new.evolution = op[r].evolution /\ new.capability = op[r].capability
    BY <1>1, <1>2, Kept, ProgressRanks DEF Operations
  <1>4. PICK next \in CallType : next = Goes("run") /\ next.req = r /\ next.pc = "run"
    BY <1>1, CallTypes DEF Steps
  <1>5. Save(r, new, next) /\ UNCHANGED Stores
    BY <1>2, <1>4 DEF Prepare
  <1>6. Agrees(r, new, next)
    BY <1>1, <1>3, <1>4, Kept DEF Agrees, OpSound, DoneSound, WakeSound, ThinkSound, CapabilitySound, Served, Thinkable
  <1> QED
    BY <1>1, <1>3, <1>4, <1>5, <1>6, JournalStep

LEMMA CheckpointWakeStep ==
  ASSUME IInv, NEW r \in Requests, CheckpointWake(r) PROVE IInv'
  <1>1. /\ call.req = r /\ call.pc = "run" /\ op[r].domain = "NONE" /\ op[r].progress = "PREPARED"
        /\ UNCHANGED Stores
    BY DEF CheckpointWake, Running, At
  <1>2. CASE wake[r].status # "COMPLETED"
    BY <1>1, <1>2, FaultStep DEF CheckpointWake, Fault
  <1>3. CASE wake[r].status = "COMPLETED"
    <2>1. PICK new : new = [op[r] EXCEPT !.progress = "WAKE_COMPLETED", !.woken = wake[r].revision]
      OBVIOUS
    <2>2. /\ new \in Operations /\ new.input = op[r].input /\ new.progress = "WAKE_COMPLETED"
          /\ new.stage = op[r].stage /\ new.domain = op[r].domain /\ new.woken = wake[r].revision
          /\ new.evolution = op[r].evolution /\ new.capability = op[r].capability
      BY <1>1, <2>1, Kept, ProgressRanks DEF Operations, Sessions
    <2>3. PICK next \in CallType : next = Goes("run") /\ next.req = r /\ next.pc = "run"
      BY <1>1, CallTypes DEF Steps
    <2>4. Save(r, new, next)
      BY <1>3, <2>1, <2>3 DEF CheckpointWake
    <2>5. ASSUME Formed(new) PROVE WakeSound(new, wake[r], subject.updates)
      BY <1>3, <2>2, <2>5, Kept, <1>1 DEF Formed, WakeSound
    <2>6. ASSUME Formed(new) PROVE Agrees(r, new, next)
      BY <1>1, <2>2, <2>3, <2>5, <2>6, Kept
      DEF Agrees, OpSound, DoneSound, ThinkSound, CapabilitySound, Served, Thinkable
    <2> QED
      BY <1>1, <2>2, <2>3, <2>4, <2>6, JournalStep
  <1> QED
    BY <1>2, <1>3

LEMMA PerceiveStep ==
  ASSUME IInv, NEW r \in Requests, Perceive(r) PROVE IInv'
  <1>1. /\ call.req = r /\ call.pc = "run" /\ op[r].domain = "NONE"
        /\ op[r].progress = "WAKE_COMPLETED"
    BY DEF Perceive, Running, At
  <1>2. PICK new : new = [op[r] EXCEPT !.progress = "PERCEPTION_COMPLETED"]
    OBVIOUS
  <1>3. /\ new \in Operations /\ new.input = op[r].input /\ new.progress = "PERCEPTION_COMPLETED"
        /\ new.stage = op[r].stage /\ new.domain = op[r].domain /\ new.woken = op[r].woken
        /\ new.evolution = op[r].evolution /\ new.capability = op[r].capability
    BY <1>1, <1>2, Kept, ProgressRanks DEF Operations
  <1>4. PICK next \in CallType : next = Goes("run") /\ next.req = r /\ next.pc = "run"
    BY <1>1, CallTypes DEF Steps
  <1>5. Save(r, new, next) /\ UNCHANGED Stores
    BY <1>2, <1>4 DEF Perceive
  <1>6. Agrees(r, new, next)
    BY <1>1, <1>3, <1>4, Kept DEF Agrees, OpSound, DoneSound, WakeSound, ThinkSound, CapabilitySound, Served, Thinkable
  <1> QED
    BY <1>1, <1>3, <1>4, <1>5, <1>6, JournalStep

\* A call that has the thought of its request.
LEMMA ThoughtKept ==
  ASSUME IInv, NEW r \in Requests, HasThought(r)
  PROVE  /\ call.req = r /\ call.pc \in {"run", "resume"} /\ think[r].status = "COMPLETED"
         /\ call \in CallType
  BY DEF HasThought, Running, At, IInv, TypeInv

LEMMA CheckpointThinkingStep ==
  ASSUME IInv, NEW r \in Requests, CheckpointThinking(r) PROVE IInv'
  <1>1. /\ call.req = r /\ call.pc \in {"run", "resume"} /\ think[r].status = "COMPLETED"
        /\ op[r].progress = "PERCEPTION_COMPLETED" /\ UNCHANGED Stores
    BY ThoughtKept DEF CheckpointThinking
  <1>2. PICK new : new = [op[r] EXCEPT !.progress = "THINKING_COMPLETED"]
    OBVIOUS
  <1>3. /\ new \in Operations /\ new.input = op[r].input /\ new.progress = "THINKING_COMPLETED"
        /\ new.stage = op[r].stage /\ new.domain = op[r].domain /\ new.woken = op[r].woken
        /\ new.evolution = op[r].evolution /\ new.capability = op[r].capability
    BY <1>1, <1>2, Kept, ProgressRanks DEF Operations
  <1>4. PICK next \in CallType : next = call /\ next.req = r /\ next.pc \in {"run", "resume"}
    BY <1>1, Kept
  <1>5. Save(r, new, next)
    BY <1>2, <1>4 DEF CheckpointThinking
  <1>6. Agrees(r, new, next)
    BY <1>1, <1>3, <1>4, Kept DEF Agrees, OpSound, DoneSound, WakeSound, ThinkSound, CapabilitySound, Served, Thinkable
  <1> QED
    BY <1>1, <1>3, <1>4, <1>5, <1>6, JournalStep

LEMMA DecideStep ==
  ASSUME IInv, NEW r \in Requests, Decide(r) PROVE IInv'
  <1>1. /\ call.req = r /\ call.pc \in {"run", "resume"} /\ think[r].status = "COMPLETED"
        /\ op[r].progress = "THINKING_COMPLETED" /\ UNCHANGED Stores
    BY ThoughtKept DEF Decide
  <1>2. PICK action \in Verdicts :
          Save(r, [op[r] EXCEPT !.progress = "ACTION_COMPLETED", !.action = action], call)
    BY DEF Decide, Verdicts
  <1>3. PICK new : new = [op[r] EXCEPT !.progress = "ACTION_COMPLETED", !.action = action]
    OBVIOUS
  <1>4. /\ new \in Operations /\ new.input = op[r].input /\ new.progress = "ACTION_COMPLETED"
        /\ new.stage = op[r].stage /\ new.domain = op[r].domain /\ new.woken = op[r].woken
        /\ new.evolution = op[r].evolution /\ new.capability = op[r].capability
    BY <1>1, <1>3, Kept, ProgressRanks DEF Operations
  <1>5. PICK next \in CallType : next = call /\ next.req = r /\ next.pc \in {"run", "resume"}
    BY <1>1, Kept
  <1>6. Save(r, new, next)
    BY <1>2, <1>3, <1>5
  <1>7. Agrees(r, new, next)
    BY <1>1, <1>4, <1>5, Kept DEF Agrees, OpSound, DoneSound, WakeSound, ThinkSound, CapabilitySound, Served, Thinkable
  <1> QED
    BY <1>1, <1>4, <1>5, <1>6, <1>7, JournalStep

LEMMA CompleteDomainStep ==
  ASSUME IInv, NEW r \in Requests, CompleteDomain(r) PROVE IInv'
  <1>1. /\ call.req = r /\ call.pc \in {"run", "resume"} /\ think[r].status = "COMPLETED"
        /\ op[r].progress = "ACTION_COMPLETED" /\ op[r].domain = "NONE" /\ UNCHANGED Stores
    BY ThoughtKept DEF CompleteDomain
  <1>2. PICK new : new = [op[r] EXCEPT !.stage = "DOMAIN_COMPLETED", !.domain = op[r].action]
    OBVIOUS
  <1>3. /\ new \in Operations /\ new.input = op[r].input /\ new.progress = op[r].progress
        /\ new.stage = "DOMAIN_COMPLETED" /\ new.domain = op[r].action /\ new.woken = op[r].woken
        /\ new.evolution = op[r].evolution /\ new.capability = op[r].capability
    BY <1>1, <1>2, Kept, StageRanks DEF Operations
  <1>4. PICK next \in CallType : next = Goes("run") /\ next.req = r /\ next.pc = "run"
    BY <1>1, CallTypes DEF Steps
  <1>5. Save(r, new, next)
    BY <1>2, <1>4 DEF CompleteDomain
  <1>6. Agrees(r, new, next)
    BY <1>1, <1>3, <1>4, Kept DEF Agrees, OpSound, DoneSound, WakeSound, ThinkSound, CapabilitySound, Served, Thinkable
  <1> QED
    BY <1>1, <1>3, <1>4, <1>5, <1>6, JournalStep

LEMMA CheckpointEvolutionStep ==
  ASSUME IInv, NEW r \in Requests, CheckpointEvolution(r) PROVE IInv'
  <1>1. /\ call.req = r /\ call.pc = "run" /\ op[r].domain = "APPROVED" /\ UNCHANGED Stores
    BY DEF CheckpointEvolution, Evolving, Finishing, At
  <1>2. PICK n \in Mine(r, subject.updates) :
          /\ think[r].update = n
          /\ Save(r, [op[r] EXCEPT !.stage = "EVOLUTION_COMMITTED", !.evolution = n], Goes("run"))
    BY DEF CheckpointEvolution, UpdatesBy, Mine
  <1>3. PICK new : new = [op[r] EXCEPT !.stage = "EVOLUTION_COMMITTED", !.evolution = n]
    OBVIOUS
  <1>4. n \in Int /\ n >= 1
    BY DEF Mine, IInv, TypeInv
  <1>5. /\ new \in Operations /\ new.input = op[r].input /\ new.progress = op[r].progress
        /\ new.stage = "EVOLUTION_COMMITTED" /\ new.domain = "APPROVED" /\ new.woken = op[r].woken
        /\ new.evolution = n /\ new.capability = op[r].capability
    BY <1>1, <1>3, <1>4, Kept, StageRanks DEF Operations
  <1>6. PICK next \in CallType : next = Goes("run") /\ next.req = r /\ next.pc = "run"
    BY <1>1, CallTypes DEF Steps
  <1>7. Save(r, new, next)
    BY <1>2, <1>3, <1>6
  <1>8. ThinkSound(r, new, think[r], subject.updates)
    BY <1>1, <1>2, <1>4, <1>5, Kept DEF ThinkSound, NoRevision
  <1>9. DoneSound(new, done[r])
    BY <1>1, <1>4, <1>5, Kept DEF DoneSound, NoRevision
  <1>10. Agrees(r, new, next)
    BY <1>1, <1>5, <1>6, <1>8, <1>9, Kept DEF Agrees, OpSound, WakeSound, CapabilitySound, Served
  <1> QED
    BY <1>1, <1>5, <1>6, <1>7, <1>10, JournalStep

LEMMA CloseStep ==
  ASSUME IInv, NEW r \in Requests, Close(r) PROVE IInv'
  <1>1. /\ call.req = r /\ call.pc = "run" /\ op[r].domain # "NONE" /\ done[r] # NoAnswer
        /\ UNCHANGED Stores
    BY DEF Close, Finishing, At
  <1>2. PICK new : new = [op[r] EXCEPT !.stage = "COMPLETED"]
    OBVIOUS
  <1>3. /\ new \in Operations /\ new.input = op[r].input /\ new.progress = op[r].progress
        /\ new.stage = "COMPLETED" /\ new.domain = op[r].domain /\ new.woken = op[r].woken
        /\ new.evolution = op[r].evolution /\ new.capability = op[r].capability
    BY <1>1, <1>2, Kept, StageRanks DEF Operations
  <1>4. PICK next \in CallType : next = Ends("COMPLETED") /\ next.req = r /\ next.pc = "idle"
    BY <1>1, CallTypes DEF Answers
  <1>5. Save(r, new, next)
    BY <1>2, <1>4 DEF Close
  <1>6. Agrees(r, new, next)
    BY <1>1, <1>3, <1>4, Kept DEF Agrees, OpSound, DoneSound, WakeSound, ThinkSound, CapabilitySound, Served, Thinkable
  <1> QED
    BY <1>1, <1>3, <1>4, <1>5, <1>6, JournalStep

-----------------------------------------------------------------------------
(* Capability results, and answers that are given again.                   *)

LEMMA ResultTypes ==
  ASSUME IInv, NEW r \in Requests, call.req = r, call.pc # "idle"
  PROVE  /\ Results \subseteq Capabilities /\ Latest(r) \in Capabilities
         /\ Latest(r) = Last(attempts[r])
         /\ \A x \in Capabilities : /\ AfterResult(x) \in CallType /\ AfterResult(x).req = r
                                    /\ AfterResult(x).pc \in {"idle", "resume"}
  <1>1. Results \subseteq Capabilities /\ Proposed \in Capabilities
    BY DEF Results, Capabilities, Proposed
  <1>2. attempts[r] \in Seq(Results)
    BY DEF IInv, TypeInv
  <1>3. attempts[r] = << >> \/ attempts[r][Len(attempts[r])] \in Results
    BY <1>2
  <1>4. Latest(r) \in Capabilities /\ Latest(r) = Last(attempts[r])
    BY <1>1, <1>3 DEF Latest, Last
  <1>5. ASSUME NEW x \in Capabilities
        PROVE  /\ AfterResult(x) \in CallType /\ AfterResult(x).req = r
               /\ AfterResult(x).pc \in {"idle", "resume"}
    <2>1. CASE x.status = "SUCCEEDED"
      <3>1. Goes("resume") \in CallType /\ Goes("resume").req = r /\ Goes("resume").pc = "resume"
        BY CallTypes DEF Steps
      <3> QED
        BY <2>1, <3>1 DEF AfterResult
    <2>2. CASE x.status = "TERMINAL"
      <3>1. /\ Ends("CAPABILITY_FAILED") \in CallType /\ Ends("CAPABILITY_FAILED").req = r
            /\ Ends("CAPABILITY_FAILED").pc = "idle"
        BY CallTypes DEF Answers
      <3> QED
        BY <2>2, <3>1 DEF AfterResult
    <2>3. CASE x.status \notin {"SUCCEEDED", "TERMINAL"}
      <3>1. /\ Ends("CAPABILITY_REQUIRED") \in CallType /\ Ends("CAPABILITY_REQUIRED").req = r
            /\ Ends("CAPABILITY_REQUIRED").pc = "idle"
        BY CallTypes DEF Answers
      <3> QED
        BY <2>3, <3>1 DEF AfterResult
    <2> QED
      BY <2>1, <2>2, <2>3
  <1> QED
    BY <1>1, <1>4, <1>5

LEMMA WaitsStep ==
  ASSUME IInv, NEW r \in Requests, call.req = r, call.pc # "idle", UNCHANGED Stores,
         NEW x \in Capabilities, Closing(x) => x = Last(attempts[r]), Waits(r, x)
  PROVE  IInv'
  <1>1. PICK new : new = [op[r] EXCEPT !.stage = "WAITING_CAPABILITY", !.capability = x]
    OBVIOUS
  <1>2. /\ new \in Operations /\ new.input = op[r].input /\ new.progress = op[r].progress
        /\ new.stage = "WAITING_CAPABILITY" /\ new.domain = op[r].domain /\ new.woken = op[r].woken
        /\ new.evolution = op[r].evolution /\ new.capability = x
    BY <1>1, Kept, StageRanks DEF Operations
  <1>3. PICK next \in CallType :
          next = AfterResult(x) /\ next.req = r /\ next.pc \in {"idle", "resume"}
    BY ResultTypes
  <1>4. Save(r, new, next)
    BY <1>1, <1>3 DEF Waits
  <1>5. CapabilitySound(new, attempts[r])
    BY <1>2, Kept DEF CapabilitySound
  <1>6. Agrees(r, new, next)
    BY <1>2, <1>3, <1>5, Kept DEF Agrees, OpSound, DoneSound, WakeSound, ThinkSound, Served
  <1> QED
    BY <1>2, <1>3, <1>4, <1>6, JournalStep

LEMMA CheckpointCapabilityStep ==
  ASSUME IInv, NEW r \in Requests, CheckpointCapability(r) PROVE IInv'
  <1>1. call.req = r /\ call.pc = "run" /\ UNCHANGED Stores
    BY DEF CheckpointCapability, Running, At
  <1>2. PICK x \in Capabilities : x = Latest(r) /\ x = Last(attempts[r])
    BY <1>1, ResultTypes
  <1>3. CASE Waits(r, x)
    BY <1>1, <1>2, <1>3, WaitsStep
  <1>4. CASE call' = AfterResult(x) /\ UNCHANGED op
    <2>1. call' \in CallType /\ call'.req = r /\ call'.pc \in {"idle", "resume"}
      BY <1>1, <1>4, ResultTypes
    <2>2. Served(op[r], wake[r], think[r], attempts[r], call')
      BY <1>1, <2>1, Kept DEF Served
    <2> QED
      BY <1>1, <1>4, <2>1, <2>2, QuietStep
  <1> QED
    BY <1>2, <1>3, <1>4 DEF CheckpointCapability

LEMMA ReplayStep ==
  ASSUME IInv, NEW r \in Requests, NEW begun \in CallType, begun.req = r,
         done[r] # NoAnswer, Replay(r, begun), UNCHANGED Stores
  PROVE  IInv'
  <1>1. /\ op[r] \in Operations /\ RequestInv(r)
    BY DEF IInv, TypeInv
  <1>2. op[r].domain # "NONE"
    BY <1>1 DEF RequestInv, Sound, DoneSound
  <1>3. op[r].stage # "NONE"
    BY <1>1, <1>2 DEF RequestInv, Sound, OpSound, NoOperation
  <1>4. Formed(op[r])
    BY <1>1, <1>3, FormedMeans DEF RequestInv, Sound, OpSound
  <1>5. PICK new : new = [op[r] EXCEPT !.stage = "COMPLETED"]
    OBVIOUS
  <1>6. /\ new \in Operations /\ new.input = op[r].input /\ new.progress = op[r].progress
        /\ new.stage = "COMPLETED" /\ new.domain = op[r].domain /\ new.woken = op[r].woken
        /\ new.evolution = op[r].evolution /\ new.capability = op[r].capability
        /\ new.action = op[r].action
    BY <1>1, <1>5, StageRanks DEF Operations
  <1>7. PICK next : next = [begun EXCEPT !.pc = "idle", !.answer = "COMPLETED"]
    OBVIOUS
  <1>8. next \in CallType /\ next.req = r /\ next.pc = "idle"
    BY <1>7 DEF CallType, CallRecords, Steps, Answers
  <1>9. call' = next
    BY <1>7 DEF Replay
  <1>10. op' = [op EXCEPT ![r] = new]
    BY <1>5 DEF Replay, IInv, TypeInv
  <1>11. Formed(new)
    BY <1>2, <1>4, <1>6 DEF Formed, Early
  <1>12. Agrees(r, new, next)
    BY <1>1, <1>3, <1>6, <1>8
    DEF RequestInv, Sound, Agrees, OpSound, DoneSound, WakeSound, ThinkSound, CapabilitySound, Served, Thinkable
  <1> QED
    BY <1>3, <1>6, <1>9, <1>10, <1>11, <1>12, <1>8, WriteStep

LEMMA TakeResultStep ==
  ASSUME IInv, NEW r \in Requests, TakeResult(r) PROVE IInv'
  <1>1. call.req = r /\ call.pc = "accepted" /\ UNCHANGED Stores
    BY DEF TakeResult, At
  <1>2. CASE done[r] # NoAnswer /\ Replay(r, call)
    <2>1. PICK begun \in CallType : begun = call /\ begun.req = r
      BY <1>1, Kept
    <2> QED
      BY <1>1, <1>2, <2>1, ReplayStep
  <1>3. CASE call' = Goes("run") /\ UNCHANGED op
    <2>1. call' \in CallType /\ call'.req = r /\ call'.pc = "run"
      BY <1>1, <1>3, CallTypes DEF Steps
    <2>2. Served(op[r], wake[r], think[r], attempts[r], call')
      BY <1>1, <2>1, Kept DEF Served
    <2> QED
      BY <1>1, <1>3, <2>1, <2>2, QuietStep
  <1>4. CASE Waits(r, call.result)
    <2>1. PICK n \in DOMAIN attempts[r] : attempts[r][n] = call.result
      BY <1>1, Kept DEF Served
    <2>2. PICK x \in Capabilities : x = call.result
      BY <1>1, Kept DEF CallType, CallRecords
    <2>3. Closing(x) => n = Len(attempts[r])
      BY <1>1, <2>1, <2>2, Kept DEF CapabilitySound
    <2>4. attempts[r] # << >>
      BY <2>1
    <2>5. Closing(x) => x = Last(attempts[r])
      BY <2>1, <2>2, <2>3, <2>4 DEF Last
    <2> QED
      BY <1>1, <1>4, <2>2, <2>5, WaitsStep
  <1> QED
    BY <1>2, <1>3, <1>4 DEF TakeResult

LEMMA RefuseSessionStep ==
  ASSUME IInv, NEW r \in Requests, RefuseSession(r) PROVE IInv'
  <1>1. call.req = r /\ UNCHANGED Stores /\ UNCHANGED op /\ call' = Ends("FAULT")
    BY DEF RefuseSession, Running, At, Fault
  <1> QED
    BY <1>1, FaultStep

-----------------------------------------------------------------------------
(* Steps that write a session.                                             *)

LEMMA WakeStep ==
  ASSUME IInv, NEW r \in Requests, NEW w \in Sessions, wake' = [wake EXCEPT ![r] = w],
         UNCHANGED <<mode, subject, op, done, think, asked, attempts>>,
         call' \in CallType, call'.req = r,
         WakeSound(op[r], w, subject.updates), Served(op[r], w, think[r], attempts[r], call')
  PROVE  IInv'
  <1>1. TypeInv'
    BY DEF IInv, TypeInv
  <1>2. wake'[r] = w /\ \A s \in Requests \ {r} : wake'[s] = wake[s]
    BY DEF IInv, TypeInv
  <1>3. Others(r)
    BY <1>2 DEF Others
  <1>4. RequestInv(r)'
    BY <1>2 DEF IInv, RequestInv, Sound
  <1> QED
    BY <1>1, <1>3, <1>4, OwnStep

LEMMA ThinkStep ==
  ASSUME IInv, NEW r \in Requests, NEW t \in Thoughts, think' = [think EXCEPT ![r] = t],
         UNCHANGED <<mode, subject, op, done, wake, asked, attempts>>,
         call' \in CallType, call'.req = r,
         ThinkSound(r, op[r], t, subject.updates), Served(op[r], wake[r], t, attempts[r], call')
  PROVE  IInv'
  <1>1. TypeInv'
    BY DEF IInv, TypeInv
  <1>2. think'[r] = t /\ \A s \in Requests \ {r} : think'[s] = think[s]
    BY DEF IInv, TypeInv
  <1>3. Others(r)
    BY <1>2 DEF Others
  <1>4. RequestInv(r)'
    BY <1>2 DEF IInv, RequestInv, Sound
  <1> QED
    BY <1>1, <1>3, <1>4, OwnStep

LEMMA BeginWakeStep ==
  ASSUME IInv, NEW r \in Requests, BeginWake(r) PROVE IInv'
  <1>1. /\ call.req = r /\ call.pc = "run" /\ op[r].progress = "PREPARED" /\ wake[r] = NoSession
        /\ UNCHANGED <<mode, subject, op, done, think, asked, attempts>>
    BY DEF BeginWake, Running, At, Fault
  <1>2. CASE call' = Ends("FAULT") /\ UNCHANGED wake
    BY <1>1, <1>2, FaultStep DEF Stores
  <1>3. CASE wake' = [wake EXCEPT ![r].status = "RUNNING"] /\ call' = Goes("waking")
    <2>1. PICK w : w = [wake[r] EXCEPT !.status = "RUNNING"]
      OBVIOUS
    <2>2. w \in Sessions /\ w.status = "RUNNING" /\ w.revision = NoRevision
      BY <1>1, <2>1, Kept DEF Sessions, NoSession
    <2>3. wake' = [wake EXCEPT ![r] = w]
      BY <1>3, <2>1 DEF IInv, TypeInv
    <2>4. call' \in CallType /\ call'.req = r /\ call'.pc = "waking"
      BY <1>1, <1>3, CallTypes DEF Steps
    <2>5. op[r].woken = NoRevision
      BY <1>1, Kept DEF Formed
    <2>6. WakeSound(op[r], w, subject.updates)
      BY <1>1, <2>2, <2>5, Kept DEF WakeSound
    <2>7. Served(op[r], w, think[r], attempts[r], call')
      BY <1>1, <2>2, <2>4, Kept DEF Served
    <2> QED
      BY <1>1, <2>2, <2>3, <2>4, <2>6, <2>7, WakeStep
  <1> QED
    BY <1>2, <1>3 DEF BeginWake, Fault

LEMMA EndWakeStep ==
  ASSUME IInv, NEW r \in Requests, EndWake(r) PROVE IInv'
  <1>1. /\ call.req = r /\ call.pc = "waking"
        /\ UNCHANGED <<mode, subject, op, done, think, asked, attempts>>
    BY DEF EndWake, At
  <1>2. PICK w : /\ w.status \in {"COMPLETED", "FAILED"} /\ w.revision = Len(subject.updates)
                 /\ w \in Sessions /\ wake' = [wake EXCEPT ![r] = w]
                 /\ call' = Goes("run") \/ call' = Ends("FAULT")
    <2>1. /\ [status |-> "COMPLETED", revision |-> Len(subject.updates)] \in Sessions
          /\ [status |-> "FAILED", revision |-> Len(subject.updates)] \in Sessions
      BY <1>1, Kept DEF Sessions
    <2> QED
      BY <2>1 DEF EndWake, Revision
  <1>3. call' \in CallType /\ call'.req = r /\ call'.pc \in {"run", "idle"}
    <2>1. /\ Goes("run") \in CallType /\ Goes("run").req = r /\ Goes("run").pc = "run"
      BY <1>1, CallTypes DEF Steps
    <2>2. /\ Ends("FAULT") \in CallType /\ Ends("FAULT").req = r /\ Ends("FAULT").pc = "idle"
      BY <1>1, CallTypes DEF Answers
    <2> QED
      BY <1>2, <2>1, <2>2
  <1>4. op[r].progress = "PREPARED" /\ op[r].woken = NoRevision
    BY <1>1, Kept DEF Served, Formed
  <1>5. w.revision \in op[r].input..Len(subject.updates) /\ w # NoSession
    BY <1>1, <1>2, Kept DEF Operations, NoSession
  <1>6. WakeSound(op[r], w, subject.updates)
    BY <1>2, <1>4, <1>5 DEF WakeSound
  <1>7. Served(op[r], w, think[r], attempts[r], call')
    BY <1>1, <1>3, Kept DEF Served
  <1> QED
    BY <1>1, <1>2, <1>3, <1>6, <1>7, WakeStep

\* A think session before its request has gone past perception.
LEMMA Thinking ==
  ASSUME NEW r \in Requests, NEW o, NEW t \in Thoughts, NEW u, NEW next \in Thoughts,
         ThinkSound(r, o, t, u), next.update = t.update, next.provider <= 1,
         t.status = "COMPLETED" => next.status = "COMPLETED"
  PROVE  ThinkSound(r, o, next, u)
  BY DEF ThinkSound

LEMMA BeginThinkingStep ==
  ASSUME IInv, NEW r \in Requests, BeginThinking(r) PROVE IInv'
  <1>1. /\ call.req = r /\ call.pc = "run" /\ think[r] = NoThought
        /\ UNCHANGED <<mode, subject, op, done, wake, asked, attempts>>
    BY DEF BeginThinking, Running, At, Fault
  <1>2. CASE call' = Ends("FAULT") /\ UNCHANGED think
    BY <1>1, <1>2, FaultStep DEF Stores
  <1>3. CASE think' = [think EXCEPT ![r].status = "RUNNING"] /\ call' = Goes("thinking")
    <2>1. PICK t : t = [think[r] EXCEPT !.status = "RUNNING"]
      OBVIOUS
    <2>2. /\ t \in Thoughts /\ t.status = "RUNNING" /\ t.provider = 0
          /\ t.update = think[r].update /\ think[r].status = "NONE"
      <3>1. think[r].status = "NONE" /\ think[r].provider = 0 /\ think[r] \in Thoughts
        BY <1>1, Kept DEF NoThought
      <3> QED
        BY <2>1, <3>1 DEF Thoughts
    <2>3. think' = [think EXCEPT ![r] = t]
      BY <1>3, <2>1 DEF IInv, TypeInv
    <2>4. call' \in CallType /\ call'.req = r /\ call'.pc = "thinking"
      BY <1>1, <1>3, CallTypes DEF Steps
    <2>5. ThinkSound(r, op[r], t, subject.updates)
      BY <1>1, <2>2, Kept, Thinking
    <2>6. Served(op[r], wake[r], t, attempts[r], call')
      BY <1>1, <2>2, <2>4, Kept DEF Served
    <2> QED
      BY <1>1, <2>2, <2>3, <2>4, <2>5, <2>6, ThinkStep
  <1> QED
    BY <1>2, <1>3 DEF BeginThinking, Fault

LEMMA CallProviderStep ==
  ASSUME IInv, NEW r \in Requests, CallProvider(r) PROVE IInv'
  <1>1. /\ call.req = r /\ call.pc = "thinking"
        /\ think' = [think EXCEPT ![r].provider = @ + 1] /\ call' = Goes("thought")
        /\ UNCHANGED <<mode, subject, op, done, wake, asked, attempts>>
    BY DEF CallProvider, At
  <1>2. think[r].status = "RUNNING" /\ think[r].provider = 0
    BY <1>1, Kept DEF Served
  <1>3. PICK t : t = [think[r] EXCEPT !.provider = think[r].provider + 1]
    OBVIOUS
  <1>4. /\ t \in Thoughts /\ t.status = "RUNNING" /\ t.provider = 1 /\ t.update = think[r].update
    BY <1>1, <1>2, <1>3, Kept DEF Thoughts
  <1>5. think' = [think EXCEPT ![r] = t]
    BY <1>1, <1>3 DEF IInv, TypeInv
  <1>6. call' \in CallType /\ call'.req = r /\ call'.pc = "thought"
    BY <1>1, CallTypes DEF Steps
  <1>7. ThinkSound(r, op[r], t, subject.updates)
    BY <1>1, <1>2, <1>4, Kept, Thinking
  <1>8. Served(op[r], wake[r], t, attempts[r], call')
    BY <1>1, <1>4, <1>6, Kept DEF Served
  <1> QED
    BY <1>1, <1>4, <1>5, <1>6, <1>7, <1>8, ThinkStep

LEMMA EndThinkingStep ==
  ASSUME IInv, NEW r \in Requests, EndThinking(r) PROVE IInv'
  <1>1. /\ call.req = r /\ call.pc \in {"thinking", "thought"}
        /\ UNCHANGED <<mode, subject, op, done, wake, asked, attempts>>
    BY DEF EndThinking
  <1>2. /\ think[r] \in Thoughts /\ think[r].status = "RUNNING" /\ think[r].provider <= 1
    BY <1>1, Kept DEF Served, ThinkSound
  <1>3. PICK t : /\ t \in Thoughts /\ t.update = think[r].update /\ t.provider = think[r].provider
                 /\ think' = [think EXCEPT ![r] = t]
                 /\ call' = Goes("run") \/ call' = Ends("FAULT")
    <2>1. CASE \E mutates \in BOOLEAN :
                 /\ think' = [think EXCEPT ![r].status = "COMPLETED", ![r].mutates = mutates]
                 /\ call' = Goes("run")
      <3>1. PICK mutates \in BOOLEAN :
                 /\ think' = [think EXCEPT ![r].status = "COMPLETED", ![r].mutates = mutates]
                 /\ call' = Goes("run")
        BY <2>1
      <3>2. PICK t : t = [think[r] EXCEPT !.status = "COMPLETED", !.mutates = mutates]
        OBVIOUS
      <3>3. t \in Thoughts /\ t.update = think[r].update /\ t.provider = think[r].provider
        BY <1>2, <3>2 DEF Thoughts
      <3>4. think' = [think EXCEPT ![r] = t]
        BY <3>1, <3>2 DEF IInv, TypeInv
      <3> QED
        BY <3>1, <3>3, <3>4
    <2>2. CASE think' = [think EXCEPT ![r].status = "FAILED"] /\ call' = Ends("FAULT")
      <3>1. PICK t : t = [think[r] EXCEPT !.status = "FAILED"]
        OBVIOUS
      <3>2. t \in Thoughts /\ t.update = think[r].update /\ t.provider = think[r].provider
        BY <1>2, <3>1 DEF Thoughts
      <3>3. think' = [think EXCEPT ![r] = t]
        BY <2>2, <3>1 DEF IInv, TypeInv
      <3> QED
        BY <2>2, <3>2, <3>3
    <2> QED
      BY <2>1, <2>2 DEF EndThinking
  <1>4. call' \in CallType /\ call'.req = r /\ call'.pc \in {"run", "idle"}
    <2>1. /\ Goes("run") \in CallType /\ Goes("run").req = r /\ Goes("run").pc = "run"
      BY <1>1, CallTypes DEF Steps
    <2>2. /\ Ends("FAULT") \in CallType /\ Ends("FAULT").req = r /\ Ends("FAULT").pc = "idle"
      BY <1>1, CallTypes DEF Answers
    <2> QED
      BY <1>3, <2>1, <2>2
  <1>5. ThinkSound(r, op[r], t, subject.updates)
    BY <1>1, <1>2, <1>3, Kept, Thinking
  <1>6. Served(op[r], wake[r], t, attempts[r], call')
    BY <1>1, <1>4, Kept DEF Served
  <1> QED
    BY <1>1, <1>3, <1>4, <1>5, <1>6, ThinkStep

LEMMA AskStep ==
  ASSUME IInv, NEW r \in Requests, Ask(r) PROVE IInv'
  <1>1. /\ call.req = r /\ asked' = asked \cup {r}
        /\ UNCHANGED <<mode, subject, op, done, wake, think, attempts, call>>
    BY DEF Ask, Running, At
  <1>2. TypeInv' /\ Others(r)
    BY <1>1 DEF IInv, TypeInv, Others
  <1>3. RequestInv(r)'
    <2>1. ProgressRank[op[r].progress] >= ProgressRank.PERCEPTION_COMPLETED /\ op[r] \in Operations
      BY DEF Ask, Perceived, IInv, TypeInv
    <2>2. op[r].progress \in Thinkable
      BY <2>1, ProgressRanks DEF Operations, Thinkable
    <2> QED
      BY <1>1, <2>2 DEF IInv, RequestInv
  <1> QED
    BY <1>2, <1>3, OwnStep

LEMMA BeginWaitStep ==
  ASSUME IInv, NEW r \in Requests, BeginWait(r) PROVE IInv'
  <1>1. /\ call.req = r /\ call.pc \in {"run", "resume"} /\ think[r] = NoThought
        /\ UNCHANGED <<mode, subject, op, done, wake, asked, attempts>>
    BY DEF BeginWait, Running, At
  <1>2. CASE think' = [think EXCEPT ![r].status = "WAITING_CAPABILITY"] /\ UNCHANGED call
    <2>1. PICK t : t = [think[r] EXCEPT !.status = "WAITING_CAPABILITY"]
      OBVIOUS
    <2>2. /\ t \in Thoughts /\ t.provider = 0 /\ t.update = think[r].update
          /\ think[r].status = "NONE"
      <3>1. think[r].status = "NONE" /\ think[r].provider = 0 /\ think[r] \in Thoughts
        BY <1>1, Kept DEF NoThought
      <3> QED
        BY <2>1, <3>1 DEF Thoughts
    <2>3. think' = [think EXCEPT ![r] = t]
      BY <1>2, <2>1 DEF IInv, TypeInv
    <2>4. call' \in CallType /\ call'.req = r /\ call'.pc \in {"run", "resume"}
      BY <1>1, <1>2, Kept
    <2>5. ThinkSound(r, op[r], t, subject.updates)
      BY <1>1, <2>2, Kept, Thinking
    <2>6. Served(op[r], wake[r], t, attempts[r], call')
      BY <1>1, <2>4, Kept DEF Served
    <2> QED
      BY <1>1, <2>2, <2>3, <2>4, <2>5, <2>6, ThinkStep
  <1>3. CASE call' = Ends("NO_BUDGET") /\ UNCHANGED think
    <2>1. call' \in CallType /\ call'.req = r /\ call'.pc = "idle"
      BY <1>1, <1>3, CallTypes DEF Answers
    <2>2. Served(op[r], wake[r], think[r], attempts[r], call')
      BY <2>1 DEF Served
    <2> QED
      BY <1>1, <1>3, <2>1, <2>2, QuietStep DEF Stores
  <1>4. CASE call' = Ends("FAULT") /\ UNCHANGED think
    BY <1>1, <1>4, FaultStep DEF Stores
  <1> QED
    BY <1>2, <1>3, <1>4 DEF BeginWait

LEMMA ResumeStep ==
  ASSUME IInv, NEW r \in Requests, Resume(r) PROVE IInv'
  <1>1. /\ call.req = r /\ call.pc = "resume"
        /\ UNCHANGED <<mode, subject, op, done, wake, asked, attempts, call>>
    BY DEF Resume, At
  <1>2. PICK status \in {"RUNNING", "COMPLETED"} :
          think' = [think EXCEPT ![r].status = status] /\ think[r].status # "COMPLETED"
    BY DEF Resume
  <1>3. PICK t : t = [think[r] EXCEPT !.status = status]
    OBVIOUS
  <1>4. t \in Thoughts /\ t.update = think[r].update /\ t.provider = think[r].provider
    BY <1>1, <1>3, Kept DEF Thoughts
  <1>5. think' = [think EXCEPT ![r] = t]
    BY <1>2, <1>3 DEF IInv, TypeInv
  <1>6. t.provider <= 1
    BY <1>1, <1>4, Kept DEF ThinkSound
  <1>7. ThinkSound(r, op[r], t, subject.updates)
    BY <1>1, <1>2, <1>4, <1>6, Kept, Thinking
  <1>8. call' \in CallType /\ call'.req = r /\ call'.pc = "resume"
    BY <1>1, Kept
  <1>9. Served(op[r], wake[r], t, attempts[r], call')
    BY <1>1, <1>8, Kept DEF Served
  <1> QED
    BY <1>1, <1>4, <1>5, <1>7, <1>8, <1>9, ThinkStep

LEMMA AttachEvolutionStep ==
  ASSUME IInv, NEW r \in Requests, AttachEvolution(r) PROVE IInv'
  <1>1. /\ call.req = r /\ call.pc = "run" /\ op[r].evolution = NoRevision
        /\ UNCHANGED <<mode, subject, op, done, wake, asked, attempts, call>>
    BY DEF AttachEvolution, Evolving, Finishing, At
  <1>2. PICK n \in Mine(r, subject.updates) : think' = [think EXCEPT ![r].update = n]
    BY DEF AttachEvolution, UpdatesBy, Mine
  <1>3. n \in Int /\ n >= 1
    BY DEF Mine, IInv, TypeInv
  <1>4. PICK t : t = [think[r] EXCEPT !.update = n]
    OBVIOUS
  <1>5. t \in Thoughts /\ t.update = n /\ t.provider = think[r].provider /\ t.status = think[r].status
    BY <1>1, <1>3, <1>4, Kept DEF Thoughts
  <1>6. think' = [think EXCEPT ![r] = t]
    BY <1>2, <1>4 DEF IInv, TypeInv
  <1>7. Mine(r, subject.updates) = {n}
    BY <1>1, <1>2, Kept DEF OpSound
  <1>8. ThinkSound(r, op[r], t, subject.updates)
    BY <1>1, <1>5, <1>7, Kept DEF ThinkSound
  <1>9. Served(op[r], wake[r], t, attempts[r], call')
    BY <1>1, <1>5, Kept DEF Served
  <1> QED
    BY <1>1, <1>5, <1>6, <1>8, <1>9, Kept, ThinkStep

-----------------------------------------------------------------------------
(* Steps that write the subject, the result or the attempts.               *)

LEMMA EvolveStep ==
  ASSUME IInv, NEW r \in Requests, Evolve(r) PROVE IInv'
  <1>1. /\ call.req = r /\ call.pc = "run" /\ op[r].domain = "APPROVED"
        /\ op[r].evolution = NoRevision /\ Mine(r, subject.updates) = {}
        /\ UNCHANGED <<mode, op, done, wake, think, asked, attempts>>
    BY DEF Evolve, Evolving, Finishing, At, Fault, UpdatesBy, Mine
  <1>2. CASE call' = Ends("FAULT") /\ UNCHANGED subject
    BY <1>1, <1>2, FaultStep DEF Stores
  <1>3. CASE /\ Len(subject.updates) = op[r].input
             /\ subject' = [subject EXCEPT !.updates = Append(subject.updates, r)] /\ UNCHANGED call
    <2>1. PICK u \in Seq(Requests \cup {Elsewhere}) : u = subject.updates
      BY DEF IInv, TypeInv
    <2>2. /\ Len(Append(u, r)) = Len(u) + 1 /\ Append(u, r) \in Seq(Requests \cup {Elsewhere})
          /\ Mine(r, Append(u, r)) = Mine(r, u) \cup {Len(u) + 1}
      BY MineAppended
    <2>3. subject'.updates = Append(u, r) /\ subject' \in [updates : Seq(Requests \cup {Elsewhere}), active : BOOLEAN]
      BY <1>3, <2>1, <2>2 DEF IInv, TypeInv
    <2>4. TypeInv'
      BY <1>1, <1>3, <2>3 DEF IInv, TypeInv
    <2>5. Others(r)
      BY <1>1, <1>3, <2>1, <2>3 DEF Others
    <2>6. PICK v : v = Append(u, r)
      OBVIOUS
    <2>7. Mine(r, v) = {op[r].input + 1} /\ Len(v) = Len(u) + 1 /\ Len(u) \in Nat /\ Len(u) = op[r].input
      BY <1>1, <1>3, <2>1, <2>2, <2>6
    <2>8. OpSound(r, op[r], v)
      BY <1>1, <2>1, <2>7, Kept DEF OpSound
    <2>9. WakeSound(op[r], wake[r], v)
      BY <1>1, <2>1, <2>7, Kept DEF WakeSound, Sessions
    <2>10. ThinkSound(r, op[r], think[r], v)
      <3>1. think[r].update = NoRevision
        BY <1>1, <2>1, Kept DEF ThinkSound
      <3> QED
        BY <1>1, <2>1, <3>1, Kept DEF ThinkSound
    <2>11. RequestInv(r)'
      BY <1>1, <1>3, <2>3, <2>6, <2>8, <2>9, <2>10, Kept DEF RequestInv, Sound
    <2> QED
      BY <2>4, <2>5, <2>11, OwnStep
  <1> QED
    BY <1>2, <1>3 DEF Evolve, Fault, Revision

LEMMA SaveResultStep ==
  ASSUME IInv, NEW r \in Requests, SaveResult(r) PROVE IInv'
  <1>1. /\ call.req = r /\ call.pc = "run" /\ op[r].domain # "NONE"
        /\ op[r].domain = "APPROVED" => op[r].evolution # NoRevision
        /\ done[r] = NoAnswer /\ UNCHANGED <<mode, subject, op, wake, think, asked, attempts>>
    BY DEF SaveResult, Evolving, Finishing, At, Fault
  <1>2. CASE call' = Ends("FAULT") /\ UNCHANGED done
    BY <1>1, <1>2, FaultStep DEF Stores
  <1>3. ASSUME NEW d \in ResultsKept, done' = [done EXCEPT ![r] = d], UNCHANGED call
        PROVE  IInv'
    <2>1. done'[r] = d /\ \A s \in Requests \ {r} : done'[s] = done[s]
      BY <1>3 DEF IInv, TypeInv
    <2>2. TypeInv'
      BY <1>1, <1>3 DEF IInv, TypeInv
    <2>3. Others(r)
      BY <1>1, <1>3, <2>1 DEF Others
    <2>4. DoneSound(op[r], d)
      BY <1>1, <1>3, Kept DEF DoneSound
    <2>5. RequestInv(r)'
      BY <1>1, <1>3, <2>1, <2>4, Kept DEF RequestInv, Sound
    <2> QED
      BY <2>2, <2>3, <2>5, OwnStep
  <1>4. [before |-> op[r].input, after |-> Len(subject.updates), update |-> op[r].evolution] \in ResultsKept
    BY <1>1, Kept DEF ResultsKept, Operations
  <1> QED
    BY <1>2, <1>3, <1>4 DEF SaveResult, Fault, Revision

LEMMA EmptyRecords ==
  /\ NoOperation \in Operations /\ NoThought \in Thoughts /\ NoSession \in Sessions
  /\ NoAnswer \in ResultsKept
  /\ ~ Closing(Unasked)
  <1>1. Unasked \in Capabilities /\ ~ Closing(Unasked)
    BY DEF Unasked, Capabilities, Closing
  <1>2. NoOperation \in Operations
    BY <1>1, StageRanks, ProgressRanks DEF NoOperation, NoRevision, Operations, Verdicts
  <1>3. NoThought \in Thoughts /\ NoSession \in Sessions /\ NoAnswer \in ResultsKept
    BY DEF NoThought, Thoughts, NoSession, Sessions, NoAnswer, ResultsKept, NoRevision
  <1> QED
    BY <1>1, <1>2, <1>3

LEMMA ReserveStep ==
  ASSUME IInv, NEW r \in Requests, op[r].stage = "NONE", NEW body \in Bodies,
         NEW begun \in CallType, begun.req = r, begun.pc = "run",
         op' = [op EXCEPT ![r] = [NoOperation EXCEPT !.stage = "RESERVED", !.body = body,
                                                     !.input = Revision]],
         call' = begun, UNCHANGED Stores
  PROVE  IInv'
  <1>1. /\ RequestInv(r) /\ Len(subject.updates) \in Nat /\ subject.updates \in Seq(Requests \cup {Elsewhere})
        /\ body \in Int
    BY JournalAssumption DEF IInv, TypeInv, Bodies
  <1>2. op[r] = NoOperation
    BY <1>1 DEF RequestInv, Sound, OpSound
  <1>3. /\ op[r].domain = "NONE" /\ op[r].progress = "NONE" /\ op[r].input = -1
    BY <1>2 DEF NoOperation, NoRevision
  <1>4. Mine(r, subject.updates) = {}
    <2>1. Mine(r, subject.updates) \subseteq {0}
      BY <1>1, <1>3 DEF RequestInv, Sound, OpSound
    <2>2. 0 \notin Mine(r, subject.updates)
      BY <1>1 DEF Mine
    <2> QED
      BY <2>1, <2>2
  <1>5. done[r] = NoAnswer /\ wake[r] = NoSession
    BY <1>1, <1>3 DEF RequestInv, Sound, DoneSound, WakeSound
  <1>6. PICK new : new = [NoOperation EXCEPT !.stage = "RESERVED", !.body = body,
                                             !.input = Len(subject.updates)]
    OBVIOUS
  <1>7. /\ new.stage = "RESERVED" /\ new.input = Len(subject.updates) /\ new.progress = "NONE"
        /\ new.woken = NoRevision /\ new.capability = Unasked /\ new.action = "NONE"
        /\ new.domain = "NONE" /\ new.evolution = NoRevision
    BY <1>6 DEF NoOperation
  <1>8. new \in Operations
    <2>1. "RESERVED" \in DOMAIN StageRank
      BY StageRanks
    <2>2. NoOperation \in Operations /\ Len(subject.updates) \in Int /\ body \in Int
      BY <1>1, EmptyRecords
    <2> QED
      BY <1>6, <2>1, <2>2 DEF Operations
  <1>9. TypeInv'
    BY <1>6, <1>8 DEF IInv, TypeInv, Stores, Revision
  <1>10. op'[r] = new /\ \A s \in Requests \ {r} : op'[s] = op[s]
    BY <1>6 DEF IInv, TypeInv, Revision
  <1>11. Others(r)
    BY <1>10 DEF Others, Stores
  <1>12. Formed(new)
    BY <1>7 DEF Formed, Early
  <1>13. OpSound(r, new, subject.updates)
    BY <1>1, <1>4, <1>7, <1>8, <1>12, FormedMeans DEF OpSound
  <1>14. DoneSound(new, done[r]) /\ WakeSound(new, wake[r], subject.updates)
    BY <1>5, <1>7 DEF DoneSound, WakeSound, NoSession
  <1>15. ThinkSound(r, new, think[r], subject.updates)
    BY <1>1, <1>7 DEF ThinkSound, RequestInv, Sound
  <1>16. CapabilitySound(new, attempts[r])
    BY <1>1, <1>7, EmptyRecords DEF CapabilitySound, RequestInv, Sound
  <1>17. Served(new, wake[r], think[r], attempts[r], call')
    BY <1>7 DEF Served
  <1>18. r \notin asked
    BY <1>1, <1>3 DEF RequestInv, Thinkable
  <1>19. RequestInv(r)'
    BY <1>10, <1>18, <1>13, <1>14, <1>15, <1>16, <1>17 DEF RequestInv, Sound, Stores
  <1> QED
    BY <1>9, <1>11, <1>19, OwnStep

\* A call that ends before it has done anything.
LEMMA RefusedStep ==
  ASSUME IInv, NEW r \in Requests, NEW begun \in CallType, begun.req = r, NEW x \in Answers,
         call' = [begun EXCEPT !.pc = "idle", !.answer = x], UNCHANGED Stores, UNCHANGED op
  PROVE  IInv'
  <1>1. call' \in CallType /\ call'.req = r /\ call'.pc = "idle"
    BY DEF CallType, CallRecords, Steps
  <1>2. Served(op[r], wake[r], think[r], attempts[r], call')
    BY <1>1 DEF Served
  <1> QED
    BY <1>1, <1>2, QuietStep

LEMMA SubmitStep ==
  ASSUME IInv, NEW r \in Requests, NEW body \in Bodies, Submit(r, body) PROVE IInv'
  <1>1. PICK begun : begun = Calls("submit", r, Unasked)
    OBVIOUS
  <1>2. begun \in CallType /\ begun.req = r /\ begun.pc = "run"
    BY <1>1 DEF Calls, Unasked, CallType, CallRecords, Steps, Capabilities, Answers
  <1>3. UNCHANGED Stores
    BY DEF Submit
  <1>4. ASSUME NEW x \in Answers, call' = [begun EXCEPT !.pc = "idle", !.answer = x], UNCHANGED op
        PROVE  IInv'
    BY <1>2, <1>3, <1>4, RefusedStep
  <1>5. CASE done[r] # NoAnswer /\ Replay(r, begun)
    BY <1>2, <1>3, <1>5, ReplayStep
  <1>6. CASE op[r].stage = "NONE" /\ Reserve(r, body, begun)
    <2>1. \/ call' = [begun EXCEPT !.pc = "idle", !.answer = "FAULT"] /\ UNCHANGED op
          \/ call' = [begun EXCEPT !.pc = "idle", !.answer = "REVISION_CONFLICT"] /\ UNCHANGED op
          \/ /\ op' = [op EXCEPT ![r] = [NoOperation EXCEPT !.stage = "RESERVED", !.body = body,
                                                            !.input = Revision]]
             /\ call' = begun
      BY <1>6 DEF Reserve
    <2>2. "FAULT" \in Answers /\ "REVISION_CONFLICT" \in Answers
      BY DEF Answers
    <2>3. CASE /\ op' = [op EXCEPT ![r] = [NoOperation EXCEPT !.stage = "RESERVED", !.body = body,
                                                              !.input = Revision]]
               /\ call' = begun
      BY <1>2, <1>3, <1>6, <2>3, ReserveStep
    <2> QED
      BY <1>4, <2>1, <2>2, <2>3
  <1>7. CASE op[r].stage # "NONE" /\ call' = begun /\ UNCHANGED op
    <2>1. Served(op[r], wake[r], think[r], attempts[r], call')
      BY <1>2, <1>7 DEF Served
    <2> QED
      BY <1>2, <1>3, <1>7, <2>1, QuietStep
  <1>8. CASE call' = [begun EXCEPT !.pc = "idle", !.answer = "IDEMPOTENCY_KEY_REUSED"] /\ UNCHANGED op
    <2>1. "IDEMPOTENCY_KEY_REUSED" \in Answers
      BY DEF Answers
    <2> QED
      BY <1>4, <1>8, <2>1
  <1> QED
    BY <1>1, <1>5, <1>6, <1>7, <1>8 DEF Submit

LEMMA DeliverStep ==
  ASSUME IInv, NEW r \in Requests, NEW result \in Results, Deliver(r, result) PROVE IInv'
  <1>1. PICK begun : begun = Calls("deliver", r, result)
    OBVIOUS
  <1>2. /\ begun \in CallType /\ begun.req = r /\ begun.pc = "run" /\ begun.result = result
        /\ begun.kind = "deliver" /\ begun.answer = "none"
    BY <1>1 DEF Calls, Results, CallType, CallRecords, Steps, Capabilities, Answers
  <1>3. UNCHANGED <<mode, subject, op, done, wake, think, asked>>
    BY DEF Deliver
  <1>4. attempts[r] \in Seq(Results) /\ RequestInv(r)
    BY DEF IInv, TypeInv
  <1>5. ASSUME NEW x \in Answers, call' = [begun EXCEPT !.pc = "idle", !.answer = x],
               UNCHANGED attempts
        PROVE  IInv'
    BY <1>2, <1>3, <1>5, RefusedStep DEF Stores
  <1>6. PICK next : next = [begun EXCEPT !.pc = "accepted"]
    OBVIOUS
  <1>7. /\ next \in CallType /\ next.req = r /\ next.pc = "accepted" /\ next.result = result
    BY <1>2, <1>6 DEF CallType, CallRecords, Steps
  <1>8. CASE /\ op[r].stage # "NONE" /\ \E n \in DOMAIN attempts[r] : attempts[r][n] = result
             /\ call' = next /\ UNCHANGED attempts
    <2>1. Served(op[r], wake[r], think[r], attempts[r], call')
      BY <1>7, <1>8 DEF Served
    <2> QED
      BY <1>3, <1>7, <1>8, <2>1, QuietStep DEF Stores
  <1>9. CASE /\ op[r].stage # "NONE" /\ ~ Closing(Latest(r)) /\ call' = next
             /\ attempts' = [attempts EXCEPT ![r] = Append(attempts[r], result)]
    <2>1. PICK a \in Seq(Results) : a = Append(attempts[r], result)
      <3>1. Append(attempts[r], result) \in Seq(Results)
        BY <1>4
      <3> QED
        BY <3>1
    <2>2. /\ DOMAIN a = 1..Len(a) /\ Len(a) = Len(attempts[r]) + 1 /\ a[Len(a)] = result
          /\ \A n \in 1..Len(attempts[r]) : a[n] = attempts[r][n]
          /\ DOMAIN attempts[r] = 1..Len(attempts[r]) /\ Len(attempts[r]) \in Nat
      BY <1>4, <2>1
    <2>3. CapabilitySound(op[r], attempts[r]) /\ Latest(r) = Last(attempts[r])
      BY <1>4 DEF RequestInv, Sound, Latest, Last
    <2>4. ~ Closing(op[r].capability)
      BY <1>9, <2>3 DEF CapabilitySound
    <2>5. ASSUME NEW n \in 1..Len(attempts[r]) PROVE ~ Closing(attempts[r][n])
      <3>1. SUFFICES ASSUME Closing(attempts[r][n]) PROVE FALSE
        OBVIOUS
      <3>2. n = Len(attempts[r])
        BY <2>2, <2>3, <3>1 DEF CapabilitySound
      <3>3. attempts[r] # << >>
        BY <2>2
      <3> QED
        BY <1>9, <2>3, <3>1, <3>2, <3>3 DEF Last
    <2>6. CapabilitySound(op[r], a)
      BY <2>2, <2>4, <2>5 DEF CapabilitySound
    <2>7. attempts'[r] = a /\ \A s \in Requests \ {r} : attempts'[s] = attempts[s]
      BY <1>9, <2>1 DEF IInv, TypeInv
    <2>8. TypeInv'
      BY <1>3, <1>7, <1>9, <2>1 DEF IInv, TypeInv
    <2>9. Others(r)
      BY <1>3, <1>7, <1>9, <2>7 DEF Others
    <2>10. Served(op[r], wake[r], think[r], a, call')
      BY <1>7, <1>9, <2>2 DEF Served
    <2>11. RequestInv(r)'
      BY <1>3, <1>4, <2>6, <2>7, <2>10 DEF RequestInv, Sound
    <2> QED
      BY <2>8, <2>9, <2>11, OwnStep
  <1>10. "NOT_FOUND" \in Answers /\ "CONFLICT" \in Answers
    BY DEF Answers
  <1>11. \/ call' = [begun EXCEPT !.pc = "idle", !.answer = "NOT_FOUND"] /\ UNCHANGED attempts
         \/ call' = [begun EXCEPT !.pc = "idle", !.answer = "CONFLICT"] /\ UNCHANGED attempts
         \/ /\ op[r].stage # "NONE" /\ \E n \in DOMAIN attempts[r] : attempts[r][n] = result
            /\ call' = next /\ UNCHANGED attempts
         \/ /\ op[r].stage # "NONE" /\ ~ Closing(Latest(r)) /\ call' = next
            /\ attempts' = [attempts EXCEPT ![r] = Append(attempts[r], result)]
    BY <1>1, <1>6 DEF Deliver
  <1> QED
    BY <1>5, <1>8, <1>9, <1>10, <1>11
-----------------------------------------------------------------------------
(* The invariant.                                                          *)

LEMMA StopStep == ASSUME IInv, Stop PROVE IInv'
  <1>1. /\ call' \in CallType /\ call'.pc = "idle"
        /\ UNCHANGED <<mode, subject, op, done, wake, think, asked, attempts>>
    BY DEF Stop, NoCall, CallType, CallRecords, Steps, Capabilities, Unasked, Answers
  <1>2. TypeInv'
    BY <1>1 DEF IInv, TypeInv
  <1>3. ASSUME NEW s \in Requests PROVE RequestInv(s)'
    BY <1>1, FrameStep
  <1> QED
    BY <1>2, <1>3 DEF IInv

LEMMA ChangeElsewhereStep == ASSUME IInv, ChangeElsewhere PROVE IInv'
  <1>1. /\ subject'.updates = Append(subject.updates, Elsewhere) /\ subject'.active \in BOOLEAN
        /\ subject' = [updates |-> subject'.updates, active |-> subject'.active]
        /\ UNCHANGED <<mode, op, done, wake, think, asked, attempts, call>>
    BY DEF ChangeElsewhere
  <1>2. Append(subject.updates, Elsewhere) \in Seq(Requests \cup {Elsewhere})
    BY DEF IInv, TypeInv
  <1>3. TypeInv'
    BY <1>1, <1>2 DEF IInv, TypeInv
  <1>4. ASSUME NEW s \in Requests PROVE RequestInv(s)'
    BY <1>1, JournalAssumption, FrameStep
  <1> QED
    BY <1>3, <1>4 DEF IInv

LEMMA InitInv == Init => IInv
  <1> SUFFICES ASSUME Init PROVE IInv
    OBVIOUS
  <1>1. NoCall \in CallType /\ NoCall.pc = "idle"
    BY DEF NoCall, CallType, CallRecords, Steps, Capabilities, Unasked, Answers
  <1>2. TypeInv
    BY <1>1, EmptyRecords DEF Init, TypeInv
  <1>3. ASSUME NEW r \in Requests PROVE RequestInv(r)
    <2>1. /\ op[r] = NoOperation /\ done[r] = NoAnswer /\ wake[r] = NoSession
          /\ think[r] = NoThought /\ attempts[r] = << >> /\ call = NoCall /\ subject.updates = << >>
      BY DEF Init
    <2>2. Mine(r, subject.updates) = {}
      BY <2>1 DEF Mine
    <2>3. /\ op[r].stage = "NONE" /\ op[r].progress = "NONE" /\ op[r].woken = NoRevision
          /\ op[r].evolution = NoRevision /\ op[r].capability = Unasked
      BY <2>1 DEF NoOperation
    <2>4. OpSound(r, op[r], subject.updates) /\ r \notin asked
      BY <2>1, <2>2, <2>3 DEF OpSound, Init
    <2>5. DoneSound(op[r], done[r]) /\ WakeSound(op[r], wake[r], subject.updates)
      BY <2>1, <2>3 DEF DoneSound, WakeSound, NoSession
    <2>6. ThinkSound(r, op[r], think[r], subject.updates)
      BY <2>1, <2>3 DEF ThinkSound, NoThought
    <2>7. CapabilitySound(op[r], attempts[r])
      BY <2>1, <2>3, EmptyRecords DEF CapabilitySound
    <2>8. Served(op[r], wake[r], think[r], attempts[r], call)
      BY <1>1, <2>1 DEF Served
    <2> QED
      BY <2>4, <2>5, <2>6, <2>7, <2>8 DEF RequestInv, Sound
  <1> QED
    BY <1>2, <1>3 DEF IInv

LEMMA NextInv == IInv /\ [Next]_vars => IInv'
  <1> SUFFICES ASSUME IInv, [Next]_vars PROVE IInv'
    OBVIOUS
  <1>1. ASSUME NEW r \in Requests, Serve(r) PROVE IInv'
    BY <1>1, PrepareStep, BeginWakeStep, EndWakeStep, CheckpointWakeStep, PerceiveStep,
       BeginThinkingStep, CallProviderStep, EndThinkingStep, RefuseSessionStep, AskStep,
       BeginWaitStep, CheckpointCapabilityStep, TakeResultStep, ResumeStep, CheckpointThinkingStep,
       DecideStep, CompleteDomainStep, EvolveStep, AttachEvolutionStep, CheckpointEvolutionStep,
       SaveResultStep, CloseStep DEF Serve
  <1>2. CASE UNCHANGED vars
    <2>1. TypeInv'
      BY <1>2 DEF IInv, TypeInv, vars
    <2>2. ASSUME NEW r \in Requests PROVE RequestInv(r)'
      BY <1>2 DEF IInv, RequestInv, vars
    <2> QED
      BY <2>1, <2>2 DEF IInv
  <1> QED
    BY <1>1, <1>2, SubmitStep, DeliverStep, StopStep, ChangeElsewhereStep DEF Next

LEMMA Invariance == Spec => []IInv
  BY InitInv, NextInv, PTL DEF Spec
-----------------------------------------------------------------------------
(* What follows from the invariant.                                        *)

LEMMA Recorded == ASSUME IInv, NEW r \in Requests PROVE OnRecord(r)
  <1>1. /\ op[r] \in Operations /\ wake[r] \in Sessions
        /\ OpSound(r, op[r], subject.updates) /\ DoneSound(op[r], done[r])
        /\ WakeSound(op[r], wake[r], subject.updates)
        /\ ThinkSound(r, op[r], think[r], subject.updates)
        /\ CapabilitySound(op[r], attempts[r])
    BY DEF IInv, TypeInv, RequestInv, Sound
  <1>2. UpdatesBy(r) = Mine(r, subject.updates) /\ Latest(r) = Last(attempts[r])
    BY DEF UpdatesBy, Mine, Latest, Last
  <1>3. op[r].stage # "NONE" => WellFormed(op[r])
    BY <1>1 DEF OpSound
  <1>4. op[r].woken # NoRevision => wake[r] = [status |-> "COMPLETED", revision |-> op[r].input]
    BY <1>1 DEF WakeSound, Sessions
  <1>5. ProgressRank[op[r].progress] >= ProgressRank.THINKING_COMPLETED => think[r].status = "COMPLETED"
    <2>1. op[r].progress \in DOMAIN ProgressRank
      BY <1>1 DEF Operations
    <2>2. ProgressRank[op[r].progress] >= ProgressRank.THINKING_COMPLETED =>
            op[r].progress \in {"THINKING_COMPLETED", "ACTION_COMPLETED"}
      BY <2>1, ProgressRanks
    <2> QED
      BY <1>1, <2>2 DEF ThinkSound
  <1>6. /\ op[r].evolution # NoRevision =>
             UpdatesBy(r) = {op[r].evolution} /\ think[r].update = op[r].evolution
        /\ think[r].update # NoRevision => UpdatesBy(r) = {think[r].update}
    BY <1>1, <1>2 DEF ThinkSound
  <1>7. op[r].stage = "COMPLETED" => done[r] # NoAnswer
    BY <1>1 DEF DoneSound
  <1>8. Closing(op[r].capability) => op[r].capability = Latest(r)
    BY <1>1, <1>2 DEF CapabilitySound
  <1> QED
    BY <1>3, <1>4, <1>5, <1>6, <1>7, <1>8 DEF OnRecord

\* Whatever the journal says a request has done, the store of that kind has kept.
THEOREM JournalCorrect == Spec => []JournalFollows
  <1>1. IInv => TypeOK
    BY DEF IInv, TypeInv, TypeOK, CallType, CallRecords
  <1>2. IInv => JournalFollows
    BY <1>1, Recorded DEF JournalFollows
  <1> QED
    BY <1>2, Invariance, PTL

\* A model is asked at most once for a request.
THEOREM OneThought == Spec => []ThoughtOnce
  <1>1. IInv => ThoughtOnce
    BY DEF IInv, RequestInv, Sound, ThinkSound, ThoughtOnce
  <1> QED
    BY <1>1, Invariance, PTL

-----------------------------------------------------------------------------
(* The promise of Exchange.  A request is admitted by the submission that  *)
(* reserves it; no other step touches the revision it was admitted at.     *)

Admitted == [r \in Requests |-> {op[r].input} \ {NoRevision}]

Answered == [r \in Requests |-> IF done[r] = NoAnswer THEN {}
                                ELSE {[before |-> done[r].before, after |-> done[r].after]}]

KeepsInputs == \A s \in Requests : op'[s].input = op[s].input

LEMMA SavedInputs ==
  ASSUME IInv, NEW r \in Requests, NEW new, new.input = op[r].input,
         op' = op \/ op' = [op EXCEPT ![r] = new]
  PROVE  KeepsInputs
  BY DEF IInv, TypeInv, KeepsInputs

LEMMA SaveKeepsInputs ==
  ASSUME IInv, NEW r \in Requests, NEW new, NEW next, new.input = op[r].input, Save(r, new, next)
  PROVE  KeepsInputs
  BY SavedInputs DEF Save

LEMMA ReplayKeepsInputs ==
  ASSUME IInv, NEW r \in Requests, NEW begun, Replay(r, begun)
  PROVE  KeepsInputs
  <1>1. op[r] \in Operations
    BY DEF IInv, TypeInv
  <1>2. PICK new : new = [op[r] EXCEPT !.stage = "COMPLETED"]
    OBVIOUS
  <1>3. new.input = op[r].input
    BY <1>1, <1>2 DEF Operations
  <1>4. op' = [op EXCEPT ![r] = new]
    BY <1>2 DEF Replay, IInv, TypeInv
  <1> QED
    BY <1>3, <1>4, SavedInputs

LEMMA ServeKeepsInputs ==
  ASSUME IInv, NEW r \in Requests, Serve(r)
  PROVE  KeepsInputs
  <1>1. op[r] \in Operations
    BY DEF IInv, TypeInv
  <1>2. /\ [op[r] EXCEPT !.progress = "PREPARED"].input = op[r].input
        /\ [op[r] EXCEPT !.progress = "PERCEPTION_COMPLETED"].input = op[r].input
        /\ [op[r] EXCEPT !.progress = "THINKING_COMPLETED"].input = op[r].input
        /\ [op[r] EXCEPT !.stage = "COMPLETED"].input = op[r].input
        /\ [op[r] EXCEPT !.stage = "DOMAIN_COMPLETED", !.domain = op[r].action].input = op[r].input
        /\ [op[r] EXCEPT !.progress = "WAKE_COMPLETED", !.woken = wake[r].revision].input = op[r].input
    BY <1>1 DEF Operations
  <1>3. /\ \A x : [op[r] EXCEPT !.progress = "ACTION_COMPLETED", !.action = x].input = op[r].input
        /\ \A x : [op[r] EXCEPT !.stage = "EVOLUTION_COMMITTED", !.evolution = x].input = op[r].input
        /\ \A x : [op[r] EXCEPT !.stage = "WAITING_CAPABILITY", !.capability = x].input = op[r].input
    BY <1>1 DEF Operations
  <1>4. CASE UNCHANGED op
    BY <1>4 DEF KeepsInputs
  <1>5. CASE Prepare(r) \/ Perceive(r) \/ CheckpointThinking(r) \/ Close(r) \/ CompleteDomain(r)
    BY <1>2, <1>5, SaveKeepsInputs DEF Prepare, Perceive, CheckpointThinking, Close, CompleteDomain
  <1>6. CASE CheckpointWake(r)
    BY <1>2, <1>4, <1>6, SaveKeepsInputs DEF CheckpointWake, Fault
  <1>7. CASE Decide(r)
    BY <1>3, <1>7, SaveKeepsInputs DEF Decide
  <1>8. CASE CheckpointEvolution(r)
    BY <1>3, <1>8, SaveKeepsInputs DEF CheckpointEvolution
  <1>9. ASSUME NEW x, Waits(r, x) PROVE KeepsInputs
    BY <1>3, <1>9, SaveKeepsInputs DEF Waits
  <1>10. CASE CheckpointCapability(r)
    BY <1>4, <1>9, <1>10 DEF CheckpointCapability
  <1>11. CASE TakeResult(r)
    BY <1>4, <1>9, <1>11, ReplayKeepsInputs DEF TakeResult
  <1>12. CASE \/ BeginWake(r) \/ EndWake(r) \/ BeginThinking(r) \/ CallProvider(r) \/ EndThinking(r)
              \/ RefuseSession(r) \/ Ask(r) \/ BeginWait(r) \/ Resume(r) \/ Evolve(r)
              \/ AttachEvolution(r) \/ SaveResult(r)
    <2>1. UNCHANGED op
      BY <1>12 DEF BeginWake, EndWake, BeginThinking, CallProvider, EndThinking, RefuseSession, Ask,
                   BeginWait, Resume, Evolve, AttachEvolution, SaveResult, Fault
    <2> QED
      BY <1>4, <2>1
  <1> QED
    BY <1>5, <1>6, <1>7, <1>8, <1>10, <1>11, <1>12 DEF Serve

LEMMA ServeWrites ==
  ASSUME NEW r \in Requests, Serve(r)
  PROVE  /\ UNCHANGED subject \/ Evolve(r)
         /\ UNCHANGED done \/ SaveResult(r)
  <1>1. CASE \/ Prepare(r) \/ CheckpointWake(r) \/ Perceive(r) \/ RefuseSession(r)
             \/ CheckpointCapability(r) \/ TakeResult(r) \/ CheckpointThinking(r) \/ Decide(r)
             \/ CompleteDomain(r) \/ CheckpointEvolution(r) \/ Close(r)
    <2>1. UNCHANGED Stores
      BY <1>1 DEF Prepare, CheckpointWake, Perceive, RefuseSession, CheckpointCapability, TakeResult,
                  CheckpointThinking, Decide, CompleteDomain, CheckpointEvolution, Close
    <2> QED
      BY <2>1 DEF Stores
  <1>2. CASE \/ BeginWake(r) \/ EndWake(r) \/ BeginThinking(r) \/ CallProvider(r) \/ EndThinking(r)
             \/ Ask(r) \/ BeginWait(r) \/ Resume(r) \/ AttachEvolution(r)
    BY <1>2 DEF BeginWake, EndWake, BeginThinking, CallProvider, EndThinking, Ask, BeginWait, Resume,
                AttachEvolution
  <1>3. CASE Evolve(r)
    BY <1>3 DEF Evolve
  <1>4. CASE SaveResult(r)
    BY <1>4 DEF SaveResult
  <1> QED
    BY <1>1, <1>2, <1>3, <1>4 DEF Serve

\* The two sides of a step that leaves the promise's variables alone.
LEMMA Unseen ==
  ASSUME IInv, KeepsInputs, UNCHANGED done, subject'.updates = subject.updates
  PROVE  UNCHANGED Promise!xvars
  BY DEF KeepsInputs, Promise!xvars

LEMMA AdmitStep ==
  ASSUME IInv, NEW r \in Requests, op[r].stage = "NONE", NEW body,
         op' = [op EXCEPT ![r] = [NoOperation EXCEPT !.stage = "RESERVED", !.body = body,
                                                     !.input = Revision]],
         UNCHANGED Stores
  PROVE  Promise!Admit(r)
  <1>1. op[r] = NoOperation /\ Len(subject.updates) \in Nat
    BY DEF IInv, TypeInv, RequestInv, Sound, OpSound
  <1>2. op[r].input = NoRevision
    BY <1>1 DEF NoOperation
  <1>3. op'[r].input = Len(subject.updates) /\ \A s \in Requests \ {r} : op'[s] = op[s]
    <2>1. PICK new : new = [NoOperation EXCEPT !.stage = "RESERVED", !.body = body, !.input = Revision]
      OBVIOUS
    <2>2. new.input = Len(subject.updates)
      BY <2>1 DEF NoOperation, Revision
    <2>3. op' = [op EXCEPT ![r] = new]
      BY <2>1
    <2> QED
      BY <2>2, <2>3 DEF IInv, TypeInv
  <1>4. Len(subject.updates) # NoRevision
    BY <1>1 DEF NoRevision
  <1>5. Admitted[r] = {} /\ Admitted' = [Admitted EXCEPT ![r] = {Len(subject.updates)}]
    BY <1>2, <1>3, <1>4 DEF Admitted
  <1>6. UNCHANGED <<subject.updates, Answered>>
    BY DEF Stores, Answered
  <1> QED
    BY <1>5, <1>6 DEF Promise!Admit, Admitted, Answered

\* Who changed the subject, said by the history and by the updates of a request.
LEMMA ChangedMeans ==
  ASSUME NEW r \in Requests
  PROVE  Promise!Changed(r) <=> Mine(r, subject.updates) # {}
  BY DEF Promise!Changed, Promise!Range, Range, Mine

LEMMA ChangeStep ==
  ASSUME IInv, NEW r \in Requests, Evolve(r), subject' # subject
  PROVE  Promise!Change(r)
  <1>1. /\ call.req = r /\ call.pc = "run" /\ op[r].domain = "APPROVED"
        /\ op[r].evolution = NoRevision /\ Mine(r, subject.updates) = {}
        /\ Len(subject.updates) = op[r].input
        /\ subject'.updates = Append(subject.updates, r) /\ UNCHANGED <<op, done>>
    BY DEF Evolve, Evolving, Finishing, At, UpdatesBy, Mine, Revision, IInv, TypeInv
  <1>2. Len(subject.updates) \in Nat
    BY DEF IInv, TypeInv
  <1>3. Admitted[r] = {Len(subject.updates)}
    BY <1>1, <1>2 DEF Admitted, NoRevision
  <1>4. done[r] = NoAnswer
    BY <1>1, Kept DEF DoneSound
  <1>5. Answered[r] = {}
    BY <1>4 DEF Answered
  <1>6. ~ Promise!Changed(r)
    BY <1>1, ChangedMeans
  <1>7. UNCHANGED <<Admitted, Answered>>
    BY <1>1 DEF Admitted, Answered
  <1> QED
    BY <1>1, <1>3, <1>5, <1>6, <1>7 DEF Promise!Change, Admitted, Answered

LEMMA AnswerStep ==
  ASSUME IInv, NEW r \in Requests, SaveResult(r), done' # done
  PROVE  Promise!Answer(r)
  <1>1. /\ call.req = r /\ call.pc = "run" /\ op[r].domain # "NONE"
        /\ op[r].domain = "APPROVED" => op[r].evolution # NoRevision
        /\ done[r] = NoAnswer /\ Len(subject.updates) = Output(op[r])
        /\ done' = [done EXCEPT ![r] = [before |-> op[r].input, after |-> Len(subject.updates),
                                        update |-> op[r].evolution]]
        /\ UNCHANGED <<op, subject>>
    BY DEF SaveResult, Evolving, Finishing, At, Revision
  <1>2. op[r].input \in Nat /\ Len(subject.updates) \in Nat
    BY <1>1, Kept
  <1>3. Admitted[r] = {op[r].input}
    BY <1>2 DEF Admitted, NoRevision
  <1>4. Len(subject.updates) = IF Promise!Changed(r) THEN op[r].input + 1 ELSE op[r].input
    <2>1. CASE op[r].evolution = NoRevision
      <3>1. Mine(r, subject.updates) = {}
        BY <1>1, <2>1, Kept DEF OpSound
      <3> QED
        BY <1>1, <2>1, <3>1, ChangedMeans DEF Output
    <2>2. CASE op[r].evolution # NoRevision
      <3>1. Mine(r, subject.updates) # {} /\ op[r].evolution = op[r].input + 1
        BY <1>1, <2>2, Kept DEF ThinkSound, Formed
      <3> QED
        BY <1>1, <2>2, <3>1, ChangedMeans DEF Output
    <2> QED
      BY <2>1, <2>2
  <1>5. PICK d : d = [before |-> op[r].input, after |-> Len(subject.updates), update |-> op[r].evolution]
    OBVIOUS
  <1>6. d # NoAnswer /\ d.before = op[r].input /\ d.after = Len(subject.updates)
    <2>1. d.before # NoAnswer.before
      BY <1>2, <1>5 DEF NoAnswer, NoRevision
    <2> QED
      BY <1>5, <2>1
  <1>7. done'[r] = d /\ \A s \in Requests \ {r} : done'[s] = done[s]
    BY <1>1, <1>5 DEF IInv, TypeInv
  <1>8. Answered[r] = {}
    BY <1>1 DEF Answered
  <1>9. Answered' = [Answered EXCEPT ![r] = {[before |-> op[r].input, after |-> Len(subject.updates)]}]
    BY <1>6, <1>7 DEF Answered
  <1>10. UNCHANGED <<subject.updates, Admitted>>
    BY <1>1 DEF Admitted
  <1> QED
    BY <1>3, <1>4, <1>8, <1>9, <1>10 DEF Promise!Answer, Admitted, Answered

LEMMA PromiseStep == IInv /\ [Next]_vars => [Promise!XNext]_(Promise!xvars)
  <1> SUFFICES ASSUME IInv, [Next]_vars PROVE Promise!XNext \/ UNCHANGED Promise!xvars
    OBVIOUS
  <1>1. ASSUME NEW r \in Requests, NEW body \in Bodies, Submit(r, body)
        PROVE  Promise!XNext \/ UNCHANGED Promise!xvars
    <2>1. UNCHANGED Stores
      BY <1>1 DEF Submit
    <2>2. CASE UNCHANGED op
      BY <2>1, <2>2, Unseen DEF KeepsInputs, Stores
    <2>3. ASSUME NEW begun, Replay(r, begun) PROVE UNCHANGED Promise!xvars
      BY <2>1, <2>3, ReplayKeepsInputs, Unseen DEF Stores
    <2>4. CASE /\ op[r].stage = "NONE"
               /\ op' = [op EXCEPT ![r] = [NoOperation EXCEPT !.stage = "RESERVED", !.body = body,
                                                              !.input = Revision]]
      BY <2>1, <2>4, AdmitStep DEF Promise!XNext
    <2> QED
      BY <1>1, <2>2, <2>3, <2>4 DEF Submit, Reserve
  <1>2. ASSUME NEW r \in Requests, Serve(r)
        PROVE  Promise!XNext \/ UNCHANGED Promise!xvars
    <2>1. KeepsInputs
      BY <1>2, ServeKeepsInputs
    <2>2. CASE UNCHANGED <<subject, done>>
      BY <2>1, <2>2, Unseen
    <2>3. CASE Evolve(r) /\ subject' # subject
      BY <2>3, ChangeStep DEF Promise!XNext
    <2>4. CASE SaveResult(r) /\ done' # done
      BY <2>4, AnswerStep DEF Promise!XNext
    <2> QED
      BY <1>2, <2>2, <2>3, <2>4, ServeWrites
  <1>3. CASE ChangeElsewhere
    <2>1. subject'.updates = Append(subject.updates, Elsewhere) /\ UNCHANGED <<op, done>>
      BY <1>3 DEF ChangeElsewhere
    <2>2. UNCHANGED <<Admitted, Answered>>
      BY <2>1 DEF Admitted, Answered
    <2>3. Promise!ChangedElsewhere
      BY <2>1, <2>2 DEF Promise!ChangedElsewhere, Admitted, Answered
    <2> QED
      BY <2>3 DEF Promise!XNext
  <1>4. CASE \/ \E r \in Requests, result \in Results : Deliver(r, result)
             \/ Stop \/ UNCHANGED vars
    <2>1. UNCHANGED <<subject, op, done>>
      BY <1>4 DEF Deliver, Stop, vars
    <2> QED
      BY <2>1, Unseen DEF KeepsInputs
  <1> QED
    BY <1>1, <1>2, <1>3, <1>4 DEF Next

\* Sent again, delivered twice, stopped anywhere, a request changes the subject at most once,
\* from the revision it was admitted at, and has one answer with the subject's real revisions.
THEOREM JournalKeepsItsPromise == Spec => RefinesExchange
  <1>1. Init => Promise!XInit
    <2> SUFFICES ASSUME Init PROVE Promise!XInit
      OBVIOUS
    <2>1. \A r \in Requests : op[r].input = NoRevision /\ done[r] = NoAnswer
      BY DEF Init, NoOperation
    <2> QED
      BY <2>1 DEF Init, Promise!XInit
  <1> QED
    BY <1>1, PromiseStep, Invariance, PTL DEF Spec, RefinesExchange, Promise!XSpec
-----------------------------------------------------------------------------
(* The reasons of a fault.  Every record the service writes is one that    *)
(* may follow, except that of a wake that read a later revision.           *)

Reasoned(r) ==
  \/ call' = call \/ call'.kind # "submit" \/ call'.answer # "FAULT"
  \/ Stuck(r)'

LEMMA Climbs ==
  /\ \A x \in DOMAIN StageRank : /\ StageRank[x] <= StageRank[x]
                                 /\ StageRank[x] <= StageRank["COMPLETED"]
                                 /\ x # "COMPLETED" => StageRank[x] <= StageRank["EVOLUTION_COMMITTED"]
                                 /\ x \in Early => /\ StageRank[x] <= StageRank["WAITING_CAPABILITY"]
                                                   /\ StageRank[x] <= StageRank["DOMAIN_COMPLETED"]
  /\ \A x \in DOMAIN ProgressRank : ProgressRank[x] <= ProgressRank[x]
  /\ ProgressRank["NONE"] <= ProgressRank["PREPARED"]
  /\ ProgressRank["PREPARED"] <= ProgressRank["WAKE_COMPLETED"]
  /\ ProgressRank["WAKE_COMPLETED"] <= ProgressRank["PERCEPTION_COMPLETED"]
  /\ ProgressRank["PERCEPTION_COMPLETED"] <= ProgressRank["THINKING_COMPLETED"]
  /\ ProgressRank["THINKING_COMPLETED"] <= ProgressRank["ACTION_COMPLETED"]
  BY StageRanks, ProgressRanks DEF Early

LEMMA Accepted ==
  ASSUME IInv, NEW r \in Requests, NEW new \in Operations, NEW next, Save(r, new, next),
         new.stage # "NONE", Formed(new), MayFollow(op[r], new),
         next.answer # "FAULT" \/ next = call
  PROVE  Reasoned(r)
  <1>1. WellFormed(new)
    BY FormedMeans
  <1>2. call' = next
    BY <1>1 DEF Save
  <1> QED
    BY <1>2 DEF Reasoned

LEMMA GoesOn ==
  ASSUME IInv, NEW r \in Requests, call.req = r, call.pc # "idle"
  PROVE  Goes("run").answer # "FAULT" /\ call.answer # "FAULT"
  <1>1. Goes("run") \in CallType /\ Goes("run").pc = "run"
    BY CallTypes DEF Steps
  <1>2. call \in CallType
    BY DEF IInv, TypeInv
  <1> QED
    BY <1>1, <1>2 DEF CallType

LEMMA PrepareReasons ==
  ASSUME IInv, NEW r \in Requests, Prepare(r) PROVE Reasoned(r)
  <1>1. call.req = r /\ call.pc = "run" /\ op[r].domain = "NONE" /\ op[r].progress = "NONE"
    BY DEF Prepare, Running, At
  <1>2. PICK new : new = [op[r] EXCEPT !.progress = "PREPARED"]
    OBVIOUS
  <1>3. /\ new \in Operations /\ new.input = op[r].input /\ new.progress = "PREPARED"
        /\ new.stage = op[r].stage /\ new.domain = op[r].domain /\ new.woken = op[r].woken
        /\ new.evolution = op[r].evolution /\ new.capability = op[r].capability
        /\ new.action = op[r].action
    BY <1>1, <1>2, Kept, ProgressRanks DEF Operations
  <1>4. Save(r, new, Goes("run"))
    BY <1>2 DEF Prepare
  <1>5. Formed(new)
    BY <1>1, <1>3, Kept DEF Formed, Thinkable
  <1>6. MayFollow(op[r], new)
    BY <1>1, <1>3, Kept, Climbs DEF MayFollow, Operations
  <1> QED
    BY <1>1, <1>3, <1>4, <1>5, <1>6, Accepted, GoesOn, Kept

LEMMA CheckpointWakeReasons ==
  ASSUME IInv, NEW r \in Requests, CheckpointWake(r) PROVE Reasoned(r)
  <1>1. /\ call.req = r /\ call.pc = "run" /\ op[r].domain = "NONE" /\ op[r].progress = "PREPARED"
        /\ wake[r] # NoSession /\ UNCHANGED Stores
    BY DEF CheckpointWake, Running, At
  <1>2. CASE wake[r].status # "COMPLETED"
    <2>1. wake[r].status \in {"RUNNING", "FAILED"}
      BY <1>1, <1>2, Kept DEF Sessions, WakeSound
    <2> QED
      BY <1>1, <2>1 DEF Reasoned, Stuck, Stores
  <1>3. CASE wake[r].status = "COMPLETED" /\ wake[r].revision = op[r].input
    <2>1. PICK new : new = [op[r] EXCEPT !.progress = "WAKE_COMPLETED", !.woken = wake[r].revision]
      OBVIOUS
    <2>2. /\ new \in Operations /\ new.input = op[r].input /\ new.progress = "WAKE_COMPLETED"
          /\ new.stage = op[r].stage /\ new.domain = op[r].domain /\ new.woken = op[r].input
          /\ new.evolution = op[r].evolution /\ new.capability = op[r].capability
          /\ new.action = op[r].action
      BY <1>1, <1>3, <2>1, Kept, ProgressRanks DEF Operations, Sessions
    <2>3. Save(r, new, Goes("run"))
      BY <1>3, <2>1 DEF CheckpointWake
    <2>4. op[r].input # NoRevision
      BY <1>1, Kept DEF NoRevision
    <2>5. Formed(new)
      BY <1>1, <2>2, <2>4, Kept DEF Formed, Thinkable
    <2>6. MayFollow(op[r], new)
      <3>1. op[r].woken = NoRevision
        BY <1>1, Kept DEF Formed
      <3> QED
        BY <1>1, <2>2, <3>1, Kept, Climbs DEF MayFollow, Operations
    <2> QED
      BY <1>1, <2>2, <2>3, <2>5, <2>6, Accepted, GoesOn, Kept
  <1>4. CASE wake[r].status = "COMPLETED" /\ wake[r].revision # op[r].input
    <2>1. UpdatesBy(r) = {}
      BY <1>1, Kept DEF OpSound, UpdatesBy, Mine
    <2>2. Revision # op[r].input
      BY <1>1, <1>4, Kept DEF WakeSound, Revision, Sessions
    <2>3. op'[r].input = op[r].input
      <3>1. [op[r] EXCEPT !.progress = "WAKE_COMPLETED", !.woken = wake[r].revision].input = op[r].input
        BY <1>1, Kept DEF Operations
      <3>2. Save(r, [op[r] EXCEPT !.progress = "WAKE_COMPLETED", !.woken = wake[r].revision], Goes("run"))
        BY <1>4 DEF CheckpointWake
      <3> QED
        BY <3>1, <3>2, SaveKeepsInputs DEF KeepsInputs
    <2>4. UNCHANGED subject
      BY <1>1 DEF Stores
    <2>5. Revision' # op'[r].input + (IF UpdatesBy(r)' = {} THEN 0 ELSE 1)
      BY <1>1, <2>1, <2>2, <2>3, <2>4, Kept DEF Revision, UpdatesBy
    <2> QED
      BY <2>5 DEF Reasoned, Stuck
  <1> QED
    BY <1>2, <1>3, <1>4

LEMMA PerceiveReasons ==
  ASSUME IInv, NEW r \in Requests, Perceive(r) PROVE Reasoned(r)
  <1>1. /\ call.req = r /\ call.pc = "run" /\ op[r].domain = "NONE"
        /\ op[r].progress = "WAKE_COMPLETED"
    BY DEF Perceive, Running, At
  <1>2. PICK new : new = [op[r] EXCEPT !.progress = "PERCEPTION_COMPLETED"]
    OBVIOUS
  <1>3. /\ new \in Operations /\ new.input = op[r].input /\ new.progress = "PERCEPTION_COMPLETED"
        /\ new.stage = op[r].stage /\ new.domain = op[r].domain /\ new.woken = op[r].woken
        /\ new.evolution = op[r].evolution /\ new.capability = op[r].capability
        /\ new.action = op[r].action
    BY <1>1, <1>2, Kept, ProgressRanks DEF Operations
  <1>4. Save(r, new, Goes("run"))
    BY <1>2 DEF Perceive
  <1>5. Formed(new)
    BY <1>1, <1>3, Kept DEF Formed, Thinkable
  <1>6. MayFollow(op[r], new)
    BY <1>1, <1>3, Kept, Climbs DEF MayFollow, Operations
  <1> QED
    BY <1>1, <1>3, <1>4, <1>5, <1>6, Accepted, GoesOn, Kept

LEMMA CheckpointThinkingReasons ==
  ASSUME IInv, NEW r \in Requests, CheckpointThinking(r) PROVE Reasoned(r)
  <1>1. /\ call.req = r /\ call.pc \in {"run", "resume"} /\ op[r].progress = "PERCEPTION_COMPLETED"
    BY ThoughtKept DEF CheckpointThinking
  <1>2. PICK new : new = [op[r] EXCEPT !.progress = "THINKING_COMPLETED"]
    OBVIOUS
  <1>3. /\ new \in Operations /\ new.input = op[r].input /\ new.progress = "THINKING_COMPLETED"
        /\ new.stage = op[r].stage /\ new.domain = op[r].domain /\ new.woken = op[r].woken
        /\ new.evolution = op[r].evolution /\ new.capability = op[r].capability
        /\ new.action = op[r].action
    BY <1>1, <1>2, Kept, ProgressRanks DEF Operations
  <1>4. Save(r, new, call)
    BY <1>2 DEF CheckpointThinking
  <1>5. Formed(new)
    BY <1>1, <1>3, Kept DEF Formed, Thinkable
  <1>6. MayFollow(op[r], new)
    BY <1>1, <1>3, Kept, Climbs DEF MayFollow, Operations
  <1> QED
    BY <1>1, <1>3, <1>4, <1>5, <1>6, Accepted, Kept

LEMMA DecideReasons ==
  ASSUME IInv, NEW r \in Requests, Decide(r) PROVE Reasoned(r)
  <1>1. /\ call.req = r /\ call.pc \in {"run", "resume"} /\ op[r].progress = "THINKING_COMPLETED"
    BY ThoughtKept DEF Decide
  <1>2. PICK action \in {"APPROVED", "DECLINED"} :
          Save(r, [op[r] EXCEPT !.progress = "ACTION_COMPLETED", !.action = action], call)
    BY DEF Decide
  <1>3. PICK new : new = [op[r] EXCEPT !.progress = "ACTION_COMPLETED", !.action = action]
    OBVIOUS
  <1>4. /\ new \in Operations /\ new.input = op[r].input /\ new.progress = "ACTION_COMPLETED"
        /\ new.stage = op[r].stage /\ new.domain = op[r].domain /\ new.woken = op[r].woken
        /\ new.evolution = op[r].evolution /\ new.capability = op[r].capability
        /\ new.action = action
    BY <1>1, <1>3, Kept, ProgressRanks DEF Operations, Verdicts
  <1>5. Save(r, new, call)
    BY <1>2, <1>3
  <1>6. Formed(new)
    BY <1>1, <1>4, Kept DEF Formed, Thinkable
  <1>7. MayFollow(op[r], new)
    <2>1. op[r].action = "NONE"
      BY <1>1, Kept DEF Formed
    <2> QED
      BY <1>1, <1>4, <2>1, Kept, Climbs DEF MayFollow, Operations
  <1> QED
    BY <1>1, <1>4, <1>5, <1>6, <1>7, Accepted, Kept

LEMMA CompleteDomainReasons ==
  ASSUME IInv, NEW r \in Requests, CompleteDomain(r) PROVE Reasoned(r)
  <1>1. /\ call.req = r /\ call.pc \in {"run", "resume"} /\ op[r].progress = "ACTION_COMPLETED"
        /\ op[r].domain = "NONE"
    BY ThoughtKept DEF CompleteDomain
  <1>2. PICK new : new = [op[r] EXCEPT !.stage = "DOMAIN_COMPLETED", !.domain = op[r].action]
    OBVIOUS
  <1>3. /\ new \in Operations /\ new.input = op[r].input /\ new.progress = op[r].progress
        /\ new.stage = "DOMAIN_COMPLETED" /\ new.domain = op[r].action /\ new.woken = op[r].woken
        /\ new.evolution = op[r].evolution /\ new.capability = op[r].capability
        /\ new.action = op[r].action
    BY <1>1, <1>2, Kept, StageRanks DEF Operations
  <1>4. Save(r, new, Goes("run"))
    BY <1>2 DEF CompleteDomain
  <1>5. op[r].stage \in Early /\ op[r].evolution = NoRevision /\ op[r].action # "NONE"
    BY <1>1, Kept DEF Formed
  <1>6. Formed(new)
    BY <1>1, <1>3, <1>5, Kept DEF Formed, Early
  <1>7. MayFollow(op[r], new)
    BY <1>1, <1>3, <1>5, Kept, Climbs DEF MayFollow, Operations
  <1> QED
    BY <1>1, <1>3, <1>4, <1>6, <1>7, Accepted, GoesOn, Kept

LEMMA CheckpointEvolutionReasons ==
  ASSUME IInv, NEW r \in Requests, CheckpointEvolution(r) PROVE Reasoned(r)
  <1>1. /\ call.req = r /\ call.pc = "run" /\ op[r].domain = "APPROVED"
        /\ op[r].evolution = NoRevision
    BY DEF CheckpointEvolution, Evolving, Finishing, At
  <1>2. PICK n \in Mine(r, subject.updates) :
          Save(r, [op[r] EXCEPT !.stage = "EVOLUTION_COMMITTED", !.evolution = n], Goes("run"))
    BY DEF CheckpointEvolution, UpdatesBy, Mine
  <1>3. n = op[r].input + 1 /\ n \in Int /\ n # NoRevision
    BY <1>1, <1>2, Kept DEF OpSound, NoRevision
  <1>4. PICK new : new = [op[r] EXCEPT !.stage = "EVOLUTION_COMMITTED", !.evolution = n]
    OBVIOUS
  <1>5. /\ new \in Operations /\ new.input = op[r].input /\ new.progress = op[r].progress
        /\ new.stage = "EVOLUTION_COMMITTED" /\ new.domain = op[r].domain /\ new.woken = op[r].woken
        /\ new.evolution = n /\ new.capability = op[r].capability /\ new.action = op[r].action
    BY <1>1, <1>3, <1>4, Kept, StageRanks DEF Operations
  <1>6. Save(r, new, Goes("run"))
    BY <1>2, <1>4
  <1>7. op[r].stage # "COMPLETED"
    BY <1>1, Kept DEF DoneSound
  <1>8. Formed(new)
    BY <1>1, <1>3, <1>5, Kept DEF Formed, Early
  <1>9. MayFollow(op[r], new)
    BY <1>1, <1>5, <1>7, Kept, Climbs DEF MayFollow, Operations
  <1> QED
    BY <1>1, <1>5, <1>6, <1>8, <1>9, Accepted, GoesOn, Kept

LEMMA CloseReasons ==
  ASSUME IInv, NEW r \in Requests, Close(r) PROVE Reasoned(r)
  <1>1. call.req = r /\ call.pc = "run" /\ op[r].domain # "NONE"
    BY DEF Close, Finishing, At
  <1>2. PICK new : new = [op[r] EXCEPT !.stage = "COMPLETED"]
    OBVIOUS
  <1>3. /\ new \in Operations /\ new.input = op[r].input /\ new.progress = op[r].progress
        /\ new.stage = "COMPLETED" /\ new.domain = op[r].domain /\ new.woken = op[r].woken
        /\ new.evolution = op[r].evolution /\ new.capability = op[r].capability
        /\ new.action = op[r].action
    BY <1>1, <1>2, Kept, StageRanks DEF Operations
  <1>4. Save(r, new, Ends("COMPLETED"))
    BY <1>2 DEF Close
  <1>5. Formed(new)
    BY <1>1, <1>3, Kept DEF Formed, Early
  <1>6. MayFollow(op[r], new)
    BY <1>1, <1>3, Kept, Climbs DEF MayFollow, Operations
  <1>7. Ends("COMPLETED").answer # "FAULT"
    BY <1>1, Kept DEF Ends, CallType, CallRecords
  <1> QED
    BY <1>1, <1>3, <1>4, <1>5, <1>6, <1>7, Accepted, Kept

LEMMA AfterResultReasons ==
  ASSUME IInv, NEW r \in Requests, call.req = r, call.pc # "idle", NEW x \in Capabilities
  PROVE  AfterResult(x).answer # "FAULT"
  <1>1. call \in CallRecords /\ call.answer = "none"
    BY Kept DEF CallType
  <1>2. /\ Goes("resume").answer = "none" /\ Ends("CAPABILITY_FAILED").answer = "CAPABILITY_FAILED"
        /\ Ends("CAPABILITY_REQUIRED").answer = "CAPABILITY_REQUIRED"
    BY <1>1 DEF Goes, Ends, CallRecords
  <1> QED
    BY <1>2 DEF AfterResult

LEMMA CheckpointCapabilityReasons ==
  ASSUME IInv, NEW r \in Requests, CheckpointCapability(r) PROVE Reasoned(r)
  <1>1. call.req = r /\ call.pc = "run" /\ op[r].domain = "NONE" /\ r \in asked
    BY DEF CheckpointCapability, Running, At
  <1>2. PICK x \in Capabilities : x = Latest(r) /\ x = Last(attempts[r])
    BY <1>1, ResultTypes
  <1>3. AfterResult(x).answer # "FAULT"
    BY <1>1, AfterResultReasons
  <1>4. CASE Waits(r, x)
    <2>1. PICK new : new = [op[r] EXCEPT !.stage = "WAITING_CAPABILITY", !.capability = x]
      OBVIOUS
    <2>2. /\ new \in Operations /\ new.input = op[r].input /\ new.progress = op[r].progress
          /\ new.stage = "WAITING_CAPABILITY" /\ new.domain = op[r].domain /\ new.woken = op[r].woken
          /\ new.evolution = op[r].evolution /\ new.capability = x /\ new.action = op[r].action
      BY <1>1, <2>1, Kept, StageRanks DEF Operations
    <2>3. Save(r, new, AfterResult(x))
      BY <1>4, <2>1 DEF Waits
    <2>4. x # Unasked
      <3>1. Proposed # Unasked
        BY DEF Proposed, Unasked
      <3>2. ASSUME NEW y \in Results PROVE y # Unasked
        <4>1. y.status # "NONE" /\ Unasked.status = "NONE"
          BY DEF Results, Unasked, ResultStatus
        <4> QED
          BY <4>1
      <3>3. attempts[r] = << >> \/ attempts[r][Len(attempts[r])] \in Results
        BY <1>1, Kept
      <3> QED
        BY <1>2, <3>1, <3>2, <3>3 DEF Last
    <2>5. op[r].stage \in Early /\ op[r].evolution = NoRevision
      BY <1>1, Kept DEF Formed
    <2>6. Formed(new)
      BY <1>1, <2>2, <2>4, <2>5, Kept DEF Formed, Early
    <2>7. MayFollow(op[r], new)
      <3>1. Closing(op[r].capability) => x = op[r].capability
        BY <1>1, <1>2, Kept DEF CapabilitySound
      <3> QED
        BY <1>1, <2>2, <2>4, <2>5, <3>1, Kept, Climbs DEF MayFollow, Operations
    <2> QED
      BY <1>3, <2>2, <2>3, <2>6, <2>7, Accepted
  <1>5. CASE call' = AfterResult(x)
    BY <1>3, <1>5 DEF Reasoned
  <1> QED
    BY <1>2, <1>4, <1>5 DEF CheckpointCapability

LEMMA TakeResultReasons ==
  ASSUME IInv, NEW r \in Requests, TakeResult(r) PROVE Reasoned(r)
  <1>1. call \in CallRecords /\ call.kind = "deliver" /\ call.req = r /\ call.pc = "accepted"
    BY DEF TakeResult, At, IInv, TypeInv, CallType
  <1>2. /\ Goes("run").kind = "deliver" /\ Goes("resume").kind = "deliver"
        /\ Ends("FAULT").kind = "deliver" /\ Ends("CAPABILITY_FAILED").kind = "deliver"
        /\ Ends("CAPABILITY_REQUIRED").kind = "deliver"
        /\ [call EXCEPT !.pc = "idle", !.answer = "COMPLETED"].kind = "deliver"
    BY <1>1 DEF Goes, Ends, CallRecords
  <1>3. AfterResult(call.result).kind = "deliver"
    BY <1>2 DEF AfterResult
  <1>4. call'.kind = "deliver"
    BY <1>2, <1>3 DEF TakeResult, Replay, Waits, Save
  <1> QED
    BY <1>4 DEF Reasoned

LEMMA SessionReasons ==
  ASSUME IInv, NEW r \in Requests,
         \/ BeginWake(r) \/ EndWake(r) \/ BeginThinking(r) \/ CallProvider(r) \/ EndThinking(r)
         \/ RefuseSession(r) \/ Ask(r) \/ BeginWait(r) \/ Resume(r) \/ AttachEvolution(r)
  PROVE  Reasoned(r)
  <1>1. call \in CallType
    BY DEF IInv, TypeInv
  <1>2. ASSUME NEW pc \in Steps \ {"accepted"}, call' = Goes(pc), call.pc # "idle" PROVE Reasoned(r)
    <2>1. call.answer = "none" /\ call'.answer = call.answer
      BY <1>1, <1>2 DEF CallType, CallRecords, Goes
    <2> QED
      BY <2>1 DEF Reasoned
  <1>3. "waking" \in Steps \ {"accepted"} /\ "run" \in Steps \ {"accepted"} /\ "thinking" \in Steps \ {"accepted"}
        /\ "thought" \in Steps \ {"accepted"}
    BY DEF Steps
  <1>4. CASE BeginWake(r)
    <2>1. \/ call' = Goes("waking") /\ call.pc # "idle"
          \/ ~ subject.active /\ UNCHANGED subject
      BY <1>4 DEF BeginWake, Running, At
    <2> QED
      BY <1>2, <1>3, <2>1 DEF Reasoned, Stuck
  <1>5. CASE EndWake(r)
    <2>1. \/ call' = Goes("run") /\ call.pc # "idle"
          \/ wake' = [wake EXCEPT ![r] = [status |-> "FAILED", revision |-> Revision]]
      BY <1>5 DEF EndWake, At
    <2>2. \/ call' = Goes("run") /\ call.pc # "idle"
          \/ wake'[r].status = "FAILED"
      BY <2>1 DEF IInv, TypeInv
    <2> QED
      BY <1>2, <1>3, <2>2 DEF Reasoned, Stuck
  <1>6. CASE BeginThinking(r)
    <2>1. \/ call' = Goes("thinking") /\ call.pc # "idle"
          \/ ~ subject.active /\ UNCHANGED subject
      BY <1>6 DEF BeginThinking, Running, At
    <2> QED
      BY <1>2, <1>3, <2>1 DEF Reasoned, Stuck
  <1>7. CASE CallProvider(r)
    <2>1. call' = Goes("thought") /\ call.pc # "idle"
      BY <1>7 DEF CallProvider, At
    <2> QED
      BY <1>2, <1>3, <2>1
  <1>8. CASE EndThinking(r)
    <2>1. \/ call' = Goes("run") /\ call.pc # "idle"
          \/ think' = [think EXCEPT ![r].status = "FAILED"]
      BY <1>8 DEF EndThinking
    <2>2. \/ call' = Goes("run") /\ call.pc # "idle"
          \/ think'[r].status = "FAILED"
      BY <2>1 DEF IInv, TypeInv, Thoughts
    <2> QED
      BY <1>2, <1>3, <2>2 DEF Reasoned, Stuck
  <1>9. CASE RefuseSession(r)
    <2>1. think[r].status \in {"RUNNING", "FAILED"} /\ mode = "deterministic" /\ UNCHANGED <<think, mode>>
      BY <1>9 DEF RefuseSession, Stores
    <2> QED
      BY <2>1 DEF Reasoned, Stuck
  <1>10. CASE Ask(r) \/ Resume(r) \/ AttachEvolution(r)
    BY <1>10 DEF Ask, Resume, AttachEvolution, Reasoned
  <1>11. CASE BeginWait(r)
    <2>1. \/ call' = call
          \/ call' = Ends("NO_BUDGET")
          \/ ~ subject.active /\ UNCHANGED subject
      BY <1>11 DEF BeginWait
    <2>2. Ends("NO_BUDGET").answer = "NO_BUDGET"
      BY <1>1 DEF Ends, CallType, CallRecords
    <2> QED
      BY <2>1, <2>2 DEF Reasoned, Stuck
  <1> QED
    BY <1>4, <1>5, <1>6, <1>7, <1>8, <1>9, <1>10, <1>11

LEMMA EvolveReasons ==
  ASSUME IInv, NEW r \in Requests, Evolve(r) PROVE Reasoned(r)
  <1>1. /\ call.req = r /\ call.pc = "run" /\ UpdatesBy(r) = {} /\ UNCHANGED op
    BY DEF Evolve, Evolving, Finishing, At, Fault
  <1>2. CASE ~ subject.active /\ UNCHANGED subject
    BY <1>2 DEF Reasoned, Stuck
  <1>3. CASE Revision # op[r].input /\ UNCHANGED subject
    <2>1. Revision' # op'[r].input + (IF UpdatesBy(r)' = {} THEN 0 ELSE 1)
      BY <1>1, <1>3, Kept DEF Revision, UpdatesBy
    <2> QED
      BY <2>1 DEF Reasoned, Stuck
  <1> QED
    BY <1>2, <1>3 DEF Evolve, Reasoned

LEMMA SaveResultReasons ==
  ASSUME IInv, NEW r \in Requests, SaveResult(r) PROVE Reasoned(r)
  <1>1. /\ call.req = r /\ call.pc = "run" /\ op[r].domain # "NONE"
        /\ op[r].domain = "APPROVED" => op[r].evolution # NoRevision
        /\ UNCHANGED <<subject, op>>
    BY DEF SaveResult, Evolving, Finishing, At, Fault
  <1>2. UpdatesBy(r) = Mine(r, subject.updates)
    BY DEF UpdatesBy, Mine
  <1>3. Output(op[r]) = op[r].input + (IF UpdatesBy(r) = {} THEN 0 ELSE 1)
    <2>1. CASE op[r].evolution = NoRevision
      <3>1. UpdatesBy(r) = {}
        BY <1>1, <1>2, <2>1, Kept DEF OpSound
      <3> QED
        BY <1>1, <2>1, <3>1, Kept DEF Output
    <2>2. CASE op[r].evolution # NoRevision
      <3>1. UpdatesBy(r) # {}
        <4>1. Mine(r, subject.updates) = {op[r].evolution}
          BY <1>1, <2>2, Kept DEF ThinkSound
        <4> QED
          BY <1>2, <4>1
      <3>2. op[r].evolution = op[r].input + 1
        BY <1>1, <2>2, Kept DEF Formed
      <3> QED
        BY <2>2, <3>1, <3>2 DEF Output
    <2> QED
      BY <2>1, <2>2
  <1>4. CASE Revision # Output(op[r])
    <2>1. Revision' # op'[r].input + (IF UpdatesBy(r)' = {} THEN 0 ELSE 1)
      BY <1>1, <1>3, <1>4 DEF Revision, UpdatesBy
    <2> QED
      BY <2>1 DEF Reasoned, Stuck
  <1> QED
    BY <1>4 DEF SaveResult, Reasoned

LEMMA SubmitReasons ==
  ASSUME IInv, NEW r \in Requests, NEW body \in Bodies, Submit(r, body) PROVE Reasoned(r)
  <1>1. PICK begun : begun = Calls("submit", r, Unasked)
    OBVIOUS
  <1>2. /\ begun.answer = "none"
        /\ [begun EXCEPT !.pc = "idle", !.answer = "COMPLETED"].answer = "COMPLETED"
        /\ [begun EXCEPT !.pc = "idle", !.answer = "REVISION_CONFLICT"].answer = "REVISION_CONFLICT"
        /\ [begun EXCEPT !.pc = "idle", !.answer = "IDEMPOTENCY_KEY_REUSED"].answer = "IDEMPOTENCY_KEY_REUSED"
    BY <1>1 DEF Calls
  <1>3. \/ call' = begun
        \/ call' = [begun EXCEPT !.pc = "idle", !.answer = "COMPLETED"]
        \/ call' = [begun EXCEPT !.pc = "idle", !.answer = "REVISION_CONFLICT"]
        \/ call' = [begun EXCEPT !.pc = "idle", !.answer = "IDEMPOTENCY_KEY_REUSED"]
        \/ ~ subject.active /\ UNCHANGED subject
    BY <1>1 DEF Submit, Replay, Reserve, Stores
  <1> QED
    BY <1>2, <1>3 DEF Reasoned, Stuck

LEMMA ServeReasons ==
  ASSUME IInv, NEW r \in Requests, Serve(r) PROVE Reasoned(r)
  BY PrepareReasons, CheckpointWakeReasons, PerceiveReasons, CheckpointThinkingReasons, DecideReasons,
     CompleteDomainReasons, CheckpointEvolutionReasons, CloseReasons, CheckpointCapabilityReasons,
     TakeResultReasons, SessionReasons, EvolveReasons, SaveResultReasons DEF Serve

\* The request a step's call is about.
LEMMA Caller ==
  ASSUME IInv, NEW r \in Requests
  PROVE  /\ Serve(r) => call'.req = r
         /\ \A body \in Bodies : Submit(r, body) => call'.req = r
  <1>1. call \in CallRecords
    BY DEF IInv, TypeInv, CallType
  <1>2. ASSUME NEW x, call.req = r
        PROVE  Goes(x).req = r /\ Ends(x).req = r
    BY <1>1, <1>2 DEF Goes, Ends, CallRecords
  <1>3. ASSUME call.req = r, NEW x PROVE AfterResult(x).req = r
    BY <1>2, <1>3 DEF AfterResult
  <1>4. ASSUME call.req = r, NEW new, NEW next, next.req = r, Save(r, new, next) PROVE call'.req = r
    BY <1>2, <1>4 DEF Save
  <1>5. ASSUME Serve(r) PROVE call'.req = r
    <2>1. call.req = r
      BY <1>5 DEF Serve, Prepare, BeginWake, EndWake, CheckpointWake, Perceive, BeginThinking,
         CallProvider, EndThinking, RefuseSession, Ask, BeginWait, CheckpointCapability, TakeResult,
         Resume, CheckpointThinking, Decide, CompleteDomain, Evolve, AttachEvolution,
         CheckpointEvolution, SaveResult, Close, HasThought, Running, Evolving, Finishing, At
    <2>2. CASE \/ Prepare(r) \/ CheckpointWake(r) \/ Perceive(r) \/ CheckpointThinking(r) \/ Decide(r)
               \/ CompleteDomain(r) \/ CheckpointEvolution(r) \/ Close(r)
      <3>1. Goes("run").req = r /\ Ends("FAULT").req = r /\ Ends("COMPLETED").req = r
        BY <1>2, <2>1
      <3>2. CASE Prepare(r)
        BY <1>4, <2>1, <3>1, <3>2 DEF Prepare
      <3>3. CASE CheckpointWake(r)
        BY <1>4, <2>1, <3>1, <3>3 DEF CheckpointWake, Fault
      <3>4. CASE Perceive(r)
        BY <1>4, <2>1, <3>1, <3>4 DEF Perceive
      <3>5. CASE CheckpointThinking(r)
        BY <1>4, <2>1, <3>5 DEF CheckpointThinking
      <3>6. CASE Decide(r)
        BY <1>4, <2>1, <3>6 DEF Decide
      <3>7. CASE CompleteDomain(r)
        BY <1>4, <2>1, <3>1, <3>7 DEF CompleteDomain
      <3>8. CASE CheckpointEvolution(r)
        BY <1>4, <2>1, <3>1, <3>8 DEF CheckpointEvolution
      <3>9. CASE Close(r)
        BY <1>4, <2>1, <3>1, <3>9 DEF Close
      <3> QED
        BY <2>2, <3>2, <3>3, <3>4, <3>5, <3>6, <3>7, <3>8, <3>9
    <2>3. CASE CheckpointCapability(r)
      BY <1>3, <1>4, <2>1, <2>3 DEF CheckpointCapability, Waits
    <2>4. CASE TakeResult(r)
      <3>1. Replay(r, call) => call'.req = r
        BY <1>1, <2>1 DEF Replay, CallRecords
      <3>2. Waits(r, call.result) => call'.req = r
        BY <1>3, <1>4, <2>1 DEF Waits
      <3> QED
        BY <1>2, <2>1, <2>4, <3>1, <3>2 DEF TakeResult
    <2>5. CASE BeginWake(r) \/ EndWake(r) \/ BeginThinking(r) \/ CallProvider(r) \/ EndThinking(r)
               \/ RefuseSession(r) \/ Ask(r) \/ BeginWait(r) \/ Resume(r) \/ AttachEvolution(r)
               \/ Evolve(r) \/ SaveResult(r)
      <3>1. /\ Goes("run").req = r /\ Goes("waking").req = r /\ Goes("thinking").req = r
            /\ Goes("thought").req = r /\ Ends("FAULT").req = r /\ Ends("NO_BUDGET").req = r
        BY <1>2, <2>1
      <3> QED
        BY <2>1, <2>5, <3>1
        DEF BeginWake, EndWake, BeginThinking, CallProvider, EndThinking, RefuseSession, Ask, BeginWait,
            Resume, AttachEvolution, Evolve, SaveResult, Fault
    <2> QED
      BY <1>5, <2>2, <2>3, <2>4, <2>5 DEF Serve
  <1>6. ASSUME NEW body \in Bodies, Submit(r, body) PROVE call'.req = r
    <2>1. PICK begun : begun = Calls("submit", r, Unasked)
      OBVIOUS
    <2>2. begun.req = r /\ \A x : [begun EXCEPT !.pc = "idle", !.answer = x].req = r
      BY <2>1 DEF Calls
    <2> QED
      BY <1>6, <2>1, <2>2 DEF Submit, Replay, Reserve
  <1> QED
    BY <1>5, <1>6

\* A submission faults only for a reason that lies outside the journal.
THEOREM FaultsHaveReasons == Spec => FaultsForAReason
  <1> DEFINE Faults(r) == call' # call /\ call'.req = r /\ call'.kind = "submit" /\ call'.answer = "FAULT"
  <1>1. IInv /\ [Next]_vars => [\A r \in Requests : Faults(r) => Stuck(r)']_vars
    <2> SUFFICES ASSUME IInv, Next, NEW r \in Requests, Faults(r) PROVE Stuck(r)'
      OBVIOUS
    <2>1. Reasoned(r) => Stuck(r)'
      BY DEF Reasoned
    <2>2. ASSUME NEW s \in Requests, NEW body \in Bodies, Submit(s, body) PROVE Reasoned(r)
      BY <2>2, Caller, SubmitReasons
    <2>3. ASSUME NEW s \in Requests, Serve(s) PROVE Reasoned(r)
      BY <2>3, Caller, ServeReasons
    <2>4. ASSUME NEW s \in Requests, NEW result \in Results, Deliver(s, result) PROVE Reasoned(r)
      <3>1. PICK begun : begun = Calls("deliver", s, result)
        OBVIOUS
      <3>2. /\ \A x : [begun EXCEPT !.pc = "idle", !.answer = x].kind = "deliver"
            /\ [begun EXCEPT !.pc = "accepted"].kind = "deliver"
        BY <3>1 DEF Calls
      <3>3. call'.kind = "deliver"
        BY <2>4, <3>1, <3>2 DEF Deliver
      <3> QED
        BY <3>3 DEF Reasoned
    <2>5. CASE Stop
      BY <2>5 DEF Stop, NoCall, Reasoned
    <2>6. CASE ChangeElsewhere
      BY <2>6 DEF ChangeElsewhere, Reasoned
    <2> QED
      BY <2>1, <2>2, <2>3, <2>4, <2>5, <2>6 DEF Next
  <1> QED
    BY <1>1, Invariance, PTL DEF Spec, FaultsForAReason

-----------------------------------------------------------------------------
(* The composition.                                                        *)

\* Beside Memory and Entries the journal takes only the steps it takes alone: what is proved of it
\* holds here.
LEMMA JournalBesideOthers == SSpec => Spec
<1>1. SInit => Init
  BY DEF SInit
<1>2. [SNext]_<<focus, vars, mvars, evars>> => [Next]_vars
  BY DEF SNext, Interact, Remember, Enter
<1> QED
  BY <1>1, <1>2, PTL DEF SSpec, Spec

-----------------------------------------------------------------------------
(* Entries.                                                                *)

\* A document with a later revision than one that was read is not the one that was read.
SettingInv ==
  setting.step = "write" =>
    /\ setting.revision \in Nat /\ setting.revision <= document.revision
    /\ setting.revision = document.revision =>
         /\ setting.what.kind = "bind" => E!Available(document, setting.what.binding.use)
         /\ setting.what.kind = "pause" =>
              document.binding[setting.what.entry].user = setting.what.user
         /\ setting.what.kind = "handoff" => document.charge = setting.what.charge

Checking == {"source", "target", "contact", "origins", "compare"}

\* What was found so far holds in the document, if it is still the one the check began with.
FoundSource ==
  E!Bound(document, delivery.source) /\ document.binding[delivery.source] = delivery.from

FoundTarget ==
  /\ E!Bound(document, delivery.target)
  /\ document.binding[delivery.target] = delivery.found
  /\ delivery.found.user = delivery.from.user /\ delivery.found.initiates
  /\ delivery.source = delivery.target \/ delivery.source \in delivery.found.reads

FoundOrigins ==
  /\ delivery.found = delivery.sealed
  /\ \A origin \in delivery.origins : E!Transfers(document, origin, delivery.target)

DeliveryInv ==
  delivery.step \in Checking =>
    /\ delivery.before.revision \in Nat /\ delivery.before.revision <= document.revision
    /\ delivery.before.revision = document.revision =>
         /\ delivery.step # "source" => FoundSource
         /\ delivery.step \notin {"source", "target"} => FoundTarget
         /\ delivery.step \in {"origins", "compare"} => delivery.found.user \notin document.paused
         /\ delivery.step = "compare" => FoundOrigins

EntriesTypes ==
  /\ document = [revision |-> document.revision, charge |-> document.charge,
                 attachment |-> document.attachment, binding |-> document.binding,
                 paused |-> document.paused]
  /\ document.revision \in Nat
  /\ setting.step \in {"check", "write"} =>
       setting = [step |-> setting.step, what |-> setting.what, revision |-> setting.revision]
  /\ setting.step = "check" => setting.revision \in Nat /\ setting.revision <= document.revision
  /\ delivery.step # "none" =>
       delivery = [step |-> delivery.step, source |-> delivery.source, target |-> delivery.target,
                   origins |-> delivery.origins, from |-> delivery.from, sealed |-> delivery.sealed,
                   before |-> delivery.before, found |-> delivery.found]

EntriesInv == EntriesTypes /\ SettingInv /\ DeliveryInv

\* A document that is put is a later one.
LEMMA LaterDocument ==
  ASSUME EntriesInv, NEW doc, E!Put(doc), doc.revision = document.revision,
         doc = [revision |-> doc.revision, charge |-> doc.charge, attachment |-> doc.attachment,
                binding |-> doc.binding, paused |-> doc.paused],
         setting' = setting \/ setting' = E!NoSetting, UNCHANGED delivery
  PROVE  EntriesInv' /\ document' # document
<1>1. /\ document' = [revision |-> document'.revision, charge |-> document'.charge,
                      attachment |-> document'.attachment, binding |-> document'.binding,
                      paused |-> document'.paused]
      /\ document'.revision = document.revision + 1
  <2>1. PICK revision : revision = doc.revision + 1
    OBVIOUS
  <2>2. document' = [doc EXCEPT !.revision = revision]
    BY <2>1 DEF E!Put
  <2>3. document' = [revision |-> revision, charge |-> doc.charge, attachment |-> doc.attachment,
                     binding |-> doc.binding, paused |-> doc.paused]
    BY <2>2
  <2> QED
    BY <2>1, <2>3
<1>2. document.revision \in Nat
  BY DEF EntriesInv, EntriesTypes
<1>3. EntriesTypes'
  BY <1>1, <1>2 DEF EntriesInv, EntriesTypes, E!NoSetting
<1>4. SettingInv'
  <2>1. setting'.step = "write" => /\ setting' = setting /\ setting.revision \in Nat
                                  /\ setting.revision < document'.revision
    BY <1>1, <1>2 DEF EntriesInv, SettingInv, E!NoSetting
  <2> QED
    BY <1>1, <1>2, <2>1 DEF SettingInv
<1>5. DeliveryInv'
  <2>1. delivery.step \in Checking => /\ delivery.before.revision \in Nat
                                     /\ delivery.before.revision < document'.revision
    BY <1>1, <1>2 DEF EntriesInv, DeliveryInv
  <2> QED
    BY <1>1, <1>2, <2>1 DEF DeliveryInv
<1> QED
  BY <1>1, <1>2, <1>3, <1>4, <1>5 DEF EntriesInv

\* What a step leaves of the document, the setting and the delivery stays sound.
LEMMA SettingRests == SettingInv /\ UNCHANGED <<document, setting>> => SettingInv'
  BY DEF SettingInv, E!Available

LEMMA DeliveryRests == DeliveryInv /\ UNCHANGED <<document, delivery>> => DeliveryInv'
<1> SUFFICES ASSUME DeliveryInv, UNCHANGED <<document, delivery>>
             PROVE  DeliveryInv'
  OBVIOUS
<1>1. FoundSource => FoundSource'
  BY DEF FoundSource, E!Bound, E!Available
<1>2. FoundTarget => FoundTarget'
  BY DEF FoundTarget, E!Bound, E!Available
<1>3. FoundOrigins => FoundOrigins'
  BY DEF FoundOrigins, E!Bound, E!Available, E!Transfers
<1> QED
  BY <1>1, <1>2, <1>3 DEF DeliveryInv

\* A setting that is written makes a later document.
LEMMA SettingWrites ==
  ASSUME EntriesInv, E!WriteSetting
  PROVE  EntriesInv' /\ document' # document
<1>1. setting' = E!NoSetting /\ UNCHANGED delivery
  BY DEF E!WriteSetting
<1>2. \/ \E with : E!Put([document EXCEPT !.binding[setting.what.entry] = with])
      \/ \E paused : E!Put([document EXCEPT !.paused = paused])
      \/ \E charge : E!Put([document EXCEPT !.charge = charge])
  BY DEF E!WriteSetting, EntriesInv, EntriesTypes
<1>3. ASSUME NEW with, E!Put([document EXCEPT !.binding[setting.what.entry] = with])
      PROVE  EntriesInv' /\ document' # document
  <2>1. PICK binding, doc :
          /\ binding = [document.binding EXCEPT ![setting.what.entry] = with]
          /\ doc = [revision |-> document.revision, charge |-> document.charge,
                    attachment |-> document.attachment, binding |-> binding,
                    paused |-> document.paused]
    OBVIOUS
  <2>2. [document EXCEPT !.binding[setting.what.entry] = with] = doc
    BY <2>1 DEF EntriesInv, EntriesTypes
  <2> QED
    BY <1>1, <1>3, <2>1, <2>2, LaterDocument
<1>4. ASSUME NEW paused, E!Put([document EXCEPT !.paused = paused])
      PROVE  EntriesInv' /\ document' # document
  <2>1. PICK doc :
          doc = [revision |-> document.revision, charge |-> document.charge,
                 attachment |-> document.attachment, binding |-> document.binding,
                 paused |-> paused]
    OBVIOUS
  <2>2. [document EXCEPT !.paused = paused] = doc
    BY <2>1 DEF EntriesInv, EntriesTypes
  <2> QED
    BY <1>1, <1>4, <2>1, <2>2, LaterDocument
<1>5. ASSUME NEW charge, E!Put([document EXCEPT !.charge = charge])
      PROVE  EntriesInv' /\ document' # document
  <2>1. PICK doc :
          doc = [revision |-> document.revision, charge |-> charge,
                 attachment |-> document.attachment, binding |-> document.binding,
                 paused |-> document.paused]
    OBVIOUS
  <2>2. [document EXCEPT !.charge = charge] = doc
    BY <2>1 DEF EntriesInv, EntriesTypes
  <2> QED
    BY <1>1, <1>5, <2>1, <2>2, LaterDocument
<1> QED
  BY <1>2, <1>3, <1>4, <1>5

LEMMA EntriesStep == EntriesInv /\ E!ENext => EntriesInv'
<1> SUFFICES ASSUME EntriesInv, E!ENext
             PROVE  EntriesInv'
  OBVIOUS
<1>1. ASSUME NEW a \in Attachments, NEW host \in Hosts,
             NEW state \in {"HEARD_OF", "DISCOVERED", "CONNECTED"}, E!Register(a, host, state)
      PROVE  EntriesInv'
  <2>1. PICK charge, with :
          E!Put([document EXCEPT !.charge = charge, !.attachment[a] = with])
    BY <1>1 DEF E!Register
  <2>2. PICK attachment : attachment = [document.attachment EXCEPT ![a] = with]
    OBVIOUS
  <2>3. PICK doc : doc = [revision |-> document.revision, charge |-> charge,
                          attachment |-> attachment, binding |-> document.binding,
                          paused |-> document.paused]
    OBVIOUS
  <2>4. [document EXCEPT !.charge = charge, !.attachment[a] = with] = doc
    <3>1. PICK first : first = [document EXCEPT !.charge = charge]
      OBVIOUS
    <3>2. first = [revision |-> document.revision, charge |-> charge,
                   attachment |-> document.attachment, binding |-> document.binding,
                   paused |-> document.paused]
      BY <3>1 DEF EntriesInv, EntriesTypes
    <3>3. [first EXCEPT !.attachment[a] = with] = doc
      BY <2>2, <2>3, <3>2
    <3> QED
      BY <3>1, <3>3
  <2>5. UNCHANGED <<setting, delivery>>
    BY <1>1 DEF E!Register
  <2> QED
    BY <2>1, <2>3, <2>4, <2>5, LaterDocument
<1>2. ASSUME NEW a \in Attachments, E!Disable(a)
      PROVE  EntriesInv'
  <2>1. E!Put([document EXCEPT !.attachment[a].enabled = FALSE]) /\ UNCHANGED <<setting, delivery>>
    BY <1>2 DEF E!Disable
  <2>2. PICK attachment : attachment = [document.attachment EXCEPT ![a].enabled = FALSE]
    OBVIOUS
  <2>3. PICK doc :
          doc = [revision |-> document.revision, charge |-> document.charge,
                 attachment |-> attachment, binding |-> document.binding,
                 paused |-> document.paused]
    OBVIOUS
  <2>4. [document EXCEPT !.attachment = attachment] = doc
    BY <2>3 DEF EntriesInv, EntriesTypes
  <2>5. [document EXCEPT !.attachment[a].enabled = FALSE] = doc
    BY <2>2, <2>4
  <2> QED
    BY <2>1, <2>3, <2>5, LaterDocument
<1>3. ASSUME NEW what, E!See(what)
      PROVE  EntriesInv'
  <2>1. PICK revision : revision = document.revision
    OBVIOUS
  <2>2. setting' = [step |-> "check", what |-> what, revision |-> revision]
        /\ UNCHANGED <<document, delivery>>
    BY <1>3, <2>1 DEF E!See
  <2>3. DeliveryInv'
    BY <2>2, DeliveryRests DEF EntriesInv
  <2> QED
    BY <2>1, <2>2, <2>3 DEF EntriesInv, EntriesTypes, SettingInv
<1>4. CASE E!CheckSetting
  <2>1. /\ setting.step = "check" /\ UNCHANGED <<document, delivery>>
        /\ setting = [step |-> "check", what |-> setting.what, revision |-> setting.revision]
        /\ setting.revision \in Nat /\ setting.revision <= document.revision
    BY <1>4 DEF E!CheckSetting, EntriesInv, EntriesTypes
  <2>2. PICK what :
          /\ setting' = [step |-> "write", what |-> what, revision |-> setting.revision]
          /\ what.kind = "bind" => E!Available(document, what.binding.use)
          /\ what.kind = "pause" => document.binding[what.entry].user = what.user
          /\ what.kind = "handoff" => document.charge = what.charge
    <3>1. CASE /\ setting.what.kind \in {"bind", "handoff"}
               /\ setting' = [setting EXCEPT !.step = "write"]
               /\ setting.what.kind = "bind" => E!Available(document, setting.what.binding.use)
               /\ setting.what.kind = "handoff" => document.charge = setting.what.charge
      BY <2>1, <3>1
    <3>2. CASE setting' = [step |-> "write", revision |-> setting.revision,
                           what |-> [kind |-> "pause", entry |-> setting.what.entry,
                                     paused |-> setting.what.paused,
                                     user |-> document.binding[setting.what.entry].user]]
      <4>1. PICK entry, paused, user, now :
              /\ entry = setting.what.entry /\ paused = setting.what.paused
              /\ user = document.binding[entry].user
              /\ now = [kind |-> "pause", entry |-> entry, paused |-> paused, user |-> user]
        OBVIOUS
      <4>2. now.kind = "pause" /\ document.binding[now.entry].user = now.user
        BY <4>1
      <4>3. setting' = [step |-> "write", what |-> now, revision |-> setting.revision]
        BY <3>2, <4>1
      <4> QED
        BY <4>2, <4>3
    <3> QED
      BY <1>4, <3>1, <3>2 DEF E!CheckSetting
  <2>3. E!Available(document, what.binding.use) => E!Available(document', what.binding.use)
    BY <2>1 DEF E!Available
  <2>4. DeliveryInv'
    BY <2>1, DeliveryRests DEF EntriesInv
  <2> QED
    BY <2>1, <2>2, <2>3, <2>4 DEF EntriesInv, EntriesTypes, SettingInv
<1>5. CASE E!WriteSetting
  BY <1>5, SettingWrites
<1>6. CASE E!Abandon
  <2>1. DeliveryInv'
    BY <1>6, DeliveryRests DEF EntriesInv, E!Abandon
  <2> QED
    BY <1>6, <2>1 DEF EntriesInv, EntriesTypes, SettingInv, E!Abandon, E!NoSetting
\* A check of a delivery.
<1>7. ASSUME UNCHANGED <<document, setting>>, EntriesTypes', DeliveryInv'
      PROVE  EntriesInv'
  BY <1>7, SettingRests DEF EntriesInv
<1>8. ASSUME NEW source, NEW target, NEW origins, E!Choose(source, target, origins)
      PROVE  EntriesInv'
  <2>1. PICK from, sealed, before, found :
          delivery' = [step |-> "seal", source |-> source, target |-> target, origins |-> origins,
                       from |-> from, sealed |-> sealed, before |-> before, found |-> found]
    BY <1>8 DEF E!Choose
  <2>2. UNCHANGED <<document, setting>>
    BY <1>8 DEF E!Choose
  <2>3. EntriesTypes' /\ DeliveryInv'
    BY <2>1, <2>2 DEF EntriesInv, EntriesTypes, DeliveryInv, Checking
  <2> QED
    BY <1>7, <2>2, <2>3
<1>9. CASE E!Begin
  <2>1. /\ UNCHANGED <<document, setting>> /\ delivery.step # "none"
        /\ delivery' = [delivery EXCEPT !.step = "source", !.before = document]
    BY <1>9 DEF E!Begin
  <2>2. PICK before : before = document /\ before.revision \in Nat
    BY DEF EntriesInv, EntriesTypes
  <2>3. delivery' = [step |-> "source", source |-> delivery.source, target |-> delivery.target,
                     origins |-> delivery.origins, from |-> delivery.from, sealed |-> delivery.sealed,
                     before |-> before, found |-> delivery.found]
    BY <2>1, <2>2 DEF EntriesInv, EntriesTypes
  <2>4. EntriesTypes'
    BY <2>1, <2>2, <2>3 DEF EntriesInv, EntriesTypes
  <2>5. delivery'.step = "source" /\ delivery'.before = before /\ document' = before
    BY <2>1, <2>2, <2>3
  <2>6. DeliveryInv'
    BY <2>2, <2>5 DEF DeliveryInv
  <2> QED
    BY <1>7, <2>1, <2>4, <2>6
\* A check passes, and nothing but its step changes.
<1>10. ASSUME NEW step \in {"target", "origins", "compare", "begin", "sent"}, E!To(step),
              delivery.step # "none", UNCHANGED <<document, setting>>,
              step \in Checking => delivery.step \in Checking,
              delivery.before.revision = document.revision =>
                /\ step = "target" => FoundSource
                /\ step \in {"origins", "compare"} =>
                     FoundSource /\ FoundTarget /\ delivery.found.user \notin document.paused
                /\ step = "compare" => FoundOrigins
       PROVE  EntriesInv'
  <2>1. delivery' = [step |-> step, source |-> delivery.source, target |-> delivery.target,
                     origins |-> delivery.origins, from |-> delivery.from, sealed |-> delivery.sealed,
                     before |-> delivery.before, found |-> delivery.found]
    BY <1>10 DEF E!To, EntriesInv, EntriesTypes
  <2>2. EntriesTypes'
    BY <1>10, <2>1 DEF EntriesInv, EntriesTypes
  <2>3. DeliveryInv'
    <3>1. FoundSource => FoundSource'
      BY <1>10, <2>1 DEF FoundSource, E!Bound, E!Available
    <3>2. FoundTarget => FoundTarget'
      BY <1>10, <2>1 DEF FoundTarget, E!Bound, E!Available
    <3>3. FoundOrigins => FoundOrigins'
      BY <1>10, <2>1 DEF FoundOrigins, E!Bound, E!Available, E!Transfers
    <3> QED
      BY <1>10, <2>1, <3>1, <3>2, <3>3 DEF DeliveryInv, EntriesInv, Checking
  <2> QED
    BY <1>7, <1>10, <2>2, <2>3
<1>17. CASE E!Seal
  <2>1. UNCHANGED <<document, setting>> /\ delivery.step = "seal"
    BY <1>17 DEF E!Seal
  <2>2. CASE E!To("begin")
    BY <1>10, <2>1, <2>2 DEF Checking
  <2>3. CASE delivery' = [delivery EXCEPT !.step = "begin", !.sealed = document.binding[delivery.target]]
    <3>1. PICK sealed : sealed = document.binding[delivery.target]
      OBVIOUS
    <3>2. delivery' = [step |-> "begin", source |-> delivery.source, target |-> delivery.target,
                       origins |-> delivery.origins, from |-> delivery.from, sealed |-> sealed,
                       before |-> delivery.before, found |-> delivery.found]
      BY <2>1, <2>3, <3>1 DEF EntriesInv, EntriesTypes
    <3>3. EntriesTypes' /\ DeliveryInv'
      BY <2>1, <3>2 DEF EntriesInv, EntriesTypes, DeliveryInv, Checking
    <3> QED
      BY <1>7, <2>1, <3>3
  <2> QED
    BY <1>17, <2>2, <2>3 DEF E!Seal
<1>18. CASE E!RefuseChoice
  <2>1. UNCHANGED <<document, setting>> /\ delivery'.step = "none"
    BY <1>18 DEF E!RefuseChoice, E!NoDelivery
  <2>2. EntriesTypes' /\ DeliveryInv'
    BY <2>1 DEF EntriesInv, EntriesTypes, DeliveryInv, Checking
  <2> QED
    BY <1>7, <2>1, <2>2
<1>11. CASE E!CheckSource
  BY <1>10, <1>11 DEF E!CheckSource, FoundSource, Checking
<1>12. CASE E!CheckTarget
  <2>1. PICK found : found = document.binding[delivery.target]
    OBVIOUS
  <2>2. /\ delivery.step = "target" /\ UNCHANGED <<document, setting>>
        /\ E!Bound(document, delivery.target)
        /\ found.user = delivery.from.user /\ found.initiates
        /\ delivery.source = delivery.target \/ delivery.source \in found.reads
        /\ delivery' = [delivery EXCEPT !.step = "contact", !.found = found]
    BY <1>12, <2>1 DEF E!CheckTarget
  <2>3. delivery' = [step |-> "contact", source |-> delivery.source, target |-> delivery.target,
                     origins |-> delivery.origins, from |-> delivery.from, sealed |-> delivery.sealed,
                     before |-> delivery.before, found |-> found]
    BY <2>2 DEF EntriesInv, EntriesTypes
  <2>4. EntriesTypes'
    BY <2>2, <2>3 DEF EntriesInv, EntriesTypes
  <2>5. FoundTarget'
    BY <2>1, <2>2, <2>3 DEF FoundTarget, E!Bound, E!Available
  <2>6. FoundSource => FoundSource'
    BY <2>2, <2>3 DEF FoundSource, E!Bound, E!Available
  <2>7. DeliveryInv'
    BY <2>2, <2>3, <2>5, <2>6 DEF DeliveryInv, EntriesInv, Checking
  <2> QED
    BY <1>7, <2>2, <2>4, <2>7
<1>13. CASE E!CheckContact
  <2>1. DeliveryInv /\ delivery.step = "contact"
    BY <1>13 DEF E!CheckContact, EntriesInv
  <2> QED
    BY <1>10, <1>13, <2>1 DEF E!CheckContact, DeliveryInv, Checking
<1>14. CASE E!CheckOrigins
  <2>1. DeliveryInv /\ delivery.step = "origins"
    BY <1>14 DEF E!CheckOrigins, EntriesInv
  <2> QED
    BY <1>10, <1>14, <2>1 DEF E!CheckOrigins, DeliveryInv, FoundOrigins, Checking
<1>15. CASE E!Compare
  BY <1>10, <1>15 DEF E!Compare, Checking
<1>16. CASE E!Refuse
  <2>1. PICK before, found :
          delivery' = [delivery EXCEPT !.step = "begin", !.before = before, !.found = found]
    BY <1>16 DEF E!Refuse
  <2>2. delivery.step # "none" /\ UNCHANGED <<document, setting>>
    BY <1>16 DEF E!Refuse
  <2>3. delivery' = [step |-> "begin", source |-> delivery.source, target |-> delivery.target,
                     origins |-> delivery.origins, from |-> delivery.from, sealed |-> delivery.sealed,
                     before |-> before, found |-> found]
    BY <2>1, <2>2 DEF EntriesInv, EntriesTypes
  <2>4. EntriesTypes' /\ DeliveryInv'
    BY <2>2, <2>3 DEF EntriesInv, EntriesTypes, DeliveryInv, Checking
  <2> QED
    BY <1>7, <2>2, <2>4
<1> QED
  BY <1>1, <1>2, <1>3, <1>4, <1>5, <1>6, <1>8, <1>9, <1>11, <1>12, <1>13, <1>14, <1>15, <1>16,
     <1>17, <1>18
     DEF E!ENext, E!SeeBinding, E!SeePause, E!SeeHandoff

LEMMA EntriesInvariance == SSpec => []EntriesInv
<1>1. SInit => EntriesInv
  <2> SUFFICES ASSUME E!EInit PROVE EntriesInv
    BY DEF SInit
  <2>1. PICK attachment, binding :
          document = [revision |-> 0, charge |-> E!NoHost, attachment |-> attachment,
                      binding |-> binding, paused |-> {}]
    BY DEF E!EInit, E!Empty
  <2>2. setting.step = "idle" /\ delivery.step = "none"
    BY DEF E!EInit, E!NoSetting, E!NoDelivery
  <2> QED
    BY <2>1, <2>2 DEF EntriesInv, EntriesTypes, SettingInv, DeliveryInv, Checking
<1>2. EntriesInv /\ [SNext]_<<focus, vars, mvars, evars>> => EntriesInv'
  <2> SUFFICES ASSUME EntriesInv, [SNext]_<<focus, vars, mvars, evars>>
               PROVE  EntriesInv'
    OBVIOUS
  <2>1. CASE UNCHANGED evars
    <3>1. UNCHANGED <<document, setting, delivery>>
      BY <2>1 DEF evars
    <3>2. EntriesTypes'
      BY <3>1 DEF EntriesInv, EntriesTypes
    <3> QED
      BY <3>1, <3>2, SettingRests, DeliveryRests DEF EntriesInv
  <2>2. CASE E!ENext
    BY <2>2, EntriesStep
  <2> QED
    BY <2>1, <2>2 DEF SNext, Interact, Remember, Enter
<1> QED
  BY <1>1, <1>2, PTL DEF SSpec

\* A message goes out only if all that permits it held in one and the same document, though each
\* was asked of a document read anew (authorize, recheck).
THEOREM MessagesArePermitted == SSpec => SentAsPermitted
<1>1. EntriesInv /\ [SNext]_<<focus, vars, mvars, evars>> =>
        [delivery.step = "compare" /\ delivery'.step = "sent" =>
           E!Permitted(delivery, document)]_<<document, setting, delivery>>
  <2> SUFFICES ASSUME EntriesInv, [SNext]_<<focus, vars, mvars, evars>>,
                      delivery.step = "compare", delivery'.step = "sent"
               PROVE  E!Permitted(delivery, document)
    OBVIOUS
  <2>1. E!ENext
    BY DEF SNext, Interact, Remember, Enter, evars
  <2>2. delivery.before = document
    <3>1. (E!Refuse => delivery'.step = "begin") /\ ~ E!Seal /\ ~ E!RefuseChoice
      BY DEF E!Refuse, E!Seal, E!RefuseChoice, EntriesInv, EntriesTypes
    <3>2. UNCHANGED delivery => FALSE
      OBVIOUS
    <3>3. ~ E!Begin /\ ~ E!CheckSource /\ ~ E!CheckTarget /\ ~ E!CheckContact /\ ~ E!CheckOrigins
      BY DEF E!Begin, E!CheckSource, E!CheckTarget, E!CheckContact, E!CheckOrigins
    <3>4. \A source, target, origins : ~ E!Choose(source, target, origins)
      BY DEF E!Choose, E!NoDelivery
    <3>5. /\ \A a, host, state : ~ E!Register(a, host, state)
          /\ \A a : ~ E!Disable(a)
          /\ \A what : ~ E!See(what)
          /\ ~ E!CheckSetting /\ ~ E!WriteSetting /\ ~ E!Abandon
      BY <3>2 DEF E!Register, E!Disable, E!See, E!CheckSetting, E!WriteSetting, E!Abandon
    <3>6. E!Compare
      BY <2>1, <3>1, <3>3, <3>4, <3>5 DEF E!ENext, E!SeeBinding, E!SeePause, E!SeeHandoff
    <3> QED
      BY <3>6 DEF E!Compare, E!UnchangedSince
  <2>3. FoundSource /\ FoundTarget /\ FoundOrigins /\ delivery.found.user \notin document.paused
    BY <2>2 DEF EntriesInv, DeliveryInv, Checking
  <2>4. E!Transfers(document, delivery.source, delivery.target)
    BY <2>3 DEF FoundSource, FoundTarget, E!Transfers
  <2> QED
    BY <2>3, <2>4 DEF FoundSource, FoundTarget, FoundOrigins, E!Permitted
<1> QED
  BY <1>1, EntriesInvariance, PTL DEF SSpec, SentAsPermitted, E!SentAsPermitted, E!evars

\* A setting that is written was decided on the document it is written to (configure, pause,
\* handoff, transact).
THEOREM SettingsAreCurrent == SSpec => DecidedOnCurrent
<1> DEFINE Current(what) ==
             /\ what.kind = "bind" => E!Available(document, what.binding.use)
             /\ what.kind = "pause" => document.binding[what.entry].user = what.user
             /\ what.kind = "handoff" => document.charge = what.charge
<1>1. EntriesInv /\ [SNext]_<<focus, vars, mvars, evars>> =>
        [setting # E!NoSetting /\ document' # document /\ setting' = E!NoSetting =>
           Current(setting.what)]_<<document, setting, delivery>>
  <2> SUFFICES ASSUME EntriesInv, [SNext]_<<focus, vars, mvars, evars>>,
                      setting # E!NoSetting, document' # document, setting' = E!NoSetting
               PROVE  Current(setting.what)
    OBVIOUS
  <2>1. E!ENext
    BY DEF SNext, Interact, Remember, Enter, evars
  <2>2. E!WriteSetting
    BY <2>1 DEF E!ENext, E!Register, E!Disable, E!See, E!SeeBinding, E!SeePause, E!SeeHandoff,
                E!CheckSetting, E!Abandon, E!Choose, E!Seal, E!RefuseChoice, E!Begin, E!CheckSource, E!CheckTarget,
                E!CheckContact, E!CheckOrigins, E!Compare, E!Refuse
  <2>3. setting.step = "write" /\ setting.revision = document.revision
    BY <2>2 DEF E!WriteSetting, E!Transacts
  <2> QED
    BY <2>3 DEF EntriesInv, SettingInv
<1> QED
  BY <1>1, EntriesInvariance, PTL DEF SSpec, DecidedOnCurrent, E!DecidedOnCurrent, E!evars

-----------------------------------------------------------------------------
(* Memory.                                                                 *)

HasStatus(v) == "status" \in DOMAIN v

IsSummary(v) == HasStatus(v) /\ "sources" \in DOMAIN v /\ v.sources \subseteq Ids

IsWrite(w) ==
  /\ \A m \in DOMAIN w.memories : HasStatus(w.memories[m])
  /\ \A s \in DOMAIN w.summaries : IsSummary(w.summaries[s])

Planned(todo) == \E W : todo \in Seq(W) /\ \A w \in W : IsWrite(w)

MemoryTypes ==
  /\ \A m \in Ids : memory[m] # M!NoMemory => HasStatus(memory[m])
  /\ \A s \in SummaryIds : IsSummary(summary[s])
  /\ job = [c \in M!Callers |-> job[c]]
  /\ \A c \in M!Callers : Planned(job[c])

MemoryInv == MemoryTypes /\ SummariesStand

\* What a call plans to write.
LEMMA OnePlanned ==
  ASSUME NEW w, IsWrite(w)
  PROVE  Planned(<<w>>)
<1>1. PICK W : W = {w}
  OBVIOUS
<1>2. <<w>> \in Seq(W)
  BY <1>1
<1> QED
  BY <1>1, <1>2 DEF Planned

LEMMA NothingIsPlanned == Planned(<< >>)
<1>1. PICK nothing, none : nothing = << >> /\ none = {} /\ nothing \in Seq(none)
  BY EmptySeq
<1> QED
  BY <1>1 DEF Planned

LEMMA TwoPlanned ==
  ASSUME NEW v, NEW w, IsWrite(v), IsWrite(w)
  PROVE  Planned(<<v, w>>)
<1>1. PICK W : W = {v, w}
  OBVIOUS
<1>2. <<v, w>> \in Seq(W)
  BY <1>1
<1> QED
  BY <1>1, <1>2 DEF Planned

LEMMA MemoryPlanned ==
  ASSUME NEW m, NEW v, HasStatus(v), NEW w,
         \/ w = [M!NothingToWrite EXCEPT !.memories = [n \in {m} |-> v]]
         \/ \E c : w = M!Consolidated(c, m, v)
  PROVE  IsWrite(w)
<1>1. PICK memories, none : memories = [n \in {m} |-> v] /\ none = << >>
  OBVIOUS
<1>2. /\ DOMAIN memories = {m} /\ memories[m] = v /\ DOMAIN none = {}
  BY <1>1
<1>3. PICK written : w = [memories |-> memories, receipts |-> written, summaries |-> none]
  BY <1>1 DEF M!NothingToWrite, M!Consolidated
<1> QED
  BY <1>2, <1>3 DEF IsWrite

LEMMA SummaryPlanned ==
  ASSUME NEW s, NEW v, IsSummary(v), NEW w,
         w = [M!NothingToWrite EXCEPT !.summaries = [t \in {s} |-> v]]
  PROVE  IsWrite(w)
<1>1. PICK summaries, none : summaries = [t \in {s} |-> v] /\ none = << >>
  OBVIOUS
<1>2. /\ DOMAIN summaries = {s} /\ summaries[s] = v /\ DOMAIN none = {}
  BY <1>1
<1>3. w = [memories |-> none, receipts |-> {}, summaries |-> summaries]
  BY <1>1 DEF M!NothingToWrite
<1> QED
  BY <1>2, <1>3 DEF IsWrite

\* A version that follows one has what that one has.
LEMMA NextHasStatus ==
  ASSUME NEW v, HasStatus(v)
  PROVE  HasStatus(M!Next1(v)) /\ M!Next1(v).status = v.status
  BY DEF HasStatus, M!Next1

LEMMA RetiredIsSummary ==
  ASSUME NEW v, IsSummary(v), NEW status
  PROVE  IsSummary(M!Retired(v, status)) /\ M!Retired(v, status).status = status
  BY DEF HasStatus, IsSummary, M!Retired

LEMMA PartsOfWrite ==
  ASSUME NEW w, NEW memories, NEW given, NEW summaries,
         w = [memories |-> memories, receipts |-> given, summaries |-> summaries]
  PROVE  w.memories = memories /\ w.summaries = summaries
  OBVIOUS

\* A write of memories whose sources are bound.
LEMMA BoundWritten ==
  ASSUME NEW w, NEW bound, bound = M!BoundWrite(w)
  PROVE  /\ DOMAIN bound.memories = DOMAIN w.memories
         /\ \A m \in DOMAIN w.memories : bound.memories[m] = M!BoundNow(w.memories[m])
         /\ DOMAIN bound.summaries = {}
<1>1. PICK memories, none : /\ memories = [m \in DOMAIN w.memories |-> M!BoundNow(w.memories[m])]
                            /\ none = << >>
  OBVIOUS
<1>2. DOMAIN none = {}
  BY <1>1
<1>3. bound = [memories |-> memories, receipts |-> w.receipts, summaries |-> none]
  BY <1>1 DEF M!BoundWrite, M!NothingToWrite
<1>4. bound.memories = memories /\ bound.summaries = none
  BY <1>3
<1> QED
  BY <1>1, <1>2, <1>4

LEMMA BoundIsWrite ==
  ASSUME NEW w, IsWrite(w), NEW bound, bound = M!BoundWrite(w)
  PROVE  IsWrite(bound)
<1>1. \A v : HasStatus(v) => HasStatus(M!BoundNow(v))
  BY DEF HasStatus, M!BoundNow
<1> QED
  BY <1>1, BoundWritten DEF IsWrite

\* What a write makes of one memory and of the summaries drawn from it.
Both(m, v, drawn) ==
  [M!NothingToWrite EXCEPT
     !.memories = [n \in {m} |-> v],
     !.summaries = [s \in drawn |-> M!Retired(summary[s], "INVALIDATED")]]

Carries(w, m, v, drawn) ==
  /\ IsWrite(w)
  /\ DOMAIN w.memories = {m} /\ w.memories[m] = v
  /\ DOMAIN w.summaries = drawn
  /\ \A s \in drawn : w.summaries[s] = M!Retired(summary[s], "INVALIDATED")

LEMMA BothPlanned ==
  ASSUME MemoryTypes, NEW m, NEW v, HasStatus(v), NEW drawn \in SUBSET SummaryIds,
         NEW w, w = Both(m, v, drawn)
  PROVE  Carries(w, m, v, drawn)
<1>1. PICK memories, summaries :
        /\ memories = [n \in {m} |-> v]
        /\ summaries = [s \in drawn |-> M!Retired(summary[s], "INVALIDATED")]
  OBVIOUS
<1>2. /\ DOMAIN memories = {m} /\ memories[m] = v /\ DOMAIN summaries = drawn
      /\ \A s \in drawn : summaries[s] = M!Retired(summary[s], "INVALIDATED")
  BY <1>1
<1>3. \A s \in drawn : IsSummary(summaries[s])
  BY <1>1, RetiredIsSummary DEF MemoryTypes
<1>4. w = [memories |-> memories, receipts |-> {}, summaries |-> summaries]
  BY <1>1 DEF M!NothingToWrite, Both
<1>5. w.memories = memories /\ w.summaries = summaries
  BY <1>4, PartsOfWrite, Zenon
<1>6. IsWrite(w)
  BY <1>2, <1>3, <1>5 DEF IsWrite
<1> QED
  BY <1>2, <1>5, <1>6 DEF Carries

\* What is committed has the fields it needs.
LEMMA CommitTyped ==
  ASSUME MemoryInv, NEW w, IsWrite(w), M!Commit(w), job' = [c \in M!Callers |-> job'[c]],
         (\A c \in M!Callers : Planned(job[c]))', SummariesStand'
  PROVE  MemoryInv'
<1>1. /\ \A m \in Ids : memory'[m] = IF m \in DOMAIN w.memories THEN w.memories[m] ELSE memory[m]
      /\ \A s \in SummaryIds :
           summary'[s] = IF s \in DOMAIN w.summaries THEN w.summaries[s] ELSE summary[s]
  BY DEF M!Commit, M!After
<1>2. \A m \in Ids : memory'[m] # M!NoMemory => HasStatus(memory'[m])
  BY <1>1 DEF IsWrite, MemoryInv, MemoryTypes
<1>3. \A s \in SummaryIds : IsSummary(summary'[s])
  BY <1>1 DEF IsWrite, MemoryInv, MemoryTypes
<1> QED
  BY <1>2, <1>3 DEF MemoryInv, MemoryTypes, HasStatus, IsSummary

LEMMA MemoryStep == MemoryInv /\ M!MNext => MemoryInv'
<1> SUFFICES ASSUME MemoryInv, M!MNext
             PROVE  MemoryInv'
  OBVIOUS
<1>0. ASSUME NEW caller \in M!Callers, NEW todo, Planned(todo),
             job' = [job EXCEPT ![caller] = todo], UNCHANGED <<memory, summary>>
      PROVE  MemoryInv'
  <2>1. job' = [job EXCEPT ![caller] = todo] /\ UNCHANGED <<memory, summary>>
    BY <1>0
  <2>2. MemoryTypes'
    BY <1>0, <2>1 DEF MemoryInv, MemoryTypes, HasStatus, IsSummary, Planned, IsWrite
  <2>3. SummariesStand'
    BY <2>1 DEF MemoryInv, SummariesStand, M!SummariesStand
  <2> QED
    BY <2>2, <2>3 DEF MemoryInv
<1>1. ASSUME NEW caller \in M!Callers, NEW todo, Planned(todo),
             M!Starts(caller, todo) \/ M!Plans(caller, todo)
      PROVE  MemoryInv'
  <2>1. job' = [job EXCEPT ![caller] = todo] /\ UNCHANGED <<memory, summary>>
    BY <1>1 DEF M!Starts, M!Plans
  <2> QED
    BY <1>0, <1>1, <2>1
<1>2. \A m \in M!Known : HasStatus(memory[m])
  BY DEF MemoryInv, MemoryTypes, M!Known
<1>3. "core" \in M!Callers
  BY DEF M!Callers
<1>4. ASSUME NEW c \in Candidates, M!Consolidate(c)
      PROVE  MemoryInv'
  <2>1. M!Plans("core", << >>) \/ \E m, v : HasStatus(v) /\ M!Plans("core", <<M!Consolidated(c, m, v)>>)
    <3>1. CASE \E m \in M!Known : M!Plans("core", <<M!Consolidated(c, m, memory[m])>>)
      BY <1>2, <3>1
    <3>2. CASE \E m \in M!Known, cold \in BOOLEAN :
                 M!Plans("core", <<M!Consolidated(c, m, M!Merged(c, m, cold))>>)
      <4>1. ASSUME NEW m \in M!Known, NEW cold
            PROVE  HasStatus(M!Merged(c, m, cold))
        BY <1>2, NextHasStatus DEF M!Merged, HasStatus
      <4> QED
        BY <3>2, <4>1
    <3>3. CASE \E cold \in BOOLEAN : M!Plans("core", <<M!Consolidated(c, c.id, M!Created(c, cold))>>)
      BY <3>3 DEF M!Created, HasStatus
    <3> QED
      BY <1>4, <3>1, <3>2, <3>3 DEF M!Consolidate, M!Listed
  <2>2. Planned(<< >>)
    BY NothingIsPlanned
  <2> QED
    BY <1>1, <1>3, <2>1, <2>2, OnePlanned, MemoryPlanned
<1>5. CASE M!Recalculate
  <2>0. PICK changed \in SUBSET M!Listed :
          \E cold \in [changed -> BOOLEAN] :
            /\ changed # {}
            /\ \E order \in M!SetToSeqs(changed) :
                 M!Starts("core", [i \in DOMAIN order |->
                      [M!NothingToWrite EXCEPT !.memories =
                         [m \in {order[i]} |-> [M!Next1(memory[m]) EXCEPT !.cold = cold[m]]]]])
    BY <1>5 DEF M!Recalculate
  <2>1. PICK cold, order, todo :
          /\ order \in M!SetToSeqs(changed)
          /\ todo = [i \in DOMAIN order |->
                      [M!NothingToWrite EXCEPT !.memories =
                         [m \in {order[i]} |-> [M!Next1(memory[m]) EXCEPT !.cold = cold[m]]]]]
          /\ M!Starts("core", todo)
    BY <2>0, Zenon
  <2>2. changed \subseteq M!Known /\ M!Known \subseteq Ids
    BY <2>1 DEF M!Listed, M!Known
  <2>3. PICK count : count = M!Cardinality(changed) /\ count \in Nat
    <3>1. IsFiniteSet(changed)
      BY <2>2, MemoryAssumption, FS_Subset
    <3> QED
      BY <3>1, FS_CardinalityType DEF Cardinality, M!Cardinality
  <2>4. order \in [1..count -> changed]
    BY <2>1, <2>3 DEF M!SetToSeqs
  <2>5. ASSUME NEW i \in 1..count
        PROVE  IsWrite(todo[i])
    <3>1. PICK m, v : m = order[i] /\ v = [M!Next1(memory[m]) EXCEPT !.cold = cold[m]]
      OBVIOUS
    <3>2. HasStatus(v)
      <4>1. HasStatus(M!Next1(memory[m]))
        BY <1>2, <2>2, <2>4, <3>1, NextHasStatus
      <4> QED
        BY <3>1, <4>1 DEF HasStatus
    <3>3. todo[i] = [M!NothingToWrite EXCEPT !.memories =
                       [n \in {m} |-> [M!Next1(memory[n]) EXCEPT !.cold = cold[n]]]]
      BY <2>1, <2>4, <3>1
    <3>4. [n \in {m} |-> [M!Next1(memory[n]) EXCEPT !.cold = cold[n]]] = [n \in {m} |-> v]
      BY <3>1
    <3>5. todo[i] = [M!NothingToWrite EXCEPT !.memories = [n \in {m} |-> v]]
      BY <3>3, <3>4, Zenon
    <3>6. \/ todo[i] = [M!NothingToWrite EXCEPT !.memories = [n \in {m} |-> v]]
          \/ \E c : todo[i] = M!Consolidated(c, m, v)
      BY <3>5
    <3>7. PICK w : w = todo[i]
      OBVIOUS
    <3>8. IsWrite(w)
      BY <3>2, <3>6, <3>7, MemoryPlanned
    <3> QED
      BY <3>7, <3>8
  <2>6. PICK W : W = {todo[i] : i \in 1..count}
    OBVIOUS
  <2>7. todo \in Seq(W)
    <3>1. todo \in [1..count -> W]
      BY <2>1, <2>4, <2>6
    <3> QED
      BY <2>3, <3>1
  <2>8. Planned(todo)
    BY <2>5, <2>6, <2>7 DEF Planned
  <2> QED
    BY <1>1, <1>3, <2>1, <2>8
<1>6. ASSUME NEW m \in Ids, NEW signal, M!Propagate(m, signal)
      PROVE  MemoryInv'
  <2>1. PICK v, drawn, w :
          /\ v = [M!Next1(memory[m]) EXCEPT !.status = signal] /\ drawn \in SUBSET SummaryIds
          /\ w = [M!NothingToWrite EXCEPT
                    !.memories = [n \in {m} |-> v],
                    !.summaries = [s \in drawn |-> M!Retired(summary[s], "INVALIDATED")]]
          /\ memory[m] # M!NoMemory /\ M!Starts("core", <<w>>)
    BY <1>6 DEF M!Propagate
  <2>2. HasStatus(v)
    <3>1. HasStatus(M!Next1(memory[m]))
      BY <2>1, NextHasStatus DEF MemoryInv, MemoryTypes
    <3> QED
      BY <2>1, <3>1 DEF HasStatus
  <2>3. IsWrite(w)
    <3>1. MemoryTypes
      BY DEF MemoryInv
    <3>2. /\ drawn \in SUBSET SummaryIds
          /\ w = [M!NothingToWrite EXCEPT
                    !.memories = [n \in {m} |-> v],
                    !.summaries = [s \in drawn |-> M!Retired(summary[s], "INVALIDATED")]]
      BY <2>1, Zenon
    <3>3. HasStatus(v)
      BY <2>2
    <3>4. drawn \in SUBSET SummaryIds
      BY <3>2
    <3>5. w = Both(m, v, drawn)
      BY <3>2, Zenon DEF Both
    <3>6. Carries(w, m, v, drawn)
      BY <3>1, <3>3, <3>4, <3>5, BothPlanned, Zenon
    <3> QED
      BY <3>6 DEF Carries
  <2> QED
    BY <1>1, <1>3, <2>1, <2>3, OnePlanned
<1>7. ASSUME NEW caller \in M!Callers, NEW s \in SummaryIds, NEW sources \in SUBSET Ids,
             M!Summarise(caller, s, sources)
      PROVE  MemoryInv'
  <2>1. PICK superseded, next, first, second, only :
          /\ superseded = M!Retired(summary[s], "SUPERSEDED")
          /\ next = M!Version(superseded, "ACTIVE", sources)
          /\ first = [M!NothingToWrite EXCEPT !.summaries = [t \in {s} |-> superseded]]
          /\ second = [M!NothingToWrite EXCEPT !.summaries = [t \in {s} |-> next]]
          /\ only = [M!NothingToWrite EXCEPT !.summaries =
                       [t \in {s} |-> M!Version(summary[s], "ACTIVE", sources)]]
    OBVIOUS
  <2>2. M!Starts(caller, <<first, second>>) \/ M!Starts(caller, <<only>>)
    BY <1>7, <2>1 DEF M!Summarise
  <2>3. \A v : IsSummary(M!Version(v, "ACTIVE", sources))
    BY DEF M!Version, HasStatus, IsSummary
  <2>4. IsSummary(superseded)
    BY <2>1, RetiredIsSummary DEF MemoryInv, MemoryTypes
  <2>5. IsWrite(first) /\ IsWrite(second) /\ IsWrite(only)
    BY <2>1, <2>3, <2>4, SummaryPlanned
  <2> QED
    BY <1>1, <2>2, <2>5, OnePlanned, TwoPlanned
<1>8. ASSUME NEW caller \in M!Callers, M!Write(caller)
      PROVE  MemoryInv'
  <2>1. PICK todo, W : /\ todo = job[caller] /\ todo # << >> /\ todo \in Seq(W)
                       /\ \A w \in W : IsWrite(w)
    BY <1>8 DEF M!Write, MemoryInv, MemoryTypes, Planned
  <2>2. PICK w, rest : w = Head(todo) /\ rest = Tail(todo)
    OBVIOUS
  <2>3. IsWrite(w) /\ Planned(rest) /\ Planned(<< >>)
    <3>1. w \in W /\ rest \in Seq(W) /\ << >> \in Seq(W)
      BY <2>1, <2>2
    <3> QED
      BY <2>1, <3>1 DEF Planned
  <2>4. CASE M!Accepted(w) /\ M!Commit(w) /\ job' = [job EXCEPT ![caller] = rest]
    <3>1. (\A c \in M!Callers : Planned(job[c]))' /\ job' = [c \in M!Callers |-> job'[c]]
      BY <2>3, <2>4 DEF MemoryInv, MemoryTypes, Planned, IsWrite, HasStatus, IsSummary
    <3>2. SummariesStand'
      <4>1. M!Loads(memory', summary')
        BY <2>4 DEF M!Accepted, M!Commit
      <4> QED
        BY <4>1 DEF M!Loads, SummariesStand, M!SummariesStand
    <3> QED
      BY <2>3, <2>4, <3>1, <3>2, CommitTyped
  <2>5. CASE job' = [job EXCEPT ![caller] = << >>] /\ UNCHANGED <<memory, summary>>
    BY <2>3, <2>5 DEF MemoryInv, MemoryTypes, HasStatus, IsSummary, Planned, IsWrite, SummariesStand,
                      M!SummariesStand
  <2> QED
    BY <1>8, <2>1, <2>2, <2>4, <2>5 DEF M!Write
<1>9. ASSUME NEW m \in Ids, NEW action \in M!Actions, M!Command(m, action)
      PROVE  MemoryInv'
  <2>1. PICK v, drawn, w :
          /\ v \in M!Commanded(m, action) /\ drawn \in SUBSET SummaryIds
          /\ w = [M!NothingToWrite EXCEPT
                    !.memories = [n \in {m} |-> v],
                    !.summaries = [s \in drawn |-> M!Retired(summary[s], "INVALIDATED")]]
          /\ memory[m] # M!NoMemory /\ M!Commit(w) /\ UNCHANGED job
    BY <1>9 DEF M!Command
  <2>2. HasStatus(v) /\ v.status = "ACTIVE"
    <3>1. PICK before : before = M!Next1(memory[m])
      OBVIOUS
    <3>2. /\ memory[m].status = "ACTIVE"
          /\ \/ \E lifecycle : v = [before EXCEPT !.lifecycle = lifecycle]
             \/ \E lifecycle, weight : v = [before EXCEPT !.lifecycle = lifecycle, !.weight = weight]
      BY <2>1, <3>1 DEF M!Commanded, M!Terminal
    <3>3. HasStatus(before) /\ before.status = "ACTIVE"
      BY <2>1, <3>1, <3>2, NextHasStatus DEF MemoryInv, MemoryTypes
    <3> QED
      BY <3>2, <3>3 DEF HasStatus
  <2>3. /\ IsWrite(w)
        /\ DOMAIN w.memories = {m} /\ w.memories[m] = v
        /\ DOMAIN w.summaries = drawn
        /\ \A s \in drawn : w.summaries[s] = M!Retired(summary[s], "INVALIDATED")
    <3>1. MemoryTypes
      BY DEF MemoryInv
    <3>2. /\ drawn \in SUBSET SummaryIds
          /\ w = [M!NothingToWrite EXCEPT
                    !.memories = [n \in {m} |-> v],
                    !.summaries = [s \in drawn |-> M!Retired(summary[s], "INVALIDATED")]]
      BY <2>1, Zenon
    <3>3. HasStatus(v)
      BY <2>2
    <3>4. drawn \in SUBSET SummaryIds
      BY <3>2
    <3>5. w = Both(m, v, drawn)
      BY <3>2, Zenon DEF Both
    <3>6. Carries(w, m, v, drawn)
      BY <3>1, <3>3, <3>4, <3>5, BothPlanned, Zenon
    <3> QED
      BY <3>6 DEF Carries
  <2>4. (\A c \in M!Callers : Planned(job[c]))' /\ job' = [c \in M!Callers |-> job'[c]]
    BY <2>1 DEF MemoryInv, MemoryTypes, Planned, IsWrite, HasStatus, IsSummary
  <2>5. SummariesStand'
    <3> SUFFICES ASSUME NEW s \in SummaryIds, summary'[s].status = "ACTIVE", NEW n \in summary'[s].sources
                 PROVE  memory'[n] # M!NoMemory /\ memory'[n].status = "ACTIVE"
      BY DEF SummariesStand, M!SummariesStand
    <3>1. summary'[s] = IF s \in drawn THEN M!Retired(summary[s], "INVALIDATED") ELSE summary[s]
      BY <2>1, <2>3 DEF M!Commit, M!After
    <3>2. summary'[s] = summary[s]
      BY <3>1, RetiredIsSummary DEF MemoryInv, MemoryTypes
    <3>3. memory[n] # M!NoMemory /\ memory[n].status = "ACTIVE"
      BY <3>2 DEF MemoryInv, SummariesStand, M!SummariesStand
    <3>4. ASSUME n \in Ids
          PROVE  memory'[n] = IF n = m THEN v ELSE memory[n]
      BY <2>1, <2>3, <3>4 DEF M!Commit, M!After
    <3>5. v # M!NoMemory
      BY <2>2 DEF HasStatus, M!NoMemory
    <3>6. n \in Ids
      BY <3>2 DEF MemoryInv, MemoryTypes, IsSummary
    <3> QED
      BY <2>2, <3>3, <3>4, <3>5, <3>6
  <2> QED
    BY <2>1, <2>3, <2>4, <2>5, CommitTyped
<1>10. ASSUME NEW e \in Events, M!Reconsider(e)
       PROVE  MemoryInv'
  BY <1>10 DEF M!Reconsider, MemoryInv, MemoryTypes, HasStatus, IsSummary, Planned, IsWrite, SummariesStand,
               M!SummariesStand
<1>11. ASSUME NEW c \in Candidates, M!Consider(c)
       PROVE  MemoryInv'
  BY <1>11 DEF M!Consider, MemoryInv, MemoryTypes, HasStatus, IsSummary, Planned, IsWrite, SummariesStand,
               M!SummariesStand
<1>12. CASE M!Bind
  <2>1. PICK todo, W : /\ todo = job["core"] /\ todo # << >> /\ todo \in Seq(W)
                       /\ \A w \in W : IsWrite(w)
    BY <1>3, <1>12 DEF M!Bind, MemoryInv, MemoryTypes, Planned
  <2>2. PICK w, bound : w = Head(todo) /\ bound = M!BoundWrite(w)
    OBVIOUS
  <2>3. IsWrite(w)
    BY <2>1, <2>2
  <2>4. IsWrite(bound)
    BY <2>2, <2>3, BoundIsWrite
  <2>5. /\ job' = [job EXCEPT !["core"] = <<bound>>] \/ job' = [job EXCEPT !["core"] = << >>]
        /\ UNCHANGED <<memory, summary>>
    BY <1>12, <2>1, <2>2 DEF M!Bind
  <2> QED
    BY <1>0, <1>3, <2>4, <2>5, OnePlanned, NothingIsPlanned
<1> QED
  BY <1>4, <1>5, <1>6, <1>7, <1>8, <1>9, <1>10, <1>11, <1>12 DEF M!MNext

LEMMA MemoryInvariance == SSpec => []MemoryInv
<1>1. SInit => MemoryInv
  <2> SUFFICES ASSUME M!MInit PROVE MemoryInv
    BY DEF SInit
  <2>1. \A s \in SummaryIds : summary[s] = M!NoSummary
    BY DEF M!MInit
  <2>2. IsSummary(M!NoSummary) /\ M!NoSummary.status = "NONE"
    BY DEF HasStatus, IsSummary, M!NoSummary
  <2>3. PICK nothing, none : nothing = << >> /\ none = {} /\ nothing \in Seq(none)
    BY EmptySeq
  <2>4. Planned(nothing)
    BY <2>3 DEF Planned
  <2> QED
    BY <2>1, <2>2, <2>3, <2>4 DEF M!MInit, MemoryInv, MemoryTypes, SummariesStand, M!SummariesStand
<1>2. MemoryInv /\ [SNext]_<<focus, vars, mvars, evars>> => MemoryInv'
  <2> SUFFICES ASSUME MemoryInv, [SNext]_<<focus, vars, mvars, evars>>
               PROVE  MemoryInv'
    OBVIOUS
  <2>1. CASE UNCHANGED mvars
    BY <2>1 DEF mvars, MemoryInv, MemoryTypes, HasStatus, IsSummary, Planned, IsWrite, SummariesStand,
                M!SummariesStand
  <2>2. CASE M!MNext
    BY <2>2, MemoryStep
  <2> QED
    BY <2>1, <2>2 DEF SNext, Interact, Remember, Enter
<1> QED
  BY <1>1, <1>2, PTL DEF SSpec

\* A summary that is active rests on memories none of which was corrected or revoked, though what
\* it was drawn from was read before (save_summary, _validate_document).
THEOREM SummariesAreCurrent == SSpec => []SummariesStand
<1>1. MemoryInv => SummariesStand
  BY DEF MemoryInv
<1> QED
  BY <1>1, MemoryInvariance, PTL

\* What was deleted, corrected or revoked stays so, whatever was decided before
\* (commit_memory, _validate_append, execute).
THEOREM EndedMemoriesStay == SSpec => TerminalIsLast
<1> DEFINE Stays == \A m \in Ids : memory[m] # M!NoMemory /\ M!Terminal(memory[m]) => memory'[m] = memory[m]
<1>1. [SNext]_<<focus, vars, mvars, evars>> =>
        [Stays]_<<memory, receipts, summary, timeline, reading, unseen, job, writes>>
  <2> SUFFICES ASSUME SNext, NEW m \in Ids, memory[m] # M!NoMemory, M!Terminal(memory[m])
               PROVE  memory'[m] = memory[m]
    BY DEF mvars
  <2>1. CASE UNCHANGED memory
    BY <2>1
  <2>2. ASSUME NEW w, M!Accepted(w), M!Commit(w)
        PROVE  memory'[m] = memory[m]
    BY <2>2 DEF M!Accepted, M!MayAppend, M!Commit, M!After
  <2>3. ASSUME NEW n \in Ids, NEW action, M!Command(n, action)
        PROVE  memory'[m] = memory[m]
    <3>1. PICK v, drawn, w :
            /\ v \in M!Commanded(n, action)
            /\ w = [M!NothingToWrite EXCEPT
                      !.memories = [k \in {n} |-> v],
                      !.summaries = [s \in drawn |-> M!Retired(summary[s], "INVALIDATED")]]
            /\ M!Commit(w)
      BY <2>3 DEF M!Command
    <3>2. m # n
      BY <3>1 DEF M!Commanded
    <3>3. DOMAIN w.memories = {n}
      BY <3>1 DEF M!NothingToWrite
    <3> QED
      BY <3>1, <3>2, <3>3 DEF M!Commit, M!After
  <2> QED
    BY <2>1, <2>2, <2>3 DEF SNext, Interact, Remember, Enter, mvars, M!MNext, M!Consider, M!Consolidate,
                            M!Bind, M!Starts, M!Plans, M!Recalculate, M!Summarise, M!Propagate, M!Write,
                            M!Reconsider
<1> QED
  BY <1>1, PTL DEF SSpec, TerminalIsLast, M!TerminalIsLast, M!mvars

-----------------------------------------------------------------------------
(* One evidence, one content.                                              *)

Fields == {"status", "revision", "scope", "content", "roots", "sources"}

IsMemory(v) == Fields \subseteq DOMAIN v /\ v.revision \in Nat

Alone(v) == DOMAIN v.sources = {}

\* What a version says of which evidence, as the other does.
Same(v, u) ==
  /\ v.scope = u.scope /\ v.content = u.content /\ v.roots = u.roots
  /\ DOMAIN v.sources = DOMAIN u.sources

\* It contradicts only what was passed over, or what the version before it did.
Fits(m, v, passed) ==
  \A n \in M!Known \ {m} :
    M!Contrary(memory[n], v) =>
      n \in passed \/ (m \in M!Known /\ M!Contrary(memory[n], memory[m]))

\* Writes that say no more than what is there, or are refused.
Rewrites(w) ==
  \A m \in DOMAIN w.memories :
    /\ m \in M!Known /\ IsMemory(w.memories[m])
    /\ w.memories[m].revision = 0 \/ Same(w.memories[m], memory[m])

\* The write of a consolidation: no other call writes what it decided on.
Makes(w, passed) ==
  \E m : /\ DOMAIN w.memories = {m} /\ IsMemory(w.memories[m])
         /\ m \notin DOMAIN w.memories[m].sources
         /\ Fits(m, w.memories[m], passed)

Rewriting(todo) == \E W : todo \in Seq(W) /\ \A w \in W : Rewrites(w)

CorePlan(todo, passed) == Rewriting(todo) \/ \E w : todo = <<w>> /\ Makes(w, passed)

RecallPlan(todo) == \E W : todo \in Seq(W) /\ \A w \in W : DOMAIN w.memories = {}

Memories == \A m \in M!Known : IsMemory(memory[m]) /\ m \notin DOMAIN memory[m].sources

MeaningInv == Memories /\ CorePlan(job["core"], unseen) /\ RecallPlan(job["recall"])

\* What OneMeaning says of a step.
Meant ==
  \A m, n \in Ids :
    memory'[m] # M!NoMemory /\ memory'[n] # M!NoMemory /\ M!Contrary(memory'[m], memory'[n]) =>
      \/ memory[m] # M!NoMemory /\ memory[n] # M!NoMemory /\ M!Contrary(memory[m], memory[n])
      \/ {m, n} \cap unseen # {}

\* Memories take new versions that say what the last ones said.
Steady ==
  /\ M!Known' = M!Known
  /\ \A m \in M!Known : IsMemory(memory'[m]) /\ Same(memory'[m], memory[m])

LEMMA SameContrary ==
  ASSUME NEW v1, NEW v2, NEW u1, NEW u2, Same(v1, v2), Same(u1, u2)
  PROVE  M!Contrary(v1, u1) <=> M!Contrary(v2, u2)
BY DEF Same, M!Contrary, M!Overlap

LEMMA ContraryBothWays == \A v, u : M!Contrary(v, u) <=> M!Contrary(u, v)
BY DEF M!Contrary, M!Overlap

LEMMA PlansRest ==
  ASSUME NEW todo, NEW passed, CorePlan(todo, passed), Steady
  PROVE  CorePlan(todo, passed)'
<1>1. ASSUME NEW w, Makes(w, passed)
      PROVE  Makes(w, passed)'
  <2>1. PICK m : /\ DOMAIN w.memories = {m} /\ IsMemory(w.memories[m])
                 /\ m \notin DOMAIN w.memories[m].sources
                 /\ Fits(m, w.memories[m], passed)
    BY <1>1 DEF Makes
  <2>2. PICK v : v = w.memories[m]
    OBVIOUS
  <2>3. Same(v, v) /\ \A n \in M!Known : Same(memory'[n], memory[n])
    BY DEF Steady, Same
  <2>4. ASSUME NEW n \in M!Known' \ {m}, M!Contrary(memory'[n], v)
        PROVE  n \in passed \/ (m \in M!Known' /\ M!Contrary(memory'[n], memory'[m]))
    <3>1. n \in M!Known \ {m} /\ M!Contrary(memory[n], v)
      BY <2>3, <2>4, SameContrary DEF Steady
    <3>2. n \in passed \/ (m \in M!Known /\ M!Contrary(memory[n], memory[m]))
      BY <2>1, <2>2, <3>1 DEF Fits
    <3>3. m \in M!Known /\ M!Contrary(memory[n], memory[m]) =>
            m \in M!Known' /\ M!Contrary(memory'[n], memory'[m])
      BY <2>3, <3>1, SameContrary DEF Steady
    <3> QED
      BY <3>2, <3>3
  <2>5. Fits(m, w.memories[m], passed)'
    BY <2>2, <2>4 DEF Fits, M!Contrary, M!Overlap
  <2> QED
    BY <2>1, <2>5 DEF Makes, IsMemory
<1>2. ASSUME NEW w, Rewrites(w)
      PROVE  Rewrites(w)'
  BY <1>2 DEF Rewrites, Steady, Same, IsMemory
<1> QED
  BY <1>1, <1>2 DEF CorePlan, Rewriting

LEMMA SteadyMeant ==
  ASSUME Steady
  PROVE  Meant
<1> SUFFICES ASSUME NEW m \in Ids, NEW n \in Ids, memory'[m] # M!NoMemory, memory'[n] # M!NoMemory,
                    M!Contrary(memory'[m], memory'[n])
             PROVE  memory[m] # M!NoMemory /\ memory[n] # M!NoMemory /\ M!Contrary(memory[m], memory[n])
  BY DEF Meant
<1>1. m \in M!Known /\ n \in M!Known
  BY DEF Steady, M!Known
<1>2. Same(memory'[m], memory[m]) /\ Same(memory'[n], memory[n])
  BY <1>1 DEF Steady
<1> QED
  BY <1>1, <1>2, SameContrary DEF M!Known

LEMMA SteadyStep ==
  ASSUME Memories, Steady,
         NEW todo, job'["core"] = todo, NEW passed, unseen' = passed, CorePlan(todo, passed),
         RecallPlan(job'["recall"])
  PROVE  MeaningInv' /\ Meant
<1>1. Memories'
  BY DEF Memories, Steady, Same
<1>2. CorePlan(todo, passed)'
  BY PlansRest
<1>3. CorePlan(job["core"], unseen)' /\ RecallPlan(job["recall"])'
  BY <1>2 DEF RecallPlan
<1> QED
  BY <1>1, <1>3, SteadyMeant DEF MeaningInv

\* A step that plans nothing.
LEMMA RestStep ==
  ASSUME MeaningInv, Steady, UNCHANGED <<job, unseen>>
  PROVE  MeaningInv' /\ Meant
<1>1. PICK todo, passed : /\ todo = job["core"] /\ passed = unseen
                          /\ job'["core"] = todo /\ unseen' = passed
  OBVIOUS
<1>2. Memories /\ CorePlan(todo, passed) /\ RecallPlan(job'["recall"])
  BY <1>1 DEF MeaningInv
<1> QED
  BY <1>1, <1>2, SteadyStep

LEMMA NothingSteady == Memories /\ UNCHANGED memory => Steady
BY DEF Memories, Steady, Same, M!Known

\* What was decided is still so when it is written, and agrees with all that is known.
LEMMA MadeStep ==
  ASSUME Memories, NEW w, Makes(w, unseen), M!Commit(w), job'["core"] = << >>,
         RecallPlan(job'["recall"])
  PROVE  MeaningInv' /\ Meant
<1>1. PICK m, v : /\ DOMAIN w.memories = {m} /\ v = w.memories[m] /\ IsMemory(v)
                  /\ m \notin DOMAIN v.sources /\ Fits(m, v, unseen)
  BY DEF Makes
<1>2. \A n \in Ids : memory'[n] = IF n = m THEN v ELSE memory[n]
  BY <1>1 DEF M!Commit, M!After
<1>3. \A n \in M!Known' : n # m => n \in M!Known /\ memory'[n] = memory[n]
  BY <1>2 DEF M!Known
<1>4. m \in M!Known' => memory'[m] = v
  BY <1>2 DEF M!Known
<1>5. Memories'
  BY <1>1, <1>3, <1>4 DEF Memories, IsMemory
<1>6. ASSUME NEW k \in Ids, NEW n \in Ids, memory'[k] # M!NoMemory, memory'[n] # M!NoMemory,
             M!Contrary(memory'[k], memory'[n])
      PROVE  \/ memory[k] # M!NoMemory /\ memory[n] # M!NoMemory /\ M!Contrary(memory[k], memory[n])
             \/ {k, n} \cap unseen # {}
  <2>1. k \in M!Known' /\ n \in M!Known'
    BY <1>6 DEF M!Known
  <2>2. CASE k # m /\ n # m
    BY <1>2, <1>6, <2>2
  <2>3. CASE k = m /\ n = m
    BY <1>6, <2>3 DEF M!Contrary
  <2>4. ASSUME NEW other \in M!Known' \ {m}, M!Contrary(memory'[other], v)
        PROVE  other \in unseen \/ (m \in M!Known /\ M!Contrary(memory[other], memory[m]))
    BY <1>1, <1>3, <2>4 DEF Fits
  <2>5. CASE k = m /\ n # m
    <3>1. M!Contrary(memory'[n], v)
      BY <1>4, <1>6, <2>1, <2>5, ContraryBothWays
    <3>2. n \in unseen \/ (m \in M!Known /\ M!Contrary(memory[n], memory[m]))
      BY <2>1, <2>4, <2>5, <3>1
    <3> QED
      BY <1>3, <2>1, <2>5, <3>2, ContraryBothWays DEF M!Known
  <2>6. CASE k # m /\ n = m
    <3>1. M!Contrary(memory'[k], v)
      BY <1>4, <1>6, <2>1, <2>6
    <3>2. k \in unseen \/ (m \in M!Known /\ M!Contrary(memory[k], memory[m]))
      BY <2>1, <2>4, <2>6, <3>1
    <3> QED
      BY <1>3, <2>1, <2>6, <3>2 DEF M!Known
  <2> QED
    BY <2>2, <2>3, <2>5, <2>6
<1>7. Meant
  BY <1>6 DEF Meant
<1>8. CorePlan(job["core"], unseen)'
  <2>1. PICK nothing, none : nothing = << >> /\ none = {} /\ nothing \in Seq(none)
    BY EmptySeq
  <2>2. Rewriting(nothing)'
    <3>1. (\A x \in none : Rewrites(x))'
      BY <2>1
    <3> QED
      BY <2>1, <3>1 DEF Rewriting
  <2>3. Rewriting(job["core"])'
    BY <2>1, <2>2
  <2> QED
    BY <2>3 DEF CorePlan
<1>9. RecallPlan(job["recall"])'
  BY DEF RecallPlan
<1> QED
  BY <1>5, <1>7, <1>8, <1>9 DEF MeaningInv

LEMMA RewriteSteady ==
  ASSUME Memories, NEW w, Rewrites(w), M!Accepted(w), M!Commit(w)
  PROVE  Steady
<1>1. \A m \in Ids : memory'[m] = IF m \in DOMAIN w.memories THEN w.memories[m] ELSE memory[m]
  BY DEF M!Commit, M!After
<1>2. ASSUME NEW m \in DOMAIN w.memories
      PROVE  /\ m \in M!Known
             /\ IsMemory(w.memories[m]) /\ Same(w.memories[m], memory[m])
  <2>1. M!MayAppend(m, w.memories[m])
    BY DEF M!Accepted
  <2>2. m \in M!Known /\ memory[m] # M!NoMemory /\ IsMemory(memory[m])
    BY DEF Rewrites, Memories, M!Known
  <2>3. w.memories[m] = memory[m] \/ w.memories[m].revision = memory[m].revision + 1
    BY <2>1, <2>2 DEF M!MayAppend
  <2>4. w.memories[m] = memory[m] \/ w.memories[m].revision # 0
    BY <2>2, <2>3 DEF IsMemory
  <2> QED
    BY <2>2, <2>4 DEF Rewrites, Same
<1>3. \A v : IsMemory(v) => v # M!NoMemory
  BY DEF IsMemory, M!NoMemory
<1>4. M!Known' = M!Known
  BY <1>1, <1>2, <1>3 DEF M!Known
<1> QED
  BY <1>1, <1>2, <1>4 DEF Steady, Memories, M!Known, Same

\* What a candidate says of its evidence, no memory of that evidence alone contradicts, unless it
\* was not found.
LEMMA CandidateStands ==
  ASSUME NEW c, NEW alike, alike = {m \in M!Listed : memory[m].scope = c.scope}, M!MayStand(c, alike),
         NEW passed, passed = {m \in M!Known \ M!Listed : M!Overlap(memory[m].roots, c.roots)}
  PROVE  \A n \in M!Known :
           memory[n].scope = c.scope /\ M!Overlap(memory[n].roots, c.roots) /\ n \notin passed
             => memory[n].content = c.content
BY DEF M!MayStand

LEMMA MergedMakes ==
  ASSUME Memories, NEW c, NEW m \in M!Known, NEW cold, NEW v, v = M!Merged(c, m, cold),
         memory[m].scope = c.scope, memory[m].content = c.content, NEW passed,
         \A n \in M!Known :
           memory[n].scope = c.scope /\ M!Overlap(memory[n].roots, c.roots) /\ n \notin passed
             => memory[n].content = c.content
  PROVE  IsMemory(v) /\ m \notin DOMAIN v.sources /\ Fits(m, v, passed)
<1>0. PICK u, sources, bound, first, events, roots :
        /\ u = memory[m]
        /\ bound = (DOMAIN u.sources # {} /\ \A p \in DOMAIN u.sources : u.sources[p] # M!Unbound)
        /\ sources = [p \in (DOMAIN u.sources \cup c.sources) \ {m} |->
                        IF bound THEN M!Unread ELSE M!Unbound]
        /\ first = M!Next1(u)
        /\ events = first.events \cup c.events
        /\ roots = u.roots \cup c.roots
  OBVIOUS
<1>1. /\ u = memory[m] /\ first = M!Next1(u)
      /\ roots = u.roots \cup c.roots
      /\ DOMAIN sources = (DOMAIN u.sources \cup c.sources) \ {m}
      /\ v = [first EXCEPT !.events = events, !.roots = roots, !.cold = cold, !.sources = sources]
  <2>1. first.roots = u.roots
    BY <1>0 DEF M!Next1, Memories, IsMemory, Fields
  <2>2. v = [first EXCEPT !.events = @ \cup c.events, !.roots = @ \cup c.roots, !.cold = cold,
                          !.sources = sources]
    BY <1>0 DEF M!Merged
  <2>3. v = [first EXCEPT !.events = events, !.roots = roots, !.cold = cold, !.sources = sources]
    BY <1>0, <2>1, <2>2
  <2>4. DOMAIN sources = (DOMAIN u.sources \cup c.sources) \ {m}
    BY <1>0
  <2> QED
    BY <1>0, <2>3, <2>4
<1>2. IsMemory(first) /\ first.scope = u.scope /\ first.content = u.content
  BY <1>1 DEF M!Next1, Memories, IsMemory, Fields
<1>3. IsMemory(v) /\ v.scope = u.scope /\ v.content = u.content /\ v.roots = roots /\ v.sources = sources
  BY <1>1, <1>2 DEF IsMemory, Fields
<1>4. m \notin DOMAIN v.sources
  BY <1>1, <1>3
<1>5. Alone(v) => Alone(memory[m])
  BY <1>1, <1>3 DEF Alone, Memories
<1>6. Fits(m, v, passed)
  <2> SUFFICES ASSUME NEW n \in M!Known \ {m}, M!Contrary(memory[n], v), n \notin passed
               PROVE  M!Contrary(memory[n], memory[m])
    BY DEF Fits
  <2>1. /\ Alone(memory[n]) /\ Alone(v) /\ memory[n].scope = v.scope
        /\ M!Overlap(memory[n].roots, v.roots) /\ memory[n].content # v.content
    BY DEF M!Contrary, Alone
  <2>2. ~ M!Overlap(memory[n].roots, c.roots)
    BY <1>1, <1>3, <2>1
  <2>3. M!Overlap(memory[n].roots, memory[m].roots)
    BY <1>1, <1>3, <2>1, <2>2 DEF M!Overlap
  <2> QED
    BY <1>1, <1>3, <1>5, <2>1, <2>3 DEF M!Contrary, Alone
<1> QED
  BY <1>3, <1>4, <1>6

-----------------------------------------------------------------------------
LEMMA RecallIsCore ==
  ASSUME NEW todo, RecallPlan(todo)
  PROVE  Rewriting(todo)
BY DEF RecallPlan, Rewriting, Rewrites

LEMMA NothingPlanned == RecallPlan(<< >>)
<1>1. PICK nothing, none : nothing = << >> /\ none = {} /\ nothing \in Seq(none)
  BY EmptySeq
<1> QED
  BY <1>1 DEF RecallPlan

LEMMA PlanStep ==
  ASSUME MeaningInv, MemoryTypes, NEW caller \in M!Callers, NEW todo, NEW passed,
         job' = [job EXCEPT ![caller] = todo], UNCHANGED memory, unseen' = passed,
         Rewriting(todo) \/ (caller = "core" /\ CorePlan(todo, passed)),
         caller = "recall" => RecallPlan(todo) /\ passed = unseen
  PROVE  MeaningInv' /\ Meant
<1>1. Memories /\ CorePlan(job["core"], unseen) /\ RecallPlan(job["recall"])
  BY DEF MeaningInv
<1>2. \A c \in M!Callers : job'[c] = IF c = caller THEN todo ELSE job[c]
  BY DEF MemoryTypes
<1>3. Steady
  BY <1>1, NothingSteady
<1>4. RecallPlan(job'["recall"])
  BY <1>1, <1>2 DEF M!Callers
<1>5. PICK next : next = job'["core"]
  OBVIOUS
<1>6. CorePlan(next, passed)
  <2>1. CASE caller = "core"
    BY <1>2, <1>5, <2>1 DEF CorePlan
  <2>2. CASE caller = "recall"
    BY <1>1, <1>2, <1>5, <2>2 DEF M!Callers
  <2> QED
    BY <2>1, <2>2 DEF M!Callers
<1> QED
  BY <1>1, <1>3, <1>4, <1>5, <1>6, SteadyStep

LEMMA StartStep ==
  ASSUME MeaningInv, MemoryTypes, NEW caller \in M!Callers, NEW todo, M!Starts(caller, todo),
         Rewriting(todo), caller = "recall" => RecallPlan(todo)
  PROVE  MeaningInv' /\ Meant
<1>1. job' = [job EXCEPT ![caller] = todo] /\ UNCHANGED memory
  BY DEF M!Starts, M!Plans
<1>2. PICK passed : passed = unseen /\ unseen' = passed
  BY DEF M!Starts
<1> QED
  BY <1>1, <1>2, PlanStep

LEMMA RewritePlan ==
  ASSUME NEW w, Rewrites(w)
  PROVE  Rewriting(<<w>>)
<1>1. PICK W : W = {w}
  OBVIOUS
<1>2. <<w>> \in Seq(W)
  BY <1>1
<1> QED
  BY <1>1, <1>2 DEF Rewriting

\* A write of one memory.
LEMMA OneWritten ==
  ASSUME NEW m, NEW v, NEW w,
         \/ w = [M!NothingToWrite EXCEPT !.memories = [n \in {m} |-> v]]
         \/ \E c : w = M!Consolidated(c, m, v)
         \/ \E drawn : w = Both(m, v, drawn)
  PROVE  DOMAIN w.memories = {m} /\ w.memories[m] = v
<1>1. PICK memories : memories = [n \in {m} |-> v]
  OBVIOUS
<1>2. DOMAIN memories = {m} /\ memories[m] = v
  BY <1>1
<1>3. w.memories = memories
  BY <1>1 DEF M!NothingToWrite, M!Consolidated, Both
<1> QED
  BY <1>2, <1>3

LEMMA ConsolidateMeans ==
  ASSUME MeaningInv, MemoryTypes, NEW c \in Candidates, M!Consolidate(c)
  PROVE  MeaningInv' /\ Meant
<1>1. PICK alike, same, passed :
        /\ alike = {m \in M!Listed : memory[m].scope = c.scope}
        /\ same = {m \in alike : memory[m].content = c.content}
        /\ passed = {m \in M!Known \ M!Listed : M!Overlap(memory[m].roots, c.roots)}
        /\ unseen' = passed
        /\ \/ \E m \in same : M!Plans("core", <<M!Consolidated(c, m, memory[m])>>)
           \/ \E m \in same, cold \in BOOLEAN :
                M!MayStand(c, alike) /\ M!Plans("core", <<M!Consolidated(c, m, M!Merged(c, m, cold))>>)
           \/ \E cold \in BOOLEAN :
                M!MayStand(c, alike) /\ M!Plans("core", <<M!Consolidated(c, c.id, M!Created(c, cold))>>)
           \/ M!Plans("core", << >>)
  BY DEF M!Consolidate
<1>2. /\ same \subseteq M!Known
      /\ \A m \in same : memory[m].scope = c.scope /\ memory[m].content = c.content
  BY <1>1 DEF M!Listed
<1>3. Memories
  BY DEF MeaningInv
<1>4. M!MayStand(c, alike) =>
        \A n \in M!Known :
          memory[n].scope = c.scope /\ M!Overlap(memory[n].roots, c.roots) /\ n \notin passed
            => memory[n].content = c.content
  BY <1>1, CandidateStands
<1>5. PICK todo : M!Plans("core", todo) /\ CorePlan(todo, passed)
  <2>1. ASSUME NEW m \in same, M!Plans("core", <<M!Consolidated(c, m, memory[m])>>)
        PROVE  \E todo : M!Plans("core", todo) /\ CorePlan(todo, passed)
    <3>1. PICK v, w : v = memory[m] /\ w = M!Consolidated(c, m, v)
      OBVIOUS
    <3>2. DOMAIN w.memories = {m} /\ w.memories[m] = v
      BY <3>1, OneWritten
    <3>3. m \in M!Known /\ IsMemory(v) /\ Same(v, memory[m])
      BY <1>2, <1>3, <3>1 DEF Memories, Same
    <3>4. Rewrites(w)
      BY <3>2, <3>3 DEF Rewrites
    <3>5. CorePlan(<<w>>, passed)
      BY <3>4, RewritePlan DEF CorePlan
    <3> QED
      BY <2>1, <3>1, <3>5
  <2>2. ASSUME NEW m \in same, NEW cold, M!MayStand(c, alike),
               M!Plans("core", <<M!Consolidated(c, m, M!Merged(c, m, cold))>>)
        PROVE  \E todo : M!Plans("core", todo) /\ CorePlan(todo, passed)
    <3>1. PICK v, w : v = M!Merged(c, m, cold) /\ w = M!Consolidated(c, m, v)
      OBVIOUS
    <3>2. DOMAIN w.memories = {m} /\ w.memories[m] = v
      BY <3>1, OneWritten
    <3>3. IsMemory(v) /\ m \notin DOMAIN v.sources /\ Fits(m, v, passed)
      BY <1>2, <1>3, <1>4, <2>2, <3>1, MergedMakes
    <3>4. Makes(w, passed)
      BY <3>2, <3>3 DEF Makes
    <3> QED
      BY <2>2, <3>1, <3>4 DEF CorePlan
  <2>3. ASSUME NEW cold, M!MayStand(c, alike),
               M!Plans("core", <<M!Consolidated(c, c.id, M!Created(c, cold))>>)
        PROVE  \E todo : M!Plans("core", todo) /\ CorePlan(todo, passed)
    <3>1. PICK m, v, w : m = c.id /\ v = M!Created(c, cold) /\ w = M!Consolidated(c, m, v)
      OBVIOUS
    <3>2. DOMAIN w.memories = {m} /\ w.memories[m] = v
      <4>1. w = M!Consolidated(c, m, v)
        BY <3>1
      <4> QED
        BY <4>1, OneWritten
    <3>3. /\ IsMemory(v) /\ v.revision = 0 /\ DOMAIN v.sources = c.sources
          /\ v.scope = c.scope /\ v.content = c.content /\ v.roots = c.roots
      BY <3>1 DEF M!Created, IsMemory, Fields
    <3>4. CASE m \in M!Known
      <4>1. Rewrites(w)
        BY <3>2, <3>3, <3>4 DEF Rewrites
      <4>2. CorePlan(<<w>>, passed)
        BY <4>1, RewritePlan DEF CorePlan
      <4> QED
        BY <2>3, <3>1, <4>2
    <3>5. CASE m \notin M!Known
      <4>1. m \notin DOMAIN v.sources
        BY <3>1, <3>3, MemoryAssumption
      <4>2. Fits(m, v, passed)
        BY <1>4, <2>3, <3>3 DEF Fits, M!Contrary
      <4>3. Makes(w, passed)
        BY <3>2, <3>3, <4>1, <4>2 DEF Makes
      <4> QED
        BY <2>3, <3>1, <4>3 DEF CorePlan
    <3> QED
      BY <3>4, <3>5
  <2>4. ASSUME M!Plans("core", << >>)
        PROVE  \E todo : M!Plans("core", todo) /\ CorePlan(todo, passed)
    BY <2>4, NothingPlanned, RecallIsCore DEF CorePlan
  <2> QED
    BY <1>1, <2>1, <2>2, <2>3, <2>4
<1>6. job' = [job EXCEPT !["core"] = todo] /\ UNCHANGED memory
  BY <1>5 DEF M!Plans
<1> QED
  BY <1>1, <1>5, <1>6, PlanStep DEF M!Callers

LEMMA RecalculateMeans ==
  ASSUME MeaningInv, MemoryTypes, M!Recalculate
  PROVE  MeaningInv' /\ Meant
<1>1. PICK changed \in SUBSET M!Listed :
        \E cold \in [changed -> BOOLEAN] :
          /\ changed # {}
          /\ \E order \in M!SetToSeqs(changed) :
               M!Starts("core", [i \in DOMAIN order |->
                    [M!NothingToWrite EXCEPT !.memories =
                       [m \in {order[i]} |-> [M!Next1(memory[m]) EXCEPT !.cold = cold[m]]]]])
  BY DEF M!Recalculate
<1>2. PICK cold, order, todo :
        /\ order \in M!SetToSeqs(changed)
        /\ todo = [i \in DOMAIN order |->
                    [M!NothingToWrite EXCEPT !.memories =
                       [m \in {order[i]} |-> [M!Next1(memory[m]) EXCEPT !.cold = cold[m]]]]]
        /\ M!Starts("core", todo)
  BY <1>1, Zenon
<1>3. changed \subseteq M!Known /\ M!Known \subseteq Ids
  BY DEF M!Listed, M!Known
<1>4. PICK count : count = M!Cardinality(changed) /\ count \in Nat
  <2>1. IsFiniteSet(changed)
    BY <1>3, MemoryAssumption, FS_Subset
  <2> QED
    BY <2>1, FS_CardinalityType DEF Cardinality, M!Cardinality
<1>5. order \in [1..count -> changed]
  BY <1>2, <1>4 DEF M!SetToSeqs
<1>6. ASSUME NEW i \in 1..count
      PROVE  Rewrites(todo[i])
  <2>1. PICK m, u, v, w : /\ m = order[i] /\ u = M!Next1(memory[m]) /\ v = [u EXCEPT !.cold = cold[m]]
                          /\ w = todo[i]
    OBVIOUS
  <2>2. m \in M!Known /\ IsMemory(memory[m])
    BY <1>3, <1>5, <2>1 DEF MeaningInv, Memories
  <2>3. IsMemory(u) /\ Same(u, memory[m])
    BY <2>1, <2>2 DEF M!Next1, IsMemory, Fields, Same
  <2>4. IsMemory(v) /\ Same(v, memory[m])
    BY <2>1, <2>3 DEF IsMemory, Fields, Same
  <2>5. w = [M!NothingToWrite EXCEPT !.memories = [n \in {m} |-> [M!Next1(memory[n]) EXCEPT !.cold = cold[n]]]]
    BY <1>2, <1>5, <2>1
  <2>6. [n \in {m} |-> [M!Next1(memory[n]) EXCEPT !.cold = cold[n]]] = [n \in {m} |-> v]
    BY <2>1
  <2>7. w = [M!NothingToWrite EXCEPT !.memories = [n \in {m} |-> v]]
    BY <2>5, <2>6, Zenon
  <2>8. DOMAIN w.memories = {m} /\ w.memories[m] = v
    BY <2>7, OneWritten
  <2>9. Rewrites(w)
    BY <2>2, <2>4, <2>8 DEF Rewrites
  <2> QED
    BY <2>1, <2>9
<1>7. PICK W : W = {todo[i] : i \in 1..count}
  OBVIOUS
<1>8. todo \in Seq(W)
  <2>1. todo \in [1..count -> W]
    BY <1>2, <1>5, <1>7
  <2> QED
    BY <1>4, <2>1
<1>9. Rewriting(todo)
  BY <1>6, <1>7, <1>8 DEF Rewriting
<1> QED
  BY <1>2, <1>9, StartStep DEF M!Callers

LEMMA PropagateMeans ==
  ASSUME MeaningInv, MemoryTypes, NEW m \in Ids, NEW signal, M!Propagate(m, signal)
  PROVE  MeaningInv' /\ Meant
<1>1. PICK u, v, drawn, w :
        /\ u = M!Next1(memory[m]) /\ v = [u EXCEPT !.status = signal]
        /\ w = [M!NothingToWrite EXCEPT
                  !.memories = [n \in {m} |-> v],
                  !.summaries = [s \in drawn |-> M!Retired(summary[s], "INVALIDATED")]]
        /\ memory[m] # M!NoMemory /\ M!Starts("core", <<w>>)
  BY DEF M!Propagate
<1>2. m \in M!Known /\ IsMemory(memory[m])
  BY <1>1 DEF MeaningInv, Memories, M!Known
<1>3. IsMemory(u) /\ Same(u, memory[m])
  BY <1>1, <1>2 DEF M!Next1, IsMemory, Fields, Same
<1>4. IsMemory(v) /\ Same(v, memory[m])
  BY <1>1, <1>3 DEF IsMemory, Fields, Same
<1>5. w = Both(m, v, drawn)
  BY <1>1, Zenon DEF Both
<1>6. DOMAIN w.memories = {m} /\ w.memories[m] = v
  BY <1>5, OneWritten
<1>7. Rewriting(<<w>>)
  BY <1>2, <1>4, <1>6, RewritePlan DEF Rewrites
<1> QED
  BY <1>1, <1>7, StartStep DEF M!Callers

LEMMA SummariseMeans ==
  ASSUME MeaningInv, MemoryTypes, NEW caller \in M!Callers, NEW s \in SummaryIds, NEW sources \in SUBSET Ids,
         M!Summarise(caller, s, sources)
  PROVE  MeaningInv' /\ Meant
<1>1. PICK superseded, next, first, second, only :
        /\ superseded = M!Retired(summary[s], "SUPERSEDED")
        /\ next = M!Version(superseded, "ACTIVE", sources)
        /\ first = [M!NothingToWrite EXCEPT !.summaries = [t \in {s} |-> superseded]]
        /\ second = [M!NothingToWrite EXCEPT !.summaries = [t \in {s} |-> next]]
        /\ only = [M!NothingToWrite EXCEPT !.summaries =
                     [t \in {s} |-> M!Version(summary[s], "ACTIVE", sources)]]
  OBVIOUS
<1>2. M!Starts(caller, <<first, second>>) \/ M!Starts(caller, <<only>>)
  BY <1>1 DEF M!Summarise
<1>3. ASSUME NEW w, NEW summaries, w = [M!NothingToWrite EXCEPT !.summaries = summaries]
      PROVE  DOMAIN w.memories = {}
  <2>1. PICK none : none = << >> /\ DOMAIN none = {}
    OBVIOUS
  <2>2. w = [memories |-> none, receipts |-> {}, summaries |-> summaries]
    BY <1>3, <2>1 DEF M!NothingToWrite
  <2> QED
    BY <2>1, <2>2
<1>4. PICK W : W = {first, second, only}
  OBVIOUS
<1>5. \A w \in W : DOMAIN w.memories = {}
  BY <1>1, <1>3, <1>4
<1>6. <<first, second>> \in Seq(W) /\ <<only>> \in Seq(W)
  BY <1>4
<1>7. RecallPlan(<<first, second>>) /\ RecallPlan(<<only>>)
  BY <1>5, <1>6 DEF RecallPlan
<1> QED
  BY <1>2, <1>7, RecallIsCore, StartStep

LEMMA BindMeans ==
  ASSUME MeaningInv, MemoryTypes, M!Bind
  PROVE  MeaningInv' /\ Meant
<1>1. PICK todo, passed, w, bound :
        /\ todo = job["core"] /\ todo # << >> /\ passed = unseen
        /\ w = Head(todo) /\ bound = M!BoundWrite(w)
  BY DEF M!Bind
<1>2. /\ \/ job' = [job EXCEPT !["core"] = <<bound>>] /\ \A m \in DOMAIN w.memories :
                DOMAIN w.memories[m].sources \subseteq M!Known
         \/ job' = [job EXCEPT !["core"] = << >>]
      /\ UNCHANGED memory /\ unseen' = passed
  BY <1>1 DEF M!Bind
<1>3. Memories /\ CorePlan(todo, passed)
  BY <1>1 DEF MeaningInv
<1>4. CASE job' = [job EXCEPT !["core"] = << >>]
  <2>1. PICK nothing : nothing = << >> /\ Rewriting(nothing)
    BY NothingPlanned, RecallIsCore
  <2>2. job' = [job EXCEPT !["core"] = nothing]
    BY <1>4, <2>1
  <2> QED
    BY <1>2, <2>1, <2>2, PlanStep DEF M!Callers
<1>5. CASE /\ job' = [job EXCEPT !["core"] = <<bound>>]
           /\ \A m \in DOMAIN w.memories : DOMAIN w.memories[m].sources \subseteq M!Known
  <2>1. /\ DOMAIN bound.memories = DOMAIN w.memories
        /\ \A m \in DOMAIN w.memories : bound.memories[m] = M!BoundNow(w.memories[m])
    BY <1>1, BoundWritten
  <2>2. ASSUME NEW v, IsMemory(v), DOMAIN v.sources \subseteq M!Known
        PROVE  IsMemory(M!BoundNow(v)) /\ Same(M!BoundNow(v), v) /\ M!BoundNow(v).revision = v.revision
    <3>1. PICK sources : sources = [p \in DOMAIN v.sources |-> memory[p].revision]
      OBVIOUS
    <3>2. M!BoundNow(v) = [v EXCEPT !.sources = sources] /\ DOMAIN sources = DOMAIN v.sources
      BY <3>1 DEF M!BoundNow
    <3> QED
      BY <2>2, <3>2 DEF IsMemory, Fields, Same
  <2>3. CASE \E x : todo = <<x>> /\ Makes(x, passed)
    <3>1. Makes(w, passed)
      BY <1>1, <2>3
    <3>2. PICK m, v : /\ DOMAIN w.memories = {m} /\ v = w.memories[m] /\ IsMemory(v)
                      /\ m \notin DOMAIN v.sources /\ Fits(m, v, passed)
      BY <3>1 DEF Makes
    <3>3. PICK u : u = M!BoundNow(v)
      OBVIOUS
    <3>4. bound.memories[m] = u /\ IsMemory(u) /\ Same(u, v)
      BY <1>5, <2>1, <2>2, <3>2, <3>3
    <3>5. Fits(m, u, passed)
      <4>1. \A n \in M!Known : Same(memory[n], memory[n])
        BY DEF Same
      <4> QED
        BY <3>2, <3>4, <4>1, SameContrary DEF Fits
    <3>6. m \notin DOMAIN u.sources
      BY <3>2, <3>4 DEF Same
    <3>7. Makes(bound, passed)
      BY <2>1, <3>2, <3>4, <3>5, <3>6 DEF Makes
    <3>8. CorePlan(<<bound>>, passed)
      BY <3>7 DEF CorePlan
    <3> QED
      BY <1>2, <1>5, <3>8, PlanStep DEF M!Callers
  <2>4. CASE Rewriting(todo)
    <3>1. Rewrites(w)
      BY <1>1, <2>4 DEF Rewriting
    <3>2. Rewrites(bound)
      <4> SUFFICES ASSUME NEW m \in DOMAIN bound.memories
                   PROVE  /\ m \in M!Known /\ IsMemory(bound.memories[m])
                          /\ bound.memories[m].revision = 0 \/ Same(bound.memories[m], memory[m])
        BY DEF Rewrites
      <4>1. PICK v, u : v = w.memories[m] /\ u = M!BoundNow(v)
        OBVIOUS
      <4>2. m \in M!Known /\ IsMemory(v) /\ (v.revision = 0 \/ Same(v, memory[m]))
        BY <2>1, <3>1, <4>1 DEF Rewrites
      <4>3. IsMemory(u) /\ Same(u, v) /\ u.revision = v.revision
        BY <1>5, <2>1, <2>2, <4>1, <4>2
      <4>4. bound.memories[m] = u
        BY <2>1, <4>1
      <4> QED
        BY <4>2, <4>3, <4>4 DEF Same
    <3>3. Rewriting(<<bound>>)
      BY <3>2, RewritePlan
    <3> QED
      BY <1>2, <1>5, <3>3, PlanStep DEF M!Callers
  <2> QED
    BY <1>3, <2>3, <2>4 DEF CorePlan
<1> QED
  BY <1>2, <1>4, <1>5

LEMMA WriteMeans ==
  ASSUME MeaningInv, MemoryTypes, NEW caller \in M!Callers, M!Write(caller)
  PROVE  MeaningInv' /\ Meant
<1>1. Memories /\ CorePlan(job["core"], unseen) /\ RecallPlan(job["recall"])
  BY DEF MeaningInv
<1>2. PICK todo, w, rest : todo = job[caller] /\ todo # << >> /\ w = Head(todo) /\ rest = Tail(todo)
  BY DEF M!Write
<1>3. \/ M!Accepted(w) /\ M!Commit(w) /\ job' = [job EXCEPT ![caller] = rest]
      \/ UNCHANGED memory /\ job' = [job EXCEPT ![caller] = << >>]
  BY <1>2 DEF M!Write
<1>4. PICK passed : passed = unseen' /\ (caller = "recall" => passed = unseen)
  BY DEF M!Write
<1>5. CASE UNCHANGED memory /\ job' = [job EXCEPT ![caller] = << >>]
  <2>1. PICK nothing : nothing = << >> /\ Rewriting(nothing) /\ RecallPlan(nothing)
    BY NothingPlanned, RecallIsCore
  <2>2. job' = [job EXCEPT ![caller] = nothing]
    BY <1>5, <2>1
  <2> QED
    BY <1>4, <1>5, <2>1, <2>2, PlanStep
<1>6. CASE M!Accepted(w) /\ M!Commit(w) /\ job' = [job EXCEPT ![caller] = rest]
  <2>0. \A c \in M!Callers : job'[c] = IF c = caller THEN rest ELSE job[c]
    BY <1>6 DEF MemoryTypes
  <2>1. CASE caller = "recall"
    <3>1. PICK W : todo \in Seq(W) /\ \A x \in W : DOMAIN x.memories = {}
      BY <1>1, <1>2, <2>1 DEF RecallPlan
    <3>2. w \in W /\ rest \in Seq(W)
      BY <1>2, <3>1
    <3>3. Rewrites(w) /\ RecallPlan(rest)
      BY <3>1, <3>2 DEF Rewrites, RecallPlan
    <3>4. Steady
      BY <1>1, <1>6, <3>3, RewriteSteady
    <3>5. RecallPlan(job'["recall"])
      BY <2>0, <2>1, <3>3
    <3>6. PICK next : next = job'["core"]
      OBVIOUS
    <3>7. CorePlan(next, passed)
      BY <1>1, <1>4, <2>0, <2>1, <3>6 DEF M!Callers
    <3> QED
      BY <1>1, <1>4, <3>4, <3>5, <3>6, <3>7, SteadyStep
  <2>2. CASE caller = "core"
    <3>1. RecallPlan(job'["recall"])
      BY <1>1, <2>0, <2>2 DEF M!Callers
    <3>2. CASE \E x : todo = <<x>> /\ Makes(x, unseen)
      <4>1. todo = <<w>> /\ Makes(w, unseen) /\ rest = << >>
        BY <1>2, <3>2
      <4> QED
        BY <1>1, <1>6, <2>0, <2>2, <3>1, <4>1, MadeStep
    <3>3. CASE Rewriting(todo)
      <4>1. PICK W : todo \in Seq(W) /\ \A x \in W : Rewrites(x)
        BY <3>3 DEF Rewriting
      <4>2. w \in W /\ rest \in Seq(W)
        BY <1>2, <4>1
      <4>3. Rewrites(w) /\ CorePlan(rest, passed)
        BY <4>1, <4>2 DEF CorePlan, Rewriting
      <4>4. Steady
        BY <1>1, <1>6, <4>3, RewriteSteady
      <4>5. job'["core"] = rest
        BY <2>0, <2>2
      <4> QED
        BY <1>1, <1>4, <3>1, <4>3, <4>4, <4>5, SteadyStep
    <3> QED
      BY <1>1, <1>2, <2>2, <3>2, <3>3 DEF CorePlan
  <2> QED
    BY <2>1, <2>2 DEF M!Callers
<1> QED
  BY <1>3, <1>5, <1>6

LEMMA CommandMeans ==
  ASSUME MeaningInv, NEW m \in Ids, NEW action, M!Command(m, action)
  PROVE  MeaningInv' /\ Meant
<1>1. PICK v, drawn, w :
        /\ v \in M!Commanded(m, action)
        /\ w = [M!NothingToWrite EXCEPT
                  !.memories = [n \in {m} |-> v],
                  !.summaries = [s \in drawn |-> M!Retired(summary[s], "INVALIDATED")]]
        /\ memory[m] # M!NoMemory /\ M!Commit(w) /\ UNCHANGED <<job, unseen>>
  BY DEF M!Command
<1>2. m \in M!Known /\ IsMemory(memory[m])
  BY <1>1 DEF MeaningInv, Memories, M!Known
<1>3. PICK u : u = M!Next1(memory[m])
  OBVIOUS
<1>4. IsMemory(u) /\ Same(u, memory[m])
  BY <1>2, <1>3 DEF M!Next1, IsMemory, Fields, Same
<1>5. \/ \E lifecycle : v = [u EXCEPT !.lifecycle = lifecycle]
      \/ \E lifecycle, weight : v = [u EXCEPT !.lifecycle = lifecycle, !.weight = weight]
  BY <1>1, <1>3 DEF M!Commanded
<1>6. IsMemory(v) /\ Same(v, memory[m])
  BY <1>4, <1>5 DEF IsMemory, Fields, Same
<1>7. w = Both(m, v, drawn)
  BY <1>1, Zenon DEF Both
<1>8. DOMAIN w.memories = {m} /\ w.memories[m] = v
  BY <1>7, OneWritten
<1>9. \A n \in Ids : memory'[n] = IF n = m THEN v ELSE memory[n]
  BY <1>1, <1>8 DEF M!Commit, M!After
<1>10. v # M!NoMemory
  BY <1>6 DEF IsMemory, Fields, M!NoMemory
<1>11. Steady
  BY <1>2, <1>6, <1>9, <1>10 DEF Steady, M!Known, MeaningInv, Memories, Same
<1> QED
  BY <1>1, <1>11, RestStep

LEMMA MeaningStep == MeaningInv /\ MemoryInv /\ M!MNext => MeaningInv' /\ Meant
<1> SUFFICES ASSUME MeaningInv, MemoryTypes, M!MNext
             PROVE  MeaningInv' /\ Meant
  BY DEF MemoryInv
<1>1. ASSUME \/ \E e \in Events : M!Reconsider(e)
             \/ \E c \in Candidates : M!Consider(c)
      PROVE  MeaningInv' /\ Meant
  <2>1. UNCHANGED <<memory, job, unseen>>
    BY <1>1 DEF M!Reconsider, M!Consider
  <2> QED
    BY <2>1, NothingSteady, RestStep DEF MeaningInv
<1> QED
  BY <1>1, ConsolidateMeans, BindMeans, RecalculateMeans, PropagateMeans, SummariseMeans, WriteMeans,
     CommandMeans DEF M!MNext

\* Memories that rest on evidence alone do not come to contradict each other, but for one that was
\* put away when a consolidation read what there is: nothing but a consolidation, of which there is
\* one at a time, changes what a memory says of which evidence
\* (consolidate, save_consolidation, lifecycle_result).
THEOREM EvidenceHasOneMeaning == SSpec => OneMeaning
<1>1. SInit => MeaningInv
  <2> SUFFICES ASSUME M!MInit PROVE MeaningInv
    BY DEF SInit
  <2>1. M!Known = {}
    BY DEF M!MInit, M!Known
  <2>2. job["core"] = << >> /\ job["recall"] = << >>
    BY DEF M!MInit, M!Callers
  <2>3. CorePlan(job["core"], unseen) /\ RecallPlan(job["recall"])
    BY <2>2, NothingPlanned, RecallIsCore DEF CorePlan
  <2> QED
    BY <2>1, <2>3 DEF MeaningInv, Memories
<1>2. MeaningInv /\ MemoryInv /\ [SNext]_<<focus, vars, mvars, evars>> => MeaningInv' /\ Meant
  <2> SUFFICES ASSUME MeaningInv, MemoryInv, [SNext]_<<focus, vars, mvars, evars>>
               PROVE  MeaningInv' /\ Meant
    OBVIOUS
  <2>1. CASE UNCHANGED mvars
    <3>1. UNCHANGED <<memory, job, unseen>>
      BY <2>1 DEF mvars
    <3> QED
      BY <3>1, NothingSteady, RestStep DEF MeaningInv
  <2>2. CASE M!MNext
    BY <2>2, MeaningStep
  <2> QED
    BY <2>1, <2>2 DEF SNext, Interact, Remember, Enter
<1>3. SSpec => []MeaningInv
  BY <1>1, <1>2, MemoryInvariance, PTL DEF SSpec
<1>4. MeaningInv /\ MemoryInv /\ [SNext]_<<focus, vars, mvars, evars>> => [Meant]_M!mvars
  BY <1>2
<1> QED
  BY <1>3, <1>4, MemoryInvariance, PTL DEF SSpec, OneMeaning, M!OneMeaning, Meant
=============================================================================
