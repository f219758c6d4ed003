--------------------------- MODULE SubjectGateProofs ---------------------------
(***************************************************************************)
(* Theorems about the gate and the matters of SubjectGate, for every set   *)
(* of permissions, owners, wakes, commands, items and learnings.           *)
(* The gate: a document is a chain, of which every link is the change of   *)
(* the state before it to one that allows no more.  An owner that waits to *)
(* save has a change of that kind or the first one; one that waits to      *)
(* write has such a chain, whatever the document is by then.  A wake has   *)
(* been granted no more than was granted at some time since it began, and  *)
(* one that is about to change the subject loaded the revision that it had *)
(* perceived.                                                              *)
(* The matters: the history only grows, and a command names the revision   *)
(* of the time it was issued.  What a call has read and prepared is        *)
(* therefore true of the present history as long as its command still      *)
(* names the present revision, and is not used after that.  The state      *)
(* holds the matters that have not ended, each with its last revision.     *)
(***************************************************************************)
EXTENDS SubjectGate, TLAPS

-----------------------------------------------------------------------------
(* The composition.                                                        *)

\* Beside the gate and the matters, the subject takes only the steps it takes alone: what is
\* proved of SubjectState holds here.
LEMMA SubjectBesideOthers == GSpec => Spec
<1>1. GInit => Init
  BY DEF GInit
<1>2. [GNext]_<<focus, vars, gvars, mvars>> => [Next]_vars
  BY DEF GNext, Live, Permit, Intend, Ended
<1> QED
  BY <1>1, <1>2, PTL DEF GSpec, Spec

-----------------------------------------------------------------------------
(* The gate.                                                               *)

PermissionState ==
  [status : {"NONE", "ACTIVE", "LIMITED", "REVOKED", "EXPIRED"},
   capabilities : SUBSET Grants, revision : Nat]

GateChange == [before : PermissionState, after : PermissionState]

Narrowed(changes) ==
  \A i \in 2..Len(changes) :
    /\ changes[i].before = changes[i - 1].after
    /\ changes[i].after.capabilities \subseteq changes[i].before.capabilities

NoWider(change) ==
  change.after.revision = 0 \/ change.after.capabilities \subseteq change.before.capabilities

HolderInv(o) ==
  \/ holder[o] = A!Idle
  \/ \E p \in Permissions, c \in GateChange :
       NoWider(c) /\ holder[o] = [pc |-> "save", of |-> p, change |-> c]
  \/ \E p \in Permissions, d \in Seq(GateChange) :
       Narrowed(d) /\ holder[o] = [pc |-> "write", of |-> p, draft |-> d]

DocumentsInv ==
  /\ document \in [Permissions -> Seq(GateChange)]
  /\ \A p \in Permissions : Narrowed(document[p])
  /\ holder = [o \in Writers |-> holder[o]]
  /\ \A o \in Writers : HolderInv(o)

Asking(call) ==
  /\ call = [pc |-> "ask", perceived |-> call.perceived, type |-> call.type,
             revision |-> call.revision, unread |-> call.unread, granted |-> call.granted]
  /\ call.perceived \in Nat /\ call.revision \in Nat

\* What has been permitted to a call since it began.
WakeSound(call, permitted) ==
  \/ call = A!Idle
  \/ \E n \in Nat : call = [pc |-> "think", perceived |-> n]
  \/ Asking(call) /\ call.granted \subseteq permitted
  \/ \E n \in Nat :
       call = [pc |-> "evolve", perceived |-> n, revision |-> n] /\ "UPDATE_STATE" \in permitted

Experienced == [by : Wakes \cup {"others"}, perceived : Nat, permitted : BOOLEAN]

WakesInv ==
  /\ experience \in Seq(Experienced)
  /\ wake = [w \in Wakes |-> wake[w]]
  /\ held = [w \in Wakes |-> held[w]]
  /\ \A w \in Wakes : WakeSound(wake[w], held[w])
  /\ A!ActsOnWhatItKnew

GateInv == DocumentsInv /\ WakesInv

\* A chain that a fitting change is appended to is a chain.
LEMMA NarrowedAppend ==
  ASSUME NEW changes \in Seq(GateChange), Narrowed(changes),
         NEW change \in GateChange, NoWider(change), A!Follows(changes, change)
  PROVE  Narrowed(Append(changes, change)) /\ Append(changes, change) \in Seq(GateChange)
<1> DEFINE longer == Append(changes, change)
<1>1. /\ Len(longer) = Len(changes) + 1 /\ Len(changes) \in Nat /\ longer \in Seq(GateChange)
      /\ longer[Len(changes) + 1] = change
      /\ \A i \in 1..Len(changes) : longer[i] = changes[i]
  OBVIOUS
<1>2. CASE changes = <<>>
  BY <1>1, <1>2 DEF Narrowed
<1>3. CASE changes # <<>>
  <2>1. Len(changes) > 0 /\ changes[Len(changes)] \in GateChange
    BY <1>3
  <2>2. /\ change.before = changes[Len(changes)].after
        /\ change.after.revision = changes[Len(changes)].after.revision + 1
    BY <1>3 DEF A!Follows, A!Stored
  <2>3. changes[Len(changes)].after.revision \in Nat
    BY <2>1 DEF GateChange, PermissionState
  <2>4. change.after.capabilities \subseteq change.before.capabilities
    BY <2>2, <2>3 DEF NoWider
  <2>5. ASSUME NEW i \in 2..Len(longer)
        PROVE  /\ longer[i].before = longer[i - 1].after
               /\ longer[i].after.capabilities \subseteq longer[i].before.capabilities
    <3>1. CASE i = Len(changes) + 1
      BY <1>1, <2>1, <2>2, <2>4, <3>1
    <3>2. CASE i \in 2..Len(changes)
      BY <1>1, <3>2 DEF Narrowed
    <3> QED
      BY <1>1, <3>1, <3>2
  <2> QED
    BY <1>1, <2>5 DEF Narrowed
<1> QED
  BY <1>2, <1>3

\* What an owner may make of a permission is a state, and no wider unless it is the first.
LEMMA AlternativeTypes ==
  ASSUME DocumentsInv, NEW p \in Permissions, NEW state \in A!Alternatives(p)
  PROVE  /\ A!Change(A!Stored(document[p]), state) \in GateChange
         /\ NoWider(A!Change(A!Stored(document[p]), state))
<1> DEFINE old == A!Stored(document[p])
<1>1. A!NoState \in PermissionState
  BY DEF A!NoState, PermissionState
<1>2. old \in PermissionState
  <2>1. CASE document[p] = <<>>
    BY <1>1, <2>1 DEF A!Stored
  <2>2. CASE document[p] # <<>>
    <3>1. document[p] \in Seq(GateChange)
      BY DEF DocumentsInv
    <3>2. document[p][Len(document[p])] \in GateChange
      BY <2>2, <3>1
    <3> QED
      BY <2>2, <3>2 DEF A!Stored, GateChange
  <2> QED
    BY <2>1, <2>2
<1>3. CASE document[p] = <<>>
  <2>1. state \in PermissionState /\ state.revision = 0
    BY <1>3 DEF A!Alternatives, A!Created, PermissionState
  <2> QED
    BY <1>2, <2>1 DEF A!Change, GateChange, NoWider
<1>4. CASE state \in A!Restated(old)
  <2>1. PICK status \in {"ACTIVE", "LIMITED", "REVOKED", "EXPIRED"} :
          state = [old EXCEPT !.status = status, !.revision = @ + 1]
    BY <1>4 DEF A!Restated
  <2> HIDE DEF old
  <2>2. old.capabilities \in SUBSET Grants /\ old.revision + 1 \in Nat
    BY <1>2 DEF PermissionState
  <2>3. state = [status |-> status, capabilities |-> old.capabilities, revision |-> old.revision + 1]
    BY <1>2, <2>1 DEF PermissionState
  <2>4. state \in PermissionState /\ state.capabilities = old.capabilities
    BY <2>2, <2>3 DEF PermissionState
  <2> QED
    BY <1>2, <2>4 DEF A!Change, GateChange, NoWider, old
<1>5. CASE state \in A!Restricted(old)
  <2>1. PICK fewer \in SUBSET old.capabilities :
          state = [status |-> "LIMITED", capabilities |-> fewer, revision |-> old.revision + 1]
    BY <1>5 DEF A!Restricted
  <2>2. state \in PermissionState /\ state.capabilities \subseteq old.capabilities
    BY <1>2, <2>1 DEF PermissionState
  <2> QED
    BY <1>2, <2>2 DEF A!Change, GateChange, NoWider
<1> QED
  BY <1>3, <1>4, <1>5 DEF A!Alternatives

LEMMA AdministerDocuments == DocumentsInv /\ A!Administer => DocumentsInv'
<1> SUFFICES ASSUME DocumentsInv, A!Administer
             PROVE  DocumentsInv'
  OBVIOUS
<1>1. ASSUME NEW o \in Writers, NEW now, A!Owning(o, now)
      PROVE  /\ holder' = [v \in Writers |-> holder'[v]]
             /\ holder'[o] = now
             /\ \A v \in Writers \ {o} : holder'[v] = holder[v]
  BY <1>1 DEF A!Owning, DocumentsInv
<1>2. ASSUME NEW o \in Writers, NEW p \in Permissions, A!Load(o, p)
      PROVE  DocumentsInv'
  <2>1. PICK state \in A!Alternatives(p) :
          A!Owning(o, [pc |-> "save", of |-> p,
                       change |-> A!Change(A!Stored(document[p]), state)])
    BY <1>2 DEF A!Load
  <2> DEFINE change == A!Change(A!Stored(document[p]), state)
  <2>2. change \in GateChange /\ NoWider(change)
    BY AlternativeTypes
  <2>3. holder'[o] = [pc |-> "save", of |-> p, change |-> change]
    BY <1>1, <2>1
  <2>4. HolderInv(o)'
    BY <2>2, <2>3 DEF HolderInv
  <2>5. \A v \in Writers \ {o} : HolderInv(v)'
    BY <1>1, <2>1 DEF HolderInv, DocumentsInv
  <2> QED
    BY <1>1, <1>2, <2>1, <2>4, <2>5 DEF A!Load, DocumentsInv
<1>3. ASSUME NEW o \in Writers, A!Owning(o, A!Idle), UNCHANGED document
      PROVE  DocumentsInv'
  <2>1. HolderInv(o)' /\ \A v \in Writers \ {o} : HolderInv(v)'
    BY <1>1, <1>3 DEF HolderInv, DocumentsInv, A!Idle
  <2> QED
    BY <1>1, <1>3, <2>1 DEF DocumentsInv
<1>4. ASSUME NEW o \in Writers, A!Compare(o)
      PROVE  DocumentsInv'
  <2>1. PICK p \in Permissions, change \in GateChange :
          NoWider(change) /\ holder[o] = [pc |-> "save", of |-> p, change |-> change]
    BY <1>4 DEF A!Compare, A!Idle, HolderInv, DocumentsInv
  <2>2. CASE A!Follows(document[p], change)
    <3> DEFINE draft == Append(document[p], change)
    <3>1. A!Owning(o, [pc |-> "write", of |-> p, draft |-> draft]) /\ UNCHANGED document
      BY <1>4, <2>1, <2>2 DEF A!Compare
    <3>2. Narrowed(draft) /\ draft \in Seq(GateChange)
      BY <2>1, <2>2, NarrowedAppend DEF DocumentsInv
    <3>3. holder'[o] = [pc |-> "write", of |-> p, draft |-> draft]
      BY <1>1, <3>1
    <3>4. HolderInv(o)'
      BY <3>2, <3>3 DEF HolderInv
    <3>5. \A v \in Writers \ {o} : HolderInv(v)'
      BY <1>1, <3>1 DEF HolderInv, DocumentsInv
    <3> QED
      BY <1>1, <3>1, <3>4, <3>5 DEF DocumentsInv
  <2>3. CASE ~ A!Follows(document[p], change)
    <3>1. A!Owning(o, A!Idle) /\ UNCHANGED document
      BY <1>4, <2>1, <2>3 DEF A!Compare
    <3> QED
      BY <1>3, <3>1
  <2> QED
    BY <2>2, <2>3
<1>5. ASSUME NEW o \in Writers, A!Write(o)
      PROVE  DocumentsInv'
  <2>1. PICK p \in Permissions, draft \in Seq(GateChange) :
          Narrowed(draft) /\ holder[o] = [pc |-> "write", of |-> p, draft |-> draft]
    BY <1>5 DEF A!Write, A!Idle, HolderInv, DocumentsInv
  <2>2. document' = [document EXCEPT ![p] = draft] /\ A!Owning(o, A!Idle)
    BY <1>5, <2>1 DEF A!Write
  <2>3. document' \in [Permissions -> Seq(GateChange)]
    BY <2>2 DEF DocumentsInv
  <2>4. \A q \in Permissions : Narrowed(document'[q])
    BY <2>1, <2>2 DEF DocumentsInv
  <2>5. HolderInv(o)'
    BY <1>1, <2>2 DEF HolderInv, A!Idle
  <2>6. \A v \in Writers \ {o} : HolderInv(v)'
    <3>1. \A v \in Writers \ {o} : holder'[v] = holder[v]
      BY <1>1, <2>2
    <3> QED
      BY <3>1 DEF HolderInv, DocumentsInv
  <2> QED
    BY <1>1, <2>2, <2>3, <2>4, <2>5, <2>6 DEF DocumentsInv
<1> QED
  BY <1>2, <1>3, <1>4, <1>5 DEF A!Administer, A!Fail

LEMMA AdministerWakes == WakesInv /\ A!Administer => WakesInv'
<1> SUFFICES ASSUME WakesInv, A!Administer
             PROVE  WakesInv'
  OBVIOUS
<1>1. /\ held' = [w \in Wakes |-> IF wake[w] = A!Idle THEN {} ELSE held[w] \cup A!Granted']
      /\ UNCHANGED <<experience, wake>>
  BY DEF A!Administer
<1>2. ASSUME NEW w \in Wakes
      PROVE  WakeSound(wake'[w], held'[w])
  <2>1. wake[w] # A!Idle => held[w] \subseteq held'[w]
    BY <1>1
  <2>2. WakeSound(wake[w], held[w]) /\ wake'[w] = wake[w]
    BY <1>1 DEF WakesInv
  <2> QED
    BY <2>1, <2>2 DEF WakeSound
<1> QED
  BY <1>1, <1>2 DEF WakesInv, A!ActsOnWhatItKnew

LEMMA ActWakes == WakesInv /\ A!Act => WakesInv'
<1> SUFFICES ASSUME WakesInv, A!Act
             PROVE  WakesInv'
  OBVIOUS
<1>l. Len(experience) \in Nat
  BY DEF WakesInv
\* A step of w after which its call is sound and the subject as it was.
<1>1. ASSUME NEW w \in Wakes, NEW now, A!Waking(w, now), UNCHANGED experience,
             WakeSound(now, held'[w])
      PROVE  WakesInv'
  <2>1. /\ wake' = [v \in Wakes |-> wake'[v]] /\ held' = [v \in Wakes |-> held'[v]]
        /\ wake'[w] = now
        /\ \A v \in Wakes \ {w} : wake'[v] = wake[v] /\ held'[v] = held[v]
    BY <1>1 DEF A!Waking, WakesInv
  <2> QED
    BY <1>1, <2>1 DEF WakesInv, A!ActsOnWhatItKnew
<1>2. ASSUME NEW w \in Wakes, NEW now, A!Waking(w, now), now # A!Idle
      PROVE  held'[w] = held[w] \cup A!Granted
  BY <1>2 DEF A!Waking, WakesInv
<1>3. ASSUME NEW record \in Experienced, record.perceived = Len(experience), record.permitted,
             experience' = Append(experience, record)
      PROVE  experience' \in Seq(Experienced) /\ A!ActsOnWhatItKnew'
  BY <1>3 DEF WakesInv, A!ActsOnWhatItKnew
<1>4. ASSUME NEW w \in Wakes, A!Perceive(w)
      PROVE  WakesInv'
  BY <1>1, <1>4, <1>l DEF A!Perceive, WakeSound
<1>5. ASSUME NEW w \in Wakes, A!Think(w)
      PROVE  WakesInv'
  <2>1. PICK thought \in A!Thoughts :
          A!Waking(w, [pc |-> "ask", perceived |-> wake[w].perceived, type |-> A!Selected(thought),
                       revision |-> Len(experience), unread |-> Permissions, granted |-> {}])
    BY <1>5 DEF A!Think
  <2>2. PICK n \in Nat : wake[w] = [pc |-> "think", perceived |-> n]
    BY <1>5 DEF A!Think, WakesInv, WakeSound, A!Idle, Asking
  <2> DEFINE now == [pc |-> "ask", perceived |-> wake[w].perceived, type |-> A!Selected(thought),
                     revision |-> Len(experience), unread |-> Permissions, granted |-> {}]
  <2>4. Asking(now) /\ now.granted = {}
    BY <2>2, <1>l DEF Asking
  <2>3. WakeSound(now, held'[w])
    BY <2>4 DEF WakeSound
  <2> QED
    BY <1>1, <1>5, <2>1, <2>3 DEF A!Think
<1>6. ASSUME NEW w \in Wakes, NEW p \in Permissions, A!Read(w, p)
      PROVE  WakesInv'
  <2>1. PICK call : call = wake[w]
    OBVIOUS
  <2>2. PICK rest, more : rest = call.unread \ {p} /\ more = call.granted \cup A!Capabilities(p)
    OBVIOUS
  <2>3. PICK now : now = [call EXCEPT !.unread = rest, !.granted = more]
    OBVIOUS
  <2>4. Asking(call) /\ call.granted \subseteq held[w]
    BY <1>6, <2>1 DEF A!Read, WakesInv, WakeSound, A!Idle
  <2>5. A!Waking(w, now) /\ UNCHANGED experience
    BY <1>6, <2>1, <2>2, <2>3 DEF A!Read
  <2>6. Asking(now) /\ now.granted = more /\ now.pc = "ask"
    <3>1. PICK n, type, r, unread, granted :
            call = [pc |-> "ask", perceived |-> n, type |-> type, revision |-> r,
                    unread |-> unread, granted |-> granted]
      BY <2>4 DEF Asking
    <3>2. n \in Nat /\ r \in Nat
      BY <2>4, <3>1 DEF Asking
    <3>3. now = [pc |-> "ask", perceived |-> n, type |-> type, revision |-> r,
                 unread |-> rest, granted |-> more]
      BY <2>3, <3>1
    <3> QED
      BY <3>2, <3>3 DEF Asking
  <2>7. held'[w] = held[w] \cup A!Granted
    BY <1>2, <2>5, <2>6 DEF A!Idle
  <2>8. A!Capabilities(p) \subseteq A!Granted
    BY DEF A!Granted
  <2>9. WakeSound(now, held'[w])
    BY <2>2, <2>4, <2>6, <2>7, <2>8 DEF WakeSound
  <2> QED
    BY <1>1, <2>5, <2>9
<1>7. ASSUME NEW w \in Wakes, A!Decide(w)
      PROVE  WakesInv'
  <2> DEFINE n == wake[w].perceived
             r == wake[w].revision
             type == wake[w].type
             granted == wake[w].granted
  <2>1. n \in Nat /\ granted \subseteq held[w]
    BY <1>7 DEF A!Decide, WakesInv, WakeSound, A!Idle, Asking
  <2>2. PICK check \in A!Checks(type, granted), affordable \in BOOLEAN :
          A!Waking(w, IF A!Authorized(A!Decision(type, check, affordable, r = n))
                        THEN [pc |-> "evolve", perceived |-> n, revision |-> r]
                        ELSE A!Idle)
    BY <1>7 DEF A!Decide
  <2> HIDE DEF n, r, type, granted
  <2>3. UNCHANGED experience
    BY <1>7 DEF A!Decide
  <2>4. CASE A!Authorized(A!Decision(type, check, affordable, r = n))
    <3>1. r = n /\ type = "UPDATE_STATE" /\ check \in {"VALID", "CONFIRM"}
      BY <2>4 DEF A!Authorized, A!Decision
    <3>2. "UPDATE_STATE" \in granted
      BY <2>2, <3>1 DEF A!Checks, A!Unasked
    <3>3. A!Waking(w, [pc |-> "evolve", perceived |-> n, revision |-> n])
      BY <2>2, <2>4, <3>1
    <3>4. held'[w] = held[w] \cup A!Granted
      BY <1>2, <3>3 DEF A!Idle
    <3>5. WakeSound([pc |-> "evolve", perceived |-> n, revision |-> n], held'[w])
      BY <2>1, <3>2, <3>4 DEF WakeSound
    <3> QED
      BY <1>1, <2>3, <3>3, <3>5
  <2>5. CASE ~ A!Authorized(A!Decision(type, check, affordable, r = n))
    <3>1. A!Waking(w, A!Idle)
      BY <2>2, <2>5
    <3> QED
      BY <1>1, <2>3, <3>1 DEF WakeSound
  <2> QED
    BY <2>4, <2>5
<1>8. ASSUME NEW w \in Wakes, A!Evolve(w)
      PROVE  WakesInv'
  <2>1. PICK n \in Nat :
          wake[w] = [pc |-> "evolve", perceived |-> n, revision |-> n] /\ "UPDATE_STATE" \in held[w]
    BY <1>8 DEF A!Evolve, WakesInv, WakeSound, A!Idle, Asking
  <2>2. A!Waking(w, A!Idle)
    BY <1>8 DEF A!Evolve
  <2>3. /\ wake' = [v \in Wakes |-> wake'[v]] /\ held' = [v \in Wakes |-> held'[v]]
        /\ wake'[w] = A!Idle
        /\ \A v \in Wakes \ {w} : wake'[v] = wake[v] /\ held'[v] = held[v]
    BY <2>2 DEF A!Waking, WakesInv
  <2>4. \A v \in Wakes : WakeSound(wake'[v], held'[v])
    BY <2>3 DEF WakesInv, WakeSound
  <2>5. CASE Len(experience) = n
    <3> DEFINE record == [by |-> w, perceived |-> n, permitted |-> "UPDATE_STATE" \in held[w]]
    <3>1. experience' = Append(experience, record)
      BY <1>8, <2>1, <2>5 DEF A!Evolve
    <3>2. record \in Experienced
      BY DEF Experienced
    <3>3. experience' \in Seq(Experienced) /\ A!ActsOnWhatItKnew'
      BY <1>3, <2>1, <2>5, <3>1, <3>2
    <3> QED
      BY <2>3, <2>4, <3>3 DEF WakesInv
  <2>6. CASE Len(experience) # n
    <3>1. UNCHANGED experience
      BY <1>8, <2>1, <2>6 DEF A!Evolve
    <3> QED
      BY <2>3, <2>4, <3>1 DEF WakesInv, A!ActsOnWhatItKnew
  <2> QED
    BY <2>5, <2>6
<1>9. ASSUME NEW w \in Wakes, A!Break(w)
      PROVE  WakesInv'
  BY <1>1, <1>9 DEF A!Break, WakeSound
<1>10. ASSUME A!Experience
       PROVE  WakesInv'
  <2> DEFINE record == [by |-> "others", perceived |-> Len(experience), permitted |-> TRUE]
  <2>1. experience' = Append(experience, record) /\ UNCHANGED <<wake, held>>
    BY <1>10 DEF A!Experience
  <2>2. record \in Experienced
    BY <1>l DEF Experienced
  <2>3. experience' \in Seq(Experienced) /\ A!ActsOnWhatItKnew'
    BY <1>3, <2>1, <2>2
  <2> QED
    BY <2>1, <2>3 DEF WakesInv
<1> QED
  BY <1>4, <1>5, <1>6, <1>7, <1>8, <1>9, <1>10 DEF A!Act

LEMMA GateInvariance == GSpec => []GateInv
<1>1. GInit => GateInv
  <2> SUFFICES ASSUME A!GInit PROVE GateInv
    BY DEF GInit
  <2>1. DocumentsInv
    BY DEF A!GInit, DocumentsInv, HolderInv, Narrowed
  <2>2. WakesInv
    BY DEF A!GInit, WakesInv, WakeSound, A!ActsOnWhatItKnew
  <2> QED
    BY <2>1, <2>2 DEF GateInv
<1>2. GateInv /\ [GNext]_<<focus, vars, gvars, mvars>> => GateInv'
  <2> SUFFICES ASSUME GateInv, [GNext]_<<focus, vars, gvars, mvars>>
               PROVE  GateInv'
    OBVIOUS
  <2>1. CASE UNCHANGED gvars
    <3>1. DocumentsInv'
      BY <2>1 DEF gvars, GateInv, DocumentsInv, HolderInv
    <3>2. WakesInv'
      BY <2>1 DEF gvars, GateInv, WakesInv, A!ActsOnWhatItKnew
    <3> QED
      BY <3>1, <3>2 DEF GateInv
  <2>2. CASE A!Administer
    BY <2>2, AdministerDocuments, AdministerWakes DEF GateInv
  <2>3. CASE A!Act
    <3>1. DocumentsInv'
      BY <2>3 DEF A!Act, GateInv, DocumentsInv, HolderInv
    <3> QED
      BY <2>3, <3>1, ActWakes DEF GateInv
  <2> QED
    BY <2>1, <2>2, <2>3 DEF GNext, Live, Permit, Intend, Ended, A!GNext
<1> QED
  BY <1>1, <1>2, PTL DEF GSpec

\* No permission is ever wider than it was made or restricted to since, however many owners change
\* it at a time and whoever's change is lost (restrict_permission, save).
THEOREM PermissionsOnlyNarrow == GSpec => []NeverWidened
<1>1. GateInv => NeverWidened
  BY DEF GateInv, DocumentsInv, Narrowed, NeverWidened, A!NeverWidened
<1> QED
  BY <1>1, GateInvariance, PTL

\* A wake changes the subject from the revision it perceived before thinking, and only if some
\* permission allowed it since it began (get_context, decide, evolve).
THEOREM ActsAreFounded == GSpec => []ActsOnWhatItKnew
<1>1. GateInv => ActsOnWhatItKnew
  BY DEF GateInv, WakesInv, ActsOnWhatItKnew
<1> QED
  BY <1>1, GateInvariance, PTL

-----------------------------------------------------------------------------
(* The matters.                                                            *)

Held == [records : SUBSET M!Matter, opinion : Learnings \cup {none}]

Moments == {"PAST", "PRESENT", "FUTURE"}

ItemBody == [kind : {"ITEM"}, record : M!Matter, expected : Nat, named : Moments]

DrawnBody ==
  [kind : {"COMMIT", "WITHDRAW"}, learning : Learnings, expected : Nat, named : Moments]

ResultBody == [kind : {"RESULT"}, item : Intents]

CommandBody == ItemBody \cup DrawnBody

CourseUpdate ==
  [by : Numbers \cup {none}, body : CommandBody \cup ResultBody, state : Held]

\* The revision that a command names is there, unless it was sent early.
CommandInv(n) ==
  \/ issued[n] = M!NotIssued
  \/ /\ issued[n] \in CommandBody
     /\ issued[n].named # "FUTURE" => issued[n].expected <= Len(course)

Submitted(n) == n \in Numbers /\ issued[n] # M!NotIssued

\* What a call has read is true as long as its command names the present revision, unless it was
\* sent early.
ReadSound(c) ==
  \E n \in Numbers, read \in {calling[c].known} :
    /\ Submitted(n) /\ calling[c] = [pc |-> "state", of |-> n, known |-> read]
    /\ issued[n].named # "FUTURE" /\ issued[n].expected = Len(course) => read = M!Known

\* A body that was accepted on a history that still stands, as far as its acceptance needs one.
Founded(body) ==
  \/ body.kind = "ITEM" /\ body.named = "FUTURE"
  \/ M!Acceptable(body, M!State, M!Known)

\* What a call has prepared is true as long as its command names the present revision.
DraftSound(c) ==
  \E n \in Numbers, draft \in {calling[c].draft} :
    /\ Submitted(n) /\ calling[c] = [pc |-> "apply", of |-> n, draft |-> draft]
    /\ issued[n].expected <= Len(course)
    /\ issued[n].expected = Len(course) =>
         draft = M!Applied(issued[n], M!State) /\ Founded(issued[n])

CallInv(c) ==
  \/ calling[c] = M!Idle
  \/ \E n \in Numbers : Submitted(n) /\ calling[c] = [pc |-> "history", of |-> n]
  \/ ReadSound(c)
  \/ DraftSound(c)

\* What the state holds of a matter is the last of its revisions, and none was the end.
Lasting ==
  \A r \in M!State.records :
    /\ \A j \in M!Changes(Len(course), r.item) : course[j].body.record.status \notin M!Terminal
    /\ \A n \in 0..MaxMatter :
         (\E j \in M!Changes(Len(course), r.item) : course[j].body.record.revision = n)
           <=> n <= r.revision

CourseInv ==
  /\ course \in Seq(CourseUpdate)
  /\ M!Prudent(Len(course)) => Lasting
  /\ M!MattersEndOnce
  /\ M!ConclusionsAreAnswered

CallsInv ==
  /\ issued = [n \in Numbers |-> issued[n]]
  /\ calling = [c \in Writers |-> calling[c]]
  /\ \A n \in Numbers : CommandInv(n)
  /\ \A c \in Writers : CallInv(c)

LEMMA StateHeld == ASSUME course \in Seq(CourseUpdate) PROVE M!State \in Held
<1>1. CASE course = <<>>
  BY <1>1 DEF M!State, M!Blank, Held
<1>2. CASE course # <<>>
  <2>1. course[Len(course)] \in CourseUpdate
    BY <1>2
  <2> QED
    BY <1>2, <2>1 DEF M!State, CourseUpdate
<1> QED
  BY <1>1, <1>2

\* The past is not changed by what is recorded.
LEMMA PastStands ==
  ASSUME course \in Seq(CourseUpdate), NEW u \in CourseUpdate, course' = Append(course, u),
         NEW size, size = Len(course)
  PROVE  /\ size \in Nat /\ Len(course') = size + 1
         /\ course' \in Seq(CourseUpdate)
         /\ course'[size + 1] = u
         /\ \A i \in 1..size : course'[i] = course[i] /\ M!Before(i)' = M!Before(i)
         /\ M!Before(size + 1)' = M!State
         /\ M!State' = u.state
         /\ \A item : \A i \in 0..size : M!Changes(i, item)' = M!Changes(i, item)
         /\ \A i \in 0..size : M!Prudent(i)' <=> M!Prudent(i)
<1>1. /\ size \in Nat /\ Len(course') = size + 1
      /\ course' \in Seq(CourseUpdate) /\ course' # <<>>
      /\ course'[size + 1] = u
      /\ \A i \in 1..size : course'[i] = course[i]
  OBVIOUS
<1>2. \A i \in 1..size : M!Before(i)' = M!Before(i)
  BY <1>1 DEF M!Before
<1>3. M!Before(size + 1)' = M!State
  <2>1. CASE course = <<>>
    <3>1. size = 0
      BY <2>1
    <3> QED
      BY <2>1, <3>1 DEF M!Before, M!State
  <2>2. CASE course # <<>>
    <3>1. size \in 1..size /\ size + 1 # 1 /\ (size + 1) - 1 = size
      BY <1>1, <2>2
    <3>2. course'[size] = course[size]
      BY <1>1, <3>1
    <3> QED
      BY <2>2, <3>1, <3>2 DEF M!Before, M!State
  <2> QED
    BY <2>1, <2>2
<1>4. M!State' = u.state
  BY <1>1 DEF M!State
<1>5. ASSUME NEW item, NEW i \in 0..size
      PROVE  M!Changes(i, item)' = M!Changes(i, item)
  <2>1. \A j \in 1..i : j \in 1..size
    BY <1>1
  <2> QED
    BY <1>1, <2>1 DEF M!Changes
<1>6. ASSUME NEW i \in 0..size
      PROVE  M!Prudent(i)' <=> M!Prudent(i)
  <2>1. \A j \in 1..i : j \in 1..size
    BY <1>1
  <2> QED
    BY <1>1, <2>1 DEF M!Prudent
<1> QED
  BY <1>1, <1>2, <1>3, <1>4, <1>5, <1>6

\* What the gate of the matters lets pass continues the line of its matter.
Continues(record) ==
  /\ record.revision \in 0..MaxMatter
  /\ \A j \in M!Changes(Len(course), record.item) : course[j].body.record.status \notin M!Terminal
  /\ \A n \in 0..MaxMatter :
       (\E j \in M!Changes(Len(course), record.item) : course[j].body.record.revision = n)
         <=> n < record.revision

LEMMA AdmittedContinues ==
  ASSUME course \in Seq(CourseUpdate), Lasting, NEW record \in M!Matter,
         M!Admissible(record, M!State, M!Known)
  PROVE  Continues(record)
<1> DEFINE old == M!Old(M!State, record.item)
<1>1. record.revision \in 0..MaxMatter /\ record.revision \in Nat
  BY GateAssumption DEF M!Matter
<1>2. CASE old = {}
  <2>1. record.item \notin M!Known /\ record.revision = 0
    BY <1>2 DEF M!Admissible
  <2>2. M!Changes(Len(course), record.item) = {}
    <3>1. ASSUME NEW j \in M!Changes(Len(course), record.item)
          PROVE  FALSE
      <4>1. j \in 1..Len(course) /\ course[j].body.kind = "ITEM" /\ course[j].body.record.item = record.item
        BY DEF M!Changes
      <4>2. course[j] \in M!Updates
        BY <4>1 DEF M!Updates
      <4> QED
        BY <2>1, <4>1, <4>2 DEF M!Known
    <3> QED
      BY <3>1
  <2>3. \A n \in 0..MaxMatter : ~ (n < record.revision)
    BY <2>1, GateAssumption
  <2> QED
    BY <1>1, <2>2, <2>3 DEF Continues
<1>3. CASE old # {}
  <2>1. PICK r \in old : TRUE
    BY <1>3
  <2>2. r \in M!State.records /\ r.item = record.item /\ record.revision = r.revision + 1
    BY <1>3, <2>1 DEF M!Admissible, M!Old
  <2>3. r \in M!Matter
    BY <2>2, StateHeld DEF Held
  <2>4. r.revision \in Nat
    BY <2>3, GateAssumption DEF M!Matter
  <2>5. \A n \in 0..MaxMatter : n <= r.revision <=> n < record.revision
    BY <2>2, <2>4, GateAssumption
  <2> QED
    BY <1>1, <2>2, <2>5 DEF Continues, Lasting
<1> QED
  BY <1>2, <1>3

\* What may follow the course: the state after it has the field that was changed.
Fitting(u) ==
  /\ u.body.kind = "ITEM" =>
       /\ M!Prudent(Len(course)) /\ u.body.named # "FUTURE" => Continues(u.body.record)
       /\ u.state.records =
            {r \in M!State.records : r.item # u.body.record.item /\ r.status \notin M!Terminal}
            \cup {r \in {u.body.record} : r.status \notin M!Terminal}
  /\ u.body.kind # "ITEM" => u.state.records = M!State.records
  /\ u.body.kind \in {"COMMIT", "WITHDRAW"} /\ M!State.opinion # none =>
       u.body.learning.corrects = M!State.opinion.says

LEMMA CourseContinues ==
  ASSUME CourseInv, NEW u \in CourseUpdate, Fitting(u), course' = Append(course, u)
  PROVE  CourseInv'
<1>s. PICK size, last : size = Len(course) /\ last = size + 1
  OBVIOUS
<1>1. /\ size \in Nat /\ Len(course') = last
      /\ course' \in Seq(CourseUpdate)
      /\ course'[last] = u
      /\ \A i \in 1..size : course'[i] = course[i] /\ M!Before(i)' = M!Before(i)
      /\ M!Before(last)' = M!State
      /\ M!State' = u.state
      /\ \A item : \A i \in 0..size : M!Changes(i, item)' = M!Changes(i, item)
      /\ \A i \in 0..size : M!Prudent(i)' <=> M!Prudent(i)
  BY <1>s, PastStands DEF CourseInv
<1>2. \A i \in 1..last : i \in 1..size \/ i = last
  BY <1>1, <1>s
<1>p. M!Prudent(last)' =>
        M!Prudent(size) /\ (u.body.kind = "ITEM" => u.body.named # "FUTURE")
  <2>1. size \in 0..size /\ last \in 1..last /\ \A j \in 1..size : j \in 1..last
    BY <1>1, <1>s
  <2>2. M!Prudent(last)' => M!Prudent(size)'
    BY <2>1 DEF M!Prudent
  <2>3. M!Prudent(last)' => (u.body.kind = "ITEM" => u.body.named # "FUTURE")
    BY <1>1, <2>1 DEF M!Prudent
  <2> QED
    BY <1>1, <2>1, <2>2, <2>3
<1>3. M!ConclusionsAreAnswered'
  <2>1. ASSUME NEW i \in 1..last, course'[i].body.kind \in {"COMMIT", "WITHDRAW"},
               NEW before, before = M!Before(i)', before.opinion # none
        PROVE  course'[i].body.learning.corrects = before.opinion.says
    <3>1. CASE i = last
      <4>1. course'[i] = u /\ before = M!State
        BY <1>s, <1>1, <2>1, <3>1
      <4> QED
        BY <2>1, <4>1 DEF Fitting
    <3>2. CASE i \in 1..size
      <4>1. course'[i] = course[i] /\ before = M!Before(i)
        BY <1>1, <2>1, <3>2
      <4> QED
        BY <1>s, <2>1, <3>2, <4>1 DEF CourseInv, M!ConclusionsAreAnswered
    <3> QED
      BY <1>2, <3>1, <3>2
  <2> QED
    BY <1>1, <2>1 DEF M!ConclusionsAreAnswered
<1>4. \A item : \A j \in M!Changes(size, item) : j \in 1..size /\ course'[j] = course[j]
  BY <1>1 DEF M!Changes
<1>5. M!MattersEndOnce'
  <2> DEFINE EarlierNext(i) ==
               {j \in 1..i - 1 : /\ course'[j].body.kind = "ITEM"
                                 /\ course'[j].body.record.item = course'[i].body.record.item}
  <2>1. ASSUME NEW i \in 1..last, course'[i].body.kind = "ITEM", M!Prudent(i)'
        PROVE  /\ \A j \in EarlierNext(i) : course'[j].body.record.status \notin M!Terminal
               /\ \A n \in 0..MaxMatter :
                    (\E j \in EarlierNext(i) : course'[j].body.record.revision = n)
                      <=> n < course'[i].body.record.revision
    <3>0. PICK record, earlier : record = course'[i].body.record /\ earlier = EarlierNext(i)
      OBVIOUS
    <3> HIDE DEF EarlierNext
    <3>1. i - 1 \in 0..size
      BY <1>s, <1>1, <1>2
    <3>2. earlier = M!Changes(i - 1, record.item)
      BY <1>1, <1>2, <1>s, <3>0, <3>1 DEF M!Changes, EarlierNext
    <3>3. \A j \in earlier : j \in 1..size /\ course'[j] = course[j]
      BY <1>1, <1>2, <1>s, <3>2 DEF M!Changes
    <3>4. /\ \A j \in earlier : course'[j].body.record.status \notin M!Terminal
          /\ \A n \in 0..MaxMatter :
               (\E j \in earlier : course'[j].body.record.revision = n) <=> n < record.revision
      <4>1. CASE i = last
        <5>1. earlier = M!Changes(size, record.item) /\ Continues(record)
          BY <1>1, <1>p, <1>s, <2>1, <3>0, <3>2, <4>1 DEF Fitting
        <5> QED
          BY <1>s, <3>3, <5>1 DEF Continues
      <4>2. CASE i \in 1..size
        <5>1. course'[i] = course[i] /\ M!Prudent(i)
          BY <1>1, <2>1, <4>2
        <5>2. /\ \A j \in earlier : course[j].body.record.status \notin M!Terminal
              /\ \A n \in 0..MaxMatter :
                   (\E j \in earlier : course[j].body.record.revision = n) <=> n < record.revision
          BY <1>s, <2>1, <3>0, <3>2, <4>2, <5>1 DEF CourseInv, M!MattersEndOnce
        <5> QED
          BY <3>3, <5>2
      <4> QED
        BY <1>2, <4>1, <4>2
    <3> QED
      BY <3>0, <3>4
  <2> QED
    BY <1>1, <2>1 DEF M!MattersEndOnce, M!Changes
<1>6. ASSUME NEW item, u.body.kind = "ITEM" => u.body.record.item # item
      PROVE  M!Changes(last, item)' = M!Changes(size, item)
  BY <1>1, <1>2, <1>6, <1>s DEF M!Changes
<1>7. ASSUME u.body.kind = "ITEM"
      PROVE  M!Changes(last, u.body.record.item)' = M!Changes(size, u.body.record.item) \cup {last}
  BY <1>1, <1>2, <1>7, <1>s DEF M!Changes
<1>8. M!Prudent(last)' => Lasting'
  <2> SUFFICES ASSUME M!Prudent(last)' PROVE Lasting'
    OBVIOUS
  <2>0. Lasting /\ (u.body.kind = "ITEM" => Continues(u.body.record))
    BY <1>p, <1>s DEF CourseInv, Fitting
  <2>1. ASSUME NEW r \in u.state.records
        PROVE  /\ \A j \in M!Changes(last, r.item)' :
                    course'[j].body.record.status \notin M!Terminal
               /\ \A n \in 0..MaxMatter :
                    (\E j \in M!Changes(last, r.item)' : course'[j].body.record.revision = n)
                      <=> n <= r.revision
    <3>1. CASE u.body.kind = "ITEM" /\ r = u.body.record
      <4>1. r.status \notin M!Terminal /\ Continues(r)
        BY <2>0, <3>1, <2>1 DEF Fitting
      <4>2. r.revision \in 0..MaxMatter /\ r.revision \in Nat
        BY <4>1, GateAssumption DEF Continues
      <4>3. \A n \in 0..MaxMatter : n <= r.revision <=> (n < r.revision \/ n = r.revision)
        BY <4>2, GateAssumption
      <4>4. M!Changes(last, r.item)' = M!Changes(size, r.item) \cup {last}
        BY <1>7, <3>1
      <4>5. course'[last].body.record = r
        BY <1>1, <3>1
      <4> QED
        BY <1>s, <1>4, <4>1, <4>3, <4>4, <4>5 DEF Continues
    <3>2. CASE ~ (u.body.kind = "ITEM" /\ r = u.body.record)
      <4>1. r \in M!State.records /\ (u.body.kind = "ITEM" => u.body.record.item # r.item)
        BY <2>1, <3>2 DEF Fitting
      <4>2. M!Changes(last, r.item)' = M!Changes(size, r.item)
        BY <1>6, <4>1
      <4> QED
        BY <1>s, <1>4, <2>0, <4>1, <4>2 DEF Lasting
    <3> QED
      BY <3>1, <3>2
  <2> QED
    BY <1>1, <2>1 DEF Lasting
<1> QED
  BY <1>1, <1>3, <1>5, <1>8 DEF CourseInv

LEMMA AcceptedFits ==
  ASSUME course \in Seq(CourseUpdate), M!Prudent(Len(course)) => Lasting,
         NEW n \in Numbers, NEW body \in CommandBody, Founded(body),
         NEW u, u = [by |-> n, body |-> body, state |-> M!Applied(body, M!State)]
  PROVE  u \in CourseUpdate /\ Fitting(u)
<1>1. M!State \in Held
  BY StateHeld
<1>2. u.by = n /\ u.body = body /\ u.state = M!Applied(body, M!State)
  OBVIOUS
<1>3. CASE body \in ItemBody
  <2>1. body.kind = "ITEM" /\ body.record \in M!Matter
    BY <1>3 DEF ItemBody
  <2>2. M!Prudent(Len(course)) /\ body.named # "FUTURE" => Continues(body.record)
    BY <2>1, AdmittedContinues DEF Founded, M!Acceptable
  <2> DEFINE rest == {r \in M!State.records : r.item # body.record.item /\ r.status \notin M!Terminal}
             new == {r \in {body.record} : r.status \notin M!Terminal}
  <2>3. M!Applied(body, M!State) = [M!State EXCEPT !.records = rest \cup new]
    BY <2>1 DEF M!Applied
  <2>4. rest \cup new \in SUBSET M!Matter
    BY <1>1, <2>1 DEF Held
  <2> HIDE DEF rest, new
  <2>5. M!Applied(body, M!State) \in Held /\ M!Applied(body, M!State).records = rest \cup new
    BY <1>1, <2>3, <2>4 DEF Held
  <2>6. u \in CourseUpdate
    BY <2>5 DEF CourseUpdate
  <2> QED
    BY <1>2, <2>1, <2>2, <2>5, <2>6 DEF Fitting, rest, new
<1>4. CASE body \in DrawnBody
  <2>1. body.kind \in {"COMMIT", "WITHDRAW"} /\ body.learning \in Learnings
    BY <1>4 DEF DrawnBody
  <2>2. M!State.opinion # none => body.learning.corrects = M!State.opinion.says
    BY <2>1 DEF Founded, M!Acceptable, M!Correctable
  <2>3. \E opinion \in Learnings \cup {none} :
          M!Applied(body, M!State) = [M!State EXCEPT !.opinion = opinion]
    BY <2>1 DEF M!Applied
  <2>4. M!Applied(body, M!State) \in Held /\ M!Applied(body, M!State).records = M!State.records
    BY <1>1, <2>3 DEF Held
  <2>5. u \in CourseUpdate
    BY <2>4 DEF CourseUpdate
  <2> QED
    BY <1>2, <2>1, <2>2, <2>4, <2>5 DEF Fitting
<1> QED
  BY <1>3, <1>4 DEF CommandBody

LEMMA SoundSteps ==
  ASSUME NEW c, CallInv(c)
  PROVE  /\ calling[c].pc = "state" => ReadSound(c)
         /\ calling[c].pc = "apply" => DraftSound(c)
<1>1. ReadSound(c) => calling[c].pc = "state"
  BY DEF ReadSound
<1>2. DraftSound(c) => calling[c].pc = "apply"
  BY DEF DraftSound
<1>3. calling[c] = M!Idle => calling[c].pc = "idle"
  BY DEF M!Idle
<1>4. (\E n \in Numbers : Submitted(n) /\ calling[c] = [pc |-> "history", of |-> n])
        => calling[c].pc = "history"
  OBVIOUS
<1> QED
  BY <1>1, <1>2, <1>3, <1>4 DEF CallInv

\* What another call has read and prepared stands, or is not used any more.
LEMMA OthersStand ==
  ASSUME CourseInv, CallsInv, NEW c \in Writers, calling'[c] = calling[c],
         UNCHANGED course \/ Len(course') = Len(course) + 1,
         \A n \in Numbers : Submitted(n) => issued'[n] = issued[n]
  PROVE  CallInv(c)'
<1>1. CallInv(c) /\ Len(course) \in Nat
  BY DEF CallsInv, CourseInv
<1>2. \A n \in Numbers : Submitted(n) => Submitted(n)' /\ issued'[n] = issued[n]
  BY DEF Submitted
<1>3. CASE calling[c] = M!Idle
  BY <1>3 DEF CallInv, M!Idle
<1>4. CASE \E n \in Numbers : Submitted(n) /\ calling[c] = [pc |-> "history", of |-> n]
  BY <1>2, <1>4 DEF CallInv
<1>5. \A n \in Numbers :
        /\ Submitted(n) /\ (issued[n].named # "FUTURE" \/ issued[n].expected <= Len(course))
        /\ issued[n].expected = Len(course')
        => UNCHANGED course
  BY <1>1 DEF CallsInv, CommandInv, Submitted, CommandBody, ItemBody, DrawnBody
<1>6. UNCHANGED course => UNCHANGED <<M!Known, M!State>>
  BY DEF M!Known, M!State, M!Updates
<1>7. ASSUME NEW n \in Numbers, NEW read \in {calling[c].known}, Submitted(n),
             calling[c] = [pc |-> "state", of |-> n, known |-> read],
             issued[n].named # "FUTURE" /\ issued[n].expected = Len(course) => read = M!Known
      PROVE  CallInv(c)'
  <2>1. Submitted(n)' /\ issued'[n] = issued[n] /\ read \in {calling'[c].known}
    BY <1>2, <1>7
  <2>2. issued'[n].named # "FUTURE" /\ issued'[n].expected = Len(course') => read = M!Known'
    BY <1>5, <1>6, <1>7, <2>1
  <2> QED
    BY <1>7, <2>1, <2>2 DEF CallInv, ReadSound
<1>8. ASSUME NEW n \in Numbers, NEW draft \in {calling[c].draft}, Submitted(n),
             calling[c] = [pc |-> "apply", of |-> n, draft |-> draft],
             issued[n].expected <= Len(course),
             issued[n].expected = Len(course) =>
               draft = M!Applied(issued[n], M!State) /\ Founded(issued[n])
      PROVE  CallInv(c)'
  <2>1. Submitted(n)' /\ issued'[n] = issued[n] /\ draft \in {calling'[c].draft}
    BY <1>2, <1>8
  <2>2. ASSUME issued'[n].expected = Len(course')
        PROVE  draft = M!Applied(issued'[n], M!State') /\ Founded(issued[n])'
    <3>1. UNCHANGED course
      BY <1>5, <1>8, <2>1, <2>2
    <3>2. UNCHANGED <<M!Known, M!State>>
      BY <1>6, <3>1
    <3>3. draft = M!Applied(issued[n], M!State) /\ Founded(issued[n])
      BY <1>8, <2>1, <2>2, <3>1
    <3>4. draft = M!Applied(issued'[n], M!State')
      BY <2>1, <3>2, <3>3
    <3>5. Founded(issued[n])'
      BY <2>1, <3>1, <3>2, <3>3 DEF Founded, M!Acceptable, M!Completed, M!Updates
    <3> QED
      BY <3>4, <3>5
  <2>3. issued'[n].expected <= Len(course')
    <3>1. issued[n].expected \in Nat
      BY <1>8 DEF CallsInv, CommandInv, Submitted, CommandBody, ItemBody, DrawnBody
    <3> QED
      BY <1>1, <1>8, <2>1, <3>1
  <2> QED
    BY <1>8, <2>1, <2>2, <2>3 DEF CallInv, DraftSound
<1> QED
  BY <1>1, <1>3, <1>4, <1>7, <1>8 DEF CallInv, ReadSound, DraftSound

LEMMA MattersStep == CourseInv /\ CallsInv /\ M!MNext => CourseInv' /\ CallsInv'
<1> SUFFICES ASSUME CourseInv, CallsInv, M!MNext
             PROVE  CourseInv' /\ CallsInv'
  OBVIOUS
<1>l. Len(course) \in Nat /\ course \in Seq(CourseUpdate)
  BY DEF CourseInv
<1>s. UNCHANGED course => CourseInv'
  BY DEF CourseInv, Lasting, M!State, M!Changes, M!MattersEndOnce, M!Prudent,
         M!ConclusionsAreAnswered, M!Before
<1>b. \A body \in CommandBody : body # M!NotIssued
  BY DEF CommandBody, ItemBody, DrawnBody, M!NotIssued
\* A step of c that issues no command.
<1>1. ASSUME NEW c \in Writers, NEW now, M!Becomes(c, now), UNCHANGED issued,
             UNCHANGED course \/ Len(course') = Len(course) + 1,
             calling'[c] = now => CallInv(c)'
      PROVE  CallsInv'
  <2>1. /\ calling' = [v \in Writers |-> calling'[v]] /\ calling'[c] = now
        /\ \A v \in Writers \ {c} : calling'[v] = calling[v]
    BY <1>1 DEF M!Becomes, CallsInv
  <2>2. \A v \in Writers : CallInv(v)'
    BY <1>1, <2>1, OthersStand
  <2>3. ASSUME NEW n \in Numbers
        PROVE  CommandInv(n)'
    <3>1. issued'[n] = issued[n] /\ (issued[n] = M!NotIssued
            \/ /\ issued[n] \in CommandBody
               /\ issued[n].named # "FUTURE" => issued[n].expected <= Len(course))
      BY <1>1 DEF CallsInv, CommandInv
    <3>2. issued[n] \in CommandBody => issued[n].expected \in Nat
      BY DEF CommandBody, ItemBody, DrawnBody
    <3>3. UNCHANGED course \/ Len(course') = Len(course) + 1
      BY <1>1
    <3> QED
      BY <1>l, <3>1, <3>2, <3>3 DEF CommandInv
  <2> QED
    BY <1>1, <2>1, <2>2, <2>3 DEF CallsInv
<1>2. ASSUME NEW c \in Writers, M!Becomes(c, M!Idle), UNCHANGED issued,
             UNCHANGED course \/ Len(course') = Len(course) + 1
      PROVE  CallsInv'
  BY <1>1, <1>2 DEF CallInv
<1>3. ASSUME NEW c \in Writers, NEW n \in Numbers, M!Begin(c, n)
      PROVE  CourseInv' /\ CallsInv'
  <2>1. /\ UNCHANGED course
        /\ calling' = [v \in Writers |-> calling'[v]] /\ calling'[c] = [pc |-> "history", of |-> n]
        /\ \A v \in Writers \ {c} : calling'[v] = calling[v]
    BY <1>3 DEF M!Begin, M!Becomes, CallsInv
  <2>2. /\ issued' = [m \in Numbers |-> issued'[m]]
        /\ \A m \in Numbers \ {n} : issued'[m] = issued[m]
        /\ issued[n] # M!NotIssued => issued'[n] = issued[n]
        /\ issued'[n] = issued[n] \/ issued'[n] \in M!Bodies
        /\ issued'[n] # M!NotIssued
    <3>1. CASE \E body \in M!Bodies : issued' = [issued EXCEPT ![n] = body] /\ issued[n] = M!NotIssued
      <4>1. \A body \in M!Bodies : body # M!NotIssued
        BY DEF M!Bodies, M!NotIssued
      <4> QED
        BY <3>1, <4>1 DEF CallsInv
    <3>2. CASE UNCHANGED issued /\ issued[n] # M!NotIssued
      BY <3>2 DEF CallsInv
    <3> QED
      BY <1>3, <3>1, <3>2 DEF M!Begin
  <2>3. \A body \in M!Bodies :
          body \in CommandBody /\ (body.named # "FUTURE" => body.expected <= Len(course))
    <3>1. ASSUME NEW expected \in 0..MaxCourse
          PROVE  /\ M!Named(expected) \in Moments /\ expected \in Nat
                 /\ M!Named(expected) # "FUTURE" => expected <= Len(course)
      BY <1>l, GateAssumption DEF M!Named, M!Revision, Moments
    <3> QED
      BY <3>1 DEF M!Bodies, CommandBody, ItemBody, DrawnBody
  <2>4. \A m \in Numbers : CommandInv(m)'
    BY <1>l, <2>1, <2>2, <2>3 DEF CallsInv, CommandInv
  <2>5. \A m \in Numbers : Submitted(m) => issued'[m] = issued[m]
    BY <2>2 DEF Submitted
  <2>6. \A v \in Writers \ {c} : CallInv(v)'
    BY <2>1, <2>5, OthersStand
  <2>7. CallInv(c)'
    BY <2>1, <2>2 DEF CallInv, Submitted
  <2> QED
    BY <1>s, <2>1, <2>2, <2>4, <2>6, <2>7 DEF CallsInv
<1>4. ASSUME NEW c \in Writers, M!ReadHistory(c)
      PROVE  CourseInv' /\ CallsInv'
  <2>1. UNCHANGED <<course, issued>>
    BY <1>4 DEF M!ReadHistory
  <2>2. PICK n \in Numbers : Submitted(n) /\ calling[c] = [pc |-> "history", of |-> n]
    BY <1>4 DEF M!ReadHistory, CallsInv, CallInv, M!Idle, ReadSound, DraftSound
  <2>3. M!Becomes(c, M!Idle) \/ M!Becomes(c, [pc |-> "state", of |-> n, known |-> M!Known])
    BY <1>4, <2>2 DEF M!ReadHistory
  <2>4. ASSUME calling'[c] = [pc |-> "state", of |-> n, known |-> M!Known]
        PROVE  CallInv(c)'
    <3>1. Submitted(n)' /\ M!Known' = M!Known
      BY <2>1, <2>2 DEF Submitted, M!Known, M!Updates
    <3>2. calling'[c].known = M!Known'
      BY <2>4, <3>1
    <3> QED
      BY <2>4, <3>1, <3>2 DEF CallInv, ReadSound
  <2> QED
    BY <1>1, <1>2, <1>s, <2>1, <2>3, <2>4
<1>5. ASSUME NEW c \in Writers, M!Prepare(c)
      PROVE  CourseInv' /\ CallsInv'
  <2>1. UNCHANGED <<course, issued>>
    BY <1>5 DEF M!Prepare
  <2>0. calling[c].pc = "state" /\ CallInv(c)
    BY <1>5 DEF M!Prepare, CallsInv
  <2>2. PICK n \in Numbers, read \in {calling[c].known} :
          /\ Submitted(n) /\ calling[c] = [pc |-> "state", of |-> n, known |-> read]
          /\ issued[n].named # "FUTURE" /\ issued[n].expected = Len(course) => read = M!Known
    BY <2>0, SoundSteps DEF ReadSound
  <2> DEFINE now == [pc |-> "apply", of |-> n, draft |-> M!Applied(issued[n], M!State)]
  <2>3. \/ M!Becomes(c, M!Idle)
        \/ /\ Len(course) = issued[n].expected /\ M!Acceptable(issued[n], M!State, read)
           /\ M!Becomes(c, now)
    BY <1>5, <2>2 DEF M!Prepare, M!Revision
  <2>4. ASSUME calling'[c] = now, Len(course) = issued[n].expected,
               M!Acceptable(issued[n], M!State, read)
        PROVE  CallInv(c)'
    <3>1. /\ Submitted(n)' /\ issued'[n] = issued[n]
          /\ M!Known' = M!Known /\ M!State' = M!State
      BY <2>1, <2>2 DEF Submitted, M!Known, M!Updates, M!State
    <3>2. Founded(issued[n])
      <4>1. CASE issued[n].named # "FUTURE"
        BY <2>2, <2>4, <4>1 DEF Founded
      <4>2. CASE issued[n].named = "FUTURE"
        BY <2>4, <4>2 DEF Founded, M!Acceptable
      <4> QED
        BY <4>1, <4>2
    <3>4. Founded(issued[n])'
      BY <2>1, <3>1, <3>2 DEF Founded, M!Acceptable, M!Completed, M!Updates
    <3>5. issued'[n].expected <= Len(course')
      BY <1>l, <2>1, <2>4
    <3>3. calling'[c].draft = M!Applied(issued'[n], M!State')
      BY <2>4, <3>1
    <3> QED
      BY <2>4, <3>1, <3>3, <3>4, <3>5 DEF CallInv, DraftSound
  <2> QED
    BY <1>1, <1>2, <1>s, <2>1, <2>2, <2>3, <2>4
<1>6. ASSUME NEW c \in Writers, M!Apply(c)
      PROVE  CourseInv' /\ CallsInv'
  <2>1. M!Becomes(c, M!Idle) /\ UNCHANGED issued
    BY <1>6 DEF M!Apply
  <2>0. calling[c].pc = "apply" /\ CallInv(c)
    BY <1>6 DEF M!Apply, CallsInv
  <2>2. PICK n \in Numbers, draft \in {calling[c].draft} :
          /\ Submitted(n) /\ calling[c] = [pc |-> "apply", of |-> n, draft |-> draft]
          /\ issued[n].expected = Len(course) =>
               draft = M!Applied(issued[n], M!State) /\ Founded(issued[n])
    BY <2>0, SoundSteps DEF DraftSound
  <2>3. CASE UNCHANGED course
    BY <1>2, <1>s, <2>1, <2>3
  <2>4. CASE ~ UNCHANGED course
    <3>1. PICK u : u = [by |-> n, body |-> issued[n], state |-> draft]
      OBVIOUS
    <3>2. course' = Append(course, u) /\ issued[n].expected = Len(course)
      BY <1>6, <2>2, <2>4, <3>1 DEF M!Apply, M!Unchanged, M!Revision, M!Record
    <3>3. issued[n] \in CommandBody
      BY <2>2 DEF Submitted, CallsInv, CommandInv
    <3>4. u \in CourseUpdate /\ Fitting(u)
      BY <2>2, <3>1, <3>2, <3>3, AcceptedFits DEF CourseInv
    <3>5. CourseInv' /\ Len(course') = Len(course) + 1
      BY <1>l, <3>2, <3>4, CourseContinues
    <3> QED
      BY <1>2, <2>1, <3>5
  <2> QED
    BY <2>3, <2>4
<1>7. ASSUME NEW item \in Intents, M!Happen(item)
      PROVE  CourseInv' /\ CallsInv'
  <2>1. PICK u : u = [by |-> none, body |-> [kind |-> "RESULT", item |-> item], state |-> M!State]
    OBVIOUS
  <2>2. course' = Append(course, u) /\ UNCHANGED <<issued, calling>>
    BY <1>7, <2>1 DEF M!Happen, M!Record
  <2>3. u \in CourseUpdate
    BY <1>l, <2>1, StateHeld DEF CourseUpdate, ResultBody
  <2>4. Fitting(u)
    BY <2>1 DEF Fitting
  <2>5. CourseInv' /\ Len(course') = Len(course) + 1
    BY <1>l, <2>2, <2>3, <2>4, CourseContinues
  <2>6. \A v \in Writers : CallInv(v)'
    BY <2>2, <2>5, OthersStand
  <2>7. \A n \in Numbers : CommandInv(n)'
    <3>1. \A n \in Numbers : issued[n] \in CommandBody => issued[n].expected \in Nat
      BY DEF CommandBody, ItemBody, DrawnBody
    <3> QED
      BY <1>l, <2>2, <2>5, <3>1 DEF CallsInv, CommandInv
  <2> QED
    BY <2>2, <2>5, <2>6, <2>7 DEF CallsInv
<1>8. ASSUME NEW c \in Writers, M!Fail(c)
      PROVE  CourseInv' /\ CallsInv'
  BY <1>2, <1>8, <1>s DEF M!Fail
<1> QED
  BY <1>3, <1>4, <1>5, <1>6, <1>7, <1>8 DEF M!MNext

LEMMA MattersInvariance == GSpec => [](CourseInv /\ CallsInv)
<1>1. GInit => CourseInv /\ CallsInv
  <2> SUFFICES ASSUME M!MInit PROVE CourseInv /\ CallsInv
    BY DEF GInit
  <2>1. course = <<>> /\ Len(course) = 0
    BY DEF M!MInit
  <2>2. CourseInv
    BY <2>1 DEF CourseInv, Lasting, M!State, M!Blank, M!MattersEndOnce, M!ConclusionsAreAnswered
  <2>3. CallsInv
    BY DEF M!MInit, CallsInv, CommandInv, CallInv
  <2> QED
    BY <2>2, <2>3
<1>2. CourseInv /\ CallsInv /\ [GNext]_<<focus, vars, gvars, mvars>> => (CourseInv /\ CallsInv)'
  <2> SUFFICES ASSUME CourseInv, CallsInv, [GNext]_<<focus, vars, gvars, mvars>>
               PROVE  CourseInv' /\ CallsInv'
    OBVIOUS
  <2>1. CASE UNCHANGED mvars
    <3>1. UNCHANGED course /\ UNCHANGED issued /\ UNCHANGED calling
      BY <2>1 DEF mvars
    <3>2. CourseInv'
      BY <3>1 DEF CourseInv, Lasting, M!State, M!Changes, M!MattersEndOnce,
                  M!Prudent, M!ConclusionsAreAnswered, M!Before
    <3>3. \A c \in Writers : CallInv(c)'
      BY <3>1, OthersStand
    <3> QED
      BY <3>1, <3>2, <3>3 DEF CallsInv, CommandInv
  <2>2. CASE M!MNext
    BY <2>2, MattersStep
  <2> QED
    BY <2>1, <2>2 DEF GNext, Live, Permit, Intend, Ended
<1> QED
  BY <1>1, <1>2, PTL DEF GSpec

\* What is recorded of a matter is one line of revisions and nothing follows its end, although the
\* state forgets what has ended and commands are repeated and overtake each other (submit): up to
\* the first change of a matter that was sent before the revision it names.
THEOREM EndedMattersStay == GSpec => []MattersEndOnce
<1>1. CourseInv /\ CallsInv => MattersEndOnce
  BY DEF CourseInv, MattersEndOnce
<1> QED
  BY <1>1, MattersInvariance, PTL

\* Whatever replaces or withdraws a conclusion was drawn to correct that very one (commit, withdraw).
THEOREM ConclusionsAreCorrected == GSpec => []ConclusionsAreAnswered
<1>1. CourseInv /\ CallsInv => ConclusionsAreAnswered
  BY DEF CourseInv, ConclusionsAreAnswered
<1> QED
  BY <1>1, MattersInvariance, PTL
=============================================================================
