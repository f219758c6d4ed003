--------------------------- MODULE SubjectHistory ---------------------------
(***************************************************************************)
(* What the subject's document promises to everyone who reads it: an       *)
(* append-only log of events, each applied in one step to the current      *)
(* value.  An identity is recorded once; an ordinary event only while the  *)
(* subject is active, and only after the events it refers to; a lifecycle  *)
(* command along the transition table and on behalf of the bound owner.    *)
(* The promise about the value begins with revision 1: while the revision  *)
(* is 0 direct saves rewrite the value without moving it, so an event      *)
(* committed then may build on a value that was overwritten meanwhile.     *)
(***************************************************************************)
EXTENDS SubjectRepository

VARIABLES log, rev, items, met, lc

hvars == <<log, rev, items, met, lc>>

Logged == {log[i].id : i \in 1..Len(log)}

HInit == log = <<>> /\ rev = 0 /\ items = {} /\ met = Never /\ lc = Unmanaged

Rewrite ==
  /\ log = <<>>
  /\ items' \in SUBSET Items /\ met' \in Instants
  /\ UNCHANGED <<log, rev, lc>>

\* Appending an event takes effect on the value of the same instant.
Extend(e) ==
  /\ e.id \notin Logged
  /\ \E base \in SUBSET Items, since \in Instants :
       /\ rev > 0 => base = items /\ since = met
       /\ items' = base \cup e.items
       /\ met' = Later(e.met, since)
       /\ rev' = IF items' = base /\ met' = since /\ lc' = lc THEN rev ELSE rev + 1

RecordEvent(e) ==
  /\ e.op = "NONE"
  /\ LifecycleStatus(lc) = "ACTIVE"
  /\ e.refs \subseteq Logged
  /\ e.class \in NonMutating => e.items = {}
  /\ UNCHANGED lc
  /\ Extend(e)

RecordIntent(e) ==
  /\ e.op = "INTENT" /\ e.principal = Subject
  /\ LifecycleStatus(lc) = "ACTIVE"
  /\ UNCHANGED lc
  /\ Extend(e)

RecordCommand(e) ==
  /\ e.op \in OwnerOperations
  /\ e.expected = rev
  /\ Target(lc, e.op, e.value.status)
  /\ e.value.owner = e.principal
  /\ lc # Unmanaged => lc.owner = e.principal /\ lc.changedAt <= e.value.changedAt
  /\ lc' = e.value
  /\ Extend(e)

Step(e) == RecordEvent(e) \/ RecordIntent(e) \/ RecordCommand(e)

HNext ==
  \/ Rewrite
  \/ /\ Len(log') = Len(log) + 1
     /\ log' = Append(log, log'[Len(log')])
     /\ Step(log'[Len(log')])

HSpec == HInit /\ [][HNext]_hvars
=============================================================================
