------------------------------ MODULE ActionGate ------------------------------
(***************************************************************************)
(* PermissionService over JsonPermissionRepository beside ActionService    *)
(* and the wake that uses both (WakePerceptionThinkingActionService): what *)
(* an awakened subject may do about what it has just thought.              *)
(* A permission is a document of its own with all its past states.  Owners *)
(* load it, change it, and have it saved: the save reads the document once *)
(* more, compares and replaces it, all without a lock, so that one of two  *)
(* changes may be lost although its owner was told.  The wake perceives    *)
(* the subject at one revision, thinks, loads the revision again, reads    *)
(* the permissions one after the other, decides, and changes the subject   *)
(* from the revision it loaded last.                                       *)
(* Abstracted: the second provider of permissions, any of whose grants may *)
(* be absent, out of date or in need of a confirmation; what an action     *)
(* costs; the scope of a capability, which is part of its name.            *)
(***************************************************************************)
EXTENDS Naturals, Sequences

CONSTANTS
  Permissions,
  Grants,        \* the capabilities a permission may be created with
  Owners,
  Wakes,
  MaxRevision,   \* changes of a permission
  MaxState       \* changes of the subject

VARIABLES
  document,   \* of each permission: its changes
  owner,      \* the call of each owner
  subject,    \* the changes of the subject
  wake,       \* the call of each wake
  held        \* of each wake: the capabilities that were granted at some time since it began

gvars == <<document, owner, subject, wake, held>>

-----------------------------------------------------------------------------
(* Permissions.                                                            *)

Unavailable == {"REVOKED", "EXPIRED"}

Available(state) == state.status \notin Unavailable

NoState == [status |-> "NONE", capabilities |-> {}, revision |-> 0]

Change(before, after) == [before |-> before, after |-> after]

Stored(history) == IF history = <<>> THEN NoState ELSE history[Len(history)].after

Capabilities(p) ==
  LET state == Stored(document[p]) IN IF Available(state) THEN state.capabilities ELSE {}

Granted == UNION {Capabilities(p) : p \in Permissions}

\* update_status: any other status, and the permission is as wide as before.
Restated(state) ==
  {[state EXCEPT !.status = status, !.revision = @ + 1] :
     status \in {"ACTIVE", "LIMITED", "REVOKED", "EXPIRED"} \ {state.status}}

\* restrict_permission: less than before, or as much but limited; not what is unavailable.
Restricted(state) ==
  {[status |-> "LIMITED", capabilities |-> fewer, revision |-> state.revision + 1] :
     fewer \in {few \in SUBSET state.capabilities :
                  Available(state) /\ (state.status = "LIMITED" => few # state.capabilities)}}

Created == {[status |-> "ACTIVE", capabilities |-> Grants, revision |-> 0]}

Alternatives(p) ==
  IF document[p] = <<>> THEN Created
  ELSE LET state == Stored(document[p]) IN Restated(state) \cup Restricted(state)

\* Mutant: the revision alone tells whether the state is the one that was changed.
FollowsRevision(history, change) ==
  change.after.revision = IF history = <<>> THEN 0 ELSE Stored(history).revision + 1

\* What a save requires of the document it has read.
Follows(history, change) ==
  IF history = <<>>
    THEN change.before = NoState /\ change.after.revision = 0
    ELSE /\ change.before = Stored(history)
         /\ change.after.revision = Stored(history).revision + 1

-----------------------------------------------------------------------------
(* The gate.                                                               *)

\* In the order of their priority.
Tendencies ==
  <<"UPDATE_STATE", "REQUEST_MEMORY", "REQUEST_MORE_THINKING", "CONTACT_USER", "USE_TOOL", "DEFER",
    "NO_ACTION">>

Thoughts == SUBSET {Tendencies[i] : i \in 1..6}

Selected(thought) ==
  LET intents == IF thought = {} THEN {"NO_ACTION"} ELSE thought
  IN  CHOOSE type \in intents :
        \A i, j \in 1..7 : Tendencies[i] = type /\ Tendencies[j] \in intents => i <= j

Unasked == {"DEFER", "NO_ACTION"}

\* What the two providers say together of the permission an action needs.
Checks(type, granted) ==
  IF type \in Unasked THEN {"VALID"}
  ELSE IF type \notin granted THEN {"MISSING"}
  ELSE {"VALID", "CONFIRM", "MISSING", "REFUSED"}

Risky(type) == type = "USE_TOOL"

NeedsConfirmation(type, check) == check = "CONFIRM" \/ type = "CONTACT_USER" \/ Risky(type)

\* Mutant: what was perceived is still so.
DecisionBlind(type, check, affordable, matches) ==
  [type |-> type,
   approved |-> matches \in BOOLEAN /\ check \in {"VALID", "CONFIRM"} /\ affordable /\ ~ Risky(type),
   confirm |-> NeedsConfirmation(type, check),
   refused |-> check = "REFUSED"]

\* Whether an intent may become an action of a subject that is still what was perceived.
Decision(type, check, affordable, matches) ==
  [type |-> type,
   approved |-> matches /\ check \in {"VALID", "CONFIRM"} /\ affordable /\ ~ Risky(type),
   confirm |-> NeedsConfirmation(type, check),
   refused |-> check = "REFUSED" \/ ~ matches]

Plan(decision) ==
  IF decision.type = "DEFER" THEN "DEFERRED"
  ELSE IF ~ decision.approved THEN (IF decision.refused THEN "REJECTED" ELSE "BLOCKED")
  ELSE IF decision.confirm THEN "BLOCKED" ELSE "PLANNED"

\* What may change the subject without anybody being asked.
Authorized(decision) ==
  /\ decision.approved /\ ~ decision.confirm
  /\ decision.type = "UPDATE_STATE" /\ Plan(decision) = "PLANNED"

-----------------------------------------------------------------------------
Idle == [pc |-> "idle"]

GInit ==
  /\ document = [p \in Permissions |-> <<>>]
  /\ owner = [o \in Owners |-> Idle]
  /\ subject = <<>>
  /\ wake = [w \in Wakes |-> Idle]
  /\ held = [w \in Wakes |-> {}]

(* Owners.                                                                 *)

Owning(o, call) == owner' = [owner EXCEPT ![o] = call]

Load(o, p) ==
  /\ owner[o] = Idle
  /\ Stored(document[p]).revision < MaxRevision
  /\ \E state \in Alternatives(p) :
       Owning(o, [pc |-> "save", of |-> p, change |-> Change(Stored(document[p]), state)])
  /\ UNCHANGED document

Compare(o) ==
  /\ owner[o].pc = "save"
  /\ LET call == owner[o]
         history == document[call.of]
     IN  IF Follows(history, call.change)
           THEN Owning(o, [pc |-> "write", of |-> call.of, draft |-> Append(history, call.change)])
           ELSE Owning(o, Idle)
  /\ UNCHANGED document

Write(o) ==
  /\ owner[o].pc = "write"
  /\ document' = [document EXCEPT ![owner[o].of] = owner[o].draft]
  /\ Owning(o, Idle)

Fail(o) == owner[o] # Idle /\ Owning(o, Idle) /\ UNCHANGED document

Administer ==
  /\ \E o \in Owners : (\E p \in Permissions : Load(o, p)) \/ Compare(o) \/ Write(o) \/ Fail(o)
  /\ held' = [w \in Wakes |-> IF wake[w] = Idle THEN {} ELSE held[w] \cup Granted']
  /\ UNCHANGED <<subject, wake>>

(* Wakes.                                                                  *)

Waking(w, call) ==
  /\ wake' = [wake EXCEPT ![w] = call]
  /\ held' = [held EXCEPT ![w] = IF call = Idle THEN {} ELSE @ \cup Granted]

Perceive(w) ==
  /\ wake[w] = Idle
  /\ Waking(w, [pc |-> "think", perceived |-> Len(subject)])
  /\ UNCHANGED subject

\* Thinking takes its time; what comes after it is about the subject as it is then.
Think(w) ==
  /\ wake[w].pc = "think"
  /\ \E thought \in Thoughts :
       Waking(w, [pc |-> "ask", perceived |-> wake[w].perceived, type |-> Selected(thought),
                  revision |-> Len(subject), unread |-> Permissions, granted |-> {}])
  /\ UNCHANGED subject

\* get_context: the documents are read one by one.
Read(w, p) ==
  /\ wake[w].pc = "ask" /\ p \in wake[w].unread
  /\ Waking(w, [wake[w] EXCEPT !.unread = @ \ {p}, !.granted = @ \cup Capabilities(p)])
  /\ UNCHANGED subject

Decide(w) ==
  LET call == wake[w]
  IN  /\ call.pc = "ask" /\ call.unread = {}
      /\ \E check \in Checks(call.type, call.granted), affordable \in BOOLEAN :
           LET decision == Decision(call.type, check, affordable, call.revision = call.perceived)
           IN  Waking(w, IF Authorized(decision)
                           THEN [pc |-> "evolve", perceived |-> call.perceived, revision |-> call.revision]
                           ELSE Idle)
      /\ UNCHANGED subject

\* apply_event at the expected revision.
Evolve(w) ==
  /\ wake[w].pc = "evolve"
  /\ subject' = IF Len(subject) = wake[w].revision
                  THEN Append(subject, [by |-> w, perceived |-> wake[w].perceived,
                                        permitted |-> "UPDATE_STATE" \in held[w]])
                  ELSE subject
  /\ Waking(w, Idle)

Break(w) == wake[w] # Idle /\ Waking(w, Idle) /\ UNCHANGED subject

\* An interaction, a command or another experience changes the subject.
Experience ==
  /\ Len(subject) < MaxState
  /\ subject' = Append(subject, [by |-> "others", perceived |-> Len(subject), permitted |-> TRUE])
  /\ UNCHANGED <<wake, held>>

Act ==
  /\ \/ \E w \in Wakes :
          \/ Len(subject) < MaxState /\ Perceive(w)
          \/ \E p \in Permissions : Read(w, p)
          \/ Think(w) \/ Decide(w) \/ Evolve(w) \/ Break(w)
     \/ Experience
  /\ UNCHANGED <<document, owner>>

GNext == Administer \/ Act

-----------------------------------------------------------------------------
(* Properties.                                                             *)

\* A permission is never wider than it was granted or made since, whoever changes it at the same
\* time and whoever's change is lost: each of its states was made from the one before it in the
\* document and allows no more (restrict_permission, save).
NeverWidened ==
  \A p \in Permissions : \A i \in 2..Len(document[p]) :
    LET change == document[p][i]
    IN  /\ change.before = document[p][i - 1].after
        /\ change.after.capabilities \subseteq change.before.capabilities

\* A thought changes the subject it was about, from the very revision that was perceived before
\* thinking, whatever happened to the subject during the thought, and only if a permission in the
\* store allowed it at some moment of the wake (get_context, decide, evolve).
ActsOnWhatItKnew ==
  \A i \in 1..Len(subject) : subject[i].perceived = i - 1 /\ subject[i].permitted
=============================================================================
