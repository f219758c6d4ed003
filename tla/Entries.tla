------------------------------ MODULE Entries -------------------------------
(***************************************************************************)
(* JsonEnvironmentRepository under EnvironmentAccessService and            *)
(* CrossEntryService: through which attachments the subject is reached,    *)
(* which user each entry is bound to, who asked not to be contacted, and   *)
(* whether a message the subject decided on may go out now.                *)
(* All that is one document, replaced as a whole under a lock by a writer  *)
(* that names the revision it has seen.  A check does not hold the lock:   *)
(* it reads the document again for every question, with calls of the       *)
(* permission ports in between, and compares the first and the last        *)
(* document it read.                                                       *)
(* Abstracted: the ports, expiry and the state of the subject, any of      *)
(* which may refuse a check anywhere; accounts, audiences and purposes.    *)
(***************************************************************************)
EXTENDS Integers, FiniteSets

CONSTANTS
  Hosts,
  Attachments,
  Entries,
  Users,
  MaxRevision  \* bound: revisions of the document

VARIABLES
  document,  \* attachments, bindings, pauses and the host in charge
  setting,   \* a change of bindings, pauses or the host that is being made
  delivery   \* a message that was decided on, and the check of it

evars == <<document, setting, delivery>>

-----------------------------------------------------------------------------
NoHost == [host |-> "none", generation |-> 0]

NoAttachment == [state |-> "NONE"]

NoBinding == [version |-> 0]

NoSetting == [step |-> "idle"]

NoDelivery == [step |-> "none"]

Empty ==
  [revision |-> 0, charge |-> NoHost, attachment |-> [a \in Attachments |-> NoAttachment],
   binding |-> [e \in Entries |-> NoBinding], paused |-> {}]

\* A binding names an attachment under the host it was verified for.
Available(doc, use) ==
  LET a == doc.attachment[use.attachment]
  IN  /\ a # NoAttachment /\ a.state = "CONNECTED" /\ a.enabled
      /\ a.charge = doc.charge /\ use.charge = a.charge

\* The binding of an entry can be used.
Bound(doc, e) == doc.binding[e] # NoBinding /\ Available(doc, doc.binding[e].use)

\* What one entry was told may be used in another, of the same user.
Transfers(doc, origin, e) ==
  /\ Bound(doc, origin) /\ Bound(doc, e)
  /\ doc.binding[origin].user = doc.binding[e].user
  /\ origin = e \/ origin \in doc.binding[e].reads

-----------------------------------------------------------------------------
(* Writers.                                                                *)

\* Mutant: the last writer wins.
TransactsAnyway(expected) == expected \in 0..MaxRevision /\ document.revision < MaxRevision

Transacts(expected) == document.revision = expected /\ document.revision < MaxRevision

Put(doc) == document' = [doc EXCEPT !.revision = @ + 1]

Discovery == {<<"HEARD_OF", "DISCOVERED">>, <<"DISCOVERED", "CONNECTED">>}

\* The first attachment puts its host in charge; later ones are of that host.
Register(a, host, state) ==
  LET charge == IF document.charge = NoHost THEN [host |-> host, generation |-> 1] ELSE document.charge
      old == document.attachment[a]
  IN  /\ Transacts(document.revision) /\ host = charge.host
      /\ old # NoAttachment =>
           old.enabled /\ old.charge = charge /\ <<old.state, state>> \in Discovery
      /\ Put([document EXCEPT !.charge = charge,
                !.attachment[a] = [state |-> state, enabled |-> TRUE, charge |-> charge]])
      /\ UNCHANGED <<setting, delivery>>

Disable(a) ==
  /\ Transacts(document.revision)
  /\ document.attachment[a] # NoAttachment /\ document.attachment[a].enabled
  /\ Put([document EXCEPT !.attachment[a].enabled = FALSE])
  /\ UNCHANGED <<setting, delivery>>

\* Whoever configures an entry, pauses contact or hands the subject over reads the revision, has
\* the call check what it is about, and then writes, each on its own.
See(what) ==
  /\ setting = NoSetting
  /\ setting' = [step |-> "check", what |-> what, revision |-> document.revision]
  /\ UNCHANGED <<document, delivery>>

SeeBinding(e, user, reads, initiates, a) ==
  See([kind |-> "bind", entry |-> e,
       binding |-> [version |-> document.binding[e].version + 1, user |-> user, reads |-> reads,
                    initiates |-> initiates,
                    use |-> [attachment |-> a, charge |-> document.charge]]])

SeePause(e, paused) == See([kind |-> "pause", entry |-> e, paused |-> paused])

SeeHandoff(target) ==
  /\ document.charge # NoHost /\ target # document.charge.host
  /\ See([kind |-> "handoff", charge |-> document.charge, target |-> target])

CheckSetting ==
  LET what == setting.what
  IN  /\ setting.step = "check"
      /\ \/ /\ what.kind = "bind" /\ Available(document, what.binding.use)
            /\ setting' = [setting EXCEPT !.step = "write"]
         \/ /\ what.kind = "pause" /\ Bound(document, what.entry)
            /\ setting' = [step |-> "write", revision |-> setting.revision,
                           what |-> [kind |-> "pause", entry |-> what.entry, paused |-> what.paused,
                                     user |-> document.binding[what.entry].user]]
         \/ /\ what.kind = "handoff" /\ document.charge = what.charge
            /\ setting' = [setting EXCEPT !.step = "write"]
      /\ UNCHANGED <<document, delivery>>

WriteSetting ==
  LET what == setting.what
  IN  /\ setting.step = "write" /\ Transacts(setting.revision)
      /\ \/ /\ what.kind = "bind"
            /\ what.binding.version = document.binding[what.entry].version + 1
            /\ Put([document EXCEPT !.binding[what.entry] = what.binding])
         \/ /\ what.kind = "pause" /\ (what.user \in document.paused) # what.paused
            /\ Put([document EXCEPT !.paused = IF what.paused THEN @ \cup {what.user} ELSE @ \ {what.user}])
         \/ /\ what.kind = "handoff" /\ document.charge.host = what.charge.host
            /\ Put([document EXCEPT !.charge = [host |-> what.target, generation |-> @.generation + 1]])
      /\ setting' = NoSetting
      /\ UNCHANGED delivery

\* A setting is refused, by a check, a conflict or a port.
Abandon ==
  /\ setting # NoSetting /\ setting' = NoSetting
  /\ UNCHANGED <<document, delivery>>

-----------------------------------------------------------------------------
(* A message goes out.                                                     *)

To(step) == delivery' = [delivery EXCEPT !.step = step]

\* The subject answers, or turns to, an entry, out of what it was told in others.  The choice needs
\* only that the source may be used in the target; whether the origins may be is asked when it goes out.
Choose(source, target, origins) ==
  /\ delivery = NoDelivery /\ Bound(document, source)
  /\ delivery' = [step |-> "seal", source |-> source, target |-> target, origins |-> origins,
                  from |-> document.binding[source], sealed |-> document.binding[source],
                  before |-> Empty, found |-> NoBinding]
  /\ UNCHANGED <<document, setting>>

\* The binding of another target is read on its own; the one found is sealed with the choice.
Seal ==
  /\ delivery.step = "seal"
  /\ \/ /\ delivery.source = delivery.target
        /\ To("begin")
     \/ /\ delivery.source # delivery.target
        /\ Bound(document, delivery.target)
        /\ document.binding[delivery.target].user = delivery.from.user
        /\ delivery.source \in document.binding[delivery.target].reads
        /\ delivery' = [delivery EXCEPT !.step = "begin", !.sealed = document.binding[delivery.target]]
  /\ UNCHANGED <<document, setting>>

Begin ==
  /\ delivery.step = "begin"
  /\ delivery' = [delivery EXCEPT !.step = "source", !.before = document]
  /\ UNCHANGED <<document, setting>>

\* The entry it came from is still bound as it was.
CheckSource ==
  /\ delivery.step = "source"
  /\ Bound(document, delivery.source) /\ document.binding[delivery.source] = delivery.from
  /\ To("target")
  /\ UNCHANGED <<document, setting>>

CheckTarget ==
  /\ delivery.step = "target"
  /\ Bound(document, delivery.target)
  /\ LET found == document.binding[delivery.target]
     IN  /\ found.user = delivery.from.user /\ found.initiates
         /\ delivery.source = delivery.target \/ delivery.source \in found.reads
         /\ delivery' = [delivery EXCEPT !.step = "contact", !.found = found]
  /\ UNCHANGED <<document, setting>>

CheckContact ==
  /\ delivery.step = "contact" /\ delivery.found.user \notin document.paused
  /\ To("origins")
  /\ UNCHANGED <<document, setting>>

CheckOrigins ==
  /\ delivery.step = "origins" /\ delivery.found = delivery.sealed
  /\ \A origin \in delivery.origins :
       Transfers(document, origin, delivery.target)
  /\ To("compare")
  /\ UNCHANGED <<document, setting>>

\* Mutant: what was checked piece by piece is not compared at the end.
UnchangedSinceEntryOnly(doc) == doc.binding = document.binding

UnchangedSince(doc) == doc = document

\* The last of the checks lets the message go; an earlier one, before the place is observed and the
\* connection asked, is followed by another.
Compare ==
  /\ delivery.step = "compare" /\ UnchangedSince(delivery.before)
  /\ To("sent") \/ To("begin")
  /\ UNCHANGED <<document, setting>>

\* The choice is refused before anything is sealed.
RefuseChoice ==
  /\ delivery.step = "seal" /\ delivery' = NoDelivery
  /\ UNCHANGED <<document, setting>>

\* A check refuses; the choice may be tried again later.
Refuse ==
  /\ delivery.step \in {"source", "target", "contact", "origins", "compare"}
  /\ delivery' = [delivery EXCEPT !.step = "begin", !.before = Empty, !.found = NoBinding]
  /\ UNCHANGED <<document, setting>>

-----------------------------------------------------------------------------
EInit == document = Empty /\ setting = NoSetting /\ delivery = NoDelivery

ENext ==
  \/ \E a \in Attachments :
       \/ \E host \in Hosts, state \in {"HEARD_OF", "DISCOVERED", "CONNECTED"} : Register(a, host, state)
       \/ Disable(a)
  \/ \E e \in Entries :
       \/ \E user \in Users, reads \in SUBSET (Entries \ {e}), initiates \in BOOLEAN, a \in Attachments :
            SeeBinding(e, user, reads, initiates, a)
       \/ \E paused \in BOOLEAN : SeePause(e, paused)
  \/ \E target \in Hosts : SeeHandoff(target)
  \/ CheckSetting \/ WriteSetting \/ Abandon
  \/ \E source, target \in Entries :
       \E origins \in SUBSET (Entries \ {source, target}) : Choose(source, target, origins)
  \/ Seal \/ RefuseChoice \/ Begin \/ CheckSource \/ CheckTarget \/ CheckContact \/ CheckOrigins \/ Compare \/ Refuse

ESpec == EInit /\ [][ENext]_evars

-----------------------------------------------------------------------------
(* Properties.                                                             *)

Permitted(d, doc) ==
  /\ doc.binding[d.source] = d.from /\ doc.binding[d.target] = d.sealed
  /\ \A origin \in d.origins \cup {d.source} : Transfers(doc, origin, d.target)
  /\ doc.binding[d.target].initiates /\ doc.binding[d.target].user \notin doc.paused

\* A message goes out only if all that permits it held in one and the same document, the last one
\* read: the host in charge, the attachments, the bindings sealed with the choice, what may be told
\* across entries, and that the user wants to be contacted.
SentAsPermitted ==
  [][delivery.step = "compare" /\ delivery'.step = "sent" => Permitted(delivery, document)]_evars

\* A setting that is written was decided on the document it is written to: an entry is bound to an
\* attachment that can be used, the user whose contact is paused is the one the entry is bound to, and
\* only the host that was asked to is relieved, though each of these was checked earlier.
DecidedOnCurrent ==
  [][LET what == setting.what
     IN  setting # NoSetting /\ document' # document /\ setting' = NoSetting =>
           /\ what.kind = "bind" => Available(document, what.binding.use)
           /\ what.kind = "pause" => document.binding[what.entry].user = what.user
           /\ what.kind = "handoff" => document.charge = what.charge]_evars
=============================================================================
