-------------------------- MODULE RuntimeCognitionProofs --------------------------
(***************************************************************************)
(* What RuntimeControl keeps for any hosts, any commands and any number of *)
(* faults.  The lock of the owner leaves one host at work, so its          *)
(* generation is the checkpoint's; the rest follows from what a host read  *)
(* before the step at hand and what may have been committed since.         *)
(* What NativeCognition keeps for any events, revisions, rounds, attempts  *)
(* and losses.  What is known of a need depends only on its own records    *)
(* and on where the call for it is, if there is one: that is Local, which  *)
(* a call for another task does not touch.  The needs of one revision are  *)
(* tied by Ordered: a round is begun only after the earlier ones were      *)
(* closed, and nothing ever opens them again.                              *)
(***************************************************************************)
EXTENDS RuntimeControl, NativeCognition, TLAPS

-----------------------------------------------------------------------------
(* The control of the hosts.                                               *)

PCs == {"out", "attached", "guard", "stage", "observe", "leaving"}

Checkpoints ==
  [desired : {"RUNNING", "PAUSED", "STOPPED"}, state : States, activity : Activities,
   gen : Nat, owned : BOOLEAN, commands : Seq(Commands), noted : SUBSET Nat]

Places == [pc : PCs, gen : Nat, control : Nat, state : States, activity : Activities]

ControlTypes ==
  /\ doc \in Checkpoints
  /\ active \in BOOLEAN
  /\ serving \in Hosts \cup {"none"}
  /\ host \in [Hosts -> Places]
  /\ late \in Nat
  /\ losses \in Nat

\* The host at work holds the lock, and its generation is the present one.
OneAtWork == \A h \in Hosts : ~At(h, "out") => serving = h /\ IsOwner(h)

\* Until a stop, the last owner stays recorded: the next attachment can note it.
OwnerStays == doc.gen > 0 /\ doc.desired # "STOPPED" => doc.owned

\* The late stage, once done, is not done again: no host is at a stage any more.
NoneLate ==
  late = 1 /\ doc.desired # "RUNNING" => \A h \in Hosts : ~At(h, "stage")

\* A host that observes something no control has overtaken observes what is desired.
Observed ==
  \A h \in Hosts :
    /\ host[h].pc \in {"guard", "stage", "observe"} => host[h].control <= Len(doc.commands)
    /\ At(h, "observe") /\ CurrentControl(h) /\ doc.desired = "RUNNING"
         => host[h].state \notin {"PAUSED", "STOP"}

ControlInv ==
  /\ ControlTypes /\ OneAtWork /\ OwnerStays /\ NoneLate /\ Observed
  /\ Loadable /\ ShownAsDesired /\ AtMostOneLateStage /\ LossesAreNoted

-----------------------------------------------------------------------------
\* The initial checkpoint is a sound one.
LEMMA ControlInitSound == Init => ControlInv
  BY ControlAssumption, SMT DEF Init, ControlInv, ControlTypes, Checkpoints, Places, PCs, States, Activities, Out,
     OneAtWork, OwnerStays, NoneLate, Observed, Loadable, ShownAsDesired,
     AtMostOneLateStage, LossesAreNoted, At, IsOwner, CurrentControl, Desired

\* A control keeps everything: what it adds is the last command, what it shows is what it asks for.
LEMMA ControlSound == ASSUME ControlInv, NEW c \in Commands, Control(c) PROVE ControlInv'
<1> USE DEF At, IsOwner
<1>1. /\ doc' \in Checkpoints /\ c.op \in {"PAUSE", "RESUME", "STOP"}
      /\ doc'.commands = Append(doc.commands, c) /\ doc'.desired = Desired(c.op)
      /\ doc'.state = Shown(c.op) /\ doc'.gen = doc.gen /\ doc'.owned = doc.owned
      /\ doc'.noted = doc.noted /\ doc.desired # "STOPPED"
  <2>1. c.op \in {"PAUSE", "RESUME", "STOP"} BY ControlAssumption
  <2>2. Desired(c.op) \in {"RUNNING", "PAUSED", "STOPPED"} BY <2>1 DEF Desired
  <2>3. Shown(c.op) \in States BY <2>1 DEF Shown, States
  <2>4. Doing(c.op) \in Activities BY <2>1 DEF Doing, Activities
  <2>5. doc \in Checkpoints /\ Append(doc.commands, c) \in Seq(Commands)
    BY DEF ControlInv, ControlTypes, Checkpoints
  <2> QED BY <2>1, <2>2, <2>3, <2>4, <2>5 DEF Checkpoints, Control, Accepts
<1>2. doc.commands \in Seq(Commands) /\ Len(doc'.commands) = Len(doc.commands) + 1
      /\ \A i \in 1..Len(doc.commands) : doc'.commands[i] = doc.commands[i]
      /\ doc'.commands[Len(doc.commands) + 1] = c
  BY <1>1 DEF ControlInv, ControlTypes, Checkpoints
<1>3. UNCHANGED <<active, serving, host, losses>> /\ late' \in {0, late}
      /\ (doc.desired = "RUNNING" => late' = 0) /\ (doc.desired # "RUNNING" => late' = late)
  BY DEF Control
<1>4. ControlTypes' BY <1>1, <1>3 DEF ControlInv, ControlTypes
<1>5. OneAtWork' BY <1>1, <1>3 DEF ControlInv, OneAtWork
<1>6. OwnerStays' BY <1>1 DEF ControlInv, OwnerStays
<1>7. NoneLate' BY <1>1, <1>3 DEF ControlInv, NoneLate
<1>8. Observed' BY <1>1, <1>2, <1>3 DEF ControlInv, Observed, CurrentControl, ControlTypes, Places
<1>9. Loadable'
  <2>1. \A i \in 1..Len(doc.commands) : doc.commands[i].id # c.id
    BY DEF Control, Accepts, Recorded
  <2>2. \A i \in 1..Len(doc.commands) : doc.commands[i].op # "STOP"
    BY ControlAssumption, <1>1, <1>2 DEF ControlInv, Loadable, Desired
  <2>3. \A i \in 1..Len(doc.commands) + 1 : i \in 1..Len(doc.commands) \/ i = Len(doc.commands) + 1
    BY <1>2
  <2>4. \A i, j \in 1..Len(doc'.commands) : i # j => doc'.commands[i].id # doc'.commands[j].id
    BY <1>2, <2>1, <2>3 DEF ControlInv, Loadable
  <2>5. \A i \in 1..Len(doc'.commands) :
          IF i = Len(doc'.commands) THEN doc'.desired = Desired(doc'.commands[i].op)
          ELSE doc'.commands[i].op # "STOP"
    BY <1>1, <1>2, <2>2, <2>3
  <2>6. /\ doc'.desired \in {"RUNNING", "PAUSED", "STOPPED"}
        /\ doc'.state \in States /\ doc'.activity \in Activities
        /\ doc'.desired = "STOPPED" => doc'.state = "STOP"
    BY <1>1 DEF Checkpoints, Desired, Shown
  <2> QED BY <1>1, <2>4, <2>5, <2>6 DEF ControlInv, Loadable
<1>10. ShownAsDesired' BY <1>1 DEF ShownAsDesired, Desired, Shown
<1>11. AtMostOneLateStage' BY <1>3 DEF ControlInv, AtMostOneLateStage, ControlTypes
<1>12. LossesAreNoted' BY <1>1 DEF ControlInv, LossesAreNoted
<1> QED BY <1>4, <1>5, <1>6, <1>7, <1>8, <1>9, <1>10, <1>11, <1>12 DEF ControlInv

\* A checkpoint whose commands and desire are kept stays loadable while what it shows is known.
LEMMA LoadableKept ==
  ASSUME Loadable, doc' \in Checkpoints, doc'.commands = doc.commands, doc'.desired = doc.desired,
         doc.desired = "STOPPED" => doc'.state = doc.state, \A g \in doc'.noted : g <= doc'.gen
  PROVE  Loadable'
  BY DEF Loadable, Checkpoints

\* An attachment leaves a stopped checkpoint alone, and notes the owner it finds.
LEMMA AttachSound == ASSUME ControlInv, NEW h \in Hosts, Attach(h) PROVE ControlInv'
<1> USE DEF At, IsOwner
<1>1. /\ doc \in Checkpoints /\ host \in [Hosts -> Places]
      /\ \A k \in Hosts : host[k].pc = "out" /\ serving' = h
      /\ UNCHANGED <<active, late, losses>>
  BY ControlAssumption DEF ControlInv, ControlTypes, OneAtWork, Attach
<1>2. /\ doc' \in Checkpoints /\ doc'.commands = doc.commands /\ doc'.desired = doc.desired
      /\ doc.desired = "STOPPED" => doc' = doc
      /\ doc.desired # "STOPPED" =>
           /\ doc'.owned /\ doc'.gen = doc.gen + 1 /\ doc'.noted = NotedAtAttach(doc)
           /\ doc'.state = IF doc.owned THEN "RECOVER"
                           ELSE IF doc.desired = "PAUSED" THEN "PAUSED" ELSE "START"
  <2>1. NotedAtAttach(doc) \in SUBSET Nat BY <1>1 DEF NotedAtAttach, Checkpoints
  <2>2. {"RECOVER", "PAUSED", "START"} \subseteq States BY DEF States
  <2>3. CASE doc.desired = "STOPPED" BY <1>1, <2>3 DEF Attach
  <2>4. CASE doc.desired # "STOPPED"
    <3> DEFINE shown == IF doc.owned THEN "RECOVER"
                        ELSE IF doc.desired = "PAUSED" THEN "PAUSED" ELSE "START"
    <3>1. shown \in States BY <2>2
    <3>2. doc' = [doc EXCEPT !.owned = TRUE, !.gen = @ + 1, !.noted = NotedAtAttach(doc), !.state = shown]
      BY <2>4 DEF Attach
    <3> HIDE DEF shown
    <3>3. /\ doc'.commands = doc.commands /\ doc'.desired = doc.desired
          /\ doc'.gen = doc.gen + 1 /\ doc'.noted = NotedAtAttach(doc) /\ doc'.state = shown
      BY <1>1, <3>2 DEF Checkpoints
    <3>5. doc.gen + 1 \in Nat BY <1>1 DEF Checkpoints
    <3>6. doc' \in Checkpoints
      BY <1>1, <2>1, <3>1, <3>2, <3>5, Zenon DEF Checkpoints
    <3>4. doc'.owned = TRUE BY <1>1, <3>2, Zenon DEF Checkpoints
    <3> QED BY <2>4, <3>3, <3>4, <3>6 DEF shown
  <2> QED BY <2>3, <2>4
<1>3. /\ host'[h] = [host[h] EXCEPT !.pc = "attached", !.gen = doc'.gen]
      /\ \A k \in Hosts \ {h} : host'[k] = host[k]
      /\ host' \in [Hosts -> Places]
  <2>1. doc'.gen \in Nat /\ "attached" \in PCs BY <1>2 DEF Checkpoints, PCs
  <2>2. host' = [host EXCEPT ![h].pc = "attached", ![h].gen = doc'.gen] BY DEF Attach
  <2> QED BY <1>1, <2>1, <2>2 DEF Places
<1>4. host'[h].pc = "attached" /\ host'[h].gen = doc'.gen BY <1>1, <1>3 DEF Places
<1>5. ControlTypes' BY <1>1, <1>2, <1>3 DEF ControlInv, ControlTypes
<1>6. OneAtWork' BY <1>1, <1>3, <1>4 DEF OneAtWork
<1>7. OwnerStays' BY <1>2 DEF ControlInv, OwnerStays
<1>8. NoneLate' BY <1>1, <1>3, <1>4 DEF NoneLate
<1>9. Observed' BY <1>1, <1>3, <1>4 DEF Observed
<1>10. Loadable'
  <2>1. \A g \in doc'.noted : g <= doc'.gen
    BY <1>1, <1>2, SMT DEF ControlInv, Loadable, NotedAtAttach, Checkpoints
  <2> QED BY <1>2, <2>1, LoadableKept DEF ControlInv
<1>11. ShownAsDesired' BY <1>2 DEF ControlInv, ShownAsDesired
<1>12. AtMostOneLateStage' BY <1>1 DEF ControlInv, AtMostOneLateStage
<1>13. LossesAreNoted'
  <2>1. CASE doc.desired = "STOPPED" BY <1>2, <2>1 DEF ControlInv, LossesAreNoted
  <2>2. CASE doc.desired # "STOPPED"
    BY <1>1, <1>2, <2>2, SMT DEF ControlInv, LossesAreNoted, OwnerStays, NotedAtAttach, Checkpoints
  <2> QED BY <2>1, <2>2
<1> QED BY <1>5, <1>6, <1>7, <1>8, <1>9, <1>10, <1>11, <1>12, <1>13 DEF ControlInv

\* A host that goes leaves the lock; a checkpoint it left sound stays so.
LEMMA DetachedSound ==
  ASSUME ControlInv, NEW h \in Hosts, ~At(h, "out"), Detached(h), late' = late, losses' \in Nat,
         doc' \in Checkpoints, doc'.commands = doc.commands, doc'.desired = doc.desired,
         doc'.gen = doc.gen, doc.noted \subseteq doc'.noted, doc'.noted \subseteq doc.noted \cup {doc.gen},
         doc.desired = "STOPPED" => doc'.state = doc.state,
         doc.desired # "STOPPED" => doc'.owned = doc.owned /\ doc'.state \in {doc.state, "SUSPENDED"}
  PROVE  ControlInv'
<1> USE DEF At, IsOwner
<1>1. /\ doc \in Checkpoints /\ host \in [Hosts -> Places]
      /\ serving' = "none" /\ active' = active
      /\ Out \in Places /\ Out.pc = "out"
      /\ host' = [host EXCEPT ![h] = Out]
  BY DEF ControlInv, ControlTypes, Detached, Out, Places, PCs, States, Activities
<1>2. \A k \in Hosts : host'[k].pc = "out"
  BY <1>1 DEF ControlInv, OneAtWork
<1>3. ControlTypes' BY <1>1 DEF ControlInv, ControlTypes
<1>4. OneAtWork' /\ NoneLate' /\ Observed' BY <1>2 DEF OneAtWork, NoneLate, Observed
<1>5. OwnerStays' BY DEF ControlInv, OwnerStays
<1>6. Loadable'
  <2>1. \A g \in doc'.noted : g <= doc'.gen
    BY <1>1 DEF ControlInv, Loadable, Checkpoints
  <2> QED BY <2>1, LoadableKept DEF ControlInv
<1>7. ShownAsDesired'
  <2>1. CASE doc.desired = "STOPPED" BY <2>1 DEF ShownAsDesired
  <2>2. CASE doc.desired # "STOPPED" BY <2>2 DEF ControlInv, ShownAsDesired
  <2> QED BY <2>1, <2>2
<1>8. AtMostOneLateStage' BY DEF ControlInv, AtMostOneLateStage
<1>9. LossesAreNoted' BY DEF ControlInv, LossesAreNoted
<1> QED BY <1>3, <1>4, <1>5, <1>6, <1>7, <1>8, <1>9 DEF ControlInv

\* The three ways out: with the checkpoint, without it, and without a word.
LEMMA LeaveSound ==
  ASSUME ControlInv, NEW h \in Hosts, Leave(h) \/ LeaveBusy(h) \/ Die(h) PROVE ControlInv'
<1> USE DEF At, IsOwner
<1>1. doc \in Checkpoints /\ losses \in Nat /\ MaxLosses \in Nat
  BY ControlAssumption DEF ControlInv, ControlTypes
<1>2. ~At(h, "out") /\ Detached(h) /\ late' = late /\ losses' \in Nat
  BY <1>1 DEF Leave, LeaveBusy, Die, Loses, Detached
<1>3. CASE doc' = doc BY <1>1, <1>2, <1>3, DetachedSound
<1>4. CASE doc.desired = "STOPPED" /\ doc' = [doc EXCEPT !.owned = FALSE]
  <2>1. doc' \in Checkpoints BY <1>1, <1>4, Zenon DEF Checkpoints
  <2>2. /\ doc'.commands = doc.commands /\ doc'.desired = doc.desired /\ doc'.gen = doc.gen
        /\ doc'.noted = doc.noted /\ doc'.state = doc.state
    BY <1>1, <1>4 DEF Checkpoints
  <2> QED BY <1>2, <1>4, <2>1, <2>2, DetachedSound
<1>5. CASE doc.desired # "STOPPED"
           /\ doc' = [doc EXCEPT !.state = "SUSPENDED", !.noted = @ \cup {doc.gen}]
  <2>1. doc' \in Checkpoints BY <1>1, <1>5 DEF Checkpoints, States
  <2>2. /\ doc'.commands = doc.commands /\ doc'.desired = doc.desired /\ doc'.gen = doc.gen
        /\ doc'.noted = doc.noted \cup {doc.gen} /\ doc'.state = "SUSPENDED"
    BY <1>1, <1>5 DEF Checkpoints
  <2>3. doc'.owned = doc.owned BY <1>1, <1>5, Zenon DEF Checkpoints
  <2> QED BY <1>2, <1>5, <2>1, <2>2, <2>3, DetachedSound
<1> QED BY <1>3, <1>4, <1>5 DEF Leave, LeaveBusy, Die

-----------------------------------------------------------------------------
\* What a host at work may change of its own: its place, but not its generation, and to a
\* stage it goes only while running is desired; what it will observe is what it found.
MovesTo(h, place) ==
  /\ place \in Places
  /\ place.pc # "out" /\ place.gen = host[h].gen
  /\ place.pc = "stage" => doc.desired = "RUNNING"
  /\ place.pc \in {"guard", "stage", "observe"} => place.control <= Len(doc.commands)
  /\ place.pc = "observe" /\ place.control = Len(doc.commands) /\ doc.desired = "RUNNING"
       => place.state \notin {"PAUSED", "STOP"}

LEMMA MoveSound ==
  ASSUME ControlInv, NEW h \in Hosts, ~At(h, "out"), NEW place, MovesTo(h, place),
         host' = [host EXCEPT ![h] = place],
         UNCHANGED <<doc, active, serving>>, losses' \in Nat,
         late' = late \/ (At(h, "stage") /\ doc.desired # "RUNNING" /\ late' = late + 1)
  PROVE  ControlInv'
<1> USE DEF At, IsOwner
<1>1. /\ host \in [Hosts -> Places] /\ late \in Nat /\ late <= 1
      /\ host'[h] = place /\ \A k \in Hosts \ {h} : host'[k] = host[k]
      /\ host' \in [Hosts -> Places]
  BY DEF ControlInv, ControlTypes, MovesTo, AtMostOneLateStage
<1>2. \A k \in Hosts \ {h} : host[k].pc = "out" BY DEF ControlInv, OneAtWork
<1>3. ControlTypes' BY <1>1 DEF ControlInv, ControlTypes
<1>4. OneAtWork' BY <1>1, <1>2 DEF ControlInv, OneAtWork, MovesTo
<1>5. OwnerStays' /\ LossesAreNoted' /\ Loadable' /\ ShownAsDesired'
  BY DEF ControlInv, OwnerStays, LossesAreNoted, Loadable, ShownAsDesired
<1>6. NoneLate' BY <1>1, <1>2 DEF NoneLate, MovesTo
<1>7. Observed' BY <1>1, <1>2 DEF Observed, MovesTo, CurrentControl
<1>8. AtMostOneLateStage' BY <1>1 DEF ControlInv, NoneLate, AtMostOneLateStage
<1> QED BY <1>3, <1>4, <1>5, <1>6, <1>7, <1>8 DEF ControlInv

\* Where a host goes without an observation it only changes its place.
LEMMA GoesSound ==
  ASSUME ControlInv, NEW h \in Hosts, ~At(h, "out"), NEW pc \in PCs \ {"out", "observe"},
         host' = [host EXCEPT ![h].pc = pc],
         pc = "stage" => doc.desired = "RUNNING",
         pc \in {"guard", "stage"} => host[h].pc \in {"guard", "stage", "observe"},
         UNCHANGED <<doc, active, serving>>, losses' \in Nat,
         late' = late \/ (At(h, "stage") /\ doc.desired # "RUNNING" /\ late' = late + 1)
  PROVE  ControlInv'
<1> DEFINE place == [host[h] EXCEPT !.pc = pc]
<1>1. host[h] \in Places /\ host \in [Hosts -> Places] BY DEF ControlInv, ControlTypes
<1>2. MovesTo(h, place) BY <1>1 DEF ControlInv, Observed, MovesTo, Places
<1>3. host' = [host EXCEPT ![h] = place] BY <1>1
<1> HIDE DEF place
<1> QED BY <1>2, <1>3, MoveSound

\* What a host observes of its work is neither a pause nor a stop.
LEMMA ObservingSound ==
  ASSUME ControlInv, NEW h \in Hosts, host[h].pc \in {"guard", "stage"},
         NEW a \in Activities,
         host' = [host EXCEPT ![h].pc = "observe", ![h].state = "RUNNING", ![h].activity = a],
         UNCHANGED <<doc, active, serving>>, losses' \in Nat,
         late' = late \/ (At(h, "stage") /\ doc.desired # "RUNNING" /\ late' = late + 1)
  PROVE  ControlInv'
<1> DEFINE place == [host[h] EXCEPT !.pc = "observe", !.state = "RUNNING", !.activity = a]
<1>1. host[h] \in Places /\ host \in [Hosts -> Places] /\ "RUNNING" \in States /\ "observe" \in PCs
  BY DEF ControlInv, ControlTypes, States, PCs
<1>2. MovesTo(h, place) BY <1>1 DEF ControlInv, Observed, MovesTo, Places
<1>3. host' = [host EXCEPT ![h] = place] BY <1>1
<1>4. ~At(h, "out") BY DEF At
<1> HIDE DEF place
<1> QED BY <1>2, <1>3, <1>4, MoveSound

-----------------------------------------------------------------------------
\* An interruption, a dropped observation and a guard that permits only move a host.
LEMMA InterruptSound == ASSUME ControlInv, NEW h \in Hosts, Interrupt(h) PROVE ControlInv'
<1>1. losses \in Nat /\ MaxLosses \in Nat BY ControlAssumption DEF ControlInv, ControlTypes
<1>2. losses' \in Nat /\ ~At(h, "out") BY <1>1 DEF Interrupt, Loses, At
<1>3. "leaving" \in PCs \ {"out", "observe"} BY DEF PCs
<1> QED BY <1>2, <1>3, GoesSound DEF Interrupt, Goes

LEMMA ObserveBusySound == ASSUME ControlInv, NEW h \in Hosts, ObserveBusy(h) PROVE ControlInv'
<1>1. ~At(h, "out") /\ losses' \in Nat BY DEF ObserveBusy, At, ControlInv, ControlTypes
<1>2. "attached" \in PCs \ {"out", "observe"} BY DEF PCs
<1> QED BY <1>1, <1>2, GoesSound DEF ObserveBusy, Goes

LEMMA GuardSound == ASSUME ControlInv, NEW h \in Hosts, Guard(h) PROVE ControlInv'
<1>1. host[h].pc = "guard" /\ ~At(h, "out") /\ losses' \in Nat BY DEF Guard, At, ControlInv, ControlTypes
<1>2. CASE Permits(h) /\ Goes(h, "stage")
  BY <1>1, <1>2, GoesSound DEF Guard, Permits, PCs, Goes
<1>3. CASE \E a \in {"BACKOFF", "WAITING_VERIFICATION"} : Observing(h, "RUNNING", a)
  BY <1>1, <1>3, ObservingSound DEF Guard, Activities, Observing
<1> QED BY <1>2, <1>3 DEF Guard

LEMMA StageSound == ASSUME ControlInv, NEW h \in Hosts, Stage(h) PROVE ControlInv'
<1>1. host[h].pc = "stage" /\ At(h, "stage") /\ ~At(h, "out") /\ losses' \in Nat
  BY DEF Stage, At, ControlInv, ControlTypes
<1>2. late' = late \/ (At(h, "stage") /\ doc.desired # "RUNNING" /\ late' = late + 1)
  BY <1>1 DEF Stage
<1>3. CASE Goes(h, "guard")
  <2>1. "guard" \in PCs \ {"out", "observe"} BY DEF PCs
  <2> QED BY <1>1, <1>2, <1>3, <2>1, GoesSound DEF Stage, Goes
<1>4. CASE \E a \in Activities : Observing(h, "RUNNING", a)
  BY <1>1, <1>2, <1>4, ObservingSound DEF Stage, Observing
<1> QED BY <1>3, <1>4 DEF Stage, Activities

\* A tick captures the controls it has seen together with what it makes of them.
LEMMA TickSound == ASSUME ControlInv, NEW h \in Hosts, Tick(h) PROVE ControlInv'
<1>1. host[h].pc = "attached" /\ ~At(h, "out") /\ losses' \in Nat BY DEF Tick, At, ControlInv, ControlTypes
<1>2. CASE Ended(h) BY <1>1, <1>2, GoesSound DEF Tick, PCs, Goes
<1>3. CASE ~Ended(h)
  <2>1. PICK next \in TickFindings :
          host' = [host EXCEPT ![h] = [pc |-> next[1], gen |-> host[h].gen, state |-> next[2],
                                       activity |-> next[3], control |-> Len(doc.commands)]]
    BY <1>3 DEF Tick, ControlInv, ControlTypes
  <2> DEFINE place == [pc |-> next[1], gen |-> host[h].gen, state |-> next[2],
                       activity |-> next[3], control |-> Len(doc.commands)]
  <2>2. /\ next[1] \in {"guard", "observe"} /\ next[2] \in States /\ next[3] \in Activities
        /\ doc.desired = "RUNNING" => next[2] \notin {"PAUSED", "STOP"}
    BY DEF TickFindings, States, Activities
  <2>3. host[h].gen \in Nat /\ Len(doc.commands) \in Nat BY DEF ControlInv, ControlTypes, Places, Checkpoints
  <2>4. MovesTo(h, place) BY <2>2, <2>3 DEF MovesTo, Places, PCs
  <2> HIDE DEF place
  <2>5. host' = [host EXCEPT ![h] = place] BY <2>1 DEF place
  <2> QED BY <1>1, <2>4, <2>5, MoveSound DEF Tick
<1> QED BY <1>2, <1>3

\* An observation no control has overtaken shows what is desired; any other leaves no trace.
LEMMA ObserveSound == ASSUME ControlInv, NEW h \in Hosts, Observe(h) PROVE ControlInv'
<1>1. host[h].pc = "observe" /\ ~At(h, "out") /\ losses' \in Nat BY DEF Observe, At, ControlInv, ControlTypes
<1>2. CASE UNCHANGED doc /\ (Goes(h, "attached") \/ Goes(h, "leaving"))
  BY <1>1, <1>2, GoesSound DEF Observe, PCs, Goes
<1>3. CASE ~Ended(h) /\ CurrentControl(h)
  <2>1. PICK s \in States, a \in Activities :
          /\ doc' = [doc EXCEPT !.state = s, !.activity = a]
          /\ doc.desired = "PAUSED" => s = "PAUSED"
          /\ doc.desired = "RUNNING" => s \notin {"PAUSED", "STOP"}
    <3>1. CASE doc.desired = "PAUSED" BY <1>3, <3>1 DEF Observe, States, Activities
    <3>2. CASE doc.desired # "PAUSED"
      <4>1. host[h].state \in States /\ host[h].activity \in Activities BY DEF ControlInv, ControlTypes, Places
      <4>2. doc' = [doc EXCEPT !.state = host[h].state, !.activity = host[h].activity]
        BY <1>3, <3>2 DEF Observe
      <4>3. doc.desired = "RUNNING" => host[h].state \notin {"PAUSED", "STOP"}
        BY <1>1, <1>3 DEF ControlInv, Observed, At
      <4> QED BY <3>2, <4>1, <4>2, <4>3
    <3> QED BY <3>1, <3>2
  <2>2. /\ doc \in Checkpoints /\ host \in [Hosts -> Places]
        /\ doc.desired # "STOPPED" BY <1>3 DEF ControlInv, ControlTypes, Ended
  <2>3. /\ doc' \in Checkpoints /\ doc'.commands = doc.commands /\ doc'.desired = doc.desired
        /\ doc'.gen = doc.gen /\ doc'.noted = doc.noted /\ doc'.state = s
    BY <2>1, <2>2 DEF Checkpoints
  <2>4. doc'.owned = doc.owned BY <2>1, <2>2, Zenon DEF Checkpoints
  <2>5. /\ host'[h] = [host[h] EXCEPT !.pc = "attached"]
        /\ host' \in [Hosts -> Places] /\ \A k \in Hosts \ {h} : host'[k] = host[k]
    BY <1>3, <2>2 DEF Observe, Goes, Places, PCs
  <2>6. /\ host'[h].pc = "attached" /\ host'[h].gen = host[h].gen
    BY <2>2, <2>5 DEF Places
  <2>7. \A k \in Hosts \ {h} : host[k].pc = "out" BY <1>1 DEF ControlInv, OneAtWork, At
  <2>8. UNCHANGED <<active, serving, late, losses>> BY DEF Observe
  <2>9. ControlTypes' BY <2>3, <2>5, <2>8 DEF ControlInv, ControlTypes
  <2>10. OneAtWork' BY ZenonT(60), <1>1, <2>3, <2>5, <2>6, <2>7, <2>8 DEF ControlInv, OneAtWork, At, IsOwner
  <2>11. OwnerStays' BY <2>3, <2>4 DEF ControlInv, OwnerStays
  <2>12. NoneLate' /\ Observed' BY <2>5, <2>6, <2>7 DEF NoneLate, Observed, At
  <2>13. Loadable' BY <2>2, <2>3, LoadableKept DEF ControlInv, Loadable
  <2>14. ShownAsDesired' BY <2>1, <2>3 DEF ShownAsDesired
  <2>15. AtMostOneLateStage' /\ LossesAreNoted'
    BY <2>3, <2>8 DEF ControlInv, AtMostOneLateStage, LossesAreNoted
  <2> QED BY <2>9, <2>10, <2>11, <2>12, <2>13, <2>14, <2>15 DEF ControlInv
<1>4. CASE Ended(h) BY <1>2, <1>4 DEF Observe
<1>5. CASE ~Ended(h) /\ ~CurrentControl(h) BY <1>2, <1>5 DEF Observe
<1> QED BY <1>3, <1>4, <1>5

\* The life of the subject touches nothing a host or an owner has recorded.
LEMMA LifecycleSound == ASSUME ControlInv, Lifecycle PROVE ControlInv'
  BY DEF Lifecycle, ControlInv, ControlTypes, OneAtWork, OwnerStays, NoneLate, Observed, Loadable,
     ShownAsDesired, AtMostOneLateStage, LossesAreNoted, At, IsOwner, CurrentControl

LEMMA StutterSound == ASSUME ControlInv, UNCHANGED vars PROVE ControlInv'
  BY DEF vars, ControlInv, ControlTypes, OneAtWork, OwnerStays, NoneLate, Observed, Loadable,
     ShownAsDesired, AtMostOneLateStage, LossesAreNoted, At, IsOwner, CurrentControl

-----------------------------------------------------------------------------
\* The inductive invariant: one host at work, an owner that stays recorded, and
\* observations no newer control contradicts.
THEOREM RuntimeIsSound == Spec => []ControlInv
<1>1. ControlInv /\ [Next]_vars => ControlInv'
  <2> SUFFICES ASSUME ControlInv, [Next]_vars PROVE ControlInv'
    OBVIOUS
  <2>1. ASSUME NEW c \in Commands, Control(c) PROVE ControlInv' BY <2>1, ControlSound
  <2>2. ASSUME NEW h \in Hosts, Attach(h) PROVE ControlInv' BY <2>2, AttachSound
  <2>3. ASSUME NEW h \in Hosts, Leave(h) \/ LeaveBusy(h) \/ Die(h) PROVE ControlInv' BY <2>3, LeaveSound
  <2>4. ASSUME NEW h \in Hosts, Interrupt(h) PROVE ControlInv' BY <2>4, InterruptSound
  <2>5. ASSUME NEW h \in Hosts, Tick(h) PROVE ControlInv' BY <2>5, TickSound
  <2>6. ASSUME NEW h \in Hosts, Guard(h) PROVE ControlInv' BY <2>6, GuardSound
  <2>7. ASSUME NEW h \in Hosts, Stage(h) PROVE ControlInv' BY <2>7, StageSound
  <2>8. ASSUME NEW h \in Hosts, Observe(h) \/ ObserveBusy(h) PROVE ControlInv'
    BY <2>8, ObserveSound, ObserveBusySound
  <2>9. CASE Lifecycle BY <2>9, LifecycleSound
  <2>10. CASE UNCHANGED vars BY <2>10, StutterSound
  <2> QED BY <2>1, <2>2, <2>3, <2>4, <2>5, <2>6, <2>7, <2>8, <2>9, <2>10 DEF Next, Serves
<1> QED BY ControlInitSound, <1>1, PTL DEF Spec

\* Every checkpoint that is ever saved passes the validation of the next load (load).
THEOREM CheckpointStaysLoadable == Spec => []Loadable
<1>1. ControlInv => Loadable BY DEF ControlInv
<1> QED BY RuntimeIsSound, <1>1, PTL

\* No observation overlays a newer control (_observe).
THEOREM ControlIsShown == Spec => []ShownAsDesired
<1>1. ControlInv => ShownAsDesired BY DEF ControlInv
<1> QED BY RuntimeIsSound, <1>1, PTL

\* After a pause or a stop at most one stage is still done, whatever the number of hosts (guard).
THEOREM WorkStopsAtNextGuard == Spec => []AtMostOneLateStage
<1>1. ControlInv => AtMostOneLateStage BY DEF ControlInv
<1> QED BY RuntimeIsSound, <1>1, PTL

\* No generation ends without a note, whatever number of hosts is lost (running).
THEOREM EveryLossIsNoted == Spec => []LossesAreNoted
<1>1. ControlInv => LossesAreNoted BY DEF ControlInv
<1> QED BY RuntimeIsSound, <1>1, PTL

\* After STOP nothing changes but that the last owner takes its leave (control, running, _observe).
THEOREM NothingFollowsStop == Spec => StopIsTerminal
<1> DEFINE Same == doc.desired = "STOPPED" => doc' \in {doc, [doc EXCEPT !.owned = FALSE]}
<1>1. [Next]_vars => [Same]_vars
  <2> SUFFICES ASSUME Next, doc.desired = "STOPPED" PROVE doc' \in {doc, [doc EXCEPT !.owned = FALSE]}
    OBVIOUS
  <2>1. ASSUME NEW c \in Commands, Control(c) PROVE FALSE BY <2>1 DEF Control, Accepts
  <2>2. ASSUME NEW h \in Hosts, Serves(h) \/ LeaveBusy(h) \/ Die(h) \/ Interrupt(h) \/ ObserveBusy(h)
        PROVE  doc' \in {doc, [doc EXCEPT !.owned = FALSE]}
    BY <2>2 DEF Serves, Attach, Leave, Tick, Guard, Stage, Observe, LeaveBusy, Die, Interrupt,
       ObserveBusy, Ended
  <2>3. CASE Lifecycle BY <2>3 DEF Lifecycle
  <2> QED BY <2>1, <2>2, <2>3 DEF Next
<1> QED BY <1>1, PTL DEF Spec, StopIsTerminal

-----------------------------------------------------------------------------
(* The thoughts of the subject.                                            *)

Phases ==
  {"none", "prepared", "opened", "entered", "returned", "deferred", "failed", "abandoned"}

TaskRecords ==
  [state : {"none", "QUEUED", "UNKNOWN", "RETRY_WAIT"} \cup Terminal, attempts : Nat, cancel : BOOLEAN]

Wakes ==
  [status : {"none", "reserved", "running", "done", "failed"}, seen : Nat, thinks : BOOLEAN]

Sessions == [phase : Phases, updates : BOOLEAN, noted : BOOLEAN]

Steps ==
  {"submit", "wake", "waking", "awake", "mind", "allocate", "refused", "save", "provide", "enter",
   "call", "answered", "thought", "act", "evolve", "note", "settle", "receipt", "query", "close",
   "cancel", "closed", "remember", "write", "recall"}

Calls == [step : Steps, task : Tasks]

TypeOK ==
  /\ revision \in Nat
  /\ task \in [Tasks -> TaskRecords]
  /\ wake \in [Needs -> Wakes]
  /\ session \in [Needs -> Sessions]
  /\ evolved \in [Needs -> Nat \cup {Never}]
  /\ usage \in [Tasks -> {"none", "held", "full", "nothing"}]
  /\ calls \in [Needs -> Nat]
  /\ run \in {Idle} \cup Calls

-----------------------------------------------------------------------------
(* One need.                                                               *)

\* The call for it is at one of these steps.
In(n, steps) == run.step \in steps /\ run.task = n

\* No session was opened for it yet, or it was closed without a result.
Uncalled(n) == session[n].phase \in {"none", "prepared", "opened", "deferred", "abandoned"}

\* The provider was called once at most, and the session says when it may have been.
CalledInv(n) ==
  /\ calls[n] \in {0, 1}
  /\ Uncalled(n) => calls[n] = 0
  /\ session[n].phase = "returned" => calls[n] = 1
  /\ session[n].phase = "none" => session[n] = NoSession
  /\ In(n, {"call"}) => session[n].phase = "entered" /\ calls[n] = 0
  /\ In(n, {"answered"}) => session[n].phase = "entered" /\ calls[n] = 1
  /\ In(n, {"provide", "enter"}) => session[n].phase = "prepared"
  /\ In(n, {"allocate"}) => session[n].phase \in {"none", "prepared"}
  /\ In(n, {"save"}) => session[n].phase = "none" /\ usage[n] = "held"
  /\ In(n, {"refused"}) => session[n].phase = "opened"
  /\ In(n, {"thought", "act", "evolve", "note", "settle"}) => Completed(n)

\* A session belongs to a wake that is done.
WokenInv(n) ==
  /\ session[n].phase # "none" => wake[n].status = "done"
  /\ In(n, {"waking"}) => wake[n].status = "reserved"
  /\ In(n, {"awake"}) => wake[n].status = "running"
  /\ In(n, {"allocate", "save"}) => wake[n].status = "done"

\* Only a returned thought evolves the SubjectState, at the revision it saw.
EvolvedInv(n) ==
  /\ evolved[n] # Never =>
       session[n].phase = "returned" /\ session[n].updates /\ evolved[n] = wake[n].seen
  /\ In(n, {"evolve"}) => session[n].phase = "returned" /\ session[n].updates /\ evolved[n] = Never
  /\ In(n, {"note"}) => evolved[n] # Never
  /\ In(n, {"settle", "receipt"}) => (evolved[n] # Never => session[n].noted)
  /\ In(n, {"act"}) => evolved[n] = Never
  /\ session[n].updates => session[n].phase = "returned"

\* What was reserved is settled by what happened.
UsedInv(n) ==
  /\ usage[n] = "full" => session[n].phase = "returned"
  /\ usage[n] = "nothing" => session[n].phase = "abandoned"
  /\ session[n].phase \in {"opened", "deferred"} => usage[n] = "none"
  /\ In(n, {"close", "cancel", "closed"}) => session[n].phase = "abandoned"
  /\ In(n, {"closed"}) => task[n].cancel
  /\ In(n, {"receipt"}) =>
       \/ wake[n].status = "done" /\ ~ wake[n].thinks /\ session[n] = NoSession
       \/ Completed(n) /\ usage[n] # "held"

\* What the queue says of it.
QueuedInv(n) ==
  /\ In(n, {"submit"}) => task[n] = NoTask
  /\ run.step \notin {"idle", "submit"} /\ run.task = n => task[n].state = "UNKNOWN"
  /\ session[n].phase # "none" => task[n].state \in {"UNKNOWN", "COMPLETED", "CANCELLED"}
  /\ task[n].state = "CANCELLED" => session[n].phase \in {"none", "prepared", "abandoned"}
  /\ task[n].state = "COMPLETED" =>
       \/ wake[n].status = "done" /\ ~ wake[n].thinks /\ session[n] = NoSession
       \/ Completed(n) /\ usage[n] # "held" /\ (evolved[n] # Never => session[n].noted)

Local(n) == CalledInv(n) /\ WokenInv(n) /\ EvolvedInv(n) /\ UsedInv(n) /\ QueuedInv(n)

-----------------------------------------------------------------------------
(* All of them.                                                            *)

\* A need that is about to be submitted, or was.
Begun(n) == In(n, {"submit"}) \/ task[n].state # "none"

Ordered == \A n, k \in Needs : n[1] = k[1] /\ n[2] < k[2] /\ Begun(k) => Closed(n)

EventsRemembered == \A e \in Events : task[e].state = "COMPLETED" => e \in memory

IInv == TypeOK /\ (\A n \in Needs : Local(n)) /\ Ordered /\ EventsRemembered

-----------------------------------------------------------------------------
(* What a step leaves alone it keeps.                                      *)

\* The records of a need are as they were.
Untouched(m) ==
  /\ task'[m] = task[m] /\ wake'[m] = wake[m] /\ session'[m] = session[m]
  /\ evolved'[m] = evolved[m] /\ usage'[m] = usage[m] /\ calls'[m] = calls[m]

\* No call is under way for it, unless it is the one that was.
Elsewhere(m) == run' = run \/ run'.step = "idle" \/ run'.task # m

LEMMA LocalKept ==
  ASSUME NEW m \in Needs, Local(m), Untouched(m), Elsewhere(m)
  PROVE  Local(m)'
<1>1. CalledInv(m)'
  BY DEF Local, CalledInv, Untouched, Elsewhere, In, Uncalled, Completed
<1>2. WokenInv(m)'
  BY DEF Local, WokenInv, Untouched, Elsewhere, In
<1>3. EvolvedInv(m)'
  BY DEF Local, EvolvedInv, Untouched, Elsewhere, In
<1>4. UsedInv(m)'
  BY DEF Local, UsedInv, Untouched, Elsewhere, In, Completed
<1>5. QueuedInv(m)'
  BY DEF Local, QueuedInv, Untouched, Elsewhere, In, Completed
<1> QED
  BY <1>1, <1>2, <1>3, <1>4, <1>5 DEF Local

\* The rounds stay in order if nothing is begun and nothing that was closed is opened.
LEMMA OrderKept ==
  ASSUME Ordered,
         \A m \in Needs : Closed(m) => Closed(m)',
         \A m \in Needs : Begun(m)' => Begun(m)
  PROVE  Ordered'
  BY DEF Ordered

\* A step of the call for a need: what it does to that need is all there is to show.
LEMMA OwnStep ==
  ASSUME IInv, TypeOK', NEW n \in Needs, NEW step, Stands(n, step), step \notin {"idle", "submit"},
         run'.step = "idle" \/ (run'.step # "submit" /\ run'.task = n),
         \A m \in Needs : m # n => Untouched(m),
         \A e \in Events : task'[e] = task[e],
         memory \subseteq memory',
         task'[n].state # "none",
         Local(n)'
  PROVE  IInv'
<1>1. run.step = step /\ run.task = n
  BY DEF Stands
<1>2. task[n].state = "UNKNOWN"
  BY <1>1 DEF IInv, Local, QueuedInv
<1>3. ASSUME NEW m \in Needs PROVE Local(m)'
  <2>1. CASE m = n
    BY <2>1
  <2>2. CASE m # n
    <3>1. Elsewhere(m)
      BY <2>2 DEF Elsewhere
    <3> QED
      BY <2>2, <3>1, LocalKept DEF IInv
  <2> QED
    BY <2>1, <2>2
<1>4. \A m \in Needs : Closed(m) => Closed(m)'
  BY <1>2 DEF Closed, Abandoned, Untouched
<1>5. \A m \in Needs : Begun(m)' => Begun(m)
  BY <1>2 DEF Begun, In, Untouched
<1>6. Ordered'
  BY <1>4, <1>5, OrderKept DEF IInv
<1>7. EventsRemembered'
  BY DEF IInv, EventsRemembered
<1> QED
  BY <1>3, <1>6, <1>7 DEF IInv

\* What is known of a need when the call for it is at a step.
LEMMA UnderWay ==
  ASSUME IInv, NEW n \in Needs, NEW step, Stands(n, step), step \notin {"idle", "submit"}
  PROVE  /\ TypeOK /\ Local(n) /\ n \in Tasks /\ n \notin Events
         /\ run.step = step /\ run.task = n
         /\ task[n].state = "UNKNOWN"
  BY CognitionAssumption DEF IInv, Tasks, Stands, Local, QueuedInv

\* A step that touches no need keeps what is known of all of them.
LEMMA OtherStep ==
  ASSUME IInv, TypeOK', \A m \in Needs : Untouched(m) /\ Elsewhere(m),
         \A m \in Needs : In(m, {"submit"})' => In(m, {"submit"}),
         EventsRemembered'
  PROVE  IInv'
<1>1. \A m \in Needs : Local(m)'
  BY LocalKept DEF IInv
<1>2. Ordered'
  BY OrderKept DEF IInv, Closed, Abandoned, Begun, Untouched
<1> QED
  BY <1>1, <1>2 DEF IInv

\* A receipt ends the attempt, and only that.
LEMMA ReceiptEnds ==
  ASSUME TypeOK, NEW t \in Tasks, NEW status, Receipt(t, status)
  PROVE  /\ task' \in [Tasks -> TaskRecords]
         /\ status = "DELIVERED" => task'[t].state = "COMPLETED"
         /\ status # "DELIVERED" =>
              /\ task'[t].state \in {"RETRY_WAIT", "RETRY_EXHAUSTED", "CANCELLED"}
              /\ task[t].cancel => task'[t].state = "CANCELLED"
         /\ \A u \in Tasks : u # t => task'[u] = task[u]
         /\ run' = Idle
<1> DEFINE new == IF status = "DELIVERED" THEN "COMPLETED" ELSE Undelivered(t)
<1>1. /\ status = "DELIVERED" => new = "COMPLETED"
      /\ status # "DELIVERED" =>
           /\ new \in {"RETRY_WAIT", "RETRY_EXHAUSTED", "CANCELLED"}
           /\ task[t].cancel => new = "CANCELLED"
  BY DEF Undelivered
<1>2. task' = [task EXCEPT ![t].state = new] /\ run' = Idle
  BY DEF Receipt
<1>3. new \in {"COMPLETED", "RETRY_WAIT", "RETRY_EXHAUSTED", "CANCELLED"}
  BY <1>1
<1> HIDE DEF new
<1>4. /\ task' \in [Tasks -> TaskRecords]
      /\ task'[t].state = new
      /\ \A u \in Tasks : u # t => task'[u] = task[u]
  BY <1>2, <1>3 DEF TypeOK, TaskRecords, Terminal
<1> QED
  BY <1>1, <1>2, <1>4

-----------------------------------------------------------------------------
(* From the wake to the thought.                                           *)

LEMMA StartWakeSound ==
  ASSUME IInv, NEW n \in Needs, StartWake(n)
  PROVE  IInv'
<1> USE DEF StartWake, Moves, Raise, Idle
<1>1. /\ TypeOK /\ Local(n) /\ n \in Tasks /\ n \notin Events
      /\ Stands(n, "waking") /\ run.step = "waking" /\ run.task = n
      /\ task[n].state = "UNKNOWN"
  BY UnderWay
<1>2. TypeOK'
  BY <1>1 DEF TypeOK, Calls, Steps, Wakes
<1>3. CalledInv(n)'
  BY <1>1 DEF TypeOK, Sessions, Wakes, Local, CalledInv, WokenInv, EvolvedInv, UsedInv, QueuedInv,
              In, Uncalled, Completed
<1>4. WokenInv(n)'
  BY <1>1 DEF TypeOK, Sessions, Wakes, Local, CalledInv, WokenInv, EvolvedInv, UsedInv, QueuedInv,
              In, Uncalled, Completed
<1>5. EvolvedInv(n)'
  BY <1>1 DEF TypeOK, Sessions, Wakes, Local, CalledInv, WokenInv, EvolvedInv, UsedInv, QueuedInv,
              In, Uncalled, Completed
<1>6. UsedInv(n)'
  BY <1>1 DEF TypeOK, Sessions, Wakes, Local, CalledInv, WokenInv, EvolvedInv, UsedInv, QueuedInv,
              In, Uncalled, Completed
<1>7. QueuedInv(n)'
  BY <1>1 DEF TypeOK, Sessions, Wakes, Local, CalledInv, WokenInv, EvolvedInv, UsedInv, QueuedInv,
              In, Uncalled, Completed
<1>8. \A m \in Needs : m # n => Untouched(m)
  BY <1>1 DEF Untouched, TypeOK, Tasks
<1> QED
  BY <1>1, <1>2, <1>3, <1>4, <1>5, <1>6, <1>7, <1>8, OwnStep DEF Local, Tasks, TypeOK

LEMMA FinishWakeSound ==
  ASSUME IInv, NEW n \in Needs, FinishWake(n)
  PROVE  IInv'
<1> USE DEF FinishWake, Moves, Raise, Idle
<1>1. /\ TypeOK /\ Local(n) /\ n \in Tasks /\ n \notin Events
      /\ Stands(n, "awake") /\ run.step = "awake" /\ run.task = n
      /\ task[n].state = "UNKNOWN"
  BY UnderWay
<1>2. TypeOK'
  BY <1>1 DEF TypeOK, Calls, Steps, Wakes
<1>3. CalledInv(n)'
  BY <1>1 DEF TypeOK, Sessions, Wakes, Local, CalledInv, WokenInv, EvolvedInv, UsedInv, QueuedInv,
              In, Uncalled, Completed
<1>4. WokenInv(n)'
  BY <1>1 DEF TypeOK, Sessions, Wakes, Local, CalledInv, WokenInv, EvolvedInv, UsedInv, QueuedInv,
              In, Uncalled, Completed
<1>5. EvolvedInv(n)'
  BY <1>1 DEF TypeOK, Sessions, Wakes, Local, CalledInv, WokenInv, EvolvedInv, UsedInv, QueuedInv,
              In, Uncalled, Completed
<1>6. UsedInv(n)'
  BY <1>1 DEF TypeOK, Sessions, Wakes, Local, CalledInv, WokenInv, EvolvedInv, UsedInv, QueuedInv,
              In, Uncalled, Completed
<1>7. QueuedInv(n)'
  BY <1>1 DEF TypeOK, Sessions, Wakes, Local, CalledInv, WokenInv, EvolvedInv, UsedInv, QueuedInv,
              In, Uncalled, Completed
<1>8. \A m \in Needs : m # n => Untouched(m)
  BY <1>1 DEF Untouched, TypeOK, Tasks
<1> QED
  BY <1>1, <1>2, <1>3, <1>4, <1>5, <1>6, <1>7, <1>8, OwnStep DEF Local, Tasks, TypeOK

LEMMA MindSound ==
  ASSUME IInv, NEW n \in Needs, Mind(n)
  PROVE  IInv'
<1> USE DEF Moves, Raise, Idle
<1>1. /\ TypeOK /\ Local(n) /\ n \in Tasks /\ n \notin Events
      /\ Stands(n, "mind") /\ run.step = "mind" /\ run.task = n
      /\ task[n].state = "UNKNOWN"
  BY UnderWay DEF Mind
<1>2. /\ UNCHANGED <<revision, task, wake, session, evolved, usage, calls>> /\ memory \subseteq memory'
      /\ \/ run' = Idle
         \/ run' = [step |-> "receipt", task |-> n] /\ wake[n].status = "done" /\ ~ wake[n].thinks
            /\ session[n] = NoSession
         \/ run' = [step |-> "allocate", task |-> n] /\ wake[n].status = "done"
            /\ session[n].phase \in {"none", "prepared"}
         \/ run' = [step |-> "thought", task |-> n] /\ Completed(n)
  BY <1>1 DEF Mind, Local, WokenInv, NotStarted, Consolidate, NoSession
<1>3. TypeOK'
  BY <1>1, <1>2 DEF TypeOK, Calls, Steps
<1>4. CalledInv(n)'
  BY <1>1, <1>2 DEF TypeOK, Sessions, Wakes, Local, CalledInv, WokenInv, EvolvedInv, UsedInv,
              QueuedInv, In, Uncalled, Completed, NoSession
<1>5. WokenInv(n)'
  BY <1>1, <1>2 DEF TypeOK, Sessions, Wakes, Local, CalledInv, WokenInv, EvolvedInv, UsedInv,
              QueuedInv, In, Uncalled, Completed, NoSession
<1>6. EvolvedInv(n)'
  BY <1>1, <1>2 DEF TypeOK, Sessions, Wakes, Local, CalledInv, WokenInv, EvolvedInv, UsedInv,
              QueuedInv, In, Uncalled, Completed, NoSession
<1>7. UsedInv(n)'
  BY <1>1, <1>2 DEF TypeOK, Sessions, Wakes, Local, CalledInv, WokenInv, EvolvedInv, UsedInv,
              QueuedInv, In, Uncalled, Completed, NoSession
<1>8. QueuedInv(n)'
  BY <1>1, <1>2 DEF TypeOK, Sessions, Wakes, Local, CalledInv, WokenInv, EvolvedInv, UsedInv,
              QueuedInv, In, Uncalled, Completed, NoSession
<1>9. \A m \in Needs : m # n => Untouched(m)
  BY <1>1, <1>2 DEF Untouched, TypeOK, Tasks
<1> QED
  BY <1>1, <1>2, <1>3, <1>4, <1>5, <1>6, <1>7, <1>8, <1>9, OwnStep DEF Local, Tasks, TypeOK

\* The phase of a session is set, and only that.
LEMMA PhaseSet ==
  ASSUME TypeOK, NEW n \in Needs, NEW phase \in Phases, Phase(n, phase)
  PROVE  /\ session' \in [Needs -> Sessions]
         /\ session'[n].phase = phase
         /\ session'[n].updates = session[n].updates /\ session'[n].noted = session[n].noted
         /\ \A m \in Needs : m # n => session'[m] = session[m]
  BY DEF TypeOK, Sessions, Phase

LEMMA AllocateSound ==
  ASSUME IInv, NEW n \in Needs, Allocate(n)
  PROVE  IInv'
<1> USE DEF Moves, Raise, Idle
<1>1. /\ TypeOK /\ Local(n) /\ n \in Tasks /\ n \notin Events
      /\ Stands(n, "allocate") /\ run.step = "allocate" /\ run.task = n
      /\ task[n].state = "UNKNOWN"
  BY UnderWay DEF Allocate
<1>2. /\ UNCHANGED <<revision, task, wake, evolved, calls, memory>>
      /\ \/ session' = session /\ session[n].phase = "none" /\ usage' = [usage EXCEPT ![n] = "held"]
            /\ run' = [step |-> "save", task |-> n]
         \/ session' = session /\ session[n].phase = "prepared" /\ usage' = usage
            /\ run' = [step |-> "provide", task |-> n]
         \/ session[n] = NoSession /\ usage[n] = "none" /\ Phase(n, "opened") /\ usage' = usage
            /\ run' = [step |-> "refused", task |-> n]
  BY <1>1 DEF Allocate, NotStarted, NoSession
<1>a. \/ session' = session
      \/ /\ session' \in [Needs -> Sessions] /\ session'[n].phase = "opened"
         /\ session'[n].updates = FALSE /\ session'[n].noted = FALSE
         /\ session[n] = NoSession /\ usage[n] = "none" /\ usage' = usage
         /\ run' = [step |-> "refused", task |-> n]
         /\ \A m \in Needs : m # n => session'[m] = session[m]
  BY <1>1, <1>2, PhaseSet DEF NoSession, Phases
<1>3. TypeOK'
  BY <1>1, <1>2, <1>a DEF TypeOK, Calls, Steps
<1>4. CalledInv(n)'
  <2>1. CASE session' = session
    <3>1. \/ usage'[n] = "held" /\ run' = [step |-> "save", task |-> n] /\ session[n].phase = "none"
          \/ run' = [step |-> "provide", task |-> n] /\ session[n].phase = "prepared"
      BY <1>1, <1>2, <2>1, <1>a DEF TypeOK, Phase, Sessions, NoSession
    <3> QED
      BY <1>1, <1>2, <2>1, <3>1 DEF Local, CalledInv, In, Uncalled, Completed
  <2>2. CASE session' # session
    BY <1>1, <1>2, <1>a, <2>2 DEF Local, CalledInv, In, Uncalled, Completed
  <2> QED
    BY <2>1, <2>2
<1>5. WokenInv(n)'
  BY <1>1, <1>2, <1>a DEF TypeOK, Sessions, Wakes, Local, CalledInv, WokenInv, EvolvedInv, UsedInv,
              QueuedInv, In, Uncalled, Completed, NoSession
<1>6. EvolvedInv(n)'
  BY <1>1, <1>2, <1>a DEF TypeOK, Sessions, Wakes, Local, CalledInv, WokenInv, EvolvedInv, UsedInv,
              QueuedInv, In, Uncalled, Completed, NoSession
<1>7. UsedInv(n)'
  BY <1>1, <1>2, <1>a DEF TypeOK, Sessions, Wakes, Local, CalledInv, WokenInv, EvolvedInv, UsedInv,
              QueuedInv, In, Uncalled, Completed, NoSession
<1>8. QueuedInv(n)'
  BY <1>1, <1>2, <1>a DEF TypeOK, Sessions, Wakes, Local, CalledInv, WokenInv, EvolvedInv, UsedInv,
              QueuedInv, In, Uncalled, Completed, NoSession
<1>9. \A m \in Needs : m # n => Untouched(m)
  BY <1>1, <1>2, <1>a DEF Untouched, TypeOK, Tasks
<1> QED
  BY <1>1, <1>2, <1>a, <1>3, <1>4, <1>5, <1>6, <1>7, <1>8, <1>9, OwnStep DEF Local, Tasks, TypeOK

LEMMA RefusedSound ==
  ASSUME IInv, NEW n \in Needs, Refused(n)
  PROVE  IInv'
<1> USE DEF Moves, Raise, Idle
<1>1. /\ TypeOK /\ Local(n) /\ n \in Tasks /\ n \notin Events
      /\ Stands(n, "refused") /\ run.step = "refused" /\ run.task = n
      /\ task[n].state = "UNKNOWN"
  BY UnderWay DEF Refused
<1>2. /\ UNCHANGED <<revision, task, wake, evolved, usage, calls, memory>>
      /\ session' \in [Needs -> Sessions]
      /\ session'[n].updates = session[n].updates
      /\ \A m \in Needs : m # n => session'[m] = session[m]
      /\ \/ session'[n].phase = "deferred" /\ run' = [step |-> "thought", task |-> n]
         \/ session'[n].phase = "failed" /\ run' = Idle
  <2>1. \E phase \in {"deferred", "failed"} : Phase(n, phase)
    BY DEF Refused
  <2>2. session' \in [Needs -> Sessions]
    BY <1>1, <2>1, PhaseSet DEF Phases
  <2> QED
    BY <1>1, <2>2, PhaseSet DEF Refused, Phases
<1>3. TypeOK'
  BY <1>1, <1>2 DEF TypeOK, Calls, Steps
<1>4. CalledInv(n)'
  BY <1>1, <1>2 DEF TypeOK, Sessions, Wakes, Local, CalledInv, WokenInv, EvolvedInv, UsedInv,
              QueuedInv, In, Uncalled, Completed
<1>5. WokenInv(n)'
  BY <1>1, <1>2 DEF TypeOK, Sessions, Wakes, Local, CalledInv, WokenInv, EvolvedInv, UsedInv,
              QueuedInv, In, Uncalled, Completed
<1>6. EvolvedInv(n)'
  BY <1>1, <1>2 DEF TypeOK, Sessions, Wakes, Local, CalledInv, WokenInv, EvolvedInv, UsedInv,
              QueuedInv, In, Uncalled, Completed
<1>7. UsedInv(n)'
  BY <1>1, <1>2 DEF TypeOK, Sessions, Wakes, Local, CalledInv, WokenInv, EvolvedInv, UsedInv,
              QueuedInv, In, Uncalled, Completed
<1>8. QueuedInv(n)'
  BY <1>1, <1>2 DEF TypeOK, Sessions, Wakes, Local, CalledInv, WokenInv, EvolvedInv, UsedInv,
              QueuedInv, In, Uncalled, Completed
<1>9. \A m \in Needs : m # n => Untouched(m)
  BY <1>1, <1>2 DEF Untouched, TypeOK, Tasks
<1> QED
  BY <1>1, <1>2, <1>3, <1>4, <1>5, <1>6, <1>7, <1>8, <1>9, OwnStep DEF Local, Tasks, TypeOK

LEMMA SavePreparedSound ==
  ASSUME IInv, NEW n \in Needs, SavePrepared(n)
  PROVE  IInv'
<1> USE DEF SavePrepared, Moves, Raise, Idle, Phase
<1>1. /\ TypeOK /\ Local(n) /\ n \in Tasks /\ n \notin Events
      /\ Stands(n, "save") /\ run.step = "save" /\ run.task = n
      /\ task[n].state = "UNKNOWN"
  BY UnderWay
<1>2. TypeOK'
  BY <1>1 DEF TypeOK, Calls, Steps, Sessions, Phases
<1>3. CalledInv(n)'
  BY <1>1 DEF TypeOK, Sessions, Wakes, Local, CalledInv, WokenInv, EvolvedInv, UsedInv, QueuedInv,
              In, Uncalled, Completed
<1>4. WokenInv(n)'
  BY <1>1 DEF TypeOK, Sessions, Wakes, Local, CalledInv, WokenInv, EvolvedInv, UsedInv, QueuedInv,
              In, Uncalled, Completed
<1>5. EvolvedInv(n)'
  BY <1>1 DEF TypeOK, Sessions, Wakes, Local, CalledInv, WokenInv, EvolvedInv, UsedInv, QueuedInv,
              In, Uncalled, Completed
<1>6. UsedInv(n)'
  BY <1>1 DEF TypeOK, Sessions, Wakes, Local, CalledInv, WokenInv, EvolvedInv, UsedInv, QueuedInv,
              In, Uncalled, Completed
<1>7. QueuedInv(n)'
  BY <1>1 DEF TypeOK, Sessions, Wakes, Local, CalledInv, WokenInv, EvolvedInv, UsedInv, QueuedInv,
              In, Uncalled, Completed
<1>8. \A m \in Needs : m # n => Untouched(m)
  BY <1>1 DEF Untouched, TypeOK, Tasks
<1> QED
  BY <1>1, <1>2, <1>3, <1>4, <1>5, <1>6, <1>7, <1>8, OwnStep DEF Local, Tasks, TypeOK

LEMMA ProvideSound ==
  ASSUME IInv, NEW n \in Needs, Provide(n)
  PROVE  IInv'
<1> USE DEF Provide, Moves, Raise, Idle, Phase
<1>1. /\ TypeOK /\ Local(n) /\ n \in Tasks /\ n \notin Events
      /\ Stands(n, "provide") /\ run.step = "provide" /\ run.task = n
      /\ task[n].state = "UNKNOWN"
  BY UnderWay
<1>2. TypeOK'
  BY <1>1 DEF TypeOK, Calls, Steps, Sessions, Phases
<1>3. CalledInv(n)'
  BY <1>1 DEF TypeOK, Sessions, Wakes, Local, CalledInv, WokenInv, EvolvedInv, UsedInv, QueuedInv,
              In, Uncalled, Completed
<1>4. WokenInv(n)'
  BY <1>1 DEF TypeOK, Sessions, Wakes, Local, CalledInv, WokenInv, EvolvedInv, UsedInv, QueuedInv,
              In, Uncalled, Completed
<1>5. EvolvedInv(n)'
  BY <1>1 DEF TypeOK, Sessions, Wakes, Local, CalledInv, WokenInv, EvolvedInv, UsedInv, QueuedInv,
              In, Uncalled, Completed
<1>6. UsedInv(n)'
  BY <1>1 DEF TypeOK, Sessions, Wakes, Local, CalledInv, WokenInv, EvolvedInv, UsedInv, QueuedInv,
              In, Uncalled, Completed
<1>7. QueuedInv(n)'
  BY <1>1 DEF TypeOK, Sessions, Wakes, Local, CalledInv, WokenInv, EvolvedInv, UsedInv, QueuedInv,
              In, Uncalled, Completed
<1>8. \A m \in Needs : m # n => Untouched(m)
  BY <1>1 DEF Untouched, TypeOK, Tasks
<1> QED
  BY <1>1, <1>2, <1>3, <1>4, <1>5, <1>6, <1>7, <1>8, OwnStep DEF Local, Tasks, TypeOK

LEMMA EnterSound ==
  ASSUME IInv, NEW n \in Needs, Enter(n)
  PROVE  IInv'
<1> USE DEF Moves, Raise, Idle
<1>1. /\ TypeOK /\ Local(n) /\ n \in Tasks /\ n \notin Events
      /\ Stands(n, "enter") /\ run.step = "enter" /\ run.task = n
      /\ task[n].state = "UNKNOWN"
  BY UnderWay DEF Enter
<1>2. /\ UNCHANGED <<revision, task, wake, evolved, usage, calls, memory>>
      /\ session[n].phase = "prepared" /\ session' \in [Needs -> Sessions]
      /\ session'[n].updates = session[n].updates
      /\ \A m \in Needs : m # n => session'[m] = session[m]
      /\ \/ session'[n].phase = "entered" /\ run' = [step |-> "call", task |-> n]
         \/ session'[n].phase = "failed" /\ run' = Idle
  <2>1. \E phase \in {"entered", "failed"} : Phase(n, phase)
    BY DEF Enter
  <2>2. session' \in [Needs -> Sessions]
    BY <1>1, <2>1, PhaseSet DEF Phases
  <2>3. session[n].phase = "prepared"
    BY <1>1 DEF Local, CalledInv, In
  <2> QED
    BY <1>1, <2>2, <2>3, PhaseSet DEF Enter, Phases
<1>3. TypeOK'
  BY <1>1, <1>2 DEF TypeOK, Calls, Steps
<1>4. CalledInv(n)'
  BY <1>1, <1>2 DEF TypeOK, Sessions, Wakes, Local, CalledInv, WokenInv, EvolvedInv, UsedInv,
              QueuedInv, In, Uncalled, Completed
<1>5. WokenInv(n)'
  BY <1>1, <1>2 DEF TypeOK, Sessions, Wakes, Local, CalledInv, WokenInv, EvolvedInv, UsedInv,
              QueuedInv, In, Uncalled, Completed
<1>6. EvolvedInv(n)'
  BY <1>1, <1>2 DEF TypeOK, Sessions, Wakes, Local, CalledInv, WokenInv, EvolvedInv, UsedInv,
              QueuedInv, In, Uncalled, Completed
<1>7. UsedInv(n)'
  BY <1>1, <1>2 DEF TypeOK, Sessions, Wakes, Local, CalledInv, WokenInv, EvolvedInv, UsedInv,
              QueuedInv, In, Uncalled, Completed
<1>8. QueuedInv(n)'
  BY <1>1, <1>2 DEF TypeOK, Sessions, Wakes, Local, CalledInv, WokenInv, EvolvedInv, UsedInv,
              QueuedInv, In, Uncalled, Completed
<1>9. \A m \in Needs : m # n => Untouched(m)
  BY <1>1, <1>2 DEF Untouched, TypeOK, Tasks
<1> QED
  BY <1>1, <1>2, <1>3, <1>4, <1>5, <1>6, <1>7, <1>8, <1>9, OwnStep DEF Local, Tasks, TypeOK

LEMMA CallSound ==
  ASSUME IInv, NEW n \in Needs, Call(n)
  PROVE  IInv'
<1> USE DEF Call, Moves, Raise, Idle
<1>1. /\ TypeOK /\ Local(n) /\ n \in Tasks /\ n \notin Events
      /\ Stands(n, "call") /\ run.step = "call" /\ run.task = n
      /\ task[n].state = "UNKNOWN"
  BY UnderWay
<1>2. TypeOK'
  BY <1>1 DEF TypeOK, Calls, Steps, Sessions, Wakes
<1>3. CalledInv(n)'
  BY <1>1 DEF TypeOK, Sessions, Wakes, Local, CalledInv, WokenInv, EvolvedInv, UsedInv, QueuedInv,
              In, Uncalled, Completed
<1>4. WokenInv(n)'
  BY <1>1 DEF TypeOK, Sessions, Wakes, Local, CalledInv, WokenInv, EvolvedInv, UsedInv, QueuedInv,
              In, Uncalled, Completed
<1>5. EvolvedInv(n)'
  BY <1>1 DEF TypeOK, Sessions, Wakes, Local, CalledInv, WokenInv, EvolvedInv, UsedInv, QueuedInv,
              In, Uncalled, Completed
<1>6. UsedInv(n)'
  BY <1>1 DEF TypeOK, Sessions, Wakes, Local, CalledInv, WokenInv, EvolvedInv, UsedInv, QueuedInv,
              In, Uncalled, Completed
<1>7. QueuedInv(n)'
  BY <1>1 DEF TypeOK, Sessions, Wakes, Local, CalledInv, WokenInv, EvolvedInv, UsedInv, QueuedInv,
              In, Uncalled, Completed
<1>8. \A m \in Needs : m # n => Untouched(m)
  BY <1>1 DEF Untouched, TypeOK, Tasks
<1> QED
  BY <1>1, <1>2, <1>3, <1>4, <1>5, <1>6, <1>7, <1>8, OwnStep DEF Local, Tasks, TypeOK

LEMMA AnswerSound ==
  ASSUME IInv, NEW n \in Needs, Answer(n)
  PROVE  IInv'
<1> USE DEF Moves, Raise, Idle
<1>1. /\ TypeOK /\ Local(n) /\ n \in Tasks /\ n \notin Events
      /\ Stands(n, "answered") /\ run.step = "answered" /\ run.task = n
      /\ task[n].state = "UNKNOWN"
  BY UnderWay DEF Answer
<1>2. /\ UNCHANGED <<revision, task, wake, evolved, usage, calls, memory>>
      /\ session[n].phase = "entered" /\ calls[n] = 1 /\ ~ session[n].updates
  BY <1>1 DEF Answer, Local, CalledInv, EvolvedInv, In, TypeOK, Sessions
<1>a. /\ session' \in [Needs -> Sessions]
      /\ \A m \in Needs : m # n => session'[m] = session[m]
      /\ \/ session'[n].phase = "returned" /\ run' = [step |-> "thought", task |-> n]
         \/ session'[n].phase = "failed" /\ ~ session'[n].updates /\ run' = Idle
  <2>1. CASE Phase(n, "failed") /\ Raise
    BY <1>1, <1>2, <2>1, PhaseSet DEF Phases
  <2>2. CASE Moves(n, "thought") /\ \E updates \in BOOLEAN :
               session' = [session EXCEPT ![n] = [phase |-> "returned", updates |-> updates, noted |-> FALSE]]
    BY <1>1, <2>2 DEF TypeOK, Sessions, Phases
  <2> QED
    BY <2>1, <2>2 DEF Answer
<1>3. TypeOK'
  BY <1>1, <1>2, <1>a DEF TypeOK, Calls, Steps
<1>4. CalledInv(n)'
  BY <1>1, <1>2, <1>a DEF TypeOK, Sessions, Wakes, Local, CalledInv, WokenInv, EvolvedInv, UsedInv,
              QueuedInv, In, Uncalled, Completed
<1>5. WokenInv(n)'
  BY <1>1, <1>2, <1>a DEF TypeOK, Sessions, Wakes, Local, CalledInv, WokenInv, EvolvedInv, UsedInv,
              QueuedInv, In, Uncalled, Completed
<1>6. EvolvedInv(n)'
  BY <1>1, <1>2, <1>a DEF TypeOK, Sessions, Wakes, Local, CalledInv, WokenInv, EvolvedInv, UsedInv,
              QueuedInv, In, Uncalled, Completed
<1>7. UsedInv(n)'
  BY <1>1, <1>2, <1>a DEF TypeOK, Sessions, Wakes, Local, CalledInv, WokenInv, EvolvedInv, UsedInv,
              QueuedInv, In, Uncalled, Completed
<1>8. QueuedInv(n)'
  BY <1>1, <1>2, <1>a DEF TypeOK, Sessions, Wakes, Local, CalledInv, WokenInv, EvolvedInv, UsedInv,
              QueuedInv, In, Uncalled, Completed
<1>9. \A m \in Needs : m # n => Untouched(m)
  BY <1>1, <1>2, <1>a DEF Untouched, TypeOK, Tasks
<1> QED
  BY <1>1, <1>2, <1>a, <1>3, <1>4, <1>5, <1>6, <1>7, <1>8, <1>9, OwnStep DEF Local, Tasks, TypeOK

LEMMA ThoughtSound ==
  ASSUME IInv, NEW n \in Needs, Thought(n)
  PROVE  IInv'
<1> USE DEF Thought, Moves, Raise, Idle
<1>1. /\ TypeOK /\ Local(n) /\ n \in Tasks /\ n \notin Events
      /\ Stands(n, "thought") /\ run.step = "thought" /\ run.task = n
      /\ task[n].state = "UNKNOWN"
  BY UnderWay
<1>2. TypeOK'
  BY <1>1 DEF TypeOK, Calls, Steps
<1>3. CalledInv(n)'
  BY <1>1 DEF TypeOK, Sessions, Wakes, Local, CalledInv, WokenInv, EvolvedInv, UsedInv, QueuedInv,
              In, Uncalled, Completed
<1>4. WokenInv(n)'
  BY <1>1 DEF TypeOK, Sessions, Wakes, Local, CalledInv, WokenInv, EvolvedInv, UsedInv, QueuedInv,
              In, Uncalled, Completed
<1>5. EvolvedInv(n)'
  BY <1>1 DEF TypeOK, Sessions, Wakes, Local, CalledInv, WokenInv, EvolvedInv, UsedInv, QueuedInv,
              In, Uncalled, Completed
<1>6. UsedInv(n)'
  BY <1>1 DEF TypeOK, Sessions, Wakes, Local, CalledInv, WokenInv, EvolvedInv, UsedInv, QueuedInv,
              In, Uncalled, Completed
<1>7. QueuedInv(n)'
  BY <1>1 DEF TypeOK, Sessions, Wakes, Local, CalledInv, WokenInv, EvolvedInv, UsedInv, QueuedInv,
              In, Uncalled, Completed
<1>8. \A m \in Needs : m # n => Untouched(m)
  BY <1>1 DEF Untouched, TypeOK, Tasks
<1> QED
  BY <1>1, <1>2, <1>3, <1>4, <1>5, <1>6, <1>7, <1>8, OwnStep DEF Local, Tasks, TypeOK

LEMMA ActSound ==
  ASSUME IInv, NEW n \in Needs, Act(n)
  PROVE  IInv'
<1> USE DEF Act, Moves, Raise, Idle
<1>1. /\ TypeOK /\ Local(n) /\ n \in Tasks /\ n \notin Events
      /\ Stands(n, "act") /\ run.step = "act" /\ run.task = n
      /\ task[n].state = "UNKNOWN"
  BY UnderWay
<1>2. TypeOK'
  BY <1>1 DEF TypeOK, Calls, Steps
<1>3. CalledInv(n)'
  BY <1>1 DEF TypeOK, Sessions, Wakes, Local, CalledInv, WokenInv, EvolvedInv, UsedInv, QueuedInv,
              In, Uncalled, Completed
<1>4. WokenInv(n)'
  BY <1>1 DEF TypeOK, Sessions, Wakes, Local, CalledInv, WokenInv, EvolvedInv, UsedInv, QueuedInv,
              In, Uncalled, Completed
<1>5. EvolvedInv(n)'
  BY <1>1 DEF TypeOK, Sessions, Wakes, Local, CalledInv, WokenInv, EvolvedInv, UsedInv, QueuedInv,
              In, Uncalled, Completed
<1>6. UsedInv(n)'
  BY <1>1 DEF TypeOK, Sessions, Wakes, Local, CalledInv, WokenInv, EvolvedInv, UsedInv, QueuedInv,
              In, Uncalled, Completed
<1>7. QueuedInv(n)'
  BY <1>1 DEF TypeOK, Sessions, Wakes, Local, CalledInv, WokenInv, EvolvedInv, UsedInv, QueuedInv,
              In, Uncalled, Completed
<1>8. \A m \in Needs : m # n => Untouched(m)
  BY <1>1 DEF Untouched, TypeOK, Tasks
<1> QED
  BY <1>1, <1>2, <1>3, <1>4, <1>5, <1>6, <1>7, <1>8, OwnStep DEF Local, Tasks, TypeOK

LEMMA EvolveSound ==
  ASSUME IInv, NEW n \in Needs, Evolve(n)
  PROVE  IInv'
<1> USE DEF Moves, Raise, Idle
<1>1. /\ TypeOK /\ Local(n) /\ n \in Tasks /\ n \notin Events
      /\ Stands(n, "evolve") /\ run.step = "evolve" /\ run.task = n
      /\ task[n].state = "UNKNOWN"
  BY UnderWay DEF Evolve
<1>2. /\ UNCHANGED <<task, wake, session, usage, calls, memory>>
      /\ \/ /\ evolved' = [evolved EXCEPT ![n] = revision] /\ revision' = revision + 1
            /\ wake[n].seen = revision /\ run' = [step |-> "note", task |-> n]
         \/ UNCHANGED <<evolved, revision>> /\ run' = Idle
  BY DEF Evolve, AtRevisionSeen
<1>3. TypeOK'
  BY <1>1, <1>2 DEF TypeOK, Calls, Steps
<1>4. CalledInv(n)'
  BY <1>1, <1>2 DEF TypeOK, Sessions, Wakes, Local, CalledInv, WokenInv, EvolvedInv, UsedInv,
              QueuedInv, In, Uncalled, Completed, Never
<1>5. WokenInv(n)'
  BY <1>1, <1>2 DEF TypeOK, Sessions, Wakes, Local, CalledInv, WokenInv, EvolvedInv, UsedInv,
              QueuedInv, In, Uncalled, Completed, Never
<1>6. EvolvedInv(n)'
  BY <1>1, <1>2 DEF TypeOK, Sessions, Wakes, Local, CalledInv, WokenInv, EvolvedInv, UsedInv,
              QueuedInv, In, Uncalled, Completed, Never
<1>7. UsedInv(n)'
  BY <1>1, <1>2 DEF TypeOK, Sessions, Wakes, Local, CalledInv, WokenInv, EvolvedInv, UsedInv,
              QueuedInv, In, Uncalled, Completed, Never
<1>8. QueuedInv(n)'
  BY <1>1, <1>2 DEF TypeOK, Sessions, Wakes, Local, CalledInv, WokenInv, EvolvedInv, UsedInv,
              QueuedInv, In, Uncalled, Completed, Never
<1>9. \A m \in Needs : m # n => Untouched(m)
  BY <1>1, <1>2 DEF Untouched, TypeOK, Tasks
<1> QED
  BY <1>1, <1>2, <1>3, <1>4, <1>5, <1>6, <1>7, <1>8, <1>9, OwnStep DEF Local, Tasks, TypeOK

LEMMA NoteSound ==
  ASSUME IInv, NEW n \in Needs, Note(n)
  PROVE  IInv'
<1> USE DEF Note, Moves, Raise, Idle
<1>1. /\ TypeOK /\ Local(n) /\ n \in Tasks /\ n \notin Events
      /\ Stands(n, "note") /\ run.step = "note" /\ run.task = n
      /\ task[n].state = "UNKNOWN"
  BY UnderWay
<1>2. TypeOK'
  BY <1>1 DEF TypeOK, Calls, Steps, Sessions, Phases
<1>3. CalledInv(n)'
  BY <1>1 DEF TypeOK, Sessions, Wakes, Local, CalledInv, WokenInv, EvolvedInv, UsedInv, QueuedInv,
              In, Uncalled, Completed
<1>4. WokenInv(n)'
  BY <1>1 DEF TypeOK, Sessions, Wakes, Local, CalledInv, WokenInv, EvolvedInv, UsedInv, QueuedInv,
              In, Uncalled, Completed
<1>5. EvolvedInv(n)'
  BY <1>1 DEF TypeOK, Sessions, Wakes, Local, CalledInv, WokenInv, EvolvedInv, UsedInv, QueuedInv,
              In, Uncalled, Completed
<1>6. UsedInv(n)'
  BY <1>1 DEF TypeOK, Sessions, Wakes, Local, CalledInv, WokenInv, EvolvedInv, UsedInv, QueuedInv,
              In, Uncalled, Completed
<1>7. QueuedInv(n)'
  BY <1>1 DEF TypeOK, Sessions, Wakes, Local, CalledInv, WokenInv, EvolvedInv, UsedInv, QueuedInv,
              In, Uncalled, Completed
<1>8. \A m \in Needs : m # n => Untouched(m)
  BY <1>1 DEF Untouched, TypeOK, Tasks
<1> QED
  BY <1>1, <1>2, <1>3, <1>4, <1>5, <1>6, <1>7, <1>8, OwnStep DEF Local, Tasks, TypeOK

LEMMA SettleSound ==
  ASSUME IInv, NEW n \in Needs, Settle(n)
  PROVE  IInv'
<1> USE DEF Settle, Moves, Raise, Idle
<1>1. /\ TypeOK /\ Local(n) /\ n \in Tasks /\ n \notin Events
      /\ Stands(n, "settle") /\ run.step = "settle" /\ run.task = n
      /\ task[n].state = "UNKNOWN"
  BY UnderWay
<1>2. TypeOK'
  BY <1>1 DEF TypeOK, Calls, Steps, Sessions, Wakes
<1>3. CalledInv(n)'
  BY <1>1 DEF TypeOK, Sessions, Wakes, Local, CalledInv, WokenInv, EvolvedInv, UsedInv, QueuedInv,
              In, Uncalled, Completed
<1>4. WokenInv(n)'
  BY <1>1 DEF TypeOK, Sessions, Wakes, Local, CalledInv, WokenInv, EvolvedInv, UsedInv, QueuedInv,
              In, Uncalled, Completed
<1>5. EvolvedInv(n)'
  BY <1>1 DEF TypeOK, Sessions, Wakes, Local, CalledInv, WokenInv, EvolvedInv, UsedInv, QueuedInv,
              In, Uncalled, Completed
<1>6. UsedInv(n)'
  BY <1>1 DEF TypeOK, Sessions, Wakes, Local, CalledInv, WokenInv, EvolvedInv, UsedInv, QueuedInv,
              In, Uncalled, Completed
<1>7. QueuedInv(n)'
  BY <1>1 DEF TypeOK, Sessions, Wakes, Local, CalledInv, WokenInv, EvolvedInv, UsedInv, QueuedInv,
              In, Uncalled, Completed
<1>8. \A m \in Needs : m # n => Untouched(m)
  BY <1>1 DEF Untouched, TypeOK, Tasks
<1> QED
  BY <1>1, <1>2, <1>3, <1>4, <1>5, <1>6, <1>7, <1>8, OwnStep DEF Local, Tasks, TypeOK

LEMMA CloseSound ==
  ASSUME IInv, NEW n \in Needs, Close(n)
  PROVE  IInv'
<1> USE DEF Close, Moves, Raise, Idle
<1>1. /\ TypeOK /\ Local(n) /\ n \in Tasks /\ n \notin Events
      /\ Stands(n, "close") /\ run.step = "close" /\ run.task = n
      /\ task[n].state = "UNKNOWN"
  BY UnderWay
<1>2. TypeOK'
  BY <1>1 DEF TypeOK, Calls, Steps, Sessions, Wakes
<1>3. CalledInv(n)'
  BY <1>1 DEF TypeOK, Sessions, Wakes, Local, CalledInv, WokenInv, EvolvedInv, UsedInv, QueuedInv,
              In, Uncalled, Completed
<1>4. WokenInv(n)'
  BY <1>1 DEF TypeOK, Sessions, Wakes, Local, CalledInv, WokenInv, EvolvedInv, UsedInv, QueuedInv,
              In, Uncalled, Completed
<1>5. EvolvedInv(n)'
  BY <1>1 DEF TypeOK, Sessions, Wakes, Local, CalledInv, WokenInv, EvolvedInv, UsedInv, QueuedInv,
              In, Uncalled, Completed
<1>6. UsedInv(n)'
  BY <1>1 DEF TypeOK, Sessions, Wakes, Local, CalledInv, WokenInv, EvolvedInv, UsedInv, QueuedInv,
              In, Uncalled, Completed
<1>7. QueuedInv(n)'
  BY <1>1 DEF TypeOK, Sessions, Wakes, Local, CalledInv, WokenInv, EvolvedInv, UsedInv, QueuedInv,
              In, Uncalled, Completed
<1>8. \A m \in Needs : m # n => Untouched(m)
  BY <1>1 DEF Untouched, TypeOK, Tasks
<1> QED
  BY <1>1, <1>2, <1>3, <1>4, <1>5, <1>6, <1>7, <1>8, OwnStep DEF Local, Tasks, TypeOK

LEMMA CloseTaskSound ==
  ASSUME IInv, NEW n \in Needs, CloseTask(n)
  PROVE  IInv'
<1> USE DEF CloseTask, Moves, Raise, Idle
<1>1. /\ TypeOK /\ Local(n) /\ n \in Tasks /\ n \notin Events
      /\ Stands(n, "cancel") /\ run.step = "cancel" /\ run.task = n
      /\ task[n].state = "UNKNOWN"
  BY UnderWay
<1>2. TypeOK'
  <2>1. task' \in [Tasks -> TaskRecords]
    <3>1. task[n] \in TaskRecords /\ task \in [Tasks -> TaskRecords]
      BY <1>1 DEF TypeOK
    <3>2. [task[n] EXCEPT !.cancel = TRUE] \in TaskRecords
      BY <3>1 DEF TaskRecords
    <3>3. task' = [task EXCEPT ![n] = [task[n] EXCEPT !.cancel = TRUE]]
      OBVIOUS
    <3> QED
      BY <1>1, <3>1, <3>2, <3>3
  <2> QED
    BY <1>1, <2>1 DEF TypeOK, Calls, Steps
<1>3. CalledInv(n)'
  BY <1>1 DEF TypeOK, Sessions, Wakes, Local, CalledInv, WokenInv, EvolvedInv, UsedInv, QueuedInv,
              In, Uncalled, Completed
<1>4. WokenInv(n)'
  BY <1>1 DEF TypeOK, Sessions, Wakes, Local, CalledInv, WokenInv, EvolvedInv, UsedInv, QueuedInv,
              In, Uncalled, Completed
<1>5. EvolvedInv(n)'
  BY <1>1 DEF TypeOK, Sessions, Wakes, Local, CalledInv, WokenInv, EvolvedInv, UsedInv, QueuedInv,
              In, Uncalled, Completed
<1>6. UsedInv(n)'
  BY <1>1 DEF TypeOK, Sessions, Wakes, Local, CalledInv, WokenInv, EvolvedInv, UsedInv, QueuedInv,
              In, Uncalled, Completed
<1>7. QueuedInv(n)'
  BY <1>1 DEF TypeOK, Sessions, Wakes, Local, CalledInv, WokenInv, EvolvedInv, UsedInv, QueuedInv,
              In, Uncalled, Completed
<1>8. \A m \in Needs : m # n => Untouched(m)
  BY <1>1 DEF Untouched, TypeOK, Tasks
<1> QED
  BY <1>1, <1>2, <1>3, <1>4, <1>5, <1>6, <1>7, <1>8, OwnStep DEF Local, Tasks, TypeOK

-----------------------------------------------------------------------------
(* Receipts.                                                               *)

LEMMA WakeSound ==
  ASSUME IInv, NEW n \in Needs, Wake(n)
  PROVE  IInv'
<1> USE DEF Idle
<1>1. /\ TypeOK /\ Local(n) /\ n \in Tasks /\ n \notin Events
      /\ Stands(n, "wake") /\ run.step = "wake" /\ run.task = n
      /\ task[n].state = "UNKNOWN"
  BY UnderWay DEF Wake
<1>2. /\ UNCHANGED <<revision, session, evolved, usage, calls, memory>>
      /\ task' \in [Tasks -> TaskRecords]
      /\ \A t \in Tasks : t # n => task'[t] = task[t]
      /\ \/ task' = task /\ wake' = wake /\ run' = [step |-> "mind", task |-> n]
         \/ /\ wake[n].status \in {"none", "reserved"}
            /\ task' = task /\ wake' = [wake EXCEPT ![n].status = "reserved"]
            /\ run' = [step |-> "waking", task |-> n]
         \/ /\ wake[n].status = "none" /\ wake' = wake /\ run' = Idle
            /\ task'[n].state \in {"RETRY_WAIT", "RETRY_EXHAUSTED", "CANCELLED"}
  <2>1. CASE task' = task
    BY <1>1, <2>1, ReceiptEnds DEF Wake, Moves, TypeOK
  <2>2. CASE Receipt(n, "NOT_DELIVERED") /\ wake[n].status = "none" /\ wake' = wake
    BY <1>1, <2>2, ReceiptEnds DEF Wake, TypeOK, TaskRecords
  <2> QED
    BY <1>1, <2>1, <2>2 DEF Wake
<1>3. TypeOK'
  <2>1. wake' \in [Needs -> Wakes]
    BY <1>1, <1>2 DEF TypeOK, Wakes
  <2>2. run' \in {Idle} \cup Calls
    BY <1>1, <1>2 DEF Calls, Steps
  <2> QED
    BY <1>1, <1>2, <2>1, <2>2 DEF TypeOK
<1>4. CalledInv(n)'
  BY <1>1, <1>2 DEF TypeOK, Sessions, Wakes, Local, CalledInv, WokenInv, EvolvedInv, UsedInv,
              QueuedInv, In, Uncalled, Completed
<1>5. WokenInv(n)'
  BY <1>1, <1>2 DEF TypeOK, Sessions, Wakes, Local, CalledInv, WokenInv, EvolvedInv, UsedInv,
              QueuedInv, In, Uncalled, Completed
<1>6. EvolvedInv(n)'
  BY <1>1, <1>2 DEF TypeOK, Sessions, Wakes, Local, CalledInv, WokenInv, EvolvedInv, UsedInv,
              QueuedInv, In, Uncalled, Completed
<1>7. UsedInv(n)'
  BY <1>1, <1>2 DEF TypeOK, Sessions, Wakes, Local, CalledInv, WokenInv, EvolvedInv, UsedInv,
              QueuedInv, In, Uncalled, Completed
<1>8. QueuedInv(n)'
  BY <1>1, <1>2 DEF TypeOK, Sessions, Wakes, Local, CalledInv, WokenInv, EvolvedInv, UsedInv,
              QueuedInv, In, Uncalled, Completed
<1>9. \A m \in Needs : m # n => Untouched(m)
  BY <1>1, <1>2 DEF Untouched, TypeOK, Tasks
<1> QED
  BY <1>1, <1>2, <1>3, <1>4, <1>5, <1>6, <1>7, <1>8, <1>9, OwnStep DEF Local, Tasks, TypeOK

LEMMA DeliverSound ==
  ASSUME IInv, NEW n \in Needs, Deliver(n)
  PROVE  IInv'
<1> USE DEF Idle
<1>1. /\ TypeOK /\ Local(n) /\ n \in Tasks /\ n \notin Events
      /\ Stands(n, "receipt") /\ run.step = "receipt" /\ run.task = n
      /\ task[n].state = "UNKNOWN"
  BY UnderWay DEF Deliver
<1>2. /\ UNCHANGED <<revision, wake, session, evolved, usage, calls, memory>>
      /\ task' \in [Tasks -> TaskRecords] /\ task'[n].state = "COMPLETED" /\ run' = Idle
      /\ \A t \in Tasks : t # n => task'[t] = task[t]
  BY <1>1, ReceiptEnds DEF Deliver
<1>3. TypeOK'
  BY <1>1, <1>2 DEF TypeOK, Calls, Steps, Wakes
<1>4. CalledInv(n)'
  BY <1>1, <1>2 DEF TypeOK, Sessions, Wakes, Local, CalledInv, WokenInv, EvolvedInv, UsedInv,
              QueuedInv, In, Uncalled, Completed
<1>5. WokenInv(n)'
  BY <1>1, <1>2 DEF TypeOK, Sessions, Wakes, Local, CalledInv, WokenInv, EvolvedInv, UsedInv,
              QueuedInv, In, Uncalled, Completed
<1>6. EvolvedInv(n)'
  BY <1>1, <1>2 DEF TypeOK, Sessions, Wakes, Local, CalledInv, WokenInv, EvolvedInv, UsedInv,
              QueuedInv, In, Uncalled, Completed
<1>7. UsedInv(n)'
  BY <1>1, <1>2 DEF TypeOK, Sessions, Wakes, Local, CalledInv, WokenInv, EvolvedInv, UsedInv,
              QueuedInv, In, Uncalled, Completed
<1>8. QueuedInv(n)'
  BY <1>1, <1>2 DEF TypeOK, Sessions, Wakes, Local, CalledInv, WokenInv, EvolvedInv, UsedInv,
              QueuedInv, In, Uncalled, Completed
<1>9. \A m \in Needs : m # n => Untouched(m)
  BY <1>1, <1>2 DEF Untouched, TypeOK, Tasks
<1> QED
  BY <1>1, <1>2, <1>3, <1>4, <1>5, <1>6, <1>7, <1>8, <1>9, OwnStep DEF Local, Tasks, TypeOK

LEMMA ClosingSound ==
  ASSUME IInv, NEW n \in Needs, Closing(n)
  PROVE  IInv'
<1> USE DEF Idle
<1>1. /\ TypeOK /\ Local(n) /\ n \in Tasks /\ n \notin Events
      /\ Stands(n, "closed") /\ run.step = "closed" /\ run.task = n
      /\ task[n].state = "UNKNOWN"
  BY UnderWay DEF Closing
<1>2. /\ UNCHANGED <<revision, wake, session, evolved, usage, calls, memory>>
      /\ task' \in [Tasks -> TaskRecords] /\ task'[n].state = "CANCELLED" /\ run' = Idle
      /\ \A t \in Tasks : t # n => task'[t] = task[t]
  BY <1>1, ReceiptEnds DEF Closing, Local, UsedInv, In
<1>3. TypeOK'
  BY <1>1, <1>2 DEF TypeOK, Calls, Steps, Wakes
<1>4. CalledInv(n)'
  BY <1>1, <1>2 DEF TypeOK, Sessions, Wakes, Local, CalledInv, WokenInv, EvolvedInv, UsedInv,
              QueuedInv, In, Uncalled, Completed
<1>5. WokenInv(n)'
  BY <1>1, <1>2 DEF TypeOK, Sessions, Wakes, Local, CalledInv, WokenInv, EvolvedInv, UsedInv,
              QueuedInv, In, Uncalled, Completed
<1>6. EvolvedInv(n)'
  BY <1>1, <1>2 DEF TypeOK, Sessions, Wakes, Local, CalledInv, WokenInv, EvolvedInv, UsedInv,
              QueuedInv, In, Uncalled, Completed
<1>7. UsedInv(n)'
  BY <1>1, <1>2 DEF TypeOK, Sessions, Wakes, Local, CalledInv, WokenInv, EvolvedInv, UsedInv,
              QueuedInv, In, Uncalled, Completed
<1>8. QueuedInv(n)'
  BY <1>1, <1>2 DEF TypeOK, Sessions, Wakes, Local, CalledInv, WokenInv, EvolvedInv, UsedInv,
              QueuedInv, In, Uncalled, Completed
<1>9. \A m \in Needs : m # n => Untouched(m)
  BY <1>1, <1>2 DEF Untouched, TypeOK, Tasks
<1> QED
  BY <1>1, <1>2, <1>3, <1>4, <1>5, <1>6, <1>7, <1>8, <1>9, OwnStep DEF Local, Tasks, TypeOK

LEMMA QuerySound ==
  ASSUME IInv, NEW n \in Needs, Query(n)
  PROVE  IInv'
<1> USE DEF Idle
<1>1. /\ TypeOK /\ Local(n) /\ n \in Tasks /\ n \notin Events
      /\ Stands(n, "query") /\ run.step = "query" /\ run.task = n
      /\ task[n].state = "UNKNOWN"
  BY UnderWay DEF Query
<1>2. /\ UNCHANGED <<revision, wake, evolved, usage, calls, memory>>
      /\ task' \in [Tasks -> TaskRecords] /\ session' \in [Needs -> Sessions]
      /\ session'[n].updates = session[n].updates /\ session'[n].noted = session[n].noted
      /\ \A t \in Tasks : t # n => task'[t] = task[t]
      /\ \A m \in Needs : m # n => session'[m] = session[m]
      /\ \/ /\ session' = session /\ session[n].phase \in {"none", "prepared"}
            /\ session[n].phase = "prepared" => task'[n].state = "CANCELLED"
            /\ task'[n].state \in {"RETRY_WAIT", "RETRY_EXHAUSTED", "CANCELLED"} /\ run' = Idle
         \/ /\ task' = task /\ session[n].phase \in {"prepared", "abandoned"}
            /\ session'[n].phase = "abandoned" /\ run' = [step |-> "close", task |-> n]
         \/ task' = task /\ session' = session /\ (run' = Idle \/ run' = [step |-> "mind", task |-> n])
  <2>1. CASE Receipt(n, "NOT_DELIVERED") /\ session' = session /\ session[n] = NoSession
    BY <1>1, <2>1, ReceiptEnds DEF Query, TypeOK, NoSession
  <2>2. CASE Receipt(n, "NOT_DELIVERED") /\ session' = session /\ NotStarted(n) /\ task[n].cancel
    BY <1>1, <2>2, ReceiptEnds DEF Query, TypeOK, NotStarted
  <2>3. CASE task' = task /\ NotStarted(n) /\ Phase(n, "abandoned") /\ Moves(n, "close")
    BY <1>1, <2>3, PhaseSet DEF Query, TypeOK, NotStarted, Phases, Moves
  <2>4. CASE task' = task /\ session' = session /\ Abandoned(n) /\ Moves(n, "close")
    BY <1>1, <2>4 DEF Query, TypeOK, Moves, Abandoned
  <2>5. CASE task' = task /\ session' = session /\ (Moves(n, "mind") \/ Raise)
    BY <1>1, <2>5 DEF Query, TypeOK, Moves, Raise
  <2> QED
    BY <2>1, <2>2, <2>3, <2>4, <2>5 DEF Query
<1>3. TypeOK'
  BY <1>1, <1>2 DEF TypeOK, Calls, Steps, Wakes
<1>4. CalledInv(n)'
  BY <1>1, <1>2 DEF TypeOK, Sessions, Wakes, Local, CalledInv, WokenInv, EvolvedInv, UsedInv,
              QueuedInv, In, Uncalled, Completed
<1>5. WokenInv(n)'
  BY <1>1, <1>2 DEF TypeOK, Sessions, Wakes, Local, CalledInv, WokenInv, EvolvedInv, UsedInv,
              QueuedInv, In, Uncalled, Completed
<1>6. EvolvedInv(n)'
  BY <1>1, <1>2 DEF TypeOK, Sessions, Wakes, Local, CalledInv, WokenInv, EvolvedInv, UsedInv,
              QueuedInv, In, Uncalled, Completed
<1>7. UsedInv(n)'
  BY <1>1, <1>2 DEF TypeOK, Sessions, Wakes, Local, CalledInv, WokenInv, EvolvedInv, UsedInv,
              QueuedInv, In, Uncalled, Completed
<1>8. QueuedInv(n)'
  BY <1>1, <1>2 DEF TypeOK, Sessions, Wakes, Local, CalledInv, WokenInv, EvolvedInv, UsedInv,
              QueuedInv, In, Uncalled, Completed
<1>9. \A m \in Needs : m # n => Untouched(m)
  BY <1>1, <1>2 DEF Untouched, TypeOK, Tasks
<1> QED
  BY <1>1, <1>2, <1>3, <1>4, <1>5, <1>6, <1>7, <1>8, <1>9, OwnStep DEF Local, Tasks, TypeOK

-----------------------------------------------------------------------------
(* The scheduler.                                                          *)

LEMMA NeedSound ==
  ASSUME IInv, NEW n \in Needs, Need(n)
  PROVE  IInv'
<1> USE DEF Idle
<1>1. /\ TypeOK /\ Local(n) /\ n \in Tasks /\ n \notin Events
      /\ run.step = "idle" /\ task[n] = NoTask
      /\ run' = [step |-> "submit", task |-> n]
      /\ UNCHANGED <<revision, task, wake, session, evolved, usage, calls, aged, memory, withdrawn, lost>>
  BY CognitionAssumption DEF Need, Moves, IInv, Tasks
<1>2. TypeOK'
  BY <1>1 DEF TypeOK, Calls, Steps
<1>3. Local(n)'
  BY <1>1 DEF Local, CalledInv, WokenInv, EvolvedInv, UsedInv, QueuedInv, In, Uncalled, Completed
<1>4. \A m \in Needs : m # n => Local(m)'
  BY <1>1, LocalKept DEF Untouched, Elsewhere, IInv
<1>5. Ordered'
  <2> SUFFICES ASSUME NEW a \in Needs, NEW b \in Needs, a[1] = b[1], a[2] < b[2], Begun(b)'
               PROVE  Closed(a)
    BY <1>1 DEF Ordered, Closed, Abandoned
  <2>1. CASE b = n
    <3>1. a = <<n[1], a[2]>> /\ a[2] \in 0..n[2] - 1
      BY CognitionAssumption, <2>1 DEF Needs
    <3> QED
      BY <3>1 DEF Need
  <2>2. CASE b # n
    <3>1. Begun(b)
      BY <1>1, <2>2 DEF Begun, In
    <3> QED
      BY <3>1 DEF IInv, Ordered
  <2> QED
    BY <2>1, <2>2
<1> QED
  BY <1>1, <1>2, <1>3, <1>4, <1>5 DEF IInv, EventsRemembered

LEMMA SubmitSound ==
  ASSUME IInv, NEW t \in Tasks, Submit(t)
  PROVE  IInv'
<1> USE DEF Idle
<1>1. /\ TypeOK /\ run.step = "submit" /\ run.task = t /\ run' = Idle
      /\ UNCHANGED <<revision, wake, session, evolved, usage, calls, memory>>
      /\ task' = [task EXCEPT ![t].state = "QUEUED"]
  BY DEF Submit, IInv, Stands
<1>2. /\ task' \in [Tasks -> TaskRecords] /\ task'[t].state = "QUEUED"
      /\ \A u \in Tasks : u # t => task'[u] = task[u]
  BY <1>1 DEF TypeOK, TaskRecords
<1>3. TypeOK'
  BY <1>1, <1>2 DEF TypeOK
<1>4. ASSUME NEW m \in Needs PROVE Local(m)'
  <2>1. Local(m) /\ m \in Tasks
    BY DEF IInv, Tasks
  <2>2. CASE m = t
    <3>1. task[m].state = "none"
      BY <1>1, <2>1, <2>2 DEF Local, QueuedInv, In, NoTask
    <3>2. QueuedInv(m)'
      BY <1>1, <1>2, <2>1, <2>2, <3>1 DEF Local, QueuedInv, In
    <3>3. CalledInv(m)' /\ WokenInv(m)' /\ EvolvedInv(m)' /\ UsedInv(m)'
      BY <1>1, <2>1 DEF Local, CalledInv, WokenInv, EvolvedInv, UsedInv, In, Uncalled, Completed
    <3> QED
      BY <3>2, <3>3 DEF Local
  <2>3. CASE m # t
    BY <1>1, <1>2, <2>1, <2>3, LocalKept DEF Untouched, Elsewhere
  <2> QED
    BY <2>2, <2>3
<1>5. Ordered'
  <2>1. ASSUME NEW m \in Needs PROVE (Closed(m) => Closed(m)') /\ (Begun(m)' => Begun(m))
    <3>1. Local(m) /\ m \in Tasks
      BY DEF IInv, Tasks
    <3>2. CASE m = t
      BY <1>1, <3>1, <3>2 DEF Local, QueuedInv, In, NoTask, Closed, Begun
    <3>3. CASE m # t
      BY <1>1, <1>2, <3>1, <3>3 DEF Closed, Abandoned, Begun, In
    <3> QED
      BY <3>2, <3>3
  <2> QED
    BY <2>1, OrderKept DEF IInv
<1>6. EventsRemembered'
  BY <1>1, <1>2 DEF IInv, EventsRemembered, Tasks
<1> QED
  BY <1>3, <1>4, <1>5, <1>6 DEF IInv

\* The scheduler begins to dispatch or to ask, or withdraws what is not under way.
LEMMA SchedulerStep ==
  ASSUME IInv, NEW t \in Tasks,
         UNCHANGED <<revision, wake, session, evolved, usage, calls, memory>>,
         task' \in [Tasks -> TaskRecords], \A u \in Tasks : u # t => task'[u] = task[u],
         task[t].state \in {"QUEUED", "RETRY_WAIT", "UNKNOWN"},
         \/ /\ task'[t].state = "UNKNOWN" /\ run = Idle
            /\ \E step \in {"wake", "remember", "query", "recall"} : Moves(t, step)
         \/ /\ run' = run /\ task'[t].cancel
            /\ task'[t].state = IF task[t].state = "UNKNOWN" THEN "UNKNOWN" ELSE "CANCELLED"
  PROVE  IInv'
<1> USE DEF Idle
<1>1. TypeOK'
  BY DEF IInv, TypeOK, Moves, Calls, Steps
<1>2. ASSUME NEW m \in Needs PROVE Local(m)'
  <2>1. Local(m) /\ m \in Tasks
    BY DEF IInv, Tasks
  <2>2. CASE m = t
    <3>1. QueuedInv(m)'
      BY <2>1, <2>2 DEF Local, QueuedInv, In, Moves, NoTask
    <3>2. CalledInv(m)' /\ WokenInv(m)' /\ EvolvedInv(m)'
      BY <2>1, <2>2 DEF Local, CalledInv, WokenInv, EvolvedInv, In, Moves, Uncalled, Completed
    <3>3. UsedInv(m)'
      BY <2>1, <2>2 DEF Local, UsedInv, In, Moves, Completed
    <3> QED
      BY <3>1, <3>2, <3>3 DEF Local
  <2>3. CASE m # t
    BY <2>1, <2>3, LocalKept DEF Untouched, Elsewhere, Moves
  <2> QED
    BY <2>2, <2>3
<1>3. \A m \in Needs : (Closed(m) => Closed(m)') /\ (Begun(m)' => Begun(m))
  BY DEF Closed, Abandoned, Begun, In, Moves, Tasks
<1>4. Ordered'
  BY <1>3, OrderKept DEF IInv
<1>5. EventsRemembered'
  BY DEF IInv, EventsRemembered, Tasks
<1> QED
  BY <1>1, <1>2, <1>4, <1>5 DEF IInv

LEMMA DispatchSound ==
  ASSUME IInv, NEW t \in Tasks, BeginDispatch(t)
  PROVE  IInv'
<1>1. /\ task' \in [Tasks -> TaskRecords] /\ task'[t].state = "UNKNOWN"
      /\ \A u \in Tasks : u # t => task'[u] = task[u]
  BY DEF BeginDispatch, IInv, TypeOK, TaskRecords
<1>2. \E step \in {"wake", "remember"} : Moves(t, step)
  BY DEF BeginDispatch
<1> QED
  BY <1>1, <1>2, SchedulerStep DEF BeginDispatch

LEMMA BeginQuerySound ==
  ASSUME IInv, NEW t \in Tasks, BeginQuery(t)
  PROVE  IInv'
<1>1. \E step \in {"query", "recall"} : Moves(t, step)
  BY DEF BeginQuery
<1> QED
  BY <1>1, SchedulerStep DEF BeginQuery, IInv, TypeOK

LEMMA CancelSound ==
  ASSUME IInv, NEW t \in Tasks, Cancel(t)
  PROVE  IInv'
<1> DEFINE state == IF task[t].state = "UNKNOWN" THEN "UNKNOWN" ELSE "CANCELLED"
<1>1. task' = [task EXCEPT ![t] = [task[t] EXCEPT !.cancel = TRUE, !.state = state]]
  BY DEF Cancel
<1>2. state \in {"UNKNOWN", "CANCELLED"}
  OBVIOUS
<1> HIDE DEF state
<1>3. task[t] \in TaskRecords /\ task \in [Tasks -> TaskRecords]
  BY DEF IInv, TypeOK
<1>4. [task[t] EXCEPT !.cancel = TRUE, !.state = state] \in TaskRecords
  BY <1>2, <1>3 DEF TaskRecords, Terminal
<1>5. /\ task' \in [Tasks -> TaskRecords] /\ task'[t].state = state /\ task'[t].cancel
      /\ \A u \in Tasks : u # t => task'[u] = task[u]
  BY <1>1, <1>3, <1>4 DEF TaskRecords
<1> QED
  BY <1>5, SchedulerStep DEF Cancel, state

-----------------------------------------------------------------------------
(* Maintenance, and what happens elsewhere.                                *)

LEMMA MaintainSound ==
  ASSUME IInv, NEW e \in Events, Maintain(e)
  PROVE  IInv'
<1> USE DEF Idle
<1>1. TypeOK /\ e \in Tasks /\ e \notin Needs /\ run.task = e /\ run.step # "submit"
  BY CognitionAssumption DEF IInv, Tasks, Maintain, Remember, Write, Recall, Stands
<1>2. /\ UNCHANGED <<revision, wake, session, evolved, calls>> /\ memory \subseteq memory'
      /\ usage' = usage \/ usage' = [usage EXCEPT ![e] = "held"]
      /\ task' = task \/ Receipt(e, "NOT_DELIVERED") \/ (e \in memory' /\ Receipt(e, "DELIVERED"))
      /\ run' = Idle \/ \E step \in {"write", "recall"} : Moves(e, step)
  BY DEF Maintain, Remember, Write, Recall, Remembered, Raise, Consolidate, Receipt
<1>3. /\ task' \in [Tasks -> TaskRecords]
      /\ \A u \in Tasks : u # e => task'[u] = task[u]
      /\ task'[e].state = "COMPLETED" => task[e].state = "COMPLETED" \/ e \in memory'
  BY <1>1, <1>2, ReceiptEnds DEF TypeOK
<1>4. TypeOK'
  BY <1>1, <1>2, <1>3 DEF TypeOK, Moves, Calls, Steps
<1>5. \A m \in Needs : Untouched(m) /\ Elsewhere(m)
  BY <1>1, <1>2, <1>3 DEF Untouched, Elsewhere, Moves, TypeOK, Tasks
<1>6. \A m \in Needs : In(m, {"submit"})' => In(m, {"submit"})
  BY <1>1, <1>2 DEF In, Moves
<1>7. EventsRemembered'
  BY <1>2, <1>3 DEF IInv, EventsRemembered, Tasks
<1> QED
  BY <1>4, <1>5, <1>6, <1>7, OtherStep

\* An event is found, something changes elsewhere, or the call is lost.
LEMMA ElsewhereSound ==
  ASSUME IInv,
         \/ \E e \in Events : Missing(e) \/ Withdraw(e)
         \/ \E n \in Needs : Age(n)
         \/ Change \/ Lose
  PROVE  IInv'
<1> USE DEF Idle
<1>1. /\ UNCHANGED <<task, wake, session, evolved, usage, calls, memory>>
      /\ revision' \in Nat
      /\ run' = run \/ run' = Idle \/ \E e \in Events : Moves(e, "submit")
  BY DEF Missing, Withdraw, Age, Change, Lose, IInv, TypeOK
<1>2. TypeOK'
  BY <1>1 DEF IInv, TypeOK, Moves, Calls, Steps, Tasks
<1>3. \A m \in Needs : Untouched(m) /\ Elsewhere(m)
  BY CognitionAssumption, <1>1 DEF Untouched, Elsewhere, Moves
<1>4. \A m \in Needs : In(m, {"submit"})' => In(m, {"submit"})
  BY CognitionAssumption, <1>1 DEF In, Moves
<1> QED
  BY <1>1, <1>2, <1>3, <1>4, OtherStep DEF IInv, EventsRemembered

-----------------------------------------------------------------------------
(* The invariant.                                                          *)

LEMMA InitSound == NInit => IInv
<1> SUFFICES ASSUME NInit
             PROVE  IInv
  OBVIOUS
<1> USE DEF NInit, Idle, NoTask, NotWoken, NoSession, Never
<1>1. TypeOK
  BY DEF TypeOK, TaskRecords, Wakes, Sessions, Phases
<1>2. ASSUME NEW n \in Needs PROVE Local(n)
  BY DEF Local, CalledInv, WokenInv, EvolvedInv, UsedInv, QueuedInv, In, Uncalled, Completed, Tasks
<1>3. Ordered
  BY DEF Ordered, Begun, In, Tasks
<1>4. EventsRemembered
  BY DEF EventsRemembered, Tasks
<1> QED
  BY <1>1, <1>2, <1>3, <1>4 DEF IInv

LEMMA ThinkSound ==
  ASSUME IInv, NEW n \in Needs, Think(n)
  PROVE  IInv'
<1>1. CASE Wake(n) \/ StartWake(n) \/ FinishWake(n) \/ Mind(n)
  BY <1>1, WakeSound, StartWakeSound, FinishWakeSound, MindSound
<1>2. CASE Allocate(n) \/ Refused(n) \/ SavePrepared(n) \/ Provide(n)
  BY <1>2, AllocateSound, RefusedSound, SavePreparedSound, ProvideSound
<1>3. CASE Enter(n) \/ Call(n) \/ Answer(n)
  BY <1>3, EnterSound, CallSound, AnswerSound
<1>4. CASE Thought(n) \/ Act(n) \/ Evolve(n) \/ Note(n)
  BY <1>4, ThoughtSound, ActSound, EvolveSound, NoteSound
<1>5. CASE Settle(n) \/ Deliver(n) \/ Query(n)
  BY <1>5, SettleSound, DeliverSound, QuerySound
<1>6. CASE Close(n) \/ CloseTask(n) \/ Closing(n)
  BY <1>6, CloseSound, CloseTaskSound, ClosingSound
<1> QED
  BY <1>1, <1>2, <1>3, <1>4, <1>5, <1>6 DEF Think

LEMMA NextSound ==
  ASSUME IInv, [NNext]_nvars
  PROVE  IInv'
<1>1. CASE UNCHANGED nvars
  <2>1. \A m \in Needs : Untouched(m) /\ Elsewhere(m)
    BY <1>1 DEF nvars, Untouched, Elsewhere
  <2> QED
    BY <1>1, <2>1, OtherStep DEF nvars, IInv, TypeOK, EventsRemembered, In
<1>2. CASE Step
  BY <1>2, SubmitSound, ThinkSound, MaintainSound DEF Step
<1>3. CASE \E n \in Needs : Need(n)
  BY <1>3, NeedSound
<1>4. CASE \/ \E e \in Events : Missing(e) \/ Withdraw(e)
           \/ \E n \in Needs : Age(n)
           \/ Change \/ Lose
  BY <1>4, ElsewhereSound
<1>5. CASE \E t \in Tasks : BeginDispatch(t) \/ BeginQuery(t) \/ Cancel(t)
  BY <1>5, DispatchSound, BeginQuerySound, CancelSound
<1> QED
  BY <1>1, <1>2, <1>3, <1>4, <1>5 DEF NNext

\* What is known of each need, of the order of the rounds and of the remembered events holds at
\* every step of every call, whatever is lost, changed or cancelled on the way.
THEOREM Invariance == NSpec => []IInv
<1>1. NInit => IInv
  BY InitSound
<1>2. IInv /\ [NNext]_nvars => IInv'
  BY NextSound
<1> QED
  BY <1>1, <1>2, PTL DEF NSpec

-----------------------------------------------------------------------------
(* What follows from it.                                                   *)

\* Every store holds what its code may put there: no need, wake, session or reservation is in a
\* state that the services do not know.
THEOREM TypeCorrect == NSpec => []TypeOK
<1>1. IInv => TypeOK
  BY DEF IInv
<1> QED
  BY <1>1, Invariance, PTL

\* The provider is called at most once for a need, over all the rounds in which it was assessed
\* again: a later round begins only on the evidence that the earlier ones never called it.
THEOREM ThoughtOnce == NSpec => []OneThoughtPerNeed
<1>1. IInv => OneThoughtPerNeed
  <2> SUFFICES ASSUME IInv
               PROVE  OneThoughtPerNeed
    OBVIOUS
  <2>1. \A n \in Needs : calls[n] <= 1
    BY DEF IInv, Local, CalledInv
  <2>2. ASSUME NEW n \in Needs, NEW k \in Needs, n[1] = k[1], n[2] < k[2], calls[k] # 0
        PROVE  calls[n] = 0
    <3>1. Begun(k)
      BY <2>2 DEF IInv, Local, CalledInv, QueuedInv, Uncalled, Begun
    <3>2. Closed(n)
      BY <2>2, <3>1 DEF IInv, Ordered
    <3> QED
      BY <3>2 DEF IInv, Local, CalledInv, Uncalled, Closed, Abandoned
  <2>3. \A n, k \in Needs : n[1] = k[1] /\ n # k => n[2] < k[2] \/ k[2] < n[2]
    BY CognitionAssumption DEF Needs
  <2> QED
    BY <2>1, <2>2, <2>3 DEF OneThoughtPerNeed
<1> QED
  BY <1>1, Invariance, PTL

\* A reservation is charged in full only for a call that was made, and for nothing only if none
\* was: also when the settlement is repeated, or made by a query long after the attempt.
THEOREM UsageTold == NSpec => []UsageIsTrue
<1>1. IInv => UsageIsTrue
  BY DEF IInv, Local, UsedInv, CalledInv, Uncalled, UsageIsTrue
<1> QED
  BY <1>1, Invariance, PTL

\* The end of a task is the truth about its thought: a completed one has its result, its noted
\* evolution and its settlement; a cancelled or exhausted one never called the provider.
THEOREM EndsTold == NSpec => []EndsAreTrue
<1>1. IInv => EndsAreTrue
  <2> SUFFICES ASSUME IInv
               PROVE  EndsAreTrue
    OBVIOUS
  <2>1. \A e \in Events : task[e].state = "COMPLETED" => e \in memory
    BY DEF IInv, EventsRemembered
  <2>2. ASSUME NEW n \in Needs
        PROVE  /\ task[n].state = "COMPLETED" =>
                    \/ wake[n].status = "done" /\ ~ wake[n].thinks /\ session[n] = NoSession
                    \/ Completed(n) /\ usage[n] # "held" /\ (evolved[n] # Never => session[n].noted)
               /\ evolved[n] # Never => evolved[n] = wake[n].seen /\ session[n].updates
    BY DEF IInv, Local, QueuedInv, EvolvedInv
  <2>3. ASSUME NEW n \in Needs, task[n].state \in {"CANCELLED", "RETRY_EXHAUSTED"}
        PROVE  calls[n] = 0 /\ evolved[n] = Never
    BY <2>3 DEF IInv, Local, QueuedInv, CalledInv, EvolvedInv, Uncalled
  <2> QED
    BY <2>1, <2>2, <2>3 DEF EndsAreTrue
<1> QED
  BY <1>1, Invariance, PTL
=============================================================================
