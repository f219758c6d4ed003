---------------------------- MODULE RuntimeControl ----------------------------
(***************************************************************************)
(* PersistentRuntimeService over its checkpoint.  Hosts serve: one of them *)
(* holds the lock of the owner, attaches under a new generation, ticks and *)
(* detaches.  A tick loads the checkpoint, does its work in stages with a  *)
(* guard before each, and observes what came of it.  The owner pauses,     *)
(* resumes and stops meanwhile; hosts are interrupted or die anywhere.  A  *)
(* transaction on the checkpoint is one step, for it holds a lock from its *)
(* load to its save, or it is given up as busy; reads hold none.           *)
(* An owner token, drawn anew with each generation, is kept as whether     *)
(* there is one; the revision of a control as its place among the commands.*)
(***************************************************************************)
EXTENDS Naturals, Sequences, FiniteSets

CONSTANTS
  Hosts,        \* processes that serve
  Commands,     \* control calls: an identity and an operation
  MaxLosses     \* bound: hosts that die, are interrupted or exit while the checkpoint is busy

ASSUME ControlAssumption ==
  /\ \A c \in Commands : c.op \in {"PAUSE", "RESUME", "STOP"}
  /\ MaxLosses \in Nat /\ "none" \notin Hosts

VARIABLES
  doc,      \* the checkpoint
  active,   \* the subject is active
  serving,  \* the host that holds the owner lock
  host,     \* what each host is doing
  late,     \* stages of work done since the owner last paused or stopped
  losses    \* failures so far

vars == <<doc, active, serving, host, late, losses>>

-----------------------------------------------------------------------------
Out == [pc |-> "out", gen |-> 0, control |-> 0, state |-> "RUNNING", activity |-> "IDLE"]

Init ==
  /\ doc = [desired |-> "RUNNING", state |-> "START", activity |-> "IDLE", gen |-> 0,
            owned |-> FALSE, commands |-> <<>>, noted |-> {}]
  /\ active = TRUE
  /\ serving = "none"
  /\ host = [h \in Hosts |-> Out]
  /\ late = 0
  /\ losses = 0

At(h, pc) == host[h].pc = pc

Goes(h, pc) == host' = [host EXCEPT ![h].pc = pc]

\* To the observation it will record; an exception of the work is observed like a result.
Observing(h, state, activity) ==
  host' = [host EXCEPT ![h].pc = "observe", ![h].state = state, ![h].activity = activity]

Loses == losses < MaxLosses /\ losses' = losses + 1

-----------------------------------------------------------------------------
(* Control.                                                                *)

Recorded(c) == \E i \in 1..Len(doc.commands) : doc.commands[i].id = c.id

Desired(op) == CASE op = "PAUSE" -> "PAUSED" [] op = "RESUME" -> "RUNNING" [] op = "STOP" -> "STOPPED"

Shown(op) == CASE op = "PAUSE" -> "PAUSED" [] op = "RESUME" -> "RESUME" [] op = "STOP" -> "STOP"

Doing(op) == CASE op = "PAUSE" -> "PAUSED" [] op = "RESUME" -> "IDLE" [] op = "STOP" -> "STOPPED"

\* STOP is terminal; a command that is recorded, or another under its identity, is not new.
Accepts(c) == ~Recorded(c) /\ doc.desired # "STOPPED"

Control(c) ==
  /\ Accepts(c)
  /\ c.op = "RESUME" => active
  /\ doc' = [doc EXCEPT !.desired = Desired(c.op), !.state = Shown(c.op),
                        !.activity = Doing(c.op), !.commands = Append(@, c)]
  /\ late' = IF doc.desired = "RUNNING" THEN 0 ELSE late
  /\ UNCHANGED <<active, serving, host, losses>>

-----------------------------------------------------------------------------
(* Attachment.                                                             *)

\* Mutant: the host that did not take its leave is not noted.
NotedNever(d) == d.noted

\* A previous owner is noted as lost, whether or not it took its leave.
NotedAtAttach(d) == IF d.owned THEN d.noted \cup {d.gen} ELSE d.noted

\* running: a stopped checkpoint is left alone, and the first tick ends the host.
Attach(h) ==
  /\ At(h, "out") /\ serving = "none"
  /\ serving' = h
  /\ doc' = IF doc.desired = "STOPPED" THEN doc
            ELSE [doc EXCEPT !.owned = TRUE, !.gen = @ + 1, !.noted = NotedAtAttach(doc),
                             !.state = IF doc.owned THEN "RECOVER"
                                       ELSE IF doc.desired = "PAUSED" THEN "PAUSED" ELSE "START"]
  /\ host' = [host EXCEPT ![h].pc = "attached", ![h].gen = doc'.gen]
  /\ UNCHANGED <<active, late, losses>>

IsOwner(h) == doc.gen = host[h].gen

\* Mutant: a host ends only when another has taken its place.
EndedOwner(h) == ~IsOwner(h)

\* A tick returns False, or it or its observation raises: either way running is over.
Ended(h) == doc.desired = "STOPPED" \/ ~IsOwner(h)

Detached(h) ==
  /\ serving' = "none"
  /\ host' = [host EXCEPT ![h] = Out]
  /\ UNCHANGED <<active, late>>

\* The end of running: an owner's stop clears the owner, any other exit is a suspension.
Leave(h) ==
  /\ At(h, "leaving")
  /\ doc' = IF ~IsOwner(h) THEN doc
            ELSE IF doc.desired = "STOPPED" THEN [doc EXCEPT !.owned = FALSE]
            ELSE [doc EXCEPT !.state = "SUSPENDED", !.noted = @ \cup {doc.gen}]
  /\ Detached(h)
  /\ UNCHANGED losses

\* The checkpoint is busy: the old owner stays for the next attachment to note.
LeaveBusy(h) == At(h, "leaving") /\ Loses /\ Detached(h) /\ UNCHANGED doc

Die(h) == ~At(h, "out") /\ Loses /\ Detached(h) /\ UNCHANGED doc

Interrupt(h) ==
  /\ host[h].pc \notin {"out", "leaving"} /\ Loses
  /\ Goes(h, "leaving")
  /\ UNCHANGED <<doc, active, serving, late>>

-----------------------------------------------------------------------------
(* A tick.                                                                 *)

\* What the first reads of a tick find in the checkpoint, the subject and the clock.
TickFindings ==
  IF doc.desired = "PAUSED" THEN {<<"observe", "PAUSED", "PAUSED">>}
  ELSE IF ~active THEN {<<"observe", s, "PAUSED">> : s \in {"ARCHIVED", "SUSPENDED"}}
  ELSE {<<"guard", "RUNNING", "IDLE">>, <<"observe", "SUSPENDED", "CLOCK_WAIT">>}

Tick(h) ==
  /\ At(h, "attached")
  /\ IF Ended(h) THEN Goes(h, "leaving")
     ELSE \E next \in TickFindings :
            host' = [host EXCEPT ![h] = [pc |-> next[1], gen |-> @.gen, state |-> next[2],
                                         activity |-> next[3], control |-> Len(doc.commands)]]
  /\ UNCHANGED <<doc, active, serving, late, losses>>

\* Mutant: the guard asks for the owner only.
PermitsOwner(h) == IsOwner(h)

Permits(h) == IsOwner(h) /\ doc.desired = "RUNNING" /\ active

\* The guard of the next stage: go on, or observe that the work was deferred (the
\* clock may refuse it too).
Guard(h) ==
  /\ At(h, "guard")
  /\ \/ Permits(h) /\ Goes(h, "stage")
     \/ \E a \in {"BACKOFF", "WAITING_VERIFICATION"} : Observing(h, "RUNNING", a)
  /\ UNCHANGED <<doc, active, serving, late, losses>>

\* One stage of the work: the needs, the scheduler's tick, then what a dispatch does
\* from one of its guards to the next.
Stage(h) ==
  /\ At(h, "stage")
  /\ late' = IF doc.desired # "RUNNING" THEN late + 1 ELSE late
  /\ \/ Goes(h, "guard")
     \/ \E a \in {"IDLE", "COGNITION", "MAINTENANCE", "WAITING_RESOURCES",
                  "WAITING_VERIFICATION", "BACKOFF"} : Observing(h, "RUNNING", a)
  /\ UNCHANGED <<doc, active, serving, losses>>

\* Mutant: an observation does not look for controls committed since.
CurrentAlways(h) == TRUE

CurrentControl(h) == host[h].control = Len(doc.commands)

Observe(h) ==
  /\ At(h, "observe")
  /\ IF Ended(h) THEN Goes(h, "leaving") /\ UNCHANGED doc
     ELSE /\ Goes(h, "attached")
          /\ doc' = IF ~CurrentControl(h) THEN doc
                    ELSE IF doc.desired = "PAUSED" THEN [doc EXCEPT !.state = "PAUSED", !.activity = "PAUSED"]
                    ELSE [doc EXCEPT !.state = host[h].state, !.activity = host[h].activity]
  /\ UNCHANGED <<active, serving, late, losses>>

\* The checkpoint is busy: the observation is dropped and the host waits.
ObserveBusy(h) ==
  /\ At(h, "observe")
  /\ Goes(h, "attached")
  /\ UNCHANGED <<doc, active, serving, late, losses>>

-----------------------------------------------------------------------------
\* The life of the subject is another component's.
Lifecycle == active' = ~active /\ UNCHANGED <<doc, serving, host, late, losses>>

Serves(h) ==
  Attach(h) \/ Leave(h) \/ Tick(h) \/ Guard(h) \/ Stage(h) \/ Observe(h)

Next ==
  \/ \E c \in Commands : Control(c)
  \/ \E h \in Hosts : Serves(h) \/ LeaveBusy(h) \/ Die(h) \/ Interrupt(h) \/ ObserveBusy(h)
  \/ Lifecycle

Spec == Init /\ [][Next]_vars

\* serve ticks for ever and a tick is finite; the checkpoint is not always busy.  Nobody
\* need start a host, and no fault need happen.
Fairness ==
  \A h \in Hosts :
    /\ WF_vars(Leave(h)) /\ WF_vars(Tick(h)) /\ WF_vars(Guard(h)) /\ WF_vars(Stage(h))
    /\ SF_vars(Stage(h) /\ ~At(h, "guard")') /\ SF_vars(Observe(h))

FairSpec == Spec /\ Fairness

-----------------------------------------------------------------------------
(* Properties.                                                             *)

States == {"START", "RUNNING", "PAUSED", "SUSPENDED", "RESUME", "RECOVER", "STOP", "ARCHIVED"}

Activities == {"IDLE", "COGNITION", "MAINTENANCE", "WAITING_RESOURCES", "WAITING_VERIFICATION",
               "BACKOFF", "PAUSED", "STOPPED", "CLOCK_WAIT"}

\* The checkpoint passes the validation of every load (JsonRuntimeRepository.load): a STOP
\* is the last command, what is desired is what the last command asked for, a stopped
\* checkpoint shows it.  Otherwise no host and no owner could ever use it again.
Loadable ==
  /\ doc.desired \in {"RUNNING", "PAUSED", "STOPPED"}
  /\ doc.state \in States /\ doc.activity \in Activities
  /\ doc.desired = "STOPPED" => doc.state = "STOP"
  /\ \A i, j \in 1..Len(doc.commands) : i # j =>
       doc.commands[i].id # doc.commands[j].id
  /\ \A i \in 1..Len(doc.commands) :
       IF i = Len(doc.commands) THEN doc.desired = Desired(doc.commands[i].op)
       ELSE doc.commands[i].op # "STOP"
  /\ \A g \in doc.noted : g <= doc.gen

\* What the checkpoint shows is never what an earlier control asked for: an observation
\* that was under way when a control was committed does not overlay it (_observe).
ShownAsDesired ==
  /\ doc.desired = "RUNNING" => doc.state \notin {"PAUSED", "STOP"}
  /\ doc.desired = "PAUSED" => doc.state \in {"PAUSED", "SUSPENDED", "RECOVER"}

\* After a pause or a stop at most the stage already begun is done, by one host of all
\* (guard before every stage, lock of the owner).
AtMostOneLateStage == late <= 1

\* Every generation before the present one is noted as interrupted, however its host
\* ended (running; the program keeps the last 64 notes).
LossesAreNoted == \A g \in 1..doc.gen : g # doc.gen => g \in doc.noted

\* STOP is terminal: no command, observation or attachment changes anything but that the
\* last owner takes its leave (control, running, _observe).
StopIsTerminal ==
  [][doc.desired = "STOPPED" => doc' \in {doc, [doc EXCEPT !.owned = FALSE]}]_vars

\* A host that serves a stopped checkpoint ends, and one that serves a paused checkpoint
\* shows the pause, unless the owner or a fault intervenes (serve, tick).
ControlTakesEffect ==
  /\ doc.desired = "STOPPED" ~> serving = "none"
  /\ doc.desired = "PAUSED" /\ serving # "none" ~>
       doc.desired # "PAUSED" \/ doc.state = "PAUSED" \/ serving = "none"

=============================================================================
