------------------------------ MODULE Exchange ------------------------------
(***************************************************************************)
(* What an interaction promises whoever sends it, whatever is sent again,  *)
(* lost or restarted on the way: a request is admitted at one revision of  *)
(* the subject, changes the subject at most once and only from that very   *)
(* revision, and is answered once, with the revisions the subject really   *)
(* had before and after it.  Nothing changes the subject for a request     *)
(* that was answered.                                                      *)
(***************************************************************************)
EXTENDS Naturals, Sequences, Functions

CONSTANTS Requests, Elsewhere

VARIABLES
  history,   \* who changed the subject, one entry for each revision
  admitted,  \* the revisions a request was admitted at: none or one
  answered   \* the answers a request was given: none or one

xvars == <<history, admitted, answered>>

XInit ==
  /\ history = << >>
  /\ admitted = [r \in Requests |-> {}]
  /\ answered = [r \in Requests |-> {}]

Changed(r) == r \in Range(history)

Admit(r) ==
  /\ admitted[r] = {}
  /\ admitted' = [admitted EXCEPT ![r] = {Len(history)}]
  /\ UNCHANGED <<history, answered>>

Change(r) ==
  /\ admitted[r] = {Len(history)} /\ ~ Changed(r) /\ answered[r] = {}
  /\ history' = Append(history, r)
  /\ UNCHANGED <<admitted, answered>>

Answer(r) ==
  /\ answered[r] = {}
  /\ \E before \in admitted[r] :
       /\ Len(history) = IF Changed(r) THEN before + 1 ELSE before
       /\ answered' = [answered EXCEPT ![r] = {[before |-> before, after |-> Len(history)]}]
  /\ UNCHANGED <<history, admitted>>

ChangedElsewhere ==
  /\ history' = Append(history, Elsewhere)
  /\ UNCHANGED <<admitted, answered>>

XNext == ChangedElsewhere \/ \E r \in Requests : Admit(r) \/ Change(r) \/ Answer(r)

XSpec == XInit /\ [][XNext]_xvars
=============================================================================
