---------------------------- MODULE Contradictions ----------------------------
(***************************************************************************)
(* ContradictionDetectorService over JsonContradictionRepository: where    *)
(* the fragments of one context contradict each other, a case is opened,   *)
(* and later resolved, reopened or superseded on verified evidence.        *)
(* All cases of a subject are one document without a lock: a save reads    *)
(* it, compares, and replaces it as a whole, so that writers lose what the *)
(* others wrote between the two.  The evidence of every past decision is   *)
(* verified again whenever the document is read, and what was proven once  *)
(* need not be provable later.                                             *)
(* Abstracted: what is claimed (two claims agree or not), authority, kinds *)
(* and dispositions, and times.                                            *)
(***************************************************************************)
EXTENDS Naturals, Sequences, FiniteSets

CONSTANTS
  Clients,
  Snapshots,    \* contexts that were composed
  Material,     \* the claims of each
  Evidence,
  Basis,        \* of each evidence: corroboration, supersession or other
  Grounds       \* of each evidence: what it rests on, claims or other material

VARIABLES
  cases,        \* the document: the audit of each case
  proven,       \* evidence the verifier accepts at present
  client        \* the call of each client

cvars == <<cases, proven, client>>

-----------------------------------------------------------------------------
(* Detection.                                                              *)

\* A claim that replaces another version of its source does not contradict it.
Incompatible(c, d) ==
  /\ ~ (c.source = d.source /\ (c.fragment \in d.supersedes \/ d.fragment \in c.supersedes))
  /\ c.says # d.says

\* Ambivalence is no contradiction; what was said of different things is none either.
Disputed(s, topic) ==
  LET claims == {c \in Material[s] : c.topic = topic /\ ~ c.felt}
  IN  {c \in claims : \E d \in claims : Incompatible(c, d)}

\* Every replacement is of an earlier version of the same source, and they do not go in circles.
Trusted(claims) ==
  /\ \A c \in claims : \A f \in c.supersedes :
       \E d \in claims \ {c} : d.fragment = f /\ d.source = c.source
  /\ \A few \in SUBSET claims \ {{}} :
       \E c \in few : \A d \in few : d.fragment \notin c.supersedes

Sealed == {s \in Snapshots : Trusted({c \in Material[s] : ~ c.felt})}

Topics == UNION {{c.topic : c \in Material[s]} : s \in Snapshots}

\* A case is named by its snapshot and what its claims are about.
Cases == Snapshots \X Topics

Found(s) == {k \in {s} \X Topics : Disputed(s, k[2]) # {}}

-----------------------------------------------------------------------------
(* Cases.                                                                  *)

Audit(action, e) == [action |-> action, evidence |-> {e}, sources |-> Grounds[e]]

\* A case begins with its claims as what is known of it.
Detected(k) ==
  [action |-> "DETECTED", evidence |-> {},
   sources |-> {c.fragment : c \in Disputed(k[1], k[2])}]

\* What may follow what (_validate_transition).
Follows(last, action) ==
  \/ last \in {"DETECTED", "REOPENED"} /\ action = "RESOLVED"
  \/ last = "RESOLVED" /\ action = "REOPENED"
  \/ last \in {"RESOLVED", "REOPENED"} /\ action = "SUPERSEDED"

\* What an evidence may be used for.
Fits(action, e) ==
  /\ action = "REOPENED" => Basis[e] = "corroboration"
  /\ action = "SUPERSEDED" => Basis[e] = "supersession"

Known(history) == UNION {history[i].sources : i \in 1..Len(history)}

\* Mutant: only what the last decision rested on is no news.
NewSinceLast(history, action, e) ==
  action = "REOPENED" => ~ (Grounds[e] \subseteq history[Len(history)].sources)

\* A case is reopened on what was not all known to it.
New(history, action, e) == action = "REOPENED" => ~ (Grounds[e] \subseteq Known(history))

Legal(history, action, e) ==
  /\ history # <<>>
  /\ Follows(history[Len(history)].action, action)
  /\ Fits(action, e) /\ e \in proven
  /\ New(history, action, e)

\* Every decision in the document is verified again when it is read.
Readable == \A k \in Cases : \A i \in 1..Len(cases[k]) : cases[k][i].evidence \subseteq proven

-----------------------------------------------------------------------------
(* Calls.                                                                  *)

Idle == [pc |-> "idle", left |-> {}]

CInit ==
  /\ cases = [k \in Cases |-> <<>>]
  /\ proven = Evidence
  /\ client = [c \in Clients |-> Idle]

Becomes(c, call) == client' = [client EXCEPT ![c] = call]

\* To the write of the document that was read, with one audit more.
Writing(c, k, audit, left) ==
  Becomes(c, [pc |-> "write", left |-> left, draft |-> [cases EXCEPT ![k] = Append(@, audit)]])

Detect(c, s) ==
  /\ client[c] = Idle
  /\ s \in Sealed /\ Found(s) # {}
  /\ Becomes(c, [pc |-> "detect", left |-> Found(s)])
  /\ UNCHANGED <<cases, proven>>

\* The cases are saved one by one; one that is known is left as it is by now.
SaveDetected(c, k) ==
  /\ client[c].pc = "detect" /\ k \in client[c].left
  /\ Readable
  /\ LET left == client[c].left \ {k}
     IN  IF cases[k] = <<>> THEN Writing(c, k, Detected(k), left)
                            ELSE Becomes(c, [client[c] EXCEPT !.left = left])
  /\ UNCHANGED <<cases, proven>>

Detection(c) ==
  /\ client[c].pc = "detect" /\ client[c].left = {}
  /\ Becomes(c, Idle)
  /\ UNCHANGED <<cases, proven>>

\* resolve, reopen and supersede: the case is loaded and the evidence verified for it as it is.
Decide(c, k, action, e) ==
  /\ client[c] = Idle
  /\ Readable /\ Legal(cases[k], action, e)
  /\ Becomes(c, [pc |-> "append", left |-> {}, case |-> k, seen |-> cases[k], action |-> action, with |-> e])
  /\ UNCHANGED <<cases, proven>>

\* The evidence is bound to the case it was verified for.
Bound(call) == cases[call.case] = call.seen

\* Mutant: the decision was verified before, and is written.
AppendVerified(c) ==
  /\ client[c].pc = "append"
  /\ Readable
  /\ Writing(c, client[c].case, Audit(client[c].action, client[c].with), {})
  /\ UNCHANGED <<cases, proven>>

\* The document is read again; a case that went on meanwhile, or was lost, is a conflict.
AppendTransition(c) ==
  LET call == client[c]
  IN  /\ call.pc = "append"
      /\ Readable
      /\ IF Bound(call) /\ Legal(cases[call.case], call.action, call.with)
           THEN Writing(c, call.case, Audit(call.action, call.with), {})
           ELSE Becomes(c, Idle)
      /\ UNCHANGED <<cases, proven>>

Write(c) ==
  /\ client[c].pc = "write"
  /\ cases' = client[c].draft
  /\ Becomes(c, IF client[c].left = {} THEN Idle ELSE [pc |-> "detect", left |-> client[c].left])
  /\ UNCHANGED proven

\* An exception, a document that cannot be read, or the end of the process.
Raise(c) == client[c] # Idle /\ Becomes(c, Idle) /\ UNCHANGED <<cases, proven>>

\* A source is corrected, forgotten or found again.
Reconsider(e) ==
  /\ proven' = IF e \in proven THEN proven \ {e} ELSE proven \cup {e}
  /\ UNCHANGED <<cases, client>>

CNext ==
  \/ \E c \in Clients :
       \/ \E s \in Snapshots : Detect(c, s)
       \/ \E k \in Cases : SaveDetected(c, k)
       \/ \E k \in Cases, action \in {"RESOLVED", "REOPENED", "SUPERSEDED"}, e \in Evidence :
            Decide(c, k, action, e)
       \/ Detection(c) \/ AppendTransition(c) \/ Write(c) \/ Raise(c)
  \/ \E e \in Evidence : Reconsider(e)

-----------------------------------------------------------------------------
(* Properties.                                                             *)

\* Whatever the writers lose of each other, every case that is stored has a history that can be
\* read again: it was detected in its snapshot, and each decision is one that the one before it
\* allows (save_detected, append_transition, _records).
HistoriesAreLegal ==
  \A k \in Cases : cases[k] # <<>> =>
    /\ k \in Found(k[1]) /\ cases[k][1] = Detected(k)
    /\ \A i \in 2..Len(cases[k]) : Follows(cases[k][i - 1].action, cases[k][i].action)

\* A dispute is not kept open by repeating what is known of it: each reopening rests on a source
\* that is neither a claim of the case nor one that it was decided by before, also when several
\* of them are known (reopen, _validate_transition).
ReopenedOnNews ==
  \A k \in Cases : \A i \in 1..Len(cases[k]) :
    cases[k][i].action = "REOPENED" =>
      \E source \in cases[k][i].sources : source \notin Known(SubSeq(cases[k], 1, i - 1))
=============================================================================
