--------------------------- MODULE MCSubjectState ---------------------------
(* Small instances of SubjectState: the events and commands writers submit. *)
EXTENDS SubjectState

CONSTANTS e1, e2, c1, c2, c3, a, owner, other, subject

Ordinary(id, class, added, refs, at) ==
  [NoEvent EXCEPT !.id = id, !.class = class, !.items = added, !.refs = refs, !.at = at]

Apply(event, expected) == [kind |-> "apply", event |-> event, expected |-> expected]

Command(id, op, expected, principal, at) ==
  [kind |-> "command", expected |-> expected,
   event |-> [Ordinary(id, "STATE_CHANGE", {}, {}, at) EXCEPT !.op = op, !.expected = expected,
                             !.principal = principal]]

Creation ==
  [kind |-> "create", event |-> Ordinary(e1, "FACT", {}, {}, 0), expected |-> NoRevision]

\* The life of a subject that is created directly or by command: a direct save, a change of
\* which there is a conflicting body, an interaction, a correction of it at an expected
\* revision, and commands of the owner, of a stranger and of the subject.
SubjectRequests ==
  { Creation,
    [kind |-> "edit", event |-> Ordinary(e2, "STATE_CHANGE", {a}, {}, 0), expected |-> NoRevision],
    Apply(Ordinary(e1, "STATE_CHANGE", {a}, {}, 1), NoRevision),
    Apply([Ordinary(e1, "FACT", {}, {}, 0) EXCEPT !.met = 0], NoRevision),
    Apply(Ordinary(e2, "CORRECTION", {}, {e1}, 0), 1),
    Command(c1, "CREATE", 0, owner, 0),
    Command(c2, "SUSPEND", 0, owner, 0),
    Command(c2, "INTENT", 0, subject, 0),
    Command(c2, "DELETE", 1, owner, 0),
    Command(c3, "RESUME", 1, other, 0),
    Command(c3, "RESUME", 1, owner, 0),
    Command(c3, "ACTIVATE", 1, owner, 0) }
=============================================================================
