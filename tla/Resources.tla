------------------------------ MODULE Resources ------------------------------
(***************************************************************************)
(* ResourceManager over JsonResourceRepository: the account of one subject *)
(* from which sessions are given tokens and compute before they run, and   *)
(* are charged for what they used after.  A client reads the history, then *)
(* the account, decides by ResourcePolicy, and saves under the lock of the *)
(* repository, where the identity is looked up again and the account must  *)
(* be of the revision the client read.  Every read and every save is a     *)
(* step; a client may be lost between any two.                             *)
(* Identities drawn at random (usage_id, decision_id) are places in their  *)
(* lists; ratios are compared by cross-multiplication.                     *)
(***************************************************************************)
EXTENDS Integers, Sequences, Functions

CONSTANTS
  Clients,        \* threads that ask for resources
  Requests,       \* what they may ask for
  TokenBudget, ComputeBudget,
  Reserve,        \* tokens protected by the reserve ratio
  DepthCost,      \* what thinking at a depth costs at most
  Actuals,        \* what a session may turn out to have used
  MaxRevision     \* bound: a mode is changed only below it

Depths == {"LOW", "NORMAL", "DEEP"}

Order(depth) == CASE depth = "LOW" -> 0 [] depth = "NORMAL" -> 1 [] depth = "DEEP" -> 2

Modes == {"LOW_FREQUENCY", "SCHEDULED", "CONTINUOUS", "DEEP_THINKING"}

\* Identities of requests and of sessions.
Names == {"none"} \cup {r.id : r \in Requests} \cup {r.session : r \in Requests}

\* A request for thinking has a depth, any other has none.
RequestType ==
  [id : Names, session : Names, depth : Depths \cup {"NONE"}, tokens : Nat, compute : Nat]

ASSUME ResourceAssumption ==
  /\ TokenBudget \in Nat /\ ComputeBudget \in Nat /\ Reserve \in 0..TokenBudget
  /\ DepthCost \in [Depths -> [tokens : Nat, compute : Nat]]
  /\ Actuals \subseteq Nat /\ MaxRevision \in Nat
  /\ \A r \in Requests : r \in RequestType

VARIABLES
  account,    \* ResourceState
  usage,      \* usage_records
  decisions,  \* the decisions on requests
  client      \* what each client is doing, with what it has read

vars == <<account, usage, decisions, client>>

-----------------------------------------------------------------------------
(* The records.                                                            *)

Accounts == [tokenUsed : Nat, computeUsed : Nat, mode : Modes, revision : Nat]

Unsettled == -1

Usages == [session : Names, tokens : Nat, compute : Nat, actual : Nat \cup {Unsettled}]

DecisionFields ==
  [request : Names, session : Names, allowed : BOOLEAN, depth : Depths \cup {"NONE"},
   tokens : Nat, compute : Nat, lower : BOOLEAN, advised : Modes]

\* A decision that does not allow gives nothing.
Decisions == {d \in DecisionFields : ~d.allowed => d.tokens = 0 /\ d.compute = 0}

Accounted(u) == IF u.actual = Unsettled THEN u.tokens ELSE u.actual

Positive(n) == IF n > 0 THEN n ELSE 0

TokenRemaining(a) == Positive(TokenBudget - a.tokenUsed)

ComputeRemaining(a) == Positive(ComputeBudget - a.computeUsed)

-----------------------------------------------------------------------------
(* ResourcePolicy.                                                         *)

\* A ratio of zero when nothing is budgeted.
AtMostTenths(remaining, budget, n) == budget = 0 \/ 10 * remaining <= n * budget

\* The scarcer of tokens and compute.
ScarceTo(a, n) ==
  \/ AtMostTenths(TokenRemaining(a), TokenBudget, n)
  \/ AtMostTenths(ComputeRemaining(a), ComputeBudget, n)

DepthCap(mode) ==
  CASE mode = "LOW_FREQUENCY" -> "LOW" [] mode = "DEEP_THINKING" -> "DEEP"
    [] mode \in {"SCHEDULED", "CONTINUOUS"} -> "NORMAL"

Shallower(left, right) == IF Order(left) <= Order(right) THEN left ELSE right

Fits(a, tokens, compute) ==
  tokens <= Positive(TokenRemaining(a) - Reserve) /\ compute <= ComputeRemaining(a)

Least(m, n) == IF m <= n THEN m ELSE n

Tokens(r, depth) == IF depth = "NONE" THEN r.tokens ELSE Least(r.tokens, DepthCost[depth].tokens)

Compute(r, depth) == IF depth = "NONE" THEN r.compute ELSE Least(r.compute, DepthCost[depth].compute)

\* Thinking is capped by the mode, and low when resources are scarce or the depth does not fit.
ApprovedDepth(a, r) ==
  LET capped == Shallower(r.depth, DepthCap(a.mode))
      spared == IF ScarceTo(a, 3) THEN "LOW" ELSE capped
  IN  IF r.depth = "NONE" THEN "NONE"
      ELSE IF Fits(a, Tokens(r, spared), Compute(r, spared)) THEN spared ELSE "LOW"

LowerFrequency(a) == ScarceTo(a, 4) \/ (a.mode = "CONTINUOUS" /\ ScarceTo(a, 6))

Evaluate(a, r) ==
  LET depth == ApprovedDepth(a, r)
      fits == Fits(a, Tokens(r, depth), Compute(r, depth))
      lower == ~fits \/ LowerFrequency(a)
  IN  [request |-> r.id, session |-> r.session, allowed |-> fits, depth |-> depth,
       tokens |-> IF fits THEN Tokens(r, depth) ELSE 0,
       compute |-> IF fits THEN Compute(r, depth) ELSE 0,
       lower |-> lower, advised |-> IF lower THEN "LOW_FREQUENCY" ELSE a.mode]

-----------------------------------------------------------------------------
(* The repository.                                                         *)

\* Mutant: only the identity of the request is looked up.
FreshRequestOnly(request, session) ==
  \A i \in 1..Len(decisions) : decisions[i].request # request

\* Neither the request was decided nor the session given anything before.
Fresh(request, session) ==
  /\ \A i \in 1..Len(decisions) : decisions[i].request # request
  /\ \A i \in 1..Len(usage) : usage[i].session # session

\* Mutant: the lock alone is trusted to keep what was read.
CurrentUnderLock(c) == TRUE

Current(c) == client[c].seen.revision = account.revision

Open(i) == i \in 1..Len(usage) /\ usage[i].actual = Unsettled

-----------------------------------------------------------------------------
NoDecision ==
  [request |-> "none", session |-> "none", allowed |-> FALSE, depth |-> "NONE", tokens |-> 0,
   compute |-> 0, lower |-> FALSE, advised |-> "LOW_FREQUENCY"]

NoRequest == [id |-> "none", session |-> "none", depth |-> "NONE", tokens |-> 0, compute |-> 0]

Start == [tokenUsed |-> 0, computeUsed |-> 0, mode |-> "LOW_FREQUENCY", revision |-> 0]

Rest ==
  [pc |-> "idle", request |-> NoRequest, seen |-> Start, decision |-> NoDecision,
   place |-> 0, actual |-> 0, mode |-> "LOW_FREQUENCY"]

\* create_resource_state, in any mode.
Init ==
  /\ account \in [tokenUsed : {0}, computeUsed : {0}, mode : Modes, revision : {0}]
  /\ usage = <<>>
  /\ decisions = <<>>
  /\ client = [c \in Clients |-> Rest]

At(c, pc) == client[c].pc = pc

Ends(c) == client' = [client EXCEPT ![c] = Rest]

\* request_resources looks up the history; the same request may be repeated.
Ask(c, r) ==
  /\ At(c, "idle")
  /\ Fresh(r.id, r.session)
  /\ client' = [client EXCEPT ![c].pc = "asked", ![c].request = r]
  /\ UNCHANGED <<account, usage, decisions>>

Assess(c) ==
  /\ At(c, "asked")
  /\ LET decision == Evaluate(account, client[c].request)
     IN  client' = [client EXCEPT ![c].pc = IF decision.allowed THEN "allocating" ELSE "deferring",
                                  ![c].seen = account, ![c].decision = decision]
  /\ UNCHANGED <<account, usage, decisions>>

\* The state that was read, charged, is saved with the usage and the decision.
Allocate(c) ==
  /\ At(c, "allocating")
  /\ LET d == client[c].decision
         a == client[c].seen
     IN  IF Fresh(d.request, d.session) /\ Current(c)
         THEN /\ account' = [a EXCEPT !.tokenUsed = @ + d.tokens, !.computeUsed = @ + d.compute,
                                      !.revision = @ + 1]
              /\ usage' = Append(usage, [session |-> d.session, tokens |-> d.tokens,
                                         compute |-> d.compute, actual |-> Unsettled])
              /\ decisions' = Append(decisions, d)
         ELSE UNCHANGED <<account, usage, decisions>>
  /\ Ends(c)

\* A deferral is saved whatever became of the account; its request is spent.
Defer(c) ==
  /\ At(c, "deferring")
  /\ LET d == client[c].decision
     IN  decisions' = IF Fresh(d.request, d.session) THEN Append(decisions, d) ELSE decisions
  /\ Ends(c)
  /\ UNCHANGED <<account, usage>>

\* record_actual_usage reads the account first, for the session of a usage.
BeginSettle(c, i, actual) ==
  /\ At(c, "idle")
  /\ Open(i)
  /\ client' = [client EXCEPT ![c].pc = "looking", ![c].seen = account, ![c].place = i,
                              ![c].actual = actual]
  /\ UNCHANGED <<account, usage, decisions>>

\* And then the usages, of which one must be the session's.
FindUsage(c) ==
  /\ At(c, "looking")
  /\ LET i == client[c].place
     IN  IF Open(i) /\ \A j \in 1..Len(usage) : usage[j].session = usage[i].session => j = i
           THEN client' = [client EXCEPT ![c].pc = "settling"]
           ELSE Ends(c)
  /\ UNCHANGED <<account, usage, decisions>>

Settle(c) ==
  /\ At(c, "settling")
  /\ LET i == client[c].place
         a == client[c].seen
     IN  IF Current(c) /\ Open(i)
         THEN /\ account' = [a EXCEPT !.tokenUsed = Positive(@ - usage[i].tokens + client[c].actual),
                                      !.revision = @ + 1]
              /\ usage' = [usage EXCEPT ![i].actual = client[c].actual]
         ELSE UNCHANGED <<account, usage>>
  /\ Ends(c)
  /\ UNCHANGED decisions

\* set_runtime_mode, to another mode.
BeginMode(c, mode) ==
  /\ At(c, "idle")
  /\ account.mode # mode /\ account.revision < MaxRevision
  /\ client' = [client EXCEPT ![c].pc = "moding", ![c].seen = account, ![c].mode = mode]
  /\ UNCHANGED <<account, usage, decisions>>

SetMode(c) ==
  /\ At(c, "moding")
  /\ account' = IF Current(c) THEN [client[c].seen EXCEPT !.mode = client[c].mode, !.revision = @ + 1]
                ELSE account
  /\ Ends(c)
  /\ UNCHANGED <<usage, decisions>>

\* The process is lost, or the save fails: nothing of the call remains.
Lost(c) == ~At(c, "idle") /\ Ends(c) /\ UNCHANGED <<account, usage, decisions>>

Next ==
  \E c \in Clients :
    \/ \E r \in Requests : Ask(c, r)
    \/ Assess(c) \/ Allocate(c) \/ Defer(c) \/ FindUsage(c) \/ Settle(c) \/ SetMode(c) \/ Lost(c)
    \/ \E i \in 1..Len(usage), actual \in Actuals : BeginSettle(c, i, actual)
    \/ \E mode \in Modes : BeginMode(c, mode)

Spec == Init /\ [][Next]_vars

-----------------------------------------------------------------------------
(* Properties.                                                             *)

\* What is persisted passes the validation of its records, and what is kept in memory too.
TypeOK ==
  /\ account \in Accounts
  /\ usage \in Seq(Usages)
  /\ decisions \in Seq(Decisions)
  /\ client \in
       [Clients ->
          [pc : {"idle", "asked", "allocating", "deferring", "looking", "settling", "moding"},
           request : RequestType, seen : Accounts, decision : Decisions, place : Nat,
           actual : Nat, mode : Modes]]

\* The account is what the usages add up to, whoever allocated and settled meanwhile: no
\* charge is lost and none is counted twice (save_allocation, reconcile_usage).
AccountsBalance ==
  /\ account.tokenUsed = SumFunction([i \in 1..Len(usage) |-> Accounted(usage[i])])
  /\ account.computeUsed = SumFunction([i \in 1..Len(usage) |-> usage[i].compute])

\* A request is decided once and a session is given resources once, by the decision it can
\* be traced to: a retry never allocates again (request_resources, _validate_request_identity).
AllocatedOnce ==
  /\ \A i, j \in 1..Len(decisions) : i # j => decisions[i].request # decisions[j].request
  /\ \A i, j \in 1..Len(usage) : i # j => usage[i].session # usage[j].session
  /\ \A i \in 1..Len(usage) : \E k \in 1..Len(decisions) :
       /\ decisions[k].allowed /\ decisions[k].session = usage[i].session
       /\ decisions[k].tokens = usage[i].tokens /\ decisions[k].compute = usage[i].compute

\* Whatever is committed is within the budget at its commit: tokens short of the reserve and
\* compute short of the budget, though the policy judged an earlier reading of the account.
ReserveIsKept ==
  [][Len(usage') > Len(usage) /\ usage'[Len(usage')].tokens > 0 =>
       /\ account'.tokenUsed <= TokenBudget - Reserve
       /\ account'.computeUsed <= ComputeBudget]_vars

\* Thinking goes no deeper than the mode in force at the commit allows (MODE_DEPTH_CAPS).
DepthFollowsMode ==
  [][\A i \in 1..Len(decisions') :
       i > Len(decisions) /\ decisions'[i].allowed /\ decisions'[i].depth # "NONE" =>
         Order(decisions'[i].depth) <= Order(DepthCap(account.mode))]_vars

\* What a session used is recorded once and never changed, and a usage is never withdrawn.
SettledOnce ==
  [][\A i \in 1..Len(usage) :
       /\ i <= Len(usage') /\ usage'[i].session = usage[i].session
       /\ usage[i].actual # Unsettled => usage'[i] = usage[i]]_vars
=============================================================================
