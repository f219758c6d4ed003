--------------------- MODULE ResourcesGrowthContextProofs ----------------------
(***************************************************************************)
(* What Resources, Growth, Context and Contradictions keep, for any        *)
(* clients, budgets, experiences, sources, snapshots and bounds.           *)
(*                                                                         *)
(* Resources: a revision names one account.  What a client read is the     *)
(* account whenever the revisions agree at the save, so the decision it    *)
(* saves was taken on the account it changes, and what it adds to a usage  *)
(* it adds to the account.  A sum does not depend on the order in which it *)
(* is taken (by induction over the subsets of a finite set).               *)
(*                                                                         *)
(* Disputes: what a call is about to write is sound by itself, so it does  *)
(* not matter whose document it overwrites.                                *)
(*                                                                         *)
(* Growth: the lock of the submission leaves one thing at most to resolve  *)
(* of a learning.  A proposed trait finds none of its learning on record,  *)
(* and a withdrawal the trait it withdraws, until it is resolved, whoever  *)
(* does that.                                                              *)
(*                                                                         *)
(* Context: behind the place of the resolution, each reference is resolved *)
(* or may be missing.  A version only grows: what was read before the      *)
(* resolution began and is resolved after did not change in between.       *)
(***************************************************************************)
EXTENDS ResourcesGrowthContext, FiniteSetTheorems, SequenceTheorems, WellFoundedInduction, TLAPS

-----------------------------------------------------------------------------
(* The composition.                                                        *)

\* Beside the others, Resources takes only the steps it takes alone: what is proved of it holds
\* here.
LEMMA ResourcesBesideOthers == SSpec => Spec
<1>1. SInit => Init
  BY DEF SInit
<1>2. [SNext]_<<focus, vars, gvars, cvars, dvars>> => [Next]_vars
  BY DEF SNext, Spend, Grow, Think, Dispute
<1> QED
  BY <1>1, <1>2, PTL DEF SSpec, Spec

-----------------------------------------------------------------------------
(* Resources.                                                              *)

PCs == {"idle", "asked", "allocating", "deferring", "looking", "settling", "moding"}

Calls ==
  [pc : PCs, request : RequestType, seen : Accounts, decision : Decisions, place : Nat,
   actual : Nat, mode : Modes]

\* A revision is never used for two accounts.
SeenIsCurrent ==
  \A c \in Clients :
    ~At(c, "idle") /\ ~At(c, "asked") =>
      /\ client[c].seen.revision <= account.revision
      /\ Current(c) => client[c].seen = account

\* What a client is about to allocate fits the account it read, and its mode.
Fitting(a, d) ==
  /\ d.allowed /\ Fits(a, d.tokens, d.compute)
  /\ d.depth # "NONE" => Order(d.depth) <= Order(DepthCap(a.mode))

Judged ==
  \A c \in Clients :
    /\ At(c, "allocating") => Fitting(client[c].seen, client[c].decision)
    /\ At(c, "deferring") => ~client[c].decision.allowed

ComputeIsKept == account.computeUsed <= ComputeBudget

IInv == TypeOK /\ SeenIsCurrent /\ Judged /\ ComputeIsKept /\ AllocatedOnce

-----------------------------------------------------------------------------
\* The policy: its decisions are well formed, and what it allows fits and is not too deep.
LEMMA DepthApproved ==
  ASSUME NEW a \in Accounts, NEW r \in RequestType
  PROVE  /\ ApprovedDepth(a, r) \in Depths \cup {"NONE"}
         /\ ApprovedDepth(a, r) # "NONE" => Order(ApprovedDepth(a, r)) <= Order(DepthCap(a.mode))
<1>1. a.mode \in Modes /\ r.depth \in Depths \cup {"NONE"} BY DEF Accounts, RequestType
<1>2. DepthCap(a.mode) \in Depths /\ Order("LOW") <= Order(DepthCap(a.mode))
  BY <1>1 DEF DepthCap, Depths, Modes, Order
<1>3. ASSUME r.depth \in Depths
      PROVE  /\ Shallower(r.depth, DepthCap(a.mode)) \in Depths
             /\ Order(Shallower(r.depth, DepthCap(a.mode))) <= Order(DepthCap(a.mode))
  BY <1>2, <1>3 DEF Shallower, Depths, Order
<1>4. "LOW" \in Depths BY DEF Depths
<1>5. CASE r.depth = "NONE" BY <1>5 DEF ApprovedDepth
<1>6. CASE r.depth \in Depths
  <2> DEFINE capped == Shallower(r.depth, DepthCap(a.mode))
  <2>1. r.depth # "NONE" BY <1>6 DEF Depths
  <2>2. ApprovedDepth(a, r) \in {"LOW", capped} BY <2>1 DEF ApprovedDepth
  <2> QED BY <1>2, <1>3, <1>4, <1>6, <2>2
<1> QED BY <1>1, <1>5, <1>6

LEMMA CostIsNatural ==
  ASSUME NEW r \in RequestType, NEW depth \in Depths \cup {"NONE"}
  PROVE  Tokens(r, depth) \in Nat /\ Compute(r, depth) \in Nat
<1>1. r.tokens \in Nat /\ r.compute \in Nat BY DEF RequestType
<1>2. depth # "NONE" => DepthCost[depth].tokens \in Nat /\ DepthCost[depth].compute \in Nat
  BY ResourceAssumption
<1> QED BY <1>1, <1>2 DEF Tokens, Compute, Least

\* Records of the right fields.
LEMMA DecisionMade ==
  ASSUME NEW request \in Names, NEW session \in Names, NEW allowed \in BOOLEAN,
         NEW depth \in Depths \cup {"NONE"}, NEW tokens \in Nat, NEW compute \in Nat,
         NEW lower \in BOOLEAN, NEW advised \in Modes,
         ~allowed => tokens = 0 /\ compute = 0
  PROVE  [request |-> request, session |-> session, allowed |-> allowed, depth |-> depth,
          tokens |-> tokens, compute |-> compute, lower |-> lower, advised |-> advised] \in Decisions
<1> DEFINE d == [request |-> request, session |-> session, allowed |-> allowed, depth |-> depth,
                 tokens |-> tokens, compute |-> compute, lower |-> lower, advised |-> advised]
<1>1. d \in DecisionFields BY Zenon DEF DecisionFields
<1>2. ~d.allowed => d.tokens = 0 /\ d.compute = 0 BY Zenon
<1> QED BY <1>1, <1>2 DEF Decisions

LEMMA PolicySound ==
  ASSUME NEW a \in Accounts, NEW r \in RequestType
  PROVE  /\ Evaluate(a, r) \in Decisions
         /\ Evaluate(a, r).allowed => Fitting(a, Evaluate(a, r))
         /\ Evaluate(a, r).request = r.id /\ Evaluate(a, r).session = r.session
<1> DEFINE depth == ApprovedDepth(a, r)
           fits == Fits(a, Tokens(r, depth), Compute(r, depth))
           lower == ~fits \/ LowerFrequency(a)
           tokens == IF fits THEN Tokens(r, depth) ELSE 0
           compute == IF fits THEN Compute(r, depth) ELSE 0
           advised == IF lower THEN "LOW_FREQUENCY" ELSE a.mode
           d == [request |-> r.id, session |-> r.session, allowed |-> fits, depth |-> depth,
                 tokens |-> tokens, compute |-> compute, lower |-> lower, advised |-> advised]
<1>1. depth \in Depths \cup {"NONE"} BY DepthApproved
<1>2. Tokens(r, depth) \in Nat /\ Compute(r, depth) \in Nat BY <1>1, CostIsNatural
<1>3. r.id \in Names /\ r.session \in Names BY DEF RequestType
<1>4. a.mode \in Modes /\ "LOW_FREQUENCY" \in Modes BY DEF Accounts, Modes
<1>5. fits \in BOOLEAN /\ lower \in BOOLEAN BY DEF Fits
<1>6. tokens \in Nat /\ compute \in Nat /\ advised \in Modes BY <1>2, <1>4
<1>7. ~fits => tokens = 0 /\ compute = 0 OBVIOUS
<1>8. Evaluate(a, r) = d BY DEF Evaluate
<1>9. depth # "NONE" => Order(depth) <= Order(DepthCap(a.mode)) BY DepthApproved
<1>10. fits => Fits(a, tokens, compute) OBVIOUS
<1> HIDE DEF depth, fits, lower, tokens, compute, advised
<1>11. d \in Decisions BY <1>1, <1>3, <1>5, <1>6, <1>7, DecisionMade
<1>12. d.allowed => Fitting(a, d)
  <2>1. d.allowed = fits /\ d.depth = depth /\ d.tokens = tokens /\ d.compute = compute BY Zenon
  <2> HIDE DEF d
  <2> QED BY <1>9, <1>10, <2>1 DEF Fitting
<1>13. d.request = r.id /\ d.session = r.session OBVIOUS
<1> HIDE DEF d
<1> QED BY <1>8, <1>11, <1>12, <1>13

-----------------------------------------------------------------------------
LEMMA Typed == TypeOK <=> /\ account \in Accounts /\ usage \in Seq(Usages)
                         /\ decisions \in Seq(Decisions) /\ client \in [Clients -> Calls]
  BY DEF TypeOK, Calls, PCs

LEMMA RestIsACall == Rest \in Calls /\ Rest.pc = "idle"
<1>1. NoRequest \in RequestType BY DEF NoRequest, RequestType, Names
<1>2. Start \in Accounts BY DEF Start, Accounts, Modes
<1>3. NoDecision \in Decisions
  <2>1. "NONE" \in Depths \cup {"NONE"} /\ "LOW_FREQUENCY" \in Modes /\ 0 \in Nat
      /\ "none" \in Names BY DEF Modes, Names
  <2> QED BY <2>1, DecisionMade DEF NoDecision
<1> QED BY <1>1, <1>2, <1>3 DEF Rest, Calls, PCs, Modes

LEMMA InitSound == Init => IInv
<1> SUFFICES ASSUME Init PROVE IInv OBVIOUS
<1>1. account \in Accounts /\ account.computeUsed = 0 BY DEF Init, Accounts
<1>2. TypeOK BY <1>1, RestIsACall, Typed DEF Init
<1>3. SeenIsCurrent /\ Judged BY RestIsACall DEF Init, SeenIsCurrent, Judged, At
<1>4. ComputeIsKept BY <1>1, ResourceAssumption DEF ComputeIsKept
<1>5. AllocatedOnce BY DEF Init, AllocatedOnce
<1> QED BY <1>2, <1>3, <1>4, <1>5 DEF IInv

\* A step of one client that leaves the account alone keeps what the others have read; of
\* that client it asks what it has read, and what it makes of it.
LEMMA OwnStepSound ==
  ASSUME IInv, NEW c \in Clients, NEW next \in Calls, client' = [client EXCEPT ![c] = next],
         next.pc \notin {"idle", "asked"} => next.seen = account,
         next.pc = "allocating" => Fitting(next.seen, next.decision),
         next.pc = "deferring" => ~next.decision.allowed,
         UNCHANGED <<account, usage, decisions>>
  PROVE  IInv'
<1> USE DEF At, Current
<1>1. /\ client \in [Clients -> Calls] /\ client'[c] = next
      /\ \A b \in Clients \ {c} : client'[b] = client[b] BY Typed DEF IInv
<1>2. TypeOK' BY <1>1, Typed DEF IInv, TypeOK, Calls, PCs
<1>3. account.revision \in Nat BY DEF IInv, TypeOK, Accounts
<1>4. SeenIsCurrent' BY <1>1, <1>3 DEF IInv, SeenIsCurrent
<1>5. Judged' BY <1>1 DEF IInv, Judged
<1>6. ComputeIsKept' /\ AllocatedOnce' BY DEF IInv, ComputeIsKept, AllocatedOnce
<1> QED BY <1>2, <1>4, <1>5, <1>6 DEF IInv

\* A save of the next revision overtakes what every other client has read.
LEMMA CommitSound ==
  ASSUME IInv, NEW c \in Clients, Ends(c), account' \in Accounts,
         account'.revision = account.revision + 1
  PROVE  SeenIsCurrent' /\ Judged' /\ client' \in [Clients -> Calls]
<1> USE DEF At, Current
<1>1. /\ client \in [Clients -> Calls] /\ client'[c] = Rest /\ client' \in [Clients -> Calls]
      /\ \A b \in Clients \ {c} : client'[b] = client[b] BY Typed, RestIsACall DEF IInv, Ends
<1>2. \A b \in Clients : client[b].seen.revision \in Nat BY <1>1 DEF Calls, Accounts
<1>3. account.revision \in Nat BY DEF IInv, TypeOK, Accounts
<1>4. SeenIsCurrent' BY <1>1, <1>2, <1>3, RestIsACall DEF IInv, SeenIsCurrent
<1>5. Judged' BY <1>1, RestIsACall DEF IInv, Judged
<1> QED BY <1>1, <1>4, <1>5

-----------------------------------------------------------------------------
LEMMA RestSound ==
  ASSUME IInv, NEW c \in Clients, Ends(c), UNCHANGED <<account, usage, decisions>> PROVE IInv'
  BY RestIsACall, OwnStepSound DEF Ends

LEMMA AskSound == ASSUME IInv, NEW c \in Clients, NEW r \in Requests, Ask(c, r) PROVE IInv'
<1> DEFINE next == [client[c] EXCEPT !.pc = "asked", !.request = r]
<1>1. client \in [Clients -> Calls] /\ r \in RequestType BY Typed, ResourceAssumption DEF IInv
<1>2. next \in Calls /\ next.pc = "asked" BY <1>1 DEF Calls, PCs
<1>3. client' = [client EXCEPT ![c] = next] BY <1>1 DEF Ask
<1> HIDE DEF next
<1> QED BY <1>2, <1>3, OwnStepSound DEF Ask

LEMMA AssessSound == ASSUME IInv, NEW c \in Clients, Assess(c) PROVE IInv'
<1> DEFINE d == Evaluate(account, client[c].request)
           next == [client[c] EXCEPT !.pc = IF d.allowed THEN "allocating" ELSE "deferring",
                                     !.seen = account, !.decision = d]
<1>1. client \in [Clients -> Calls] /\ account \in Accounts BY Typed DEF IInv
<1>2. client[c].request \in RequestType BY <1>1 DEF Calls
<1>3. d \in Decisions /\ (d.allowed => Fitting(account, d)) BY <1>1, <1>2, PolicySound
<1>4. client' = [client EXCEPT ![c] = next] BY <1>1 DEF Assess
<1> HIDE DEF d
<1>5. /\ next \in Calls /\ next.seen = account /\ next.decision = d
      /\ next.pc = IF d.allowed THEN "allocating" ELSE "deferring"
  BY <1>1, <1>3 DEF Calls, PCs
<1> HIDE DEF next
<1> QED BY <1>3, <1>4, <1>5, OwnStepSound DEF Assess

LEMMA BeginSettleSound ==
  ASSUME IInv, NEW c \in Clients, NEW i \in 1..Len(usage), NEW actual \in Actuals,
         BeginSettle(c, i, actual)
  PROVE  IInv'
<1> DEFINE next == [client[c] EXCEPT !.pc = "looking", !.seen = account, !.place = i,
                                     !.actual = actual]
<1>1. client \in [Clients -> Calls] /\ account \in Accounts /\ actual \in Nat /\ i \in Nat
  BY Typed, ResourceAssumption DEF IInv, TypeOK
<1>2. next \in Calls /\ next.pc = "looking" /\ next.seen = account BY <1>1 DEF Calls, PCs
<1>3. client' = [client EXCEPT ![c] = next] BY <1>1 DEF BeginSettle
<1> HIDE DEF next
<1> QED BY <1>2, <1>3, OwnStepSound DEF BeginSettle

\* What was read of the account is kept.
LEMMA FindUsageSound == ASSUME IInv, NEW c \in Clients, FindUsage(c) PROVE IInv'
<1> DEFINE next == [client[c] EXCEPT !.pc = "settling"]
<1>1. client \in [Clients -> Calls] BY Typed DEF IInv
<1>2. next \in Calls /\ next.pc = "settling" /\ next.seen = client[c].seen BY <1>1 DEF Calls, PCs
<1>3. UNCHANGED <<account, usage, decisions>> BY DEF FindUsage
<1>4. CASE Ends(c) BY <1>3, <1>4, RestSound
<1>5. CASE client' = [client EXCEPT ![c].pc = "settling"]
  <2>1. client' = [client EXCEPT ![c] = next] BY <1>1, <1>5
  <2>2. At(c, "looking") BY DEF FindUsage
  <2> HIDE DEF next
  <2>3. next \in Calls /\ /\ client'[c] = next
        /\ \A b \in Clients \ {c} : client'[b] = client[b]
        /\ client' \in [Clients -> Calls]
    BY <1>1, <1>2, <2>1
  <2>4. SeenIsCurrent' BY <1>2, <1>3, <2>2, <2>3 DEF IInv, SeenIsCurrent, At, Current
  <2>5. Judged' BY <1>2, <1>3, <2>3 DEF IInv, Judged, At
  <2>6. ComputeIsKept' /\ AllocatedOnce'
    <3>1. ComputeIsKept /\ AllocatedOnce /\ account' = account /\ usage' = usage
          /\ decisions' = decisions
      BY <1>3 DEF IInv
    <3>2. AllocatedOnce' BY <3>1 DEF AllocatedOnce
    <3>3. ComputeIsKept' BY <3>1 DEF ComputeIsKept
    <3> QED BY <3>2, <3>3
  <2>7. TypeOK' BY <1>1, <1>2, <1>3, <2>1, <2>3, Typed DEF IInv, TypeOK, Calls, PCs
  <2> QED BY <2>4, <2>5, <2>6, <2>7 DEF IInv
<1> QED BY <1>4, <1>5 DEF FindUsage

LEMMA BeginModeSound ==
  ASSUME IInv, NEW c \in Clients, NEW mode \in Modes, BeginMode(c, mode) PROVE IInv'
<1> DEFINE next == [client[c] EXCEPT !.pc = "moding", !.seen = account, !.mode = mode]
<1>1. client \in [Clients -> Calls] /\ account \in Accounts BY Typed DEF IInv
<1>2. next \in Calls /\ next.pc = "moding" /\ next.seen = account BY <1>1 DEF Calls, PCs
<1>3. client' = [client EXCEPT ![c] = next] BY <1>1 DEF BeginMode
<1> HIDE DEF next
<1> QED BY <1>2, <1>3, OwnStepSound DEF BeginMode

-----------------------------------------------------------------------------
\* What a decision that fits leaves of the budget.
LEMMA FitLeaves ==
  ASSUME NEW a \in Accounts, NEW tokens \in Nat, NEW compute \in Nat, Fits(a, tokens, compute),
         a.computeUsed <= ComputeBudget
  PROVE  /\ a.computeUsed + compute <= ComputeBudget
         /\ tokens > 0 => a.tokenUsed + tokens <= TokenBudget - Reserve
  BY ResourceAssumption DEF Fits, TokenRemaining, ComputeRemaining, Positive, Accounts

\* An allocation that is committed charges the account the decision was taken on.
LEMMA Allocated ==
  ASSUME IInv, NEW c \in Clients, Allocate(c), ~UNCHANGED <<account, usage, decisions>>
  PROVE  LET d == client[c].decision
             u == [session |-> d.session, tokens |-> d.tokens, compute |-> d.compute,
                   actual |-> Unsettled]
         IN  /\ d \in Decisions /\ u \in Usages /\ Fitting(account, d) /\ Fresh(d.request, d.session)
             /\ account' \in Accounts /\ account'.revision = account.revision + 1
             /\ account'.tokenUsed = account.tokenUsed + d.tokens
             /\ account'.computeUsed = account.computeUsed + d.compute
             /\ usage' = Append(usage, u) /\ decisions' = Append(decisions, d)
<1> DEFINE d == client[c].decision
           u == [session |-> d.session, tokens |-> d.tokens, compute |-> d.compute,
                 actual |-> Unsettled]
<1>1. /\ d \in Decisions /\ account \in Accounts BY Typed DEF IInv, Calls
<1>2. d.session \in Names /\ d.tokens \in Nat /\ d.compute \in Nat
  BY <1>1 DEF Decisions, DecisionFields
<1>3. u \in Usages BY <1>2 DEF Usages
<1>4. Fresh(d.request, d.session) /\ Current(c) BY DEF Allocate
<1>5. client[c].seen = account /\ Fitting(account, d)
  BY <1>4 DEF IInv, SeenIsCurrent, Judged, Allocate, At
<1>6. /\ account' = [account EXCEPT !.tokenUsed = @ + d.tokens, !.computeUsed = @ + d.compute,
                                     !.revision = @ + 1]
      /\ usage' = Append(usage, u) /\ decisions' = Append(decisions, d)
  BY <1>4, <1>5 DEF Allocate
<1>7. /\ account' \in Accounts /\ account'.revision = account.revision + 1
      /\ account'.tokenUsed = account.tokenUsed + d.tokens
      /\ account'.computeUsed = account.computeUsed + d.compute
  <2> HIDE DEF d, u
  <2>1. account' = [account EXCEPT !.tokenUsed = @ + d.tokens, !.computeUsed = @ + d.compute,
                                   !.revision = @ + 1]
    BY <1>6
  <2>2. /\ account.tokenUsed + d.tokens \in Nat /\ account.computeUsed + d.compute \in Nat
        /\ account.revision + 1 \in Nat
    BY <1>1, <1>2 DEF Accounts
  <2>3. account' = [tokenUsed |-> account.tokenUsed + d.tokens, mode |-> account.mode,
                    computeUsed |-> account.computeUsed + d.compute, revision |-> account.revision + 1]
    BY <1>1, <2>1 DEF Accounts
  <2>4. account.mode \in Modes BY <1>1 DEF Accounts
  <2> QED BY <2>2, <2>3, <2>4 DEF Accounts
<1> QED BY <1>1, <1>3, <1>4, <1>5, <1>6, <1>7

\* A new decision, and a usage for each that allows, keep the history free of repetitions.
LEMMA HistoryGrows ==
  ASSUME IInv, NEW d \in Decisions, Fresh(d.request, d.session), decisions' = Append(decisions, d),
         \/ UNCHANGED usage
         \/ d.allowed /\ usage' = Append(usage, [session |-> d.session, tokens |-> d.tokens,
                                                 compute |-> d.compute, actual |-> Unsettled])
  PROVE  AllocatedOnce'
<1> DEFINE u == [session |-> d.session, tokens |-> d.tokens, compute |-> d.compute,
                 actual |-> Unsettled]
<1>1. usage \in Seq(Usages) /\ decisions \in Seq(Decisions) BY DEF IInv, TypeOK
<1>2. d.session \in Names /\ d.tokens \in Nat /\ d.compute \in Nat
  BY DEF Decisions, DecisionFields
<1>3. u \in Usages /\ u.session = d.session /\ u.tokens = d.tokens /\ u.compute = d.compute
  BY <1>2 DEF Usages
<1> HIDE DEF u
<1>4. /\ Len(decisions') = Len(decisions) + 1 /\ decisions'[Len(decisions) + 1] = d
      /\ \A k \in 1..Len(decisions) : decisions'[k] = decisions[k]
  BY <1>1
<1>5. \A i, j \in 1..Len(decisions') : i # j => decisions'[i].request # decisions'[j].request
  BY <1>1, <1>4 DEF IInv, AllocatedOnce, Fresh
<1>6. CASE UNCHANGED usage
  BY <1>1, <1>4, <1>5, <1>6 DEF IInv, AllocatedOnce
<1>7. CASE d.allowed /\ usage' = Append(usage, u)
  <2>1. /\ Len(usage') = Len(usage) + 1 /\ usage'[Len(usage) + 1] = u
        /\ \A i \in 1..Len(usage) : usage'[i] = usage[i]
    BY <1>1, <1>3, <1>7
  <2>2. \A i, j \in 1..Len(usage') : i # j => usage'[i].session # usage'[j].session
    <3>1. \A i \in 1..Len(usage) : usage'[i].session # u.session
      BY <1>3, <2>1 DEF Fresh
    <3>2. \A i, j \in 1..Len(usage) : i # j => usage'[i].session # usage'[j].session
      BY <2>1 DEF IInv, AllocatedOnce
    <3>3. \A i \in 1..Len(usage') : i \in 1..Len(usage) \/ i = Len(usage) + 1
      BY <1>1, <2>1
    <3> QED BY <2>1, <3>1, <3>2, <3>3
  <2>3. ASSUME NEW i \in 1..Len(usage')
        PROVE  \E k \in 1..Len(decisions') :
                 /\ decisions'[k].allowed /\ decisions'[k].session = usage'[i].session
                 /\ decisions'[k].tokens = usage'[i].tokens /\ decisions'[k].compute = usage'[i].compute
    <3>1. CASE i = Len(usage) + 1
      <4>1. Len(decisions) + 1 \in 1..Len(decisions') BY <1>1, <1>4
      <4>2. usage'[i] = u /\ decisions'[Len(decisions) + 1] = d BY <1>4, <2>1, <3>1
      <4> QED BY <1>3, <1>7, <4>1, <4>2
    <3>2. CASE i \in 1..Len(usage)
      <4>1. PICK k \in 1..Len(decisions) :
              /\ decisions[k].allowed /\ decisions[k].session = usage[i].session
              /\ decisions[k].tokens = usage[i].tokens /\ decisions[k].compute = usage[i].compute
        BY <3>2 DEF IInv, AllocatedOnce
      <4>2. k \in 1..Len(decisions') BY <1>1, <1>4
      <4> QED BY <1>4, <2>1, <3>2, <4>1, <4>2
    <3>3. i \in 1..Len(usage) \/ i = Len(usage) + 1
      <4>1. Len(usage) \in Nat BY <1>1
      <4> QED BY <2>1, <4>1
    <3> QED BY <3>1, <3>2, <3>3
  <2> QED BY <1>5, <2>2, <2>3 DEF AllocatedOnce
<1> QED BY <1>6, <1>7 DEF u

LEMMA AllocateSound == ASSUME IInv, NEW c \in Clients, Allocate(c) PROVE IInv'
<1>1. CASE UNCHANGED <<account, usage, decisions>> BY <1>1, RestSound DEF Allocate
<1>2. CASE ~UNCHANGED <<account, usage, decisions>>
  <2> DEFINE d == client[c].decision
             u == [session |-> d.session, tokens |-> d.tokens, compute |-> d.compute,
                   actual |-> Unsettled]
  <2>1. /\ d \in Decisions /\ u \in Usages /\ Fitting(account, d) /\ Fresh(d.request, d.session)
        /\ account' \in Accounts /\ account'.revision = account.revision + 1
        /\ account'.computeUsed = account.computeUsed + d.compute
        /\ usage' = Append(usage, u) /\ decisions' = Append(decisions, d)
    BY <1>2, Allocated
  <2>2. SeenIsCurrent' /\ Judged' /\ client' \in [Clients -> Calls]
    BY <2>1, CommitSound DEF Allocate
  <2>3. AllocatedOnce' BY <2>1, HistoryGrows DEF Fitting
  <2>4. ComputeIsKept'
    <3>1. d.tokens \in Nat /\ d.compute \in Nat BY <2>1 DEF Decisions, DecisionFields
    <3>2. account.computeUsed + d.compute <= ComputeBudget
      BY <2>1, <3>1, FitLeaves DEF Fitting, IInv, TypeOK, ComputeIsKept
    <3> QED BY <2>1, <3>2 DEF ComputeIsKept
  <2> HIDE DEF u
  <2>5. TypeOK' BY <2>1, <2>2 DEF IInv, TypeOK, Calls, PCs
  <2> QED BY <2>2, <2>3, <2>4, <2>5 DEF IInv
<1> QED BY <1>1, <1>2

LEMMA DeferSound == ASSUME IInv, NEW c \in Clients, Defer(c) PROVE IInv'
<1> DEFINE d == client[c].decision
<1>1. CASE UNCHANGED decisions BY <1>1, RestSound DEF Defer
<1>2. CASE Fresh(d.request, d.session) /\ decisions' = Append(decisions, d)
  <2>1. /\ d \in Decisions /\ client' = [client EXCEPT ![c] = Rest]
        /\ client \in [Clients -> Calls] /\ UNCHANGED <<account, usage>>
    BY Typed DEF IInv, Calls, Defer, Ends
  <2>2. AllocatedOnce' BY <1>2, <2>1, HistoryGrows
  <2>3. client' \in [Clients -> Calls] /\ client'[c] = Rest
        /\ \A b \in Clients \ {c} : client'[b] = client[b]
    BY <2>1, RestIsACall
  <2>4. SeenIsCurrent' /\ Judged' /\ ComputeIsKept'
    BY <2>1, <2>3, RestIsACall DEF IInv, SeenIsCurrent, Judged, ComputeIsKept, At, Current
  <2>5. TypeOK' BY <1>2, <2>1, <2>3 DEF IInv, TypeOK, Calls, PCs
  <2> QED BY <2>2, <2>4, <2>5 DEF IInv
<1> QED BY <1>1, <1>2 DEF Defer

\* A settlement changes one open usage, and nothing of it but what it used.
LEMMA Settled ==
  ASSUME IInv, NEW c \in Clients, Settle(c), ~UNCHANGED <<account, usage>>
  PROVE  LET i == client[c].place
         IN  /\ Open(i) /\ client[c].actual \in Nat
             /\ account' = [account EXCEPT !.tokenUsed = Positive(@ - usage[i].tokens + client[c].actual),
                                           !.revision = @ + 1]
             /\ usage' = [usage EXCEPT ![i].actual = client[c].actual]
<1>1. Open(client[c].place) /\ Current(c) /\ client[c].pc = "settling" BY DEF Settle, At
<1>2. client[c].seen = account BY <1>1 DEF IInv, SeenIsCurrent, At
<1>3. client[c].actual \in Nat BY Typed DEF IInv, Calls
<1> QED BY <1>1, <1>2, <1>3 DEF Settle

\* What the next revision of the account looks like, and how the usages stay the same.
LEMMA SettledParts ==
  ASSUME IInv, NEW c \in Clients, Settle(c), ~UNCHANGED <<account, usage>>
  PROVE  /\ account' \in Accounts /\ account'.revision = account.revision + 1
         /\ account'.computeUsed = account.computeUsed
         /\ usage' \in Seq(Usages) /\ Len(usage') = Len(usage)
         /\ \A i \in 1..Len(usage) :
              /\ usage'[i].session = usage[i].session /\ usage'[i].tokens = usage[i].tokens
              /\ usage'[i].compute = usage[i].compute
              /\ usage[i].actual # Unsettled => usage'[i] = usage[i]
<1> DEFINE k == client[c].place
           n == client[c].actual
<1>1. /\ Open(k) /\ n \in Nat
      /\ account' = [account EXCEPT !.tokenUsed = Positive(@ - usage[k].tokens + n), !.revision = @ + 1]
      /\ usage' = [usage EXCEPT ![k].actual = n]
  BY Settled
<1>2. account \in Accounts /\ usage \in Seq(Usages) BY DEF IInv, TypeOK
<1> HIDE DEF k, n
<1>3. k \in 1..Len(usage) /\ usage[k].actual = Unsettled BY <1>1 DEF Open
<1>4. usage[k] \in Usages BY <1>2, <1>3
<1>5. /\ Positive(account.tokenUsed - usage[k].tokens + n) \in Nat /\ account.revision + 1 \in Nat
  BY SMTT(60), <1>1, <1>2, <1>4 DEF Positive, Usages, Accounts
<1>6. /\ account' \in Accounts /\ account'.revision = account.revision + 1
      /\ account'.computeUsed = account.computeUsed
  BY <1>1, <1>2, <1>5 DEF Accounts
<1>7. [usage[k] EXCEPT !.actual = n] \in Usages BY <1>1, <1>4 DEF Usages
<1>8. usage' \in Seq(Usages) /\ Len(usage') = Len(usage)
      /\ usage'[k] = [usage[k] EXCEPT !.actual = n]
      /\ \A i \in 1..Len(usage) : i # k => usage'[i] = usage[i]
  BY <1>1, <1>2, <1>3, <1>7
<1>9. /\ usage'[k].session = usage[k].session /\ usage'[k].tokens = usage[k].tokens
      /\ usage'[k].compute = usage[k].compute
  BY <1>4, <1>8 DEF Usages
<1> QED BY <1>3, <1>6, <1>8, <1>9

LEMMA SettleSound == ASSUME IInv, NEW c \in Clients, Settle(c) PROVE IInv'
<1>1. CASE UNCHANGED <<account, usage>> BY <1>1, RestSound DEF Settle
<1>2. CASE ~UNCHANGED <<account, usage>>
  <2>1. UNCHANGED decisions /\ Ends(c) BY DEF Settle
  <2>2. /\ account' \in Accounts /\ account'.revision = account.revision + 1
        /\ account'.computeUsed = account.computeUsed
        /\ usage' \in Seq(Usages) /\ Len(usage') = Len(usage)
        /\ \A i \in 1..Len(usage) :
             /\ usage'[i].session = usage[i].session /\ usage'[i].tokens = usage[i].tokens
             /\ usage'[i].compute = usage[i].compute
    BY <1>2, SettledParts
  <2>3. SeenIsCurrent' /\ Judged' /\ client' \in [Clients -> Calls] BY <2>1, <2>2, CommitSound
  <2>4. AllocatedOnce'
    <3>1. \A i, j \in 1..Len(decisions') : i # j => decisions'[i].request # decisions'[j].request
      BY <2>1 DEF IInv, AllocatedOnce
    <3>2. \A i, j \in 1..Len(usage') : i # j => usage'[i].session # usage'[j].session
      BY <2>2 DEF IInv, AllocatedOnce
    <3>3. \A i \in 1..Len(usage') : \E k \in 1..Len(decisions') :
            /\ decisions'[k].allowed /\ decisions'[k].session = usage'[i].session
            /\ decisions'[k].tokens = usage'[i].tokens /\ decisions'[k].compute = usage'[i].compute
      BY SMTT(60), <2>1, <2>2 DEF IInv, AllocatedOnce
    <3> QED BY <3>1, <3>2, <3>3 DEF AllocatedOnce
  <2>5. ComputeIsKept' BY <2>2 DEF IInv, ComputeIsKept
  <2>6. TypeOK' BY <2>1, <2>2, <2>3 DEF IInv, TypeOK, Calls, PCs
  <2> QED BY <2>3, <2>4, <2>5, <2>6 DEF IInv
<1> QED BY <1>1, <1>2

LEMMA SetModeSound == ASSUME IInv, NEW c \in Clients, SetMode(c) PROVE IInv'
<1>1. CASE UNCHANGED account BY <1>1, RestSound DEF SetMode
<1>2. CASE ~UNCHANGED account
  <2>1. Current(c) /\ account' = [client[c].seen EXCEPT !.mode = client[c].mode, !.revision = @ + 1]
    BY <1>2 DEF SetMode
  <2>2. client[c].seen = account BY <2>1 DEF IInv, SeenIsCurrent, SetMode, At
  <2>3. account \in Accounts /\ client[c].mode \in Modes BY Typed DEF IInv, Calls
  <2> DEFINE mode == client[c].mode
  <2>4. /\ account' \in Accounts /\ account'.revision = account.revision + 1
        /\ account'.computeUsed = account.computeUsed
    <3>1. account' = [account EXCEPT !.mode = mode, !.revision = @ + 1] BY <2>1, <2>2
    <3>2. mode \in Modes /\ account.revision + 1 \in Nat BY <2>3 DEF Accounts
    <3> HIDE DEF mode
    <3> QED BY <2>3, <3>1, <3>2 DEF Accounts
  <2>5. SeenIsCurrent' /\ Judged' /\ client' \in [Clients -> Calls] BY <2>4, CommitSound DEF SetMode
  <2>6. UNCHANGED <<usage, decisions>> BY DEF SetMode
  <2>7. ComputeIsKept' /\ AllocatedOnce' BY <2>4, <2>6 DEF IInv, ComputeIsKept, AllocatedOnce
  <2>8. TypeOK' BY <2>4, <2>5, <2>6 DEF IInv, TypeOK, Calls, PCs
  <2> QED BY <2>5, <2>7, <2>8 DEF IInv
<1> QED BY <1>1, <1>2

-----------------------------------------------------------------------------
\* The inductive invariant: a revision names one account, and what is about to be allocated
\* fits the account that was read.
THEOREM ResourcesAreSound == Spec => []IInv
<1>1. IInv /\ [Next]_vars => IInv'
  <2> SUFFICES ASSUME IInv, [Next]_vars PROVE IInv'
    OBVIOUS
  <2>1. ASSUME NEW c \in Clients, NEW r \in Requests, Ask(c, r) PROVE IInv' BY <2>1, AskSound
  <2>2. ASSUME NEW c \in Clients, Assess(c) PROVE IInv' BY <2>2, AssessSound
  <2>3. ASSUME NEW c \in Clients, Allocate(c) PROVE IInv' BY <2>3, AllocateSound
  <2>4. ASSUME NEW c \in Clients, Defer(c) PROVE IInv' BY <2>4, DeferSound
  <2>5. ASSUME NEW c \in Clients, Settle(c) PROVE IInv' BY <2>5, SettleSound
  <2>6. ASSUME NEW c \in Clients, SetMode(c) PROVE IInv' BY <2>6, SetModeSound
  <2>7. ASSUME NEW c \in Clients, Lost(c) PROVE IInv' BY <2>7, RestSound DEF Lost
  <2>8. ASSUME NEW c \in Clients, NEW i \in 1..Len(usage), NEW actual \in Actuals,
               BeginSettle(c, i, actual)
        PROVE  IInv'
    BY <2>8, BeginSettleSound
  <2>11. ASSUME NEW c \in Clients, FindUsage(c) PROVE IInv' BY <2>11, FindUsageSound
  <2>9. ASSUME NEW c \in Clients, NEW mode \in Modes, BeginMode(c, mode) PROVE IInv'
    BY <2>9, BeginModeSound
  <2>10. CASE UNCHANGED vars
    BY <2>10 DEF vars, IInv, TypeOK, SeenIsCurrent, Judged, ComputeIsKept, AllocatedOnce, At, Current
  <2> QED BY <2>1, <2>2, <2>3, <2>4, <2>5, <2>6, <2>7, <2>8, <2>9, <2>10, <2>11 DEF Next
<1> QED BY InitSound, <1>1, PTL DEF Spec

\* What is persisted always passes the validation of its records.
THEOREM TypeCorrect == Spec => []TypeOK
<1>1. IInv => TypeOK BY DEF IInv
<1> QED BY ResourcesAreSound, <1>1, PTL

\* No retry and no race gives a session resources twice (_validate_request_identity).
THEOREM NothingIsAllocatedTwice == Spec => []AllocatedOnce
<1>1. IInv => AllocatedOnce BY DEF IInv
<1> QED BY ResourcesAreSound, <1>1, PTL

\* A step that adds a usage is the allocation of a decision that fits the account.
LEMMA UsageGrows ==
  ASSUME IInv, Next, Len(usage') > Len(usage)
  PROVE  \E c \in Clients : Allocate(c) /\ ~UNCHANGED <<account, usage, decisions>>
<1>1. ASSUME NEW c \in Clients, Settle(c) PROVE FALSE
  BY <1>1, SettledParts, usage \in Seq(Usages) DEF IInv, TypeOK
<1>2. usage \in Seq(Usages) /\ Len(usage) \in Nat BY DEF IInv, TypeOK
<1>3. ~UNCHANGED usage BY <1>2
<1>4. \E c \in Clients : Allocate(c)
  BY <1>1, <1>3, Zenon DEF Next, Ask, Assess, Defer, SetMode, Lost, BeginSettle, FindUsage, BeginMode
<1> QED BY <1>3, <1>4

\* The reserve is never spent by an allocation, whatever was committed since the policy
\* judged it (save_allocation).
THEOREM ReserveIsProtected == Spec => ReserveIsKept
<1> DEFINE Kept == Len(usage') > Len(usage) /\ usage'[Len(usage')].tokens > 0 =>
                     /\ account'.tokenUsed <= TokenBudget - Reserve
                     /\ account'.computeUsed <= ComputeBudget
<1>1. IInv /\ [Next]_vars => [Kept]_vars
  <2> SUFFICES ASSUME IInv, Next, Len(usage') > Len(usage), usage'[Len(usage')].tokens > 0
               PROVE  /\ account'.tokenUsed <= TokenBudget - Reserve
                      /\ account'.computeUsed <= ComputeBudget
    OBVIOUS
  <2>1. PICK c \in Clients : Allocate(c) /\ ~UNCHANGED <<account, usage, decisions>> BY UsageGrows
  <2> DEFINE d == client[c].decision
             u == [session |-> d.session, tokens |-> d.tokens, compute |-> d.compute,
                   actual |-> Unsettled]
  <2>2. /\ d \in Decisions /\ u \in Usages /\ Fitting(account, d)
        /\ account'.tokenUsed = account.tokenUsed + d.tokens
        /\ account'.computeUsed = account.computeUsed + d.compute
        /\ usage' = Append(usage, u)
    BY <2>1, Allocated
  <2>3. u.tokens = d.tokens OBVIOUS
  <2>4. d.tokens \in Nat /\ d.compute \in Nat BY <2>2 DEF Decisions, DecisionFields
  <2> HIDE DEF u, d
  <2>5. usage'[Len(usage')] = u BY <2>2 DEF IInv, TypeOK
  <2>6. d.tokens > 0 BY <2>3, <2>5
  <2> QED BY <2>2, <2>4, <2>6, FitLeaves DEF Fitting, IInv, TypeOK, ComputeIsKept
<1> QED BY ResourcesAreSound, <1>1, PTL DEF Spec, ReserveIsKept

\* Thinking that is allocated is never deeper than the mode in force allows, however the mode
\* was changed since the policy judged it (save_allocation, set_runtime_mode).
THEOREM ModeIsFollowed == Spec => DepthFollowsMode
<1> DEFINE Follows == \A i \in 1..Len(decisions') :
                        i > Len(decisions) /\ decisions'[i].allowed /\ decisions'[i].depth # "NONE" =>
                          Order(decisions'[i].depth) <= Order(DepthCap(account.mode))
<1>1. IInv /\ [Next]_vars => [Follows]_vars
  <2> SUFFICES ASSUME IInv, Next, NEW i \in 1..Len(decisions'), i > Len(decisions),
                      decisions'[i].allowed, decisions'[i].depth # "NONE"
               PROVE  Order(decisions'[i].depth) <= Order(DepthCap(account.mode))
    OBVIOUS
  <2>1. decisions \in Seq(Decisions) /\ Len(decisions) \in Nat BY DEF IInv, TypeOK
  <2>2. ASSUME NEW c \in Clients, Allocate(c), ~UNCHANGED <<account, usage, decisions>>
        PROVE  Order(decisions'[i].depth) <= Order(DepthCap(account.mode))
    <3>1. /\ client[c].decision \in Decisions /\ Fitting(account, client[c].decision)
          /\ decisions' = Append(decisions, client[c].decision)
      BY <2>2, Allocated
    <3>2. decisions'[i] = client[c].decision BY <2>1, <3>1
    <3> QED BY <3>1, <3>2 DEF Fitting
  <2>3. ASSUME NEW c \in Clients, Defer(c)
        PROVE  FALSE
    <3>1. decisions' = Append(decisions, client[c].decision) BY <2>1, <2>3 DEF Defer
    <3>2. decisions'[i] = client[c].decision BY <2>1, <3>1
    <3>3. ~client[c].decision.allowed BY <2>3 DEF Defer, IInv, Judged
    <3> QED BY <3>2, <3>3
  <2>4. ASSUME UNCHANGED decisions PROVE FALSE BY <2>1, <2>4
  <2> QED BY <2>2, <2>3, <2>4 DEF Next, Ask, Assess, Allocate, Settle, SetMode, Lost, BeginSettle, FindUsage, BeginMode
<1> QED BY ResourcesAreSound, <1>1, PTL DEF Spec, DepthFollowsMode

\* What a session used is recorded once (reconcile_usage).
THEOREM UsageIsSettledOnce == Spec => SettledOnce
<1> DEFINE Once == \A i \in 1..Len(usage) :
                     /\ i <= Len(usage') /\ usage'[i].session = usage[i].session
                     /\ usage[i].actual # Unsettled => usage'[i] = usage[i]
<1>1. IInv /\ [Next]_vars => [Once]_vars
  <2> SUFFICES ASSUME IInv, Next, NEW i \in 1..Len(usage)
               PROVE  /\ i <= Len(usage') /\ usage'[i].session = usage[i].session
                      /\ usage[i].actual # Unsettled => usage'[i] = usage[i]
    OBVIOUS
  <2>1. usage \in Seq(Usages) /\ Len(usage) \in Nat BY DEF IInv, TypeOK
  <2>2. ASSUME NEW c \in Clients, Allocate(c), ~UNCHANGED <<account, usage, decisions>>
        PROVE  i <= Len(usage') /\ usage'[i] = usage[i]
    <3> DEFINE u == [session |-> client[c].decision.session, tokens |-> client[c].decision.tokens,
                     compute |-> client[c].decision.compute, actual |-> Unsettled]
    <3>1. u \in Usages /\ usage' = Append(usage, u) BY <2>2, Allocated
    <3> HIDE DEF u
    <3> QED BY <2>1, <3>1
  <2>3. ASSUME NEW c \in Clients, Settle(c), ~UNCHANGED <<account, usage>>
        PROVE  /\ i <= Len(usage') /\ usage'[i].session = usage[i].session
               /\ usage[i].actual # Unsettled => usage'[i] = usage[i]
    BY <2>1, <2>3, SettledParts
  <2>4. ASSUME UNCHANGED usage PROVE i <= Len(usage') /\ usage'[i] = usage[i] BY <2>1, <2>4
  <2> QED BY ZenonT(60), <2>2, <2>3, <2>4 DEF Next, Ask, Assess, Defer, Settle, SetMode, Lost, BeginSettle, FindUsage, BeginMode, Allocate
<1> QED BY ResourcesAreSound, <1>1, PTL DEF Spec, SettledOnce

-----------------------------------------------------------------------------
(* Induction: what a set must hold to hold all.                            *)

LEMMA LeastNatural ==
  ASSUME NEW T, T \subseteq Nat, T # {}
  PROVE  \E n \in T : \A m \in T : n <= m
<1>1. PICK n \in T : \A m \in T : <<m, n>> \notin OpToRel(<, Nat)
  BY WFMin, NatLessThanWellFounded, Zenon
<1>2. \A m \in T : ~(m < n)
  BY <1>1, Zenon DEF OpToRel
<1>3. ASSUME NEW m \in T
      PROVE  n <= m
  <2>1. m \in Nat /\ n \in Nat /\ ~(m < n)
    BY <1>2
  <2> QED
    BY <2>1
<1> QED
  BY <1>3

LEMMA SubsetInduction ==
  ASSUME NEW S, IsFiniteSet(S), NEW Good,
         \A s \in SUBSET S : (\A x \in s : s \ {x} \in Good) => s \in Good
  PROVE  \A s \in SUBSET S : s \in Good
<1>1. \A s \in SUBSET S : IsFiniteSet(s) /\ Cardinality(s) \in Nat
  BY FS_Subset, FS_CardinalityType
<1> SUFFICES ASSUME NEW bad \in SUBSET S, bad \notin Good
             PROVE  FALSE
  OBVIOUS
<1> DEFINE Bad == {s \in SUBSET S : s \notin Good}
           Sizes == {Cardinality(s) : s \in Bad}
<1>2. PICK n \in Sizes : \A m \in Sizes : n <= m
  <2>1. Sizes \subseteq Nat /\ Sizes # {}
    BY <1>1
  <2> HIDE DEF Sizes
  <2> QED
    BY <2>1, LeastNatural
<1>3. PICK s \in Bad : Cardinality(s) = n
  BY <1>2
<1>4. ASSUME NEW x \in s
      PROVE  s \ {x} \in Good
  <2>1. Cardinality(s \ {x}) = Cardinality(s) - 1
    BY <1>1, FS_RemoveElement
  <2>2. s \ {x} \in SUBSET S
    OBVIOUS
  <2>3. CASE s \ {x} \in Bad
    <3>1. n <= Cardinality(s \ {x})
      BY <1>2, <2>3
    <3> QED
      BY <1>1, <1>3, <2>1, <3>1
  <2> QED
    BY <2>2, <2>3
<1> QED
  BY <1>3, <1>4

LEMMA NaturalInduction ==
  ASSUME NEW Good, 0 \in Good, \A n \in Nat : n \in Good => n + 1 \in Good
  PROVE  \A n \in Nat : n \in Good
<1> DEFINE Bad == Nat \ Good
<1> SUFFICES ASSUME Bad # {}
             PROVE  FALSE
  OBVIOUS
<1>1. PICK n \in Bad : \A m \in Bad : n <= m
  <2>1. Bad \subseteq Nat
    OBVIOUS
  <2> HIDE DEF Bad
  <2> QED
    BY <2>1, LeastNatural
<1>2. n \in Nat /\ n # 0
  OBVIOUS
<1>3. n - 1 \in Nat /\ ~(n <= n - 1)
  BY <1>2
<1>4. n - 1 \in Good
  BY <1>1, <1>3
<1> QED
  BY <1>2, <1>3, <1>4

-----------------------------------------------------------------------------
(* Folds.                                                                  *)

\* iter folds the subsets of S by step, taking out the elements in the order of pick.
Folds(iter, S, base, step, pick) ==
  \A s \in SUBSET S : iter[s] = IF s = {} THEN base ELSE step[<<pick[s], iter[s \ {pick[s]}]>>]

Chooses(pick, S) == \A s \in SUBSET S : s # {} => pick[s] \in s

LEMMA FoldExists ==
  ASSUME NEW S, IsFiniteSet(S), NEW Values, NEW base \in Values, NEW step \in [S \X Values -> Values], NEW pick, Chooses(pick, S)
  PROVE  \E iter \in [SUBSET S -> Values] : Folds(iter, S, base, step, pick)
<1> DEFINE Small(n) == {s \in SUBSET S : Cardinality(s) <= n}
           FoldsTo(g, n) == \A s \in Small(n) :
                              g[s] = IF s = {} THEN base ELSE step[<<pick[s], g[s \ {pick[s]}]>>]
           Good == {n \in Nat : \E g \in [Small(n) -> Values] : FoldsTo(g, n)}
<1>1. \A s \in SUBSET S : IsFiniteSet(s) /\ Cardinality(s) \in Nat /\ Cardinality(s) <= Cardinality(S)
  BY FS_Subset, FS_CardinalityType
<1>2. \A s \in SUBSET S : (s = {}) <=> (Cardinality(s) = 0)
  BY <1>1, FS_EmptySet
<1>3. ASSUME NEW s \in SUBSET S, s # {}
      PROVE  /\ pick[s] \in s /\ s \ {pick[s]} \in SUBSET S
             /\ Cardinality(s \ {pick[s]}) = Cardinality(s) - 1
  <2>1. pick[s] \in s
    BY <1>3 DEF Chooses
  <2> QED
    BY <1>1, <2>1, FS_RemoveElement
<1>4. 0 \in Good
  <2>1. Small(0) = {{}}
    <3>1. {} \in SUBSET S /\ Cardinality({}) = 0
      BY FS_EmptySet
    <3>2. \A s \in Small(0) : Cardinality(s) = 0
      BY <1>1
    <3> QED
      BY <1>2, <3>1, <3>2
  <2>2. PICK g : g = [s \in Small(0) |-> base]
    OBVIOUS
  <2>3. g \in [Small(0) -> Values] /\ FoldsTo(g, 0)
    BY <2>1, <2>2
  <2> QED
    BY <2>3
<1>5. ASSUME NEW n \in Nat, n \in Good
      PROVE  n + 1 \in Good
  <2>1. PICK g \in [Small(n) -> Values] : FoldsTo(g, n)
    BY <1>5
  <2>2. PICK h : h = [s \in Small(n + 1) |-> IF Cardinality(s) <= n THEN g[s]
                                             ELSE step[<<pick[s], g[s \ {pick[s]}]>>]]
    OBVIOUS
  <2>3. ASSUME NEW s \in Small(n + 1), s # {}
        PROVE  /\ s \ {pick[s]} \in Small(n) /\ s \ {pick[s]} \in Small(n + 1)
               /\ h[s \ {pick[s]}] = g[s \ {pick[s]}] /\ g[s \ {pick[s]}] \in Values
               /\ pick[s] \in S
    <3>1. Cardinality(s) \in Nat /\ Cardinality(s) <= n + 1
      BY <1>1
    <3>2. Cardinality(s \ {pick[s]}) <= n
      BY <1>3, <2>3, <3>1
    <3>3. s \ {pick[s]} \in Small(n) /\ s \ {pick[s]} \in Small(n + 1)
      BY <1>1, <1>3, <2>3, <3>2
    <3>4. h[s \ {pick[s]}] = g[s \ {pick[s]}]
      BY <2>2, <3>2, <3>3
    <3> QED
      BY <1>3, <2>1, <2>3, <3>3, <3>4
  <2>4. ASSUME NEW s \in Small(n + 1)
        PROVE  /\ h[s] \in Values
               /\ h[s] = IF s = {} THEN base ELSE step[<<pick[s], h[s \ {pick[s]}]>>]
    <3>1. CASE Cardinality(s) <= n
      <4>1. s \in Small(n) /\ h[s] = g[s]
        BY <2>2, <3>1
      <4>2. CASE s = {}
        BY <2>1, <4>1, <4>2
      <4>3. CASE s # {}
        BY <2>1, <2>3, <4>1, <4>3
      <4> QED
        BY <4>2, <4>3
    <3>2. CASE ~(Cardinality(s) <= n)
      <4>1. s # {}
        BY <1>2, <3>2
      <4>2. h[s] = step[<<pick[s], g[s \ {pick[s]}]>>]
        BY <2>2, <3>2
      <4>3. <<pick[s], g[s \ {pick[s]}]>> \in S \X Values
        BY <2>3, <4>1
      <4> QED
        BY <2>3, <4>1, <4>2, <4>3
    <3> QED
      BY <3>1, <3>2
  <2>5. h \in [Small(n + 1) -> Values]
    BY <2>2, <2>4
  <2>6. FoldsTo(h, n + 1)
    BY <2>4
  <2> HIDE DEF Small, FoldsTo
  <2> QED
    BY <2>5, <2>6
<1>6. Cardinality(S) \in Good
  <2>1. \A n \in Nat : n \in Good
    <3> HIDE DEF Good
    <3> QED
      BY <1>4, <1>5, NaturalInduction
  <2>2. Cardinality(S) \in Nat
    BY FS_CardinalityType
  <2> HIDE DEF Good
  <2> QED
    BY <2>1, <2>2
<1>7. Small(Cardinality(S)) = SUBSET S
  BY <1>1
<1> QED
  BY <1>6, <1>7 DEF Folds

-----------------------------------------------------------------------------
(* Sums.                                                                   *)

Some(s) == CHOOSE x \in s : TRUE

Sums(iter, f, S) ==
  iter = [s \in SUBSET S |-> IF s = {} THEN 0 ELSE f[Some(s)] + iter[s \ {Some(s)}]]

\* Two that sum the same.
LEMMA SumsAgree ==
  ASSUME NEW S, IsFiniteSet(S), NEW T \in SUBSET S, NEW f, NEW g, NEW one, NEW two,
         Sums(one, f, S), Sums(two, g, T), \A x \in T : f[x] = g[x]
  PROVE  \A s \in SUBSET T : one[s] = two[s]
<1> DEFINE Good == {s \in SUBSET T : one[s] = two[s]}
<1>1. IsFiniteSet(T)
  BY FS_Subset
<1>2. ASSUME NEW s \in SUBSET T, \A x \in s : s \ {x} \in Good
      PROVE  s \in Good
  <2>1. s \in SUBSET S
    OBVIOUS
  <2>2. /\ one[s] = IF s = {} THEN 0 ELSE f[Some(s)] + one[s \ {Some(s)}]
        /\ two[s] = IF s = {} THEN 0 ELSE g[Some(s)] + two[s \ {Some(s)}]
    BY <2>1 DEF Sums
  <2>3. s # {} => Some(s) \in s
    BY DEF Some
  <2> QED
    BY <1>2, <2>2, <2>3
<1>3. \A s \in SUBSET T : s \in Good
  <2> HIDE DEF Good
  <2> QED
    BY <1>1, <1>2, SubsetInduction
<1> QED
  BY <1>3

LEMMA SumsExist ==
  ASSUME NEW S, IsFiniteSet(S), NEW f, \A x \in S : f[x] \in Nat
  PROVE  \E iter \in [SUBSET S -> Nat] : Sums(iter, f, S) /\ iter[S] = SumFunctionOnSet(f, S)
<1>1. PICK step, pick : /\ step = [p \in S \X Nat |-> f[p[1]] + p[2]]
                        /\ pick = [s \in SUBSET S |-> Some(s)]
  OBVIOUS
<1>2. Chooses(pick, S)
  BY <1>1 DEF Chooses, Some
<1>3. step \in [S \X Nat -> Nat]
  BY <1>1
<1>4. PICK iter \in [SUBSET S -> Nat] : Folds(iter, S, 0, step, pick)
  BY <1>2, <1>3, FoldExists
<1>5. ASSUME NEW s \in SUBSET S
      PROVE  iter[s] = IF s = {} THEN 0 ELSE f[Some(s)] + iter[s \ {Some(s)}]
  <2>1. CASE s = {}
    BY <1>4, <2>1 DEF Folds
  <2>2. CASE s # {}
    <3>1. Some(s) \in S /\ pick[s] = Some(s) /\ iter[s \ {Some(s)}] \in Nat
      BY <1>1, <1>2, <2>2 DEF Chooses
    <3>2. iter[s] = step[<<Some(s), iter[s \ {Some(s)}]>>]
      BY <1>4, <2>2, <3>1 DEF Folds
    <3> QED
      BY <1>1, <2>2, <3>1, <3>2
  <2> QED
    BY <2>1, <2>2
<1>6. Sums(iter, f, S)
  BY <1>5 DEF Sums
<1>7. PICK chosen : chosen = CHOOSE g : Sums(g, f, S)
  OBVIOUS
<1>8. Sums(chosen, f, S)
  BY <1>6, <1>7
<1>9. SumFunctionOnSet(f, S) = chosen[S]
  BY <1>7 DEF SumFunctionOnSet, FoldFunctionOnSet, MapThenFoldSet, Sums, Some
<1>10. iter[S] = chosen[S]
  BY <1>6, <1>8, SumsAgree
<1> QED
  BY <1>6, <1>9, <1>10

LEMMA SumOfNone ==
  ASSUME NEW f
  PROVE  SumFunctionOnSet(f, {}) = 0
<1>1. IsFiniteSet({})
  BY FS_EmptySet
<1>2. PICK iter : Sums(iter, f, {}) /\ iter[{}] = SumFunctionOnSet(f, {})
  BY <1>1, SumsExist
<1> QED
  BY <1>2 DEF Sums

LEMMA SumSame ==
  ASSUME NEW S, IsFiniteSet(S), NEW f, NEW g, \A x \in S : f[x] \in Nat /\ f[x] = g[x]
  PROVE  SumFunctionOnSet(f, S) = SumFunctionOnSet(g, S)
<1>1. PICK one : Sums(one, f, S) /\ one[S] = SumFunctionOnSet(f, S)
  BY SumsExist
<1>2. PICK two : Sums(two, g, S) /\ two[S] = SumFunctionOnSet(g, S)
  BY SumsExist
<1> QED
  BY <1>1, <1>2, SumsAgree

\* An element can be taken out first, whichever the fold takes.
LEMMA SumRemove ==
  ASSUME NEW S, IsFiniteSet(S), NEW f, \A x \in S : f[x] \in Nat, NEW x \in S
  PROVE  /\ SumFunctionOnSet(f, S \ {x}) \in Nat
         /\ SumFunctionOnSet(f, S) = f[x] + SumFunctionOnSet(f, S \ {x})
<1>1. PICK iter \in [SUBSET S -> Nat] : Sums(iter, f, S) /\ iter[S] = SumFunctionOnSet(f, S)
  BY SumsExist
<1> DEFINE Good == {s \in SUBSET S : \A y \in s : iter[s] = f[y] + iter[s \ {y}]}
<1>2. ASSUME NEW s \in SUBSET S, \A y \in s : s \ {y} \in Good
      PROVE  s \in Good
  <2> SUFFICES ASSUME NEW y \in s
               PROVE  iter[s] = f[y] + iter[s \ {y}]
    OBVIOUS
  <2>1. PICK z : z = Some(s)
    OBVIOUS
  <2>2. z \in s /\ iter[s] = f[z] + iter[s \ {z}]
    BY <1>1, <2>1 DEF Sums, Some
  <2>3. CASE y = z
    BY <2>2, <2>3
  <2>4. CASE y # z
    <3>1. y \in s \ {z} /\ z \in s \ {y}
      BY <2>2, <2>4
    <3>2. PICK rest : rest = (s \ {z}) \ {y}
      OBVIOUS
    <3>3. rest = (s \ {y}) \ {z} /\ rest \in SUBSET S
      BY <3>2
    <3>4. iter[s \ {z}] = f[y] + iter[rest]
      BY <1>2, <2>2, <3>1, <3>2
    <3>5. iter[s \ {y}] = f[z] + iter[rest]
      BY <1>2, <3>1, <3>3
    <3>6. f[y] \in Nat /\ f[z] \in Nat /\ iter[rest] \in Nat
      BY <1>1, <2>2, <3>3
    <3> QED
      BY <2>2, <3>4, <3>5, <3>6
  <2> QED
    BY <2>3, <2>4
<1>3. \A s \in SUBSET S : s \in Good
  <2> HIDE DEF Good
  <2> QED
    BY <1>2, SubsetInduction
<1>4. iter[S] = f[x] + iter[S \ {x}] /\ iter[S \ {x}] \in Nat
  BY <1>1, <1>3
<1>5. IsFiniteSet(S \ {x}) /\ S \ {x} \in SUBSET S
  BY FS_RemoveElement
<1>6. PICK two : Sums(two, f, S \ {x}) /\ two[S \ {x}] = SumFunctionOnSet(f, S \ {x})
  BY <1>5, SumsExist
<1>7. iter[S \ {x}] = two[S \ {x}]
  BY <1>1, <1>5, <1>6, SumsAgree
<1> QED
  BY <1>1, <1>4, <1>6, <1>7

\* A list: what is added at its end, and what is changed in it.
LEMMA SumIsNatural ==
  ASSUME NEW S, IsFiniteSet(S), NEW f, \A x \in S : f[x] \in Nat
  PROVE  SumFunctionOnSet(f, S) \in Nat
<1>1. PICK iter \in [SUBSET S -> Nat] : iter[S] = SumFunctionOnSet(f, S)
  BY SumsExist
<1> QED
  BY <1>1

Numbers(f, n) == DOMAIN f = 1..n /\ \A i \in 1..n : f[i] \in Nat

LEMMA SumAppended ==
  ASSUME NEW n \in Nat, NEW f, NEW g, Numbers(f, n), Numbers(g, n + 1), \A i \in 1..n : g[i] = f[i]
  PROVE  SumFunction(g) = SumFunction(f) + g[n + 1]
<1>1. IsFiniteSet(1..n) /\ IsFiniteSet(1..n + 1)
  BY FS_Interval
<1>2. (1..n + 1) \ {n + 1} = 1..n /\ n + 1 \in 1..n + 1
  OBVIOUS
<1>3. /\ DOMAIN f = 1..n /\ DOMAIN g = 1..n + 1
      /\ (\A i \in 1..n : f[i] \in Nat) /\ \A j \in 1..n + 1 : g[j] \in Nat
  BY DEF Numbers
<1>4. SumFunctionOnSet(g, 1..n + 1) = g[n + 1] + SumFunctionOnSet(g, (1..n + 1) \ {n + 1})
  BY <1>1, <1>2, <1>3, SumRemove, Zenon
<1>5. SumFunctionOnSet(g, 1..n) = SumFunctionOnSet(f, 1..n)
  BY <1>1, <1>3, SumSame
<1>6. SumFunctionOnSet(f, 1..n) \in Nat
  BY <1>1, <1>3, SumIsNatural
<1>7. SumFunctionOnSet(g, 1..n + 1) = g[n + 1] + SumFunctionOnSet(f, 1..n)
  BY <1>2, <1>4, <1>5, Zenon
<1>8. SumFunction(g) = SumFunctionOnSet(g, 1..n + 1) /\ SumFunction(f) = SumFunctionOnSet(f, 1..n)
  BY <1>3 DEF SumFunction
<1> QED
  BY <1>3, <1>6, <1>7, <1>8

\* The sums of two that differ in one place.
DifferIn(k, f, g) ==
  \E rest \in Nat : SumFunction(f) = f[k] + rest /\ SumFunction(g) = g[k] + rest

LEMMA SumReplaced ==
  ASSUME NEW n \in Nat, NEW f, NEW g, Numbers(f, n), Numbers(g, n),
         NEW k \in 1..n, \A i \in 1..n : i # k => g[i] = f[i]
  PROVE  DifferIn(k, f, g)
<1>1. IsFiniteSet(1..n) /\ IsFiniteSet((1..n) \ {k})
  <2>1. IsFiniteSet(1..n)
    BY FS_Interval
  <2> QED
    BY <2>1, FS_RemoveElement, Zenon
<1>2. DOMAIN f = 1..n /\ DOMAIN g = 1..n /\ \A i \in 1..n : f[i] \in Nat /\ g[i] \in Nat
  BY DEF Numbers
<1>3. SumFunctionOnSet(f, 1..n) = f[k] + SumFunctionOnSet(f, (1..n) \ {k})
      /\ SumFunctionOnSet(f, (1..n) \ {k}) \in Nat
  BY <1>1, <1>2, SumRemove
<1>4. SumFunctionOnSet(g, 1..n) = g[k] + SumFunctionOnSet(g, (1..n) \ {k})
  BY <1>1, <1>2, SumRemove
<1>5. SumFunctionOnSet(f, (1..n) \ {k}) = SumFunctionOnSet(g, (1..n) \ {k})
  BY <1>1, <1>2, SumSame
<1> QED
  BY <1>2, <1>3, <1>4, <1>5 DEF SumFunction, DifferIn

-----------------------------------------------------------------------------
(* The account is the sum of the usages.                                   *)

Charges == [i \in 1..Len(usage) |-> Accounted(usage[i])]

Works == [i \in 1..Len(usage) |-> usage[i].compute]

LEMMA ChargesAreNatural ==
  ASSUME usage \in Seq(Usages)
  PROVE  /\ Len(usage) \in Nat /\ DOMAIN Charges = 1..Len(usage) /\ DOMAIN Works = 1..Len(usage)
         /\ \A i \in 1..Len(usage) : Charges[i] \in Nat /\ Works[i] \in Nat
<1>1. ASSUME NEW i \in 1..Len(usage)
      PROVE  Accounted(usage[i]) \in Nat /\ usage[i].compute \in Nat
  <2>1. usage[i] \in Usages
    OBVIOUS
  <2> QED
    BY <2>1 DEF Usages, Accounted, Unsettled
<1> QED
  BY <1>1 DEF Charges, Works

LEMMA BalanceOfParts ==
  AccountsBalance <=> account.tokenUsed = SumFunction(Charges) /\ account.computeUsed = SumFunction(Works)
  BY DEF AccountsBalance, Charges, Works

LEMMA AllocateBalances == ASSUME IInv, AccountsBalance, NEW c \in Clients, Allocate(c) PROVE AccountsBalance'
<1>1. CASE UNCHANGED <<account, usage, decisions>>
  BY <1>1 DEF AccountsBalance
<1>2. CASE ~UNCHANGED <<account, usage, decisions>>
  <2>1. PICK tokens, compute, u :
          /\ u = [session |-> client[c].decision.session, tokens |-> tokens, compute |-> compute,
                  actual |-> Unsettled]
          /\ u \in Usages /\ usage' = Append(usage, u)
          /\ account'.tokenUsed = account.tokenUsed + tokens
          /\ account'.computeUsed = account.computeUsed + compute
    BY <1>2, Allocated
  <2>2. usage \in Seq(Usages) /\ usage' \in Seq(Usages)
    BY <2>1 DEF IInv, TypeOK
  <2>3. PICK n \in Nat : n = Len(usage)
    BY <2>2
  <2>4. Len(usage') = n + 1 /\ usage'[n + 1] = u /\ \A i \in 1..n : usage'[i] = usage[i]
    BY <2>1, <2>2, <2>3
  <2>5. Accounted(u) = tokens /\ u.compute = compute
    BY <2>1 DEF Accounted
  <2>6. /\ DOMAIN Charges = 1..n /\ DOMAIN Works = 1..n
        /\ \A i \in 1..n : Charges[i] \in Nat /\ Works[i] \in Nat
    BY <2>2, <2>3, ChargesAreNatural
  <2>7. /\ DOMAIN Charges' = 1..n + 1 /\ DOMAIN Works' = 1..n + 1
        /\ \A i \in 1..n : Charges'[i] = Charges[i] /\ Works'[i] = Works[i]
        /\ Charges'[n + 1] = tokens /\ Works'[n + 1] = compute
    BY <2>3, <2>4, <2>5 DEF Charges, Works
  <2>8. tokens \in Nat /\ compute \in Nat
    BY <2>1 DEF Usages
  <2>9. PICK charges, charged, works, worked :
          charges = Charges /\ charged = Charges' /\ works = Works /\ worked = Works'
    OBVIOUS
  <2>10. /\ Numbers(charges, n) /\ Numbers(charged, n + 1) /\ \A i \in 1..n : charged[i] = charges[i]
         /\ Numbers(works, n) /\ Numbers(worked, n + 1) /\ \A i \in 1..n : worked[i] = works[i]
    BY <2>6, <2>7, <2>8, <2>9 DEF Numbers
  <2>11. /\ SumFunction(charged) = SumFunction(charges) + charged[n + 1]
         /\ SumFunction(worked) = SumFunction(works) + worked[n + 1]
    BY <2>10, SumAppended, Zenon
  <2>12. /\ account'.tokenUsed = SumFunction(Charges')
         /\ account'.computeUsed = SumFunction(Works')
    BY <2>1, <2>7, <2>9, <2>11, BalanceOfParts
  <2> QED
    BY <2>12 DEF AccountsBalance, Charges, Works
<1> QED
  BY <1>1, <1>2

LEMMA SettleBalances == ASSUME IInv, AccountsBalance, NEW c \in Clients, Settle(c) PROVE AccountsBalance'
<1>1. CASE UNCHANGED <<account, usage>>
  BY <1>1 DEF AccountsBalance
<1>2. CASE ~UNCHANGED <<account, usage>>
  <2>1. PICK k, actual :
          /\ Open(k) /\ actual \in Nat
          /\ account' = [account EXCEPT !.tokenUsed = Positive(@ - usage[k].tokens + actual),
                                        !.revision = @ + 1]
          /\ usage' = [usage EXCEPT ![k].actual = actual]
    BY <1>2, Settled
  <2>2. /\ usage \in Seq(Usages) /\ usage' \in Seq(Usages) /\ Len(usage') = Len(usage)
        /\ account'.computeUsed = account.computeUsed /\ account \in Accounts
        /\ \A i \in 1..Len(usage) : usage'[i].compute = usage[i].compute
    BY <1>2, SettledParts DEF IInv, TypeOK
  <2>3. PICK n \in Nat : n = Len(usage)
    BY <2>2
  <2>4. k \in 1..n /\ usage[k].actual = Unsettled /\ usage[k] \in Usages
    BY <2>1, <2>2, <2>3 DEF Open
  <2>5. Accounted(usage[k]) = usage[k].tokens /\ usage[k].tokens \in Nat
    BY <2>4 DEF Accounted, Usages
  <2>6. /\ usage'[k] = [usage[k] EXCEPT !.actual = actual]
        /\ \A i \in 1..n : i # k => usage'[i] = usage[i]
    BY <2>1, <2>2, <2>3, <2>4
  <2>7. Accounted(usage'[k]) = actual
    BY <2>1, <2>4, <2>6 DEF Accounted, Unsettled, Usages
  <2>8. /\ DOMAIN Charges = 1..n /\ DOMAIN Works = 1..n
        /\ \A i \in 1..n : Charges[i] \in Nat /\ Works[i] \in Nat
    BY <2>2, <2>3, ChargesAreNatural
  <2>9. /\ DOMAIN Charges' = 1..n /\ \A i \in 1..n : i # k => Charges'[i] = Charges[i]
        /\ Charges[k] = usage[k].tokens /\ Charges'[k] = actual
    BY <2>2, <2>3, <2>4, <2>5, <2>6, <2>7 DEF Charges
  <2>10. PICK charges, charged : charges = Charges /\ charged = Charges'
    OBVIOUS
  <2>11. /\ Numbers(charges, n) /\ Numbers(charged, n)
         /\ \A i \in 1..n : i # k => charged[i] = charges[i]
    BY <2>1, <2>8, <2>9, <2>10 DEF Numbers
  <2>12. DifferIn(k, charges, charged)
    BY <2>4, <2>11, SumReplaced, Zenon
  <2>13. account.tokenUsed = SumFunction(charges) /\ account.computeUsed = SumFunction(Works)
    BY <2>10, BalanceOfParts
  <2>14. account'.tokenUsed = SumFunction(charged)
    <3>1. account'.tokenUsed = Positive(account.tokenUsed - usage[k].tokens + actual)
      BY <2>1, <2>2 DEF Accounts
    <3>2. account.tokenUsed - usage[k].tokens \in Nat
          /\ SumFunction(charged) = account.tokenUsed - usage[k].tokens + actual
      BY <2>1, <2>5, <2>9, <2>10, <2>12, <2>13 DEF DifferIn
    <3>3. Positive(account.tokenUsed - usage[k].tokens + actual) = account.tokenUsed - usage[k].tokens + actual
      BY <2>1, <3>2 DEF Positive
    <3> QED
      BY <3>1, <3>2, <3>3
  <2>15. Works' = Works
    BY <2>2 DEF Works
  <2> QED
    BY <2>2, <2>10, <2>13, <2>14, <2>15 DEF AccountsBalance, Charges, Works
<1> QED
  BY <1>1, <1>2

LEMMA SetModeBalances == ASSUME IInv, AccountsBalance, NEW c \in Clients, SetMode(c) PROVE AccountsBalance'
<1>1. CASE UNCHANGED account
  BY <1>1 DEF SetMode, AccountsBalance
<1>2. CASE ~UNCHANGED account
  <2>1. PICK mode : account' = [client[c].seen EXCEPT !.mode = mode, !.revision = @ + 1]
    BY <1>2 DEF SetMode
  <2>2. client[c].seen = account
    BY <1>2 DEF IInv, SeenIsCurrent, SetMode, At
  <2>3. account \in Accounts
    BY DEF IInv, TypeOK
  <2>4. account'.tokenUsed = account.tokenUsed /\ account'.computeUsed = account.computeUsed
    BY <2>1, <2>2, <2>3 DEF Accounts
  <2> QED
    BY <2>4 DEF SetMode, AccountsBalance
<1> QED
  BY <1>1, <1>2

\* However allocations, settlements and changes of the mode interleave and whatever is lost between
\* a read and a save, the account is what the usages add up to (save_allocation, reconcile_usage).
THEOREM AccountsAddUp == SSpec => []AccountsBalance
<1>1. Init => AccountsBalance
  <2> SUFFICES ASSUME Init
               PROVE  AccountsBalance
    OBVIOUS
  <2>1. account.tokenUsed = 0 /\ account.computeUsed = 0 /\ Len(usage) = 0
    BY DEF Init
  <2>2. ASSUME NEW f, DOMAIN f = 1..0
        PROVE  SumFunction(f) = 0
    <3>1. DOMAIN f = {}
      BY <2>2
    <3> QED
      BY <3>1, SumOfNone DEF SumFunction
  <2>3. DOMAIN Charges = 1..0 /\ DOMAIN Works = 1..0
    BY <2>1 DEF Charges, Works
  <2> HIDE DEF Charges, Works
  <2>4. SumFunction(Charges) = 0 /\ SumFunction(Works) = 0
    BY <2>2, <2>3
  <2> QED
    BY <2>1, <2>4, BalanceOfParts
<1>2. IInv /\ AccountsBalance /\ [Next]_vars => AccountsBalance'
  <2> SUFFICES ASSUME IInv, AccountsBalance, [Next]_vars
               PROVE  AccountsBalance'
    OBVIOUS
  <2>1. ASSUME UNCHANGED <<account, usage>>
        PROVE  AccountsBalance'
    BY <2>1 DEF AccountsBalance
  <2>2. CASE UNCHANGED vars
    BY <2>1, <2>2 DEF vars
  <2>3. ASSUME NEW c \in Clients, Allocate(c) \/ Settle(c) \/ SetMode(c)
        PROVE  AccountsBalance'
    BY <2>3, AllocateBalances, SettleBalances, SetModeBalances
  <2>4. CASE Next
    BY <2>1, <2>3, <2>4 DEF Next, Ask, Assess, Defer, BeginSettle, FindUsage, BeginMode, Lost
  <2> QED
    BY <2>2, <2>4
<1>3. Spec => []AccountsBalance
  BY <1>1, <1>2, ResourcesAreSound, PTL DEF Spec
<1> QED
  BY <1>3, ResourcesBesideOthers, PTL

-----------------------------------------------------------------------------
(* Disputes.                                                               *)

\* What an audit may rest on: the claims of a case, or the sources of an evidence.
Foundations == {D!Detected(k).sources : k \in D!Cases} \cup {Grounds[e] : e \in Evidence}

Audits ==
  [action : {"DETECTED", "RESOLVED", "REOPENED", "SUPERSEDED"}, evidence : SUBSET Evidence,
   sources : Foundations]

\* What may be stored of case k.
Sound(k, history) ==
  /\ history \in Seq(Audits)
  /\ history # <<>> => k \in D!Found(k[1]) /\ history[1] = D!Detected(k)
  /\ \A i \in 2..Len(history) : D!Follows(history[i - 1].action, history[i].action)
  /\ \A i \in 1..Len(history) : history[i].action = "REOPENED" =>
       \E source \in history[i].sources :
         \A j \in 1..Len(history) : j < i => source \notin history[j].sources

Disputable(keys) == \A k \in keys : k \in D!Cases /\ k \in D!Found(k[1])

DisputeCall(c) ==
  \/ call[c] = D!Idle
  \/ \E left \in {call[c].left} :
       Disputable(left) /\ call[c] = [pc |-> "detect", left |-> left]
  \/ /\ call[c].pc = "append"
     /\ call[c].case \in D!Cases /\ call[c].with \in Evidence
     /\ call[c].action \in {"RESOLVED", "REOPENED", "SUPERSEDED"}
  \/ /\ call[c].pc = "write"
     /\ Disputable(call[c].left)
     /\ call[c].draft \in [D!Cases -> Seq(Audits)]
     /\ \A k \in D!Cases : Sound(k, call[c].draft[k])

DisputeInv ==
  /\ cases \in [D!Cases -> Seq(Audits)]
  /\ \A k \in D!Cases : Sound(k, cases[k])
  /\ call = [c \in Clients |-> call[c]]
  /\ \A c \in Clients : DisputeCall(c)

\* What is appended to a sound history leaves it sound: a detection, or a legal decision.
LEMMA SoundAppend ==
  ASSUME NEW k, NEW history, Sound(k, history), NEW audit \in Audits,
         \/ /\ history = <<>> /\ audit = D!Detected(k) /\ k \in D!Found(k[1])
         \/ /\ history # <<>> /\ D!Follows(history[Len(history)].action, audit.action)
            /\ audit.action = "REOPENED" => ~ (audit.sources \subseteq D!Known(history))
  PROVE  Sound(k, Append(history, audit))
<1>1. PICK longer, size : longer = Append(history, audit) /\ size = Len(history)
  OBVIOUS
<1>2. /\ size \in Nat /\ longer \in Seq(Audits) /\ Len(longer) = size + 1
      /\ longer[size + 1] = audit /\ longer # <<>>
      /\ \A i \in 1..size : longer[i] = history[i]
  BY <1>1 DEF Sound
<1>3. CASE history = <<>>
  <2>1. size = 0 /\ audit = D!Detected(k) /\ k \in D!Found(k[1])
    BY <1>1, <1>3
  <2>2. audit.action = "DETECTED"
    BY <2>1 DEF D!Detected
  <2> QED
    BY <1>1, <1>2, <2>1, <2>2 DEF Sound
<1>4. CASE history # <<>>
  <2>1. /\ size > 0 /\ D!Follows(history[size].action, audit.action)
        /\ audit.action = "REOPENED" => ~ (audit.sources \subseteq D!Known(history))
    BY <1>1, <1>4, EmptySeq DEF Sound
  <2>2. k \in D!Found(k[1]) /\ longer[1] = D!Detected(k)
    BY <1>2, <1>4, <2>1 DEF Sound
  <2>3. ASSUME NEW i \in 2..Len(longer)
        PROVE  D!Follows(longer[i - 1].action, longer[i].action)
    <3>1. CASE i = size + 1
      <4>1. i - 1 = size /\ size \in 1..size
        BY <1>2, <2>1, <3>1
      <4> QED
        BY <1>2, <2>1, <3>1, <4>1
    <3>2. CASE i \in 2..size
      <4>1. i - 1 \in 1..size /\ i \in 1..size
        BY <1>2, <3>2
      <4> QED
        BY <1>1, <1>2, <3>2, <4>1 DEF Sound
    <3> QED
      BY <1>2, <3>1, <3>2
  <2>4. ASSUME NEW i \in 1..Len(longer), longer[i].action = "REOPENED"
        PROVE  \E source \in longer[i].sources :
                 \A j \in 1..Len(longer) : j < i => source \notin longer[j].sources
    <3>1. \A j \in 1..Len(longer) : j < i => j \in 1..size /\ longer[j] = history[j]
      BY <1>2, <2>4
    <3>2. CASE i = size + 1
      <4>1. PICK source \in audit.sources : source \notin D!Known(history)
        BY <1>2, <2>1, <2>4, <3>2
      <4>2. \A j \in 1..size : source \notin history[j].sources
        BY <1>1, <4>1 DEF D!Known
      <4> QED
        BY <1>2, <3>1, <3>2, <4>1, <4>2
    <3>3. CASE i \in 1..size
      <4>1. PICK source \in history[i].sources :
              \A j \in 1..size : j < i => source \notin history[j].sources
        BY <1>1, <1>2, <2>4, <3>3 DEF Sound
      <4> QED
        BY <1>2, <3>1, <3>3, <4>1
    <3> QED
      BY <1>2, <3>2, <3>3
  <2> QED
    BY <1>1, <1>2, <2>2, <2>3, <2>4 DEF Sound
<1> QED
  BY <1>3, <1>4

LEMMA DisputeStep == DisputeInv /\ D!CNext => DisputeInv'
<1> SUFFICES ASSUME DisputeInv, D!CNext
             PROVE  DisputeInv'
  OBVIOUS
\* A step of c that writes nothing.
<1>1. ASSUME NEW c \in Clients, NEW now, D!Becomes(c, now)
      PROVE  /\ call' = [v \in Clients |-> call'[v]]
             /\ call'[c] = now
             /\ \A v \in Clients \ {c} : call'[v] = call[v] /\ DisputeCall(v)'
  <2>1. /\ call' = [v \in Clients |-> call'[v]]
        /\ call'[c] = now
        /\ \A v \in Clients \ {c} : call'[v] = call[v]
    BY <1>1 DEF D!Becomes, DisputeInv
  <2>2. ASSUME NEW v \in Clients \ {c}
        PROVE  DisputeCall(v)'
    BY <2>1, <2>2 DEF DisputeCall, DisputeInv
  <2> QED
    BY <2>1, <2>2
<1>2. ASSUME NEW c \in Clients, NEW now, D!Becomes(c, now), UNCHANGED cases,
             call'[c] = now => DisputeCall(c)'
      PROVE  DisputeInv'
  BY <1>1, <1>2 DEF DisputeInv
<1>3. ASSUME NEW c \in Clients, D!Becomes(c, D!Idle), UNCHANGED cases
      PROVE  DisputeInv'
  BY <1>2, <1>3 DEF DisputeCall
<1>4. ASSUME NEW c \in Clients, NEW left, Disputable(left),
             D!Becomes(c, [pc |-> "detect", left |-> left]), UNCHANGED cases
      PROVE  DisputeInv'
  <2>1. call'[c] = [pc |-> "detect", left |-> left] => DisputeCall(c)'
    BY <1>4 DEF DisputeCall
  <2> QED
    BY <1>2, <1>4, <2>1
<1>5. ASSUME NEW c \in Clients, NEW k \in D!Cases, NEW audit \in Audits, NEW left, Disputable(left),
             Sound(k, Append(cases[k], audit)), D!Writing(c, k, audit, left), UNCHANGED cases
      PROVE  DisputeInv'
  <2>1. PICK draft : draft = [cases EXCEPT ![k] = Append(@, audit)]
    OBVIOUS
  <2>2. draft \in [D!Cases -> Seq(Audits)] /\ \A l \in D!Cases : Sound(l, draft[l])
    <3>1. cases[k] \in Seq(Audits) /\ Append(cases[k], audit) \in Seq(Audits)
      BY <1>5 DEF DisputeInv
    <3> QED
      BY <1>5, <2>1, <3>1 DEF DisputeInv
  <2>3. D!Becomes(c, [pc |-> "write", left |-> left, draft |-> draft])
    BY <1>5, <2>1 DEF D!Writing
  <2>4. call'[c] = [pc |-> "write", left |-> left, draft |-> draft] => DisputeCall(c)'
    BY <1>5, <2>2 DEF DisputeCall
  <2> QED
    BY <1>2, <1>5, <2>3, <2>4
<1>6. ASSUME NEW c \in Clients, NEW s \in Snapshots, D!Detect(c, s)
      PROVE  DisputeInv'
  <2>1. Disputable(D!Found(s))
    <3>1. ASSUME NEW k \in D!Found(s)
          PROVE  k \in D!Cases /\ k \in D!Found(k[1])
      <4>1. k \in {s} \X D!Topics /\ k[1] = s
        BY DEF D!Found
      <4> QED
        BY <4>1 DEF D!Cases
    <3> QED
      BY <3>1 DEF Disputable
  <2> QED
    BY <1>4, <1>6, <2>1 DEF D!Detect
<1>7. ASSUME NEW c \in Clients, NEW k \in D!Cases, D!SaveDetected(c, k)
      PROVE  DisputeInv'
  <2>1. PICK left : Disputable(left) /\ call[c] = [pc |-> "detect", left |-> left] /\ k \in left
    BY <1>7 DEF D!SaveDetected, DisputeInv, DisputeCall, D!Idle
  <2>2. Disputable(left \ {k}) /\ k \in D!Found(k[1])
    BY <2>1 DEF Disputable
  <2>3. CASE cases[k] = <<>>
    <3>1. D!Detected(k) \in Audits
      BY DEF D!Detected, Audits, Foundations
    <3>2. Sound(k, Append(cases[k], D!Detected(k)))
      BY <2>2, <2>3, <3>1, SoundAppend DEF DisputeInv
    <3>3. D!Writing(c, k, D!Detected(k), left \ {k}) /\ UNCHANGED cases
      BY <1>7, <2>1, <2>3 DEF D!SaveDetected
    <3> QED
      BY <1>5, <2>2, <3>1, <3>2, <3>3
  <2>4. CASE cases[k] # <<>>
    <3>1. D!Becomes(c, [call[c] EXCEPT !.left = left \ {k}]) /\ UNCHANGED cases
      BY <1>7, <2>1, <2>4 DEF D!SaveDetected
    <3>2. [call[c] EXCEPT !.left = left \ {k}] = [pc |-> "detect", left |-> left \ {k}]
      BY <2>1
    <3> QED
      BY <1>4, <2>2, <3>1, <3>2
  <2> QED
    BY <2>3, <2>4
<1>8. ASSUME NEW c \in Clients, NEW k \in D!Cases, NEW e \in Evidence,
             NEW action \in {"RESOLVED", "REOPENED", "SUPERSEDED"}, D!Decide(c, k, action, e)
      PROVE  DisputeInv'
  <2>1. PICK now : now = [pc |-> "append", left |-> {}, case |-> k, seen |-> cases[k],
                          action |-> action, with |-> e]
    OBVIOUS
  <2>2. call'[c] = now => DisputeCall(c)'
    BY <2>1 DEF DisputeCall
  <2> QED
    BY <1>2, <1>8, <2>1, <2>2 DEF D!Decide
<1>9. ASSUME NEW c \in Clients, D!AppendTransition(c)
      PROVE  DisputeInv'
  <2>1. /\ call[c].case \in D!Cases /\ call[c].with \in Evidence
        /\ call[c].action \in {"RESOLVED", "REOPENED", "SUPERSEDED"}
    BY <1>9 DEF D!AppendTransition, DisputeInv, DisputeCall, D!Idle
  <2>2. PICK k \in D!Cases, e \in Evidence, action \in {"RESOLVED", "REOPENED", "SUPERSEDED"} :
          k = call[c].case /\ e = call[c].with /\ action = call[c].action
    BY <2>1
  <2>3. UNCHANGED cases
    BY <1>9 DEF D!AppendTransition
  <2>4. \/ D!Becomes(c, D!Idle)
        \/ D!Legal(cases[k], action, e) /\ D!Writing(c, k, D!Audit(action, e), {})
    BY <1>9, <2>2 DEF D!AppendTransition
  <2>5. ASSUME D!Legal(cases[k], action, e)
        PROVE  D!Audit(action, e) \in Audits /\ Sound(k, Append(cases[k], D!Audit(action, e)))
    <3>1. D!Audit(action, e) \in Audits
      BY DEF D!Audit, Audits, Foundations
    <3>2. /\ cases[k] # <<>> /\ D!Follows(cases[k][Len(cases[k])].action, action)
          /\ action = "REOPENED" => ~ (Grounds[e] \subseteq D!Known(cases[k]))
      BY <2>5 DEF D!Legal, D!New
    <3>3. D!Audit(action, e).action = action /\ D!Audit(action, e).sources = Grounds[e]
      BY DEF D!Audit
    <3> QED
      BY <3>1, <3>2, <3>3, SoundAppend DEF DisputeInv
  <2>6. Disputable({})
    BY DEF Disputable
  <2> QED
    BY <1>3, <1>5, <2>3, <2>4, <2>5, <2>6
<1>10. ASSUME NEW c \in Clients, D!Write(c)
       PROVE  DisputeInv'
  <2>1. /\ Disputable(call[c].left)
        /\ call[c].draft \in [D!Cases -> Seq(Audits)]
        /\ \A k \in D!Cases : Sound(k, call[c].draft[k])
    BY <1>10 DEF D!Write, DisputeInv, DisputeCall, D!Idle
  <2>2. PICK left : left = call[c].left
    OBVIOUS
  <2>3. D!Becomes(c, D!Idle) \/ D!Becomes(c, [pc |-> "detect", left |-> left])
    BY <1>10, <2>2 DEF D!Write
  <2>4. call'[c] = D!Idle \/ call'[c] = [pc |-> "detect", left |-> left]
    BY <1>1, <2>3
  <2>5. DisputeCall(c)'
    BY <2>1, <2>2, <2>4 DEF DisputeCall
  <2>6. /\ call' = [v \in Clients |-> call'[v]]
        /\ \A v \in Clients \ {c} : DisputeCall(v)'
    BY <1>1, <2>3
  <2>7. cases' \in [D!Cases -> Seq(Audits)] /\ \A k \in D!Cases : Sound(k, cases'[k])
    BY <1>10, <2>1 DEF D!Write
  <2> QED
    BY <2>5, <2>6, <2>7 DEF DisputeInv
<1>11. ASSUME NEW e \in Evidence, D!Reconsider(e)
       PROVE  DisputeInv'
  BY <1>11 DEF D!Reconsider, DisputeInv, DisputeCall
<1> QED
  BY <1>3, <1>6, <1>7, <1>8, <1>9, <1>10, <1>11 DEF D!CNext, D!Detection, D!Raise

LEMMA DisputeInvariance == SSpec => []DisputeInv
<1>1. SInit => DisputeInv
  <2> SUFFICES ASSUME D!CInit PROVE DisputeInv
    BY DEF SInit
  <2>1. \A k \in D!Cases : Sound(k, <<>>)
    BY DEF Sound
  <2> QED
    BY <2>1 DEF D!CInit, DisputeInv, DisputeCall
<1>2. DisputeInv /\ [SNext]_<<focus, vars, gvars, cvars, dvars>> => DisputeInv'
  <2> SUFFICES ASSUME DisputeInv, [SNext]_<<focus, vars, gvars, cvars, dvars>>
               PROVE  DisputeInv'
    OBVIOUS
  <2>1. CASE UNCHANGED dvars
    BY <2>1 DEF dvars, DisputeInv, DisputeCall
  <2>2. CASE D!CNext
    BY <2>2, DisputeStep
  <2> QED
    BY <2>1, <2>2 DEF SNext, Spend, Grow, Think, Dispute
<1> QED
  BY <1>1, <1>2, PTL DEF SSpec

\* However the writers of one document overwrite each other, every case in it can be read again
\* (save_detected, append_transition, _records).
THEOREM DisputesStayLegal == SSpec => []HistoriesAreLegal
<1>1. DisputeInv => HistoriesAreLegal
  BY DEF DisputeInv, Sound, HistoriesAreLegal, D!HistoriesAreLegal
<1> QED
  BY <1>1, DisputeInvariance, PTL

\* Each reopening rests on a source that is neither a claim of the case nor what it was decided by
\* before (reopen), whatever the evidence shares.
THEOREM ReopeningsAreNews == SSpec => []ReopenedOnNews
<1>1. DisputeInv => ReopenedOnNews
  <2> SUFFICES ASSUME DisputeInv, NEW k \in D!Cases, NEW i \in 1..Len(cases[k]),
                      cases[k][i].action = "REOPENED"
               PROVE  \E source \in cases[k][i].sources :
                        source \notin D!Known(SubSeq(cases[k], 1, i - 1))
    BY DEF ReopenedOnNews, D!ReopenedOnNews
  <2>1. PICK history : history = cases[k]
    OBVIOUS
  <2>2. history \in Seq(Audits) /\ Sound(k, history)
    BY <2>1 DEF DisputeInv
  <2>3. PICK before : before = SubSeq(history, 1, i - 1)
    OBVIOUS
  <2>4. Len(before) = i - 1 /\ \A j \in 1..(i - 1) : before[j] = history[j]
    BY <2>1, <2>2, <2>3
  <2>5. \A j \in 1..Len(before) : j \in 1..Len(history) /\ j < i
    BY <2>1, <2>2, <2>4
  <2>6. PICK source \in history[i].sources :
          \A j \in 1..Len(before) : source \notin before[j].sources
    BY <2>1, <2>2, <2>4, <2>5 DEF Sound
  <2>7. source \notin D!Known(before)
    BY <2>6 DEF D!Known
  <2> QED
    BY <2>1, <2>3, <2>6, <2>7
<1> QED
  BY <1>1, DisputeInvariance, PTL

-----------------------------------------------------------------------------
(* Growth.                                                                 *)

GrowthTypes ==
  /\ command = [c \in Commands |-> command[c]]
  /\ preparation = [c \in Commands |-> preparation[c]]
  /\ resolution \in [Commands -> {"NONE", "COMMITTED", "SUPERSEDED"}]
  /\ active \subseteq Commands
  /\ subject = [revision |-> subject.revision, traits |-> subject.traits, fact |-> subject.fact]
  /\ subject.fact = [c \in Commands |-> subject.fact[c]]
  /\ subject.revision \in Nat

\* Command r asks that trait t be withdrawn.
Against(r, t) == command[r].operation = "ROLLBACK" /\ command[r].trait = t

\* A command asks for something; a withdrawal, for that of a trait prepared for its learning.
Ordered(c) ==
  /\ command[c].operation \in {"NONE", "SOLIDIFY", "ROLLBACK"}
  /\ command[c].operation = "NONE" => command[c] = G!NotIssued
  /\ command[c].operation = "ROLLBACK" =>
       /\ command[c].trait \in Commands /\ G!Prepared(command[c].trait)
       /\ G!Solidifies(command[c].trait)
       /\ command[command[c].trait].learning = command[c].learning

Unresolved(c) == G!Prepared(c) /\ resolution[c] = "NONE"

Recorded(c) ==
  /\ G!Prepared(c) => command[c].operation # "NONE"
  /\ G!Evolved(c) => G!Prepared(c)
  /\ resolution[c] # "NONE" => G!Prepared(c) /\ (resolution[c] = "COMMITTED") = G!Evolved(c)

SubmissionInv ==
  \/ submission = G!Idle
  \/ \E c \in Commands, step \in {"settle", "confirm", "evolve", "finish"} :
       /\ submission = [step |-> step, command |-> c]
       /\ step = "settle" => command[c].operation # "NONE" /\ ~ G!Prepared(c)
       /\ step \in {"confirm", "evolve"} => Unresolved(c) /\ ~ G!Evolved(c)
       /\ step = "finish" => Unresolved(c) /\ G!Evolved(c)

\* One thing at a time is left to resolve of a learning.
OneLeft ==
  \A p, q \in Commands :
    Unresolved(p) /\ Unresolved(q) /\ command[p].learning = command[q].learning => p = q

\* What is proposed is not yet on record, nor is anything else of its learning; what is to be
\* withdrawn still is on record.
LeftFits ==
  \A p \in Commands :
    Unresolved(p) =>
      /\ G!Solidifies(p) => \A t \in active : command[t].learning # command[p].learning
      /\ ~ G!Solidifies(p) => command[p].trait \in active

\* The traits on record were committed, and no withdrawal of them was.
ActiveFits ==
  /\ \A t \in active : G!Solidifies(t) /\ resolution[t] = "COMMITTED"
  /\ \A r, t \in Commands :
       G!Prepared(r) /\ Against(r, t) =>
         resolution[t] = "COMMITTED" /\ (resolution[r] = "COMMITTED" => t \notin active)
  /\ \A t \in Commands :
       G!Solidifies(t) /\ resolution[t] = "COMMITTED" /\ t \notin active =>
         \E r \in Commands : Against(r, t) /\ G!Prepared(r) /\ G!Evolved(r)

GrowthInv ==
  /\ GrowthTypes
  /\ \A c \in Commands : Ordered(c) /\ Recorded(c)
  /\ SubmissionInv /\ OneLeft /\ LeftFits /\ ActiveFits
  /\ OneActiveTrait

\* What the invariant speaks of is as it was.
LEMMA GrowthRests ==
  ASSUME GrowthInv, UNCHANGED <<command, preparation, resolution, active>>, SubmissionInv',
         subject' = [revision |-> subject'.revision, traits |-> subject'.traits, fact |-> subject.fact],
         subject'.revision \in Nat
  PROVE  GrowthInv'
<1>1. subject'.fact = subject.fact
  OBVIOUS
<1>2. GrowthTypes'
  BY <1>1 DEF GrowthInv, GrowthTypes
<1>3. (\A c \in Commands : Ordered(c) /\ Recorded(c))'
  BY <1>1 DEF GrowthInv, Ordered, Recorded, G!Prepared, G!Evolved, G!Solidifies
<1>4. OneLeft' /\ LeftFits' /\ OneActiveTrait'
  BY <1>1 DEF GrowthInv, OneLeft, LeftFits, Unresolved, OneActiveTrait, G!OneActiveTrait, G!Prepared,
              G!Solidifies
<1>5. ActiveFits'
  BY <1>1 DEF GrowthInv, ActiveFits, Against, G!Prepared, G!Evolved, G!Solidifies
<1> QED
  BY <1>2, <1>3, <1>4, <1>5 DEF GrowthInv

\* A preparation that is left is resolved by what became of it.
LEMMA ResolutionFits ==
  ASSUME GrowthInv, NEW p \in Commands, Unresolved(p), NEW outcome \in {"COMMITTED", "SUPERSEDED"},
         G!Resolve(p, outcome), SubmissionInv'
  PROVE  GrowthInv'
<1>1. /\ GrowthTypes /\ (outcome = "COMMITTED") = G!Evolved(p)
      /\ resolution' = [resolution EXCEPT ![p] = outcome]
      /\ active' = G!ActiveAfter(p, outcome)
      /\ UNCHANGED <<command, preparation, subject>>
  BY DEF G!Resolve, GrowthInv
<1>2. /\ resolution' \in [Commands -> {"NONE", "COMMITTED", "SUPERSEDED"}]
      /\ resolution'[p] = outcome
      /\ \A c \in Commands \ {p} : resolution'[c] = resolution[c]
  BY <1>1 DEF GrowthTypes
<1>3. /\ Ordered(p) /\ Recorded(p) /\ G!Prepared(p) /\ resolution[p] = "NONE"
  BY DEF GrowthInv, Unresolved
<1>4. \/ G!Solidifies(p) /\ outcome = "COMMITTED" /\ active' = active \cup {p}
      \/ G!Solidifies(p) /\ outcome = "SUPERSEDED" /\ active' = active
      \/ /\ ~ G!Solidifies(p) /\ outcome = "COMMITTED"
         /\ active' = active \ {command[p].trait}
      \/ ~ G!Solidifies(p) /\ outcome = "SUPERSEDED" /\ active' = active
  <2>1. p \notin active
    BY <1>3 DEF GrowthInv, ActiveFits
  <2>2. ~ G!Solidifies(p) => command[p].trait \in active
    BY DEF GrowthInv, LeftFits
  <2>3. active \ {p} = active
    BY <2>1
  <2>4. ~ G!Solidifies(p) => active \cup {command[p].trait} = active
    BY <2>2
  <2>5. CASE G!Solidifies(p)
    BY <1>1, <2>3, <2>5 DEF G!ActiveAfter
  <2>6. CASE ~ G!Solidifies(p)
    BY <1>1, <2>4, <2>6 DEF G!ActiveAfter, G!Solidifies
  <2> QED
    BY <2>5, <2>6
<1>5. ~ G!Solidifies(p) =>
        /\ Against(p, command[p].trait) /\ command[p].trait \in Commands
        /\ G!Solidifies(command[p].trait) /\ command[p].trait # p
        /\ command[command[p].trait].learning = command[p].learning
  BY <1>3 DEF Ordered, Recorded, Against, G!Solidifies
<1>6. GrowthTypes'
  BY <1>1, <1>2, <1>4, <1>5 DEF GrowthTypes
<1>7. (\A c \in Commands : Ordered(c) /\ Recorded(c))'
  <2>1. (\A c \in Commands : Ordered(c))'
    BY <1>1 DEF GrowthInv, Ordered, G!Prepared, G!Solidifies
  <2>2. (\A c \in Commands : Recorded(c))'
    BY <1>1, <1>2, <1>3 DEF GrowthInv, Recorded, G!Prepared, G!Evolved
  <2> QED
    BY <2>1, <2>2
<1>8. \A c \in Commands : Unresolved(c)' => c # p /\ Unresolved(c)
  BY <1>1, <1>2 DEF Unresolved, G!Prepared
<1>9. OneLeft'
  BY <1>1, <1>8 DEF GrowthInv, OneLeft
<1>10. LeftFits'
  <2> SUFFICES ASSUME NEW q \in Commands, Unresolved(q)'
               PROVE  /\ G!Solidifies(q)' => \A t \in active' : command'[t].learning # command'[q].learning
                      /\ ~ G!Solidifies(q)' => command'[q].trait \in active'
    BY DEF LeftFits
  <2>1. Unresolved(q) /\ q # p /\ command[q].learning # command[p].learning
    BY <1>8 DEF GrowthInv, OneLeft
  <2>2. /\ G!Solidifies(q) => \A t \in active : command[t].learning # command[q].learning
        /\ ~ G!Solidifies(q) => command[q].trait \in active
        /\ ~ G!Solidifies(q) => command[command[q].trait].learning = command[q].learning
    BY <2>1 DEF GrowthInv, LeftFits, Ordered, Recorded, Unresolved, G!Solidifies
  <2>3. \A t \in active' : t \in active \/ t = p
    BY <1>4
  <2>4. command[q].trait \in active /\ ~ G!Solidifies(q) => command[q].trait \in active'
    BY <1>4, <1>5, <2>1, <2>2
  <2> QED
    BY <1>1, <2>1, <2>2, <2>3, <2>4 DEF G!Solidifies
<1>11. OneActiveTrait'
  BY <1>1, <1>4 DEF GrowthInv, OneActiveTrait, G!OneActiveTrait, LeftFits
<1>12. ActiveFits'
  <2>1. (\A t \in active : G!Solidifies(t) /\ resolution[t] = "COMMITTED")'
    BY <1>1, <1>2, <1>3, <1>4 DEF GrowthInv, GrowthTypes, ActiveFits, G!Solidifies
  <2>2. ASSUME NEW r \in Commands, NEW t \in Commands, G!Prepared(r)', Against(r, t)'
        PROVE  resolution'[t] = "COMMITTED" /\ (resolution'[r] = "COMMITTED" => t \notin active')
    <3>1. G!Prepared(r) /\ Against(r, t) /\ t # p
      BY <1>1, <1>3, <2>2 DEF G!Prepared, Against, GrowthInv, ActiveFits
    <3>2. resolution[t] = "COMMITTED" /\ (resolution[r] = "COMMITTED" => t \notin active)
      BY <3>1 DEF GrowthInv, ActiveFits
    <3>3. r = p => ~ G!Solidifies(p) /\ command[p].trait = t
      BY <3>1 DEF Against, G!Solidifies
    <3> QED
      BY <1>2, <1>4, <3>1, <3>2, <3>3
  <2>3. ASSUME NEW t \in Commands, G!Solidifies(t)', resolution'[t] = "COMMITTED", t \notin active'
        PROVE  (\E r \in Commands : Against(r, t) /\ G!Prepared(r) /\ G!Evolved(r))'
    <3>1. G!Solidifies(t)
      BY <1>1, <2>3 DEF G!Solidifies
    <3>2. t # p
      BY <1>2, <1>4, <2>3, <3>1
    <3>3. resolution[t] = "COMMITTED"
      BY <1>2, <2>3, <3>2
    <3>4. \E r \in Commands : Against(r, t) /\ G!Prepared(r) /\ G!Evolved(r)
      <4>1. CASE t \in active
        <5>1. Against(p, t) /\ outcome = "COMMITTED"
          BY <1>4, <1>5, <2>3, <4>1
        <5> QED
          BY <1>1, <1>3, <5>1
      <4>2. CASE t \notin active
        BY <3>1, <3>3, <4>2 DEF GrowthInv, ActiveFits
      <4> QED
        BY <4>1, <4>2
    <3> QED
      BY <1>1, <3>4 DEF Against, G!Prepared, G!Evolved
  <2> QED
    BY <2>1, <2>2, <2>3 DEF ActiveFits
<1> QED
  BY <1>6, <1>7, <1>9, <1>10, <1>11, <1>12 DEF GrowthInv

LEMMA GrowthStep == GrowthInv /\ G!GNext => GrowthInv'
<1> SUFFICES ASSUME GrowthInv, G!GNext
             PROVE  GrowthInv'
  OBVIOUS
<1> USE DEF G!At, G!Goes
\* A step that leaves the SubjectState, and what was prepared, alone.
<1>1. ASSUME UNCHANGED <<command, preparation, resolution, active, subject>>, SubmissionInv'
      PROVE  GrowthInv'
  BY <1>1, GrowthRests DEF GrowthInv, GrowthTypes
<1>2. ASSUME UNCHANGED <<command, preparation, resolution, subject, submission>>
      PROVE  SubmissionInv'
  BY <1>2 DEF GrowthInv, SubmissionInv, Unresolved, G!Prepared, G!Evolved
<1>3. ASSUME NEW l \in Learnings,
             \/ G!Capture(l) \/ G!Adjust(l) \/ G!Reject(l) \/ G!Revoke(l)
             \/ \E evidence \in SUBSET Learnings : G!Validate(l, evidence)
      PROVE  GrowthInv'
  <2>1. UNCHANGED <<command, preparation, resolution, active, subject, submission>>
    BY <1>3 DEF G!Capture, G!Adjust, G!Reject, G!Revoke, G!Validate, G!Learn
  <2> QED
    BY <1>1, <1>2, <2>1
<1>4. ASSUME NEW c \in Commands, G!Issue(c)
      PROVE  GrowthInv'
  <2>1. /\ command[c] = G!NotIssued /\ command[c].operation = "NONE"
        /\ UNCHANGED <<preparation, resolution, active, subject, submission>>
    BY <1>4 DEF G!Issue, G!NotIssued
  <2>2. PICK order :
          /\ command' = [command EXCEPT ![c] = order]
          /\ \/ order.operation = "SOLIDIFY"
             \/ /\ order.operation = "ROLLBACK" /\ order.trait \in Commands
                /\ G!Prepared(order.trait) /\ G!Solidifies(order.trait)
                /\ command[order.trait].learning = order.learning
    <3>1. PICK l \in Learnings :
            \/ command' = [command EXCEPT ![c] =
                  [operation |-> "SOLIDIFY", learning |-> l, expected |-> subject.revision]]
            \/ \E t \in Commands :
                 /\ G!Prepared(t) /\ G!Solidifies(t) /\ command[t].learning = l
                 /\ command' = [command EXCEPT ![c] =
                      [operation |-> "ROLLBACK", learning |-> l, expected |-> subject.revision,
                       trait |-> t]]
      BY <1>4 DEF G!Issue
    <3> QED
      BY <3>1
  <2>3. /\ command' = [v \in Commands |-> command'[v]]
        /\ command'[c] = order
        /\ \A v \in Commands \ {c} : command'[v] = command[v]
    BY <2>2 DEF GrowthInv, GrowthTypes
  <2>4. ~ G!Prepared(c) /\ \A v \in Commands : G!Prepared(v)' = G!Prepared(v)
    BY <2>1 DEF GrowthInv, Recorded, G!Prepared
  <2>5. GrowthTypes'
    BY <2>1, <2>3 DEF GrowthInv, GrowthTypes
  <2>6. (\A v \in Commands : Ordered(v))'
    <3> SUFFICES ASSUME NEW v \in Commands PROVE Ordered(v)'
      OBVIOUS
    <3>1. CASE v = c
      <4>1. order.operation = "ROLLBACK" => order.trait # c
        BY <2>2, <2>4
      <4> QED
        BY <2>2, <2>3, <2>4, <3>1, <4>1 DEF Ordered, G!Solidifies
    <3>2. CASE v # c
      <4>1. Ordered(v) /\ (command[v].operation = "ROLLBACK" => command[v].trait # c)
        BY <2>4 DEF GrowthInv, Ordered
      <4> QED
        BY <2>3, <2>4, <3>2, <4>1 DEF Ordered, G!Solidifies
    <3> QED
      BY <3>1, <3>2
  <2>7. (\A v \in Commands : Recorded(v))'
    BY <2>1, <2>2, <2>3, <2>4 DEF GrowthInv, Recorded, G!Evolved
  <2>8. SubmissionInv'
    BY <2>1, <2>3, <2>4 DEF GrowthInv, SubmissionInv, Unresolved, G!Evolved
  <2>9. \A t \in Commands : G!Prepared(t) \/ resolution[t] # "NONE" => t # c
    BY <2>4 DEF GrowthInv, Recorded
  <2>10. \A t \in active : t # c
    BY <2>9 DEF GrowthInv, ActiveFits
  <2>11. OneLeft' /\ LeftFits' /\ OneActiveTrait'
    <3>1. \A v \in Commands : Unresolved(v)' => Unresolved(v) /\ v # c
      BY <2>1, <2>4 DEF Unresolved
    <3>2. active \subseteq Commands /\ active' = active
      BY <2>1 DEF GrowthInv, GrowthTypes
    <3>3. OneLeft'
      BY <2>3, <3>1 DEF GrowthInv, OneLeft
    <3>4. LeftFits'
      BY <2>3, <2>10, <3>1, <3>2 DEF GrowthInv, LeftFits, G!Solidifies
    <3>5. OneActiveTrait'
      BY <2>3, <2>10, <3>2 DEF GrowthInv, OneActiveTrait, G!OneActiveTrait
    <3> QED
      BY <3>3, <3>4, <3>5
  <2>12. ActiveFits'
    BY <2>1, <2>3, <2>4, <2>9, <2>10
       DEF GrowthInv, GrowthTypes, ActiveFits, Against, G!Solidifies, G!Evolved
  <2> QED
    BY <2>5, <2>6, <2>7, <2>8, <2>11, <2>12 DEF GrowthInv
<1>5. ASSUME NEW c \in Commands, G!Submit(c)
      PROVE  GrowthInv'
  <2>1. UNCHANGED <<command, preparation, resolution, active, subject>>
    BY <1>5 DEF G!Submit
  <2>2. command[c].operation # "NONE"
    BY <1>5 DEF G!Submit, GrowthInv, Ordered
  <2>3. \/ G!Prepared(c) /\ G!Evolved(c) /\ resolution[c] = "NONE" /\ G!Goes(c, "finish")
        \/ G!Prepared(c) /\ ~ G!Evolved(c) /\ resolution[c] = "NONE" /\ G!Goes(c, "confirm")
        \/ ~ G!Prepared(c) /\ G!Goes(c, "settle")
    BY <1>5 DEF G!Submit, G!Open
  <2>4. SubmissionInv'
    BY <2>1, <2>2, <2>3 DEF SubmissionInv, Unresolved, G!Prepared, G!Evolved
  <2> QED
    BY <1>1, <2>1, <2>4
<1>6. ASSUME NEW c \in Commands, G!Settle(c)
      PROVE  GrowthInv'
  <2>1. PICK p \in G!Left(c) : G!Resolve(p, G!Outcome(p))
    BY <1>6 DEF G!Settle
  <2>2. p \in Commands /\ Unresolved(p) /\ G!Outcome(p) \in {"COMMITTED", "SUPERSEDED"}
    BY DEF G!Left, G!Outcome, Unresolved
  <2>3. submission = [step |-> "settle", command |-> c] /\ UNCHANGED submission
    BY <1>6 DEF G!Settle
  <2>4. command[c].operation # "NONE" /\ ~ G!Prepared(c)
    BY <2>3 DEF GrowthInv, SubmissionInv, G!Idle
  <2>5. UNCHANGED <<command, preparation>>
    BY <2>1 DEF G!Resolve
  <2>6. SubmissionInv'
    BY <2>3, <2>4, <2>5 DEF SubmissionInv, G!Prepared
  <2> QED
    BY <2>1, <2>2, <2>6, ResolutionFits
<1>7. ASSUME NEW c \in Commands, G!Prepare(c)
      PROVE  GrowthInv'
  <2>1. /\ submission = [step |-> "settle", command |-> c]
        /\ submission' = [step |-> "confirm", command |-> c]
        /\ UNCHANGED <<command, resolution, active, subject>>
    BY <1>7 DEF G!Prepare
  <2>2. command[c].operation # "NONE" /\ ~ G!Prepared(c)
    BY <2>1 DEF GrowthInv, SubmissionInv, G!Idle
  <2>3. ~ G!Evolved(c) /\ resolution[c] = "NONE"
    BY <2>2 DEF GrowthInv, Recorded
  <2>4. PICK with : preparation' = [preparation EXCEPT ![c] = with] /\ with # G!NotPrepared
    <3>1. PICK confidence, evidence :
            /\ confidence = IF G!Solidifies(c) THEN G!Support(command[c].learning) ELSE 0
            /\ preparation' = [preparation EXCEPT ![c] =
                 [before |-> subject.traits, confidence |-> confidence, evidence |-> evidence]]
      BY <1>7 DEF G!Prepare
    <3>2. confidence # -1
      BY <1>7, <3>1 DEF G!Prepare, G!Supported
    <3>5. [before |-> subject.traits, confidence |-> confidence, evidence |-> evidence] # G!NotPrepared
      BY <3>2 DEF G!NotPrepared
    <3> QED
      BY <3>1, <3>5
  <2>5. /\ preparation' = [v \in Commands |-> preparation'[v]]
        /\ G!Prepared(c)' /\ \A v \in Commands \ {c} : G!Prepared(v)' = G!Prepared(v)
    BY <2>4 DEF GrowthInv, GrowthTypes, G!Prepared
  <2>6. \A p \in Commands : Unresolved(p) => command[p].learning # command[c].learning
    BY <1>7 DEF G!Prepare, G!Settled, G!Left, Unresolved
  <2>7. /\ G!Solidifies(c) => \A t \in active : command[t].learning # command[c].learning
        /\ ~ G!Solidifies(c) => /\ command[c].trait \in active
                               /\ resolution[command[c].trait] = "COMMITTED"
    BY <1>7 DEF G!Prepare, G!Consolidated, GrowthInv, ActiveFits
  <2>8. GrowthTypes'
    BY <2>1, <2>5 DEF GrowthInv, GrowthTypes
  <2>9. (\A v \in Commands : Ordered(v) /\ Recorded(v))'
    BY <2>1, <2>2, <2>3, <2>5 DEF GrowthInv, GrowthTypes, Ordered, Recorded, G!Solidifies, G!Evolved
  <2>10. Unresolved(c)' /\ \A v \in Commands \ {c} : Unresolved(v)' = Unresolved(v)
    BY <2>1, <2>3, <2>5 DEF Unresolved
  <2>11. SubmissionInv'
    BY <2>1, <2>3, <2>10 DEF SubmissionInv, G!Evolved
  <2>12. OneLeft' /\ LeftFits' /\ OneActiveTrait'
    BY <2>1, <2>6, <2>7, <2>10
       DEF GrowthInv, OneLeft, LeftFits, OneActiveTrait, G!OneActiveTrait, G!Solidifies
  <2>13. ActiveFits'
    <3>1. (\A t \in active : G!Solidifies(t) /\ resolution[t] = "COMMITTED")'
      BY <2>1 DEF GrowthInv, ActiveFits, G!Solidifies
    <3>2. ASSUME NEW r \in Commands, NEW t \in Commands, G!Prepared(r)', Against(r, t)'
          PROVE  resolution'[t] = "COMMITTED" /\ (resolution'[r] = "COMMITTED" => t \notin active')
      <4>1. Against(r, t)
        BY <2>1, <3>2 DEF Against
      <4>2. CASE r = c
        BY <2>1, <2>3, <2>7, <4>1, <4>2 DEF Against, G!Solidifies
      <4>3. CASE r # c
        BY <2>1, <2>5, <3>2, <4>1, <4>3 DEF GrowthInv, ActiveFits
      <4> QED
        BY <4>2, <4>3
    <3>3. ASSUME NEW t \in Commands, G!Solidifies(t)', resolution'[t] = "COMMITTED", t \notin active'
          PROVE  (\E r \in Commands : Against(r, t) /\ G!Prepared(r) /\ G!Evolved(r))'
      <4>1. PICK r \in Commands : Against(r, t) /\ G!Prepared(r) /\ G!Evolved(r)
        BY <2>1, <3>3 DEF GrowthInv, ActiveFits, G!Solidifies
      <4> QED
        BY <2>1, <2>5, <4>1 DEF Against, G!Evolved
    <3> QED
      BY <3>1, <3>2, <3>3 DEF ActiveFits
  <2> QED
    BY <2>8, <2>9, <2>11, <2>12, <2>13 DEF GrowthInv
<1>8. ASSUME NEW c \in Commands, G!Confirm(c)
      PROVE  GrowthInv'
  <2>1. /\ submission = [step |-> "confirm", command |-> c]
        /\ submission' = [step |-> "evolve", command |-> c]
        /\ UNCHANGED <<command, preparation, resolution, active, subject>>
    BY <1>8 DEF G!Confirm
  <2>2. Unresolved(c) /\ ~ G!Evolved(c)
    BY <2>1 DEF GrowthInv, SubmissionInv, G!Idle
  <2>3. SubmissionInv'
    BY <2>1, <2>2 DEF SubmissionInv, Unresolved, G!Prepared, G!Evolved
  <2> QED
    BY <1>1, <2>1, <2>3
<1>9. ASSUME NEW c \in Commands, G!Evolve(c)
      PROVE  GrowthInv'
  <2>1. /\ submission = [step |-> "evolve", command |-> c]
        /\ submission' = [step |-> "finish", command |-> c]
        /\ UNCHANGED <<command, preparation, resolution, active>>
    BY <1>9 DEF G!Evolve
  <2>2. Unresolved(c)
    BY <2>1 DEF GrowthInv, SubmissionInv, G!Idle
  <2>3. PICK traits, fact, revision :
          /\ subject' = [revision |-> revision, traits |-> traits, fact |-> fact]
          /\ fact = [subject.fact EXCEPT ![c] = subject.revision] /\ revision = subject.revision + 1
    BY <1>9 DEF G!Evolve
  <2>4. subject'.fact = fact /\ subject'.revision = revision /\ subject'.traits = traits
    BY <2>3
  <2>5. /\ subject.revision \in Nat /\ revision \in Nat /\ subject.revision # -1
        /\ fact = [v \in Commands |-> fact[v]] /\ fact[c] = subject.revision
        /\ \A v \in Commands \ {c} : fact[v] = subject.fact[v]
    BY <2>3 DEF GrowthInv, GrowthTypes
  <2>6. G!Evolved(c)' /\ \A v \in Commands \ {c} : G!Evolved(v)' = G!Evolved(v)
    BY <2>4, <2>5 DEF G!Evolved
  <2>7. GrowthTypes'
    BY <2>1, <2>3, <2>4, <2>5 DEF GrowthInv, GrowthTypes
  <2>8. (\A v \in Commands : Ordered(v))'
    BY <2>1 DEF GrowthInv, Ordered, G!Prepared, G!Solidifies
  <2>9. (\A v \in Commands : Recorded(v))'
    BY <2>1, <2>2, <2>6 DEF GrowthInv, Recorded, Unresolved, G!Prepared
  <2>10. \A v \in Commands : Unresolved(v)' = Unresolved(v)
    BY <2>1 DEF Unresolved, G!Prepared
  <2>11. SubmissionInv'
    BY <2>1, <2>2, <2>6, <2>10 DEF SubmissionInv
  <2>12. OneLeft' /\ LeftFits' /\ OneActiveTrait'
    BY <2>1, <2>10 DEF GrowthInv, OneLeft, LeftFits, OneActiveTrait, G!OneActiveTrait, G!Solidifies
  <2>13. ActiveFits'
    <3>1. \A v \in Commands : G!Evolved(v) => G!Evolved(v)'
      BY <2>6
    <3> QED
      BY <2>1, <3>1 DEF GrowthInv, ActiveFits, Against, G!Prepared, G!Solidifies
  <2> QED
    BY <2>7, <2>8, <2>9, <2>11, <2>12, <2>13 DEF GrowthInv
<1>10. ASSUME NEW c \in Commands, G!Finish(c)
       PROVE  GrowthInv'
  <2>1. /\ submission = [step |-> "finish", command |-> c] /\ submission' = G!Idle
        /\ G!Resolve(c, "COMMITTED")
    BY <1>10 DEF G!Finish
  <2>2. Unresolved(c)
    BY <2>1 DEF GrowthInv, SubmissionInv, G!Idle
  <2>3. SubmissionInv'
    BY <2>1 DEF SubmissionInv
  <2> QED
    BY <2>1, <2>2, <2>3, ResolutionFits
<1>11. CASE G!Break
  <2>1. SubmissionInv'
    BY <1>11 DEF G!Break, SubmissionInv
  <2> QED
    BY <1>1, <1>11, <2>1 DEF G!Break
<1>12. CASE G!Elsewhere
  <2>1. PICK traits, revision :
          /\ subject' = [subject EXCEPT !.revision = revision, !.traits = traits]
          /\ revision = subject.revision + 1
    BY <1>12 DEF G!Elsewhere
  <2>2. /\ subject = [revision |-> subject.revision, traits |-> subject.traits, fact |-> subject.fact]
        /\ revision \in Nat
    BY <2>1 DEF GrowthInv, GrowthTypes
  <2>3. subject' = [revision |-> revision, traits |-> traits, fact |-> subject.fact]
    BY <2>1, <2>2
  <2>4. subject'.revision = revision /\ subject'.traits = traits /\ subject'.fact = subject.fact
    BY <2>3
  <2>5. UNCHANGED <<command, preparation, resolution, active, submission>>
    BY <1>12 DEF G!Elsewhere
  <2>6. SubmissionInv'
    BY <2>4, <2>5 DEF GrowthInv, SubmissionInv, Unresolved, G!Prepared, G!Evolved
  <2> QED
    BY <2>2, <2>3, <2>4, <2>5, <2>6, GrowthRests
<1> QED
  BY <1>3, <1>4, <1>5, <1>6, <1>7, <1>8, <1>9, <1>10, <1>11, <1>12 DEF G!GNext

LEMMA GrowthInvariance == SSpec => []GrowthInv
<1>1. SInit => GrowthInv
  <2> SUFFICES ASSUME G!GInit PROVE GrowthInv
    BY DEF SInit
  <2>1. /\ command = [c \in Commands |-> G!NotIssued]
        /\ preparation = [c \in Commands |-> G!NotPrepared]
        /\ resolution = [c \in Commands |-> "NONE"]
        /\ active = {} /\ submission = G!Idle
    BY DEF G!GInit
  <2>2. PICK fact : /\ fact = [c \in Commands |-> -1]
                    /\ subject = [revision |-> 0, traits |-> {}, fact |-> fact]
    BY DEF G!GInit
  <2>3. subject.fact = fact /\ subject.revision = 0 /\ subject.traits = {}
    BY <2>2
  <2>4. GrowthTypes
    BY <2>1, <2>2, <2>3 DEF GrowthTypes
  <2>5. \A c \in Commands : ~ G!Prepared(c) /\ ~ G!Evolved(c) /\ command[c].operation = "NONE"
    BY <2>1, <2>2, <2>3 DEF G!Prepared, G!Evolved, G!NotIssued
  <2> QED
    BY <2>1, <2>4, <2>5
       DEF GrowthInv, Ordered, Recorded, SubmissionInv, OneLeft, LeftFits, ActiveFits, Unresolved,
           OneActiveTrait, G!OneActiveTrait, G!Solidifies
<1>2. GrowthInv /\ [SNext]_<<focus, vars, gvars, cvars, dvars>> => GrowthInv'
  <2> SUFFICES ASSUME GrowthInv, [SNext]_<<focus, vars, gvars, cvars, dvars>>
               PROVE  GrowthInv'
    OBVIOUS
  <2>1. CASE UNCHANGED gvars
    <3>1. UNCHANGED <<command, preparation, resolution, active, subject, submission>>
      BY <2>1 DEF gvars
    <3>2. SubmissionInv'
      BY <3>1 DEF GrowthInv, SubmissionInv, Unresolved, G!Prepared, G!Evolved
    <3> QED
      BY <3>1, <3>2, GrowthRests DEF GrowthInv, GrowthTypes
  <2>2. CASE G!GNext
    BY <2>2, GrowthStep
  <2> QED
    BY <2>1, <2>2 DEF SNext, Spend, Grow, Think, Dispute
<1> QED
  BY <1>1, <1>2, PTL DEF SSpec

\* The traits on record are those the SubjectState evolved with and was not told to withdraw, but
\* for what a crash left to resolve (submit, _settle_prepared).
THEOREM TraitsAreTraced == SSpec => []TraitsFollowFacts
<1>1. GrowthInv => TraitsFollowFacts
  <2> SUFFICES ASSUME GrowthInv, NEW t \in Commands, G!Prepared(t), G!Solidifies(t)
               PROVE  /\ t \in active =>
                           G!Evolved(t) /\ \A r \in Commands : G!Withdrew(r, t) => resolution[r] = "NONE"
                      /\ G!Evolved(t) /\ t \notin active =>
                           resolution[t] = "NONE" \/ \E r \in Commands : G!Withdrew(r, t)
    BY DEF TraitsFollowFacts, G!TraitsFollowFacts, G!Proposed
  <2>1. \A r \in Commands :
          G!Withdrew(r, t) <=> Against(r, t) /\ G!Prepared(r) /\ G!Evolved(r)
    BY DEF G!Withdrew, Against, G!Solidifies, GrowthInv, Ordered, Recorded
  <2>2. \A r \in Commands : Recorded(r) /\ resolution[r] \in {"NONE", "COMMITTED", "SUPERSEDED"}
    BY DEF GrowthInv, GrowthTypes
  <2>3. t \in active => G!Evolved(t)
    BY <2>2 DEF GrowthInv, ActiveFits, Recorded
  <2>4. ASSUME t \in active, NEW r \in Commands, G!Withdrew(r, t)
        PROVE  resolution[r] = "NONE"
    BY <2>1, <2>2, <2>4 DEF GrowthInv, ActiveFits, Recorded
  <2>5. ASSUME G!Evolved(t), t \notin active, resolution[t] # "NONE"
        PROVE  \E r \in Commands : G!Withdrew(r, t)
    BY <2>1, <2>2, <2>5 DEF GrowthInv, ActiveFits, Recorded
  <2> QED
    BY <2>3, <2>4, <2>5
<1> QED
  BY <1>1, GrowthInvariance, PTL

\* What was learnt is never a trait of the subject twice (submit, _validate_prepared).
THEOREM TraitsAreOne == SSpec => []OneActiveTrait
<1>1. GrowthInv => OneActiveTrait
  BY DEF GrowthInv
<1> QED
  BY <1>1, GrowthInvariance, PTL

\* What was superseded never evolves the SubjectState, and what was committed did
\* (_settle_prepared, _recover).
THEOREM ResolutionsStand == SSpec => []ResolvedForGood
<1>1. GrowthInv => ResolvedForGood
  BY DEF GrowthInv, Recorded, ResolvedForGood, G!ResolvedForGood
<1> QED
  BY <1>1, GrowthInvariance, PTL

-----------------------------------------------------------------------------
(* Context.                                                                *)

Shaped(w) ==
  w = [step |-> w.step, revision |-> w.revision, selected |-> w.selected, at |-> w.at,
       batch |-> w.batch, read |-> w.read, pool |-> w.pool, failed |-> w.failed,
       manifest |-> w.manifest, resolved |-> w.resolved, missing |-> w.missing, began |-> w.began]

\* Each reference is there, or may be missing.
Referenced(w, n) ==
  \A k \in 1..n : w.manifest[k] \in C!ToSet(w.resolved) \/ C!MayMiss(w.manifest[k])

\* A route that goes on to composition did not lose what is required.
Routed(w) ==
  /\ ~ w.failed
  /\ w.manifest \in Seq(w.pool) /\ w.resolved \in Seq(w.pool)
  /\ \A ref \in w.missing : C!MayMiss(ref)
  /\ w.step = "resolve" => w.at \in Nat \ {0} /\ Referenced(w, w.at - 1)

ContextInv ==
  /\ Shaped(work) /\ IsFiniteSet(work.pool)
  /\ work.step \in {"resolve", "composed", "used"} => Routed(work)
  /\ RequiredOrNothing

LEMMA ContextStep == ContextInv /\ C!CNext => ContextInv'
<1> SUFFICES ASSUME ContextInv, C!CNext
             PROVE  ContextInv'
  OBVIOUS
\* Before composition there is little to keep.
<1>1. ASSUME Shaped(work'), IsFiniteSet(work'.pool),
             work'.step \notin {"resolve", "composed", "used"}
      PROVE  ContextInv'
  BY <1>1 DEF ContextInv, RequiredOrNothing, C!RequiredOrNothing, Shaped
<1>2. Shaped(C!NoWork) /\ C!NoWork.pool = {} /\ C!NoWork.step = "idle"
  BY DEF Shaped, C!NoWork
<1>3. Shaped(C!Refused) /\ C!Refused.pool = {} /\ C!Refused.step = "refused"
  <2>1. PICK none : none = C!NoWork
    OBVIOUS
  <2>2. C!Refused = [none EXCEPT !.step = "refused"]
    BY <2>1 DEF C!Refused
  <2> QED
    BY <1>2, <2>1, <2>2 DEF Shaped
<1>4. IsFiniteSet({})
  BY FS_EmptySet
<1>5. ASSUME work' = C!Refused
      PROVE  ContextInv'
  BY <1>1, <1>3, <1>4, <1>5
<1>6. CASE UNCHANGED <<work, snapshot>>
  BY <1>6 DEF ContextInv, Shaped, Routed, Referenced, RequiredOrNothing, C!RequiredOrNothing, C!MayMiss,
              C!IsRequired, C!SourceOf, C!Sources, C!ItemsOf
<1>7. CASE C!Perceive
  <2>1. PICK revision, selected :
          work' = [C!NoWork EXCEPT !.step = "open", !.revision = revision, !.selected = selected]
    BY <1>7 DEF C!Perceive
  <2>2. work' = [step |-> "open", revision |-> revision, selected |-> selected, at |-> 1,
                 batch |-> << >>, read |-> << >>, pool |-> {}, failed |-> FALSE,
                 manifest |-> << >>, resolved |-> << >>, missing |-> {}, began |-> << >>]
    BY <2>1 DEF C!NoWork
  <2> QED
    BY <1>1, <1>4, <2>2 DEF Shaped
<1>8. CASE C!Open
  <2>1. \/ work' = [work EXCEPT !.step = "rank"]
        \/ \E batch : work' = [work EXCEPT !.step = "validate", !.batch = batch, !.read = batch]
        \/ \E at, failed : work.step = "open" /\ work' = [work EXCEPT !.at = at, !.failed = failed]
    BY <1>8 DEF C!Open
  <2>2. Shaped(work') /\ work'.pool = work.pool /\ work'.step \in {"open", "rank", "validate"}
    BY <2>1 DEF ContextInv, Shaped
  <2> QED
    BY <1>1, <2>2 DEF ContextInv
<1>9. CASE C!Validate
  <2>1. PICK rest, batch : batch = Tail(work.batch) /\ rest = [work EXCEPT !.batch = batch]
    OBVIOUS
  <2>2. /\ Shaped(rest) /\ rest.step = "validate" /\ rest.pool = work.pool
    BY <1>9, <2>1 DEF ContextInv, Shaped, C!Validate
  <2>3. \/ \E at : work' = [work EXCEPT !.step = "open", !.at = at]
        \/ \E pool, ref : pool = work.pool \cup {ref} /\ work' = [rest EXCEPT !.pool = pool]
        \/ work' = rest
        \/ \E failed : work' = [rest EXCEPT !.failed = failed]
    BY <1>9, <2>1, <2>2 DEF C!Validate
  <2>4. /\ Shaped(work') /\ work'.step \in {"open", "validate"}
        /\ work'.pool = work.pool \/ \E ref : work'.pool = work.pool \cup {ref}
    BY <2>2, <2>3 DEF ContextInv, Shaped
  <2>5. IsFiniteSet(work'.pool)
    BY <2>4, FS_AddElement DEF ContextInv
  <2> QED
    BY <1>1, <2>4, <2>5
<1>10. CASE C!Rank
  <2>1. CASE work.failed
    BY <1>5, <1>10, <2>1 DEF C!Rank
  <2>2. CASE ~ work.failed
    <3>1. PICK ranked, limit, manifest :
            /\ ranked \in C!SetToSeqs(work.pool)
            /\ limit = IF Len(ranked) < CandidateLimit THEN Len(ranked) ELSE CandidateLimit
            /\ manifest = SubSeq(ranked, 1, limit)
            /\ work' = C!Begins([work EXCEPT !.manifest = manifest])
            /\ UNCHANGED snapshot
      BY <1>10, <2>2 DEF C!Rank
    <3>2. PICK count : count = C!Cardinality(work.pool) /\ count \in Nat
      BY FS_CardinalityType DEF ContextInv, Cardinality, C!Cardinality
    <3>3. ranked \in Seq(work.pool)
      <4>1. ranked \in [1..count -> work.pool]
        BY <3>1, <3>2 DEF C!SetToSeqs
      <4> QED
        BY <3>2, <4>1
    <3>4. manifest \in Seq(work.pool)
      <4>1. limit \in Nat /\ limit <= Len(ranked)
        BY <3>1, <3>3, ContextAssumption
      <4>2. \A k \in 1..limit : ranked[k] \in work.pool
        BY <3>3, <4>1
      <4>3. 1 \in Int /\ limit \in Int
        BY <4>1
      <4>4. SubSeq(ranked, 1, limit) \in Seq(work.pool)
        BY <4>2, <4>3, SubSeqProperties, Zenon
      <4> QED
        BY <3>1, <4>4
    <3>5. work' = [step |-> "resolve", revision |-> work.revision, selected |-> work.selected, at |-> 1,
                   batch |-> work.batch, read |-> work.read, pool |-> work.pool,
                   failed |-> work.failed, manifest |-> manifest, resolved |-> << >>,
                   missing |-> {}, began |-> C!Versions]
      BY <3>1 DEF C!Begins, ContextInv, Shaped
    <3>6. Shaped(work') /\ Routed(work')
      BY <2>2, <3>4, <3>5 DEF Shaped, Routed, Referenced
    <3> QED
      BY <3>5, <3>6 DEF ContextInv, RequiredOrNothing, C!RequiredOrNothing
  <2> QED
    BY <2>1, <2>2
<1>11. CASE C!Recheck
  <2>1. CASE work' = C!Refused
    BY <1>5, <2>1
  <2>2. CASE work' = C!Begins(work)
    <3>1. work' = [step |-> "resolve", revision |-> work.revision, selected |-> work.selected, at |-> 1,
                   batch |-> work.batch, read |-> work.read, pool |-> work.pool,
                   failed |-> work.failed, manifest |-> work.manifest, resolved |-> << >>,
                   missing |-> {}, began |-> C!Versions]
      BY <2>2 DEF C!Begins, ContextInv, Shaped
    <3>2. Routed(work)
      BY <1>11 DEF C!Recheck, ContextInv
    <3>3. Shaped(work') /\ Routed(work')
      BY <3>1, <3>2 DEF Shaped, Routed, Referenced
    <3> QED
      BY <3>1, <3>3 DEF ContextInv, RequiredOrNothing, C!RequiredOrNothing
  <2> QED
    BY <1>11, <2>1, <2>2 DEF C!Recheck
<1>12. CASE C!Resolve
  <2>1. PICK ref, next, at :
          /\ ref = work.manifest[work.at] /\ at = work.at + 1 /\ next = [work EXCEPT !.at = at]
    OBVIOUS
  <2>2. /\ Routed(work) /\ work.step = "resolve" /\ work.at \in 1..Len(work.manifest)
        /\ ref \in work.pool /\ at \in Nat \ {0} /\ at - 1 = work.at
        /\ Referenced(work, work.at - 1)
    BY <1>12, <2>1 DEF C!Resolve, ContextInv, Routed
  <2>3. \/ work' = [next EXCEPT !.resolved = Append(@, ref)]
        \/ C!MayMiss(ref) /\ work' = [next EXCEPT !.missing = @ \cup {ref}]
        \/ work' = C!Refused
    BY <1>12, <2>1 DEF C!Resolve
  <2>4. CASE work' = [next EXCEPT !.resolved = Append(@, ref)]
    <3>1. PICK resolved : resolved = Append(work.resolved, ref)
      OBVIOUS
    <3>2. work' = [step |-> "resolve", revision |-> work.revision, selected |-> work.selected,
                   at |-> at, batch |-> work.batch, read |-> work.read, pool |-> work.pool,
                   failed |-> work.failed, manifest |-> work.manifest, resolved |-> resolved,
                   missing |-> work.missing, began |-> work.began]
      BY <2>1, <2>2, <2>4, <3>1 DEF ContextInv, Shaped
    <3>3. /\ resolved \in Seq(work.pool) /\ ref \in C!ToSet(resolved)
          /\ \A known \in C!ToSet(work.resolved) : known \in C!ToSet(resolved)
      <4>1. PICK size : size = Len(work.resolved) /\ size \in Nat
        BY <2>2 DEF Routed
      <4>2. /\ resolved \in Seq(work.pool) /\ Len(resolved) = size + 1
            /\ resolved[size + 1] = ref /\ \A j \in 1..size : resolved[j] = work.resolved[j]
        <5>1. PICK pool, before : pool = work.pool /\ before = work.resolved
          OBVIOUS
        <5>2. before \in Seq(pool) /\ ref \in pool
          BY <2>2, <5>1 DEF Routed
        <5>3. resolved = Append(before, ref) /\ size = Len(before)
          BY <3>1, <4>1, <5>1
        <5>4. /\ resolved \in Seq(pool) /\ Len(resolved) = size + 1
              /\ resolved[size + 1] = ref /\ \A j \in 1..size : resolved[j] = before[j]
          BY <5>2, <5>3, AppendProperties, Zenon
        <5> QED
          BY <5>1, <5>4
      <4>3. DOMAIN resolved = 1..(size + 1) /\ DOMAIN work.resolved = 1..size
        BY <2>2, <4>1, <4>2 DEF Routed
      <4> QED
        BY <4>1, <4>2, <4>3 DEF C!ToSet
    <3>4. Referenced(work', work.at)
      BY <2>1, <2>2, <3>2, <3>3 DEF Referenced
    <3>5. Shaped(work') /\ Routed(work')
      BY <2>2, <3>2, <3>3, <3>4 DEF Shaped, Routed
    <3> QED
      BY <3>2, <3>5 DEF ContextInv, RequiredOrNothing, C!RequiredOrNothing
  <2>5. CASE C!MayMiss(ref) /\ work' = [next EXCEPT !.missing = @ \cup {ref}]
    <3>1. PICK missing : missing = work.missing \cup {ref}
      OBVIOUS
    <3>2. work' = [step |-> "resolve", revision |-> work.revision, selected |-> work.selected,
                   at |-> at, batch |-> work.batch, read |-> work.read, pool |-> work.pool,
                   failed |-> work.failed, manifest |-> work.manifest, resolved |-> work.resolved,
                   missing |-> missing, began |-> work.began]
      BY <2>1, <2>2, <2>5, <3>1 DEF ContextInv, Shaped
    <3>3. \A miss \in missing : C!MayMiss(miss)
      BY <2>2, <2>5, <3>1 DEF Routed
    <3>4. Referenced(work', work.at)
      BY <2>1, <2>2, <2>5, <3>2 DEF Referenced
    <3>5. Shaped(work') /\ Routed(work')
      BY <2>2, <3>2, <3>3, <3>4 DEF Shaped, Routed
    <3> QED
      BY <3>2, <3>5 DEF ContextInv, RequiredOrNothing, C!RequiredOrNothing
  <2> QED
    BY <1>5, <2>3, <2>4, <2>5
<1>13. CASE C!Finish
  <2>1. CASE work' = C!Refused
    BY <1>5, <2>1
  <2>2. ASSUME work' # C!Refused
        PROVE  ContextInv'
    <3>1. PICK composed, step :
            /\ composed = [fragments |-> C!Fitting(work.resolved), missing |-> work.missing]
            /\ step \in {"composed", "used"} /\ snapshot' = composed
            /\ C!Fits(work.resolved) /\ work' = [work EXCEPT !.step = step]
      BY <1>13, <2>2 DEF C!Finish
    <3>2. /\ Routed(work) /\ work.at > Len(work.manifest) /\ work.at \in Nat
          /\ Referenced(work, work.at - 1)
      BY <1>13 DEF C!Finish, ContextInv, Routed
    <3>3. work' = [step |-> step, revision |-> work.revision, selected |-> work.selected,
                   at |-> work.at, batch |-> work.batch, read |-> work.read, pool |-> work.pool,
                   failed |-> work.failed, manifest |-> work.manifest, resolved |-> work.resolved,
                   missing |-> work.missing, began |-> work.began]
      BY <3>1 DEF ContextInv, Shaped
    <3>4. Shaped(work') /\ Routed(work')
      BY <3>1, <3>2, <3>3 DEF Shaped, Routed
    <3>5. ASSUME NEW k \in DOMAIN work.manifest, C!IsRequired(work.manifest[k].item)
          PROVE  /\ work.manifest[k] \notin composed.missing
                 /\ work.manifest[k].item \in Protected =>
                      work.manifest[k] \in C!ToSet(composed.fragments)
      <4>1. k \in 1..(work.at - 1)
        BY <3>2 DEF Routed
      <4>2. work.manifest[k] \in C!ToSet(work.resolved)
        BY <3>2, <3>5, <4>1 DEF Referenced, C!MayMiss
      <4>3. PICK j \in DOMAIN work.resolved : work.resolved[j] = work.manifest[k]
        BY <4>2 DEF C!ToSet
      <4>4. work.manifest[k].item \in Protected =>
              work.manifest[k] \in C!ToSet(C!Fitting(work.resolved))
        BY <3>1, <4>3 DEF C!Fits
      <4>5. work.manifest[k] \notin work.missing
        BY <3>2, <3>5 DEF Routed, C!MayMiss
      <4> QED
        BY <3>1, <4>4, <4>5
    <3>6. RequiredOrNothing'
      BY <3>1, <3>2, <3>3, <3>5
         DEF RequiredOrNothing, C!RequiredOrNothing, Routed
    <3> QED
      BY <3>3, <3>4, <3>6 DEF ContextInv
  <2> QED
    BY <2>1, <2>2
<1> QED
  BY <1>6, <1>7, <1>8, <1>9, <1>10, <1>11, <1>12, <1>13 DEF C!CNext, C!Change

LEMMA ContextInvariance == SSpec => []ContextInv
<1>1. SInit => ContextInv
  <2> SUFFICES ASSUME C!CInit PROVE ContextInv
    BY DEF SInit
  <2>1. Shaped(work) /\ work.pool = {} /\ work.step = "idle"
    BY DEF C!CInit, C!NoWork, Shaped
  <2> QED
    BY <2>1, FS_EmptySet DEF ContextInv, RequiredOrNothing, C!RequiredOrNothing
<1>2. ContextInv /\ [SNext]_<<focus, vars, gvars, cvars, dvars>> => ContextInv'
  <2> SUFFICES ASSUME ContextInv, [SNext]_<<focus, vars, gvars, cvars, dvars>>
               PROVE  ContextInv'
    OBVIOUS
  <2>1. CASE UNCHANGED cvars
    BY <2>1 DEF cvars, ContextInv, Shaped, Routed, Referenced, RequiredOrNothing, C!RequiredOrNothing,
                C!MayMiss, C!IsRequired, C!SourceOf, C!Sources, C!ItemsOf
  <2>2. CASE C!CNext
    BY <2>2, ContextStep
  <2> QED
    BY <2>1, <2>2 DEF SNext, Spend, Grow, Think, Dispute
<1> QED
  BY <1>1, <1>2, PTL DEF SSpec

\* However the sources change while they are read and read again, a context holds what is required
\* of the route it comes from, or there is none (open, validate, compose, current).
THEOREM RequiredIsThere == SSpec => []RequiredOrNothing
<1>1. ContextInv => RequiredOrNothing
  BY DEF ContextInv
<1> QED
  BY <1>1, ContextInvariance, PTL

-----------------------------------------------------------------------------
(* What is read of a source, and what is kept of a list.                   *)

\* g folds by step as long as it is among the values.
FoldsAmong(g, S, Values, base, step, pick) ==
  /\ g[{}] = base
  /\ \A s \in SUBSET S :
       s # {} /\ g[s \ {pick[s]}] \in Values => g[s] = step[<<pick[s], g[s \ {pick[s]}]>>]

\* Then it stays there.
LEMMA FoldStays ==
  ASSUME NEW S, IsFiniteSet(S), NEW Values, NEW base \in Values, NEW step \in [S \X Values -> Values],
         NEW pick, Chooses(pick, S), NEW g, FoldsAmong(g, S, Values, base, step, pick)
  PROVE  g[S] \in Values
<1> DEFINE Good == {s \in SUBSET S : g[s] \in Values}
<1>1. ASSUME NEW s \in SUBSET S, \A x \in s : s \ {x} \in Good
      PROVE  s \in Good
  <2>1. CASE s = {}
    BY <2>1 DEF FoldsAmong
  <2>2. CASE s # {}
    <3>1. pick[s] \in s
      BY <2>2 DEF Chooses
    <3>2. g[s \ {pick[s]}] \in Values
      BY <1>1, <3>1
    <3>3. <<pick[s], g[s \ {pick[s]}]>> \in S \X Values
      BY <3>1, <3>2
    <3>4. g[s] = step[<<pick[s], g[s \ {pick[s]}]>>]
      BY <2>2, <3>2 DEF FoldsAmong
    <3> QED
      BY <3>3, <3>4
  <2> QED
    BY <2>1, <2>2
<1>2. \A s \in SUBSET S : s \in Good
  <2> HIDE DEF Good
  <2> QED
    BY <1>1, SubsetInduction
<1> QED
  BY <1>2

\* Max chooses among places.
LEMMA MaxChooses ==
  ASSUME NEW n \in Nat, NEW s \in SUBSET (1..n), s # {}
  PROVE  C!Max(s) \in s
<1> DEFINE T == {n - i : i \in s}
<1>1. T \subseteq Nat /\ T # {}
  <2>1. \A i \in s : i \in 1..n
    OBVIOUS
  <2>2. \A i \in s : n - i \in Nat
    BY <2>1
  <2> QED
    BY <2>2
<1>2. PICK t \in T : \A m \in T : t <= m
  <2> HIDE DEF T
  <2> QED
    BY <1>1, LeastNatural
<1>3. PICK i \in s : t = n - i
  BY <1>2
<1>4. \A j \in s : i >= j
  <2> SUFFICES ASSUME NEW j \in s
               PROVE  i >= j
    OBVIOUS
  <2>1. n - j \in T
    OBVIOUS
  <2>2. n - i <= n - j
    BY <1>2, <1>3, <2>1
  <2>3. i \in Int /\ j \in Int
    OBVIOUS
  <2> QED
    BY <2>2, <2>3
<1> QED
  BY <1>4 DEF C!Max

AmongFold(iter, seq, set) ==
  iter = [s \in SUBSET DOMAIN seq |->
            IF s = {} THEN << >>
            ELSE IF seq[C!Max(s)] \in set THEN Append(iter[s \ {C!Max(s)}], seq[C!Max(s)])
                 ELSE iter[s \ {C!Max(s)}]]

\* What is kept of a list is a list of the same.
LEMMA AmongKeeps ==
  ASSUME NEW S, NEW seq \in Seq(S), NEW set
  PROVE  C!Among(seq, set) \in Seq(S)
<1>1. PICK n, places : n \in Nat /\ n = Len(seq) /\ places = 1..n /\ DOMAIN seq = places
  OBVIOUS
<1>2. IsFiniteSet(places)
  BY <1>1, FS_Interval
<1>3. PICK step, pick :
        /\ step = [p \in places \X Seq(S) |-> IF seq[p[1]] \in set THEN Append(p[2], seq[p[1]]) ELSE p[2]]
        /\ pick = [s \in SUBSET places |-> C!Max(s)]
  OBVIOUS
<1>4. Chooses(pick, places)
  BY <1>1, <1>3, MaxChooses DEF Chooses
<1>5. step \in [places \X Seq(S) -> Seq(S)]
  <2> SUFFICES ASSUME NEW i \in places, NEW kept \in Seq(S)
               PROVE  Append(kept, seq[i]) \in Seq(S)
    BY <1>3
  <2>1. seq[i] \in S
    BY <1>1
  <2> QED
    BY <2>1
<1>6. << >> \in Seq(S)
  OBVIOUS
<1>7. PICK iter \in [SUBSET places -> Seq(S)] : Folds(iter, places, << >>, step, pick)
  BY <1>2, <1>4, <1>5, <1>6, FoldExists
<1>8. AmongFold(iter, seq, set)
  <2>1. ASSUME NEW s \in SUBSET places
        PROVE  iter[s] = IF s = {} THEN << >>
                         ELSE IF seq[C!Max(s)] \in set
                              THEN Append(iter[s \ {C!Max(s)}], seq[C!Max(s)])
                              ELSE iter[s \ {C!Max(s)}]
    <3>1. CASE s = {}
      BY <1>7, <3>1 DEF Folds
    <3>2. CASE s # {}
      <4>1. pick[s] = C!Max(s) /\ C!Max(s) \in places /\ iter[s \ {C!Max(s)}] \in Seq(S)
        BY <1>3, <1>4, <1>7, <3>2 DEF Chooses
      <4>2. iter[s] = step[<<C!Max(s), iter[s \ {C!Max(s)}]>>]
        BY <1>7, <3>2, <4>1 DEF Folds
      <4> QED
        BY <1>3, <3>2, <4>1, <4>2
    <3> QED
      BY <3>1, <3>2
  <2> QED
    BY <1>1, <1>7, <2>1 DEF AmongFold
<1>9. PICK chosen : chosen = CHOOSE g : AmongFold(g, seq, set)
  OBVIOUS
<1>10. AmongFold(chosen, seq, set)
  BY <1>8, <1>9
<1>11. C!Among(seq, set) = chosen[places]
  BY <1>1, <1>9 DEF C!Among, C!FoldLeft, C!MapThenFoldSet, AmongFold
<1>12. /\ chosen[{}] = << >>
       /\ \A s \in SUBSET places : s # {} /\ chosen[s \ {pick[s]}] \in Seq(S) =>
            chosen[s] = step[<<pick[s], chosen[s \ {pick[s]}]>>]
  <2>1. \A s \in SUBSET places :
          chosen[s] = IF s = {} THEN << >>
                      ELSE IF seq[C!Max(s)] \in set
                           THEN Append(chosen[s \ {C!Max(s)}], seq[C!Max(s)])
                           ELSE chosen[s \ {C!Max(s)}]
    BY <1>1, <1>10 DEF AmongFold
  <2>2. chosen[{}] = << >>
    BY <2>1
  <2>3. ASSUME NEW s \in SUBSET places, s # {}, chosen[s \ {pick[s]}] \in Seq(S)
        PROVE  chosen[s] = step[<<pick[s], chosen[s \ {pick[s]}]>>]
    <3>1. pick[s] = C!Max(s) /\ C!Max(s) \in places
      BY <1>3, <1>4, <2>3 DEF Chooses
    <3> QED
      BY <1>3, <2>1, <2>3, <3>1
  <2> QED
    BY <2>2, <2>3
<1>13. chosen[places] \in Seq(S)
  <2>1. PICK values, base : values = Seq(S) /\ base = << >>
    OBVIOUS
  <2>2. base \in values /\ step \in [places \X values -> values]
    BY <1>5, <1>6, <2>1
  <2>3. FoldsAmong(chosen, places, values, base, step, pick)
    BY <1>12, <2>1 DEF FoldsAmong
  <2>4. chosen[places] \in values
    BY <1>2, <1>4, <2>2, <2>3, FoldStays, Zenon
  <2> QED
    BY <2>1, <2>4
<1> QED
  BY <1>11, <1>13

Keep(kept, ref) ==
  IF Len(kept.refs) < FragmentLimit /\ kept.tokens + Cost[ref.item] <= TokenLimit
    THEN [refs |-> Append(kept.refs, ref), tokens |-> kept.tokens + Cost[ref.item]]
    ELSE kept

FittingFold(iter, seq) ==
  iter = [s \in SUBSET DOMAIN seq |->
            IF s = {} THEN [refs |-> << >>, tokens |-> 0]
            ELSE Keep(iter[s \ {C!Max(s)}], seq[C!Max(s)])]

Refs == [item : C!AllItems, version : Nat]

\* What fits the budget of what was resolved was resolved.
LEMMA FittingKeeps ==
  ASSUME NEW S \in SUBSET Refs, NEW resolved \in Seq(S)
  PROVE  C!Fitting(resolved) \in Seq(S)
<1>1. PICK protected, first, rest, seq :
        /\ protected = {ref \in C!ToSet(resolved) : ref.item \in Protected}
        /\ first = C!Among(resolved, protected)
        /\ rest = C!Among(resolved, C!ToSet(resolved) \ protected)
        /\ seq = first \o rest
  OBVIOUS
<1>2. seq \in Seq(S)
  <2>1. first \in Seq(S) /\ rest \in Seq(S)
    BY <1>1, AmongKeeps
  <2> QED
    BY <1>1, <2>1
<1>3. PICK n, places : n \in Nat /\ n = Len(seq) /\ places = 1..n /\ DOMAIN seq = places
  BY <1>2
<1>4. IsFiniteSet(places)
  BY <1>3, FS_Interval
<1>5. PICK values, base : values = [refs : Seq(S), tokens : Nat] /\ base = [refs |-> << >>, tokens |-> 0]
  OBVIOUS
<1>6. PICK step, pick :
        /\ step = [p \in places \X values |-> Keep(p[2], seq[p[1]])]
        /\ pick = [s \in SUBSET places |-> C!Max(s)]
  OBVIOUS
<1>7. Chooses(pick, places)
  BY <1>3, <1>6, MaxChooses DEF Chooses
<1>8. step \in [places \X values -> values] /\ base \in values
  <2>1. base \in values
    BY <1>5
  <2> SUFFICES ASSUME NEW i \in places, NEW kept \in values
               PROVE  Keep(kept, seq[i]) \in values
    BY <1>6, <2>1
  <2>2. seq[i] \in S /\ seq[i].item \in C!AllItems
    BY <1>2, <1>3 DEF Refs
  <2>3. Cost[seq[i].item] \in Nat
    BY <2>2, ContextAssumption
  <2>4. kept.tokens + Cost[seq[i].item] \in Nat /\ Append(kept.refs, seq[i]) \in Seq(S)
    BY <1>5, <2>2, <2>3
  <2> QED
    BY <1>5, <2>4 DEF Keep
<1>9. PICK iter \in [SUBSET places -> values] : Folds(iter, places, base, step, pick)
  BY <1>4, <1>7, <1>8, FoldExists
<1>10. FittingFold(iter, seq)
  <2>1. ASSUME NEW s \in SUBSET places
        PROVE  iter[s] = IF s = {} THEN base ELSE Keep(iter[s \ {C!Max(s)}], seq[C!Max(s)])
    <3>1. CASE s = {}
      BY <1>9, <3>1 DEF Folds
    <3>2. CASE s # {}
      <4>1. pick[s] = C!Max(s) /\ C!Max(s) \in places /\ iter[s \ {C!Max(s)}] \in values
        BY <1>6, <1>7, <1>9, <3>2 DEF Chooses
      <4>2. iter[s] = step[<<C!Max(s), iter[s \ {C!Max(s)}]>>]
        BY <1>9, <3>2, <4>1 DEF Folds
      <4> QED
        BY <1>6, <3>2, <4>1, <4>2
    <3> QED
      BY <3>1, <3>2
  <2> QED
    BY <1>3, <1>5, <1>9, <2>1 DEF FittingFold
<1>11. PICK chosen : chosen = CHOOSE g : FittingFold(g, seq)
  OBVIOUS
<1>12. FittingFold(chosen, seq)
  BY <1>10, <1>11
<1>13. C!Fitting(resolved) = chosen[places].refs
  <2> DEFINE set == {ref \in C!ToSet(resolved) : ref.item \in Protected}
             ordered == C!Among(resolved, set) \o C!Among(resolved, C!ToSet(resolved) \ set)
  <2>1. C!Fitting(resolved) = (CHOOSE g : FittingFold(g, ordered))[DOMAIN ordered].refs
    BY DEF C!Fitting, C!FoldLeft, C!MapThenFoldSet, FittingFold, Keep
  <2>2. ordered = seq
    BY <1>1
  <2> HIDE DEF ordered
  <2> QED
    BY <1>3, <1>11, <2>1, <2>2
<1>14. FoldsAmong(chosen, places, values, base, step, pick)
  <2>1. \A s \in SUBSET places :
          chosen[s] = IF s = {} THEN base ELSE Keep(chosen[s \ {C!Max(s)}], seq[C!Max(s)])
    BY <1>3, <1>5, <1>12 DEF FittingFold
  <2>2. chosen[{}] = base
    BY <2>1
  <2>3. ASSUME NEW s \in SUBSET places, s # {}, chosen[s \ {pick[s]}] \in values
        PROVE  chosen[s] = step[<<pick[s], chosen[s \ {pick[s]}]>>]
    <3>1. pick[s] = C!Max(s) /\ C!Max(s) \in places
      BY <1>6, <1>7, <2>3 DEF Chooses
    <3> QED
      BY <1>6, <2>1, <2>3, <3>1
  <2> QED
    BY <2>2, <2>3 DEF FoldsAmong
<1>15. chosen[places] \in values
  BY <1>4, <1>7, <1>8, <1>14, FoldStays, Zenon
<1> QED
  BY <1>5, <1>13, <1>15

-----------------------------------------------------------------------------
\* What is counted step by step.
CountsTo(f, n, base, step) == f[0] = base /\ \A k \in 1..n : f[k] = step[<<k, f[k - 1]>>]

LEMMA CountExists ==
  ASSUME NEW Values, NEW n \in Nat, NEW base \in Values, NEW step \in [(1..n) \X Values -> Values]
  PROVE  \E f \in [0..n -> Values] : CountsTo(f, n, base, step)
<1> DEFINE Counts(f, m) == f[0] = base /\ \A k \in 1..m : f[k] = step[<<k, f[k - 1]>>]
           Good == {m \in Nat : m <= n => \E f \in [0..m -> Values] : Counts(f, m)}
<1>1. 0 \in Good
  <2>1. PICK f : f = [k \in 0..0 |-> base]
    OBVIOUS
  <2>2. f \in [0..0 -> Values] /\ f[0] = base
    BY <2>1
  <2> QED
    BY <2>2
<1>2. ASSUME NEW m \in Nat, m \in Good
      PROVE  m + 1 \in Good
  <2> SUFFICES ASSUME m + 1 <= n
               PROVE  \E f \in [0..m + 1 -> Values] : Counts(f, m + 1)
    OBVIOUS
  <2>1. PICK f \in [0..m -> Values] : Counts(f, m)
    BY <1>2
  <2>2. PICK h : h = [k \in 0..m + 1 |-> IF k <= m THEN f[k] ELSE step[<<m + 1, f[m]>>]]
    OBVIOUS
  <2>3. <<m + 1, f[m]>> \in (1..n) \X Values
    BY <2>1
  <2>4. \A k \in 0..m : h[k] = f[k]
    BY <2>2
  <2>5. h[m + 1] = step[<<m + 1, f[m]>>]
    BY <2>2
  <2>6. h \in [0..m + 1 -> Values]
    BY <2>1, <2>2, <2>3
  <2>7. ASSUME NEW k \in 1..m + 1
        PROVE  h[k] = step[<<k, h[k - 1]>>]
    <3>1. CASE k = m + 1
      <4>1. k - 1 = m /\ m \in 0..m
        BY <3>1
      <4> QED
        BY <2>4, <2>5, <3>1, <4>1
    <3>2. CASE k # m + 1
      <4>1. k \in 1..m /\ k \in 0..m /\ k - 1 \in 0..m
        BY <3>2
      <4> QED
        BY <2>1, <2>4, <4>1
    <3> QED
      BY <3>1, <3>2
  <2>8. h[0] = base
    BY <2>1, <2>4
  <2> QED
    BY <2>6, <2>7, <2>8
<1>3. n \in Good
  <2> HIDE DEF Good
  <2> QED
    BY <1>1, <1>2, NaturalInduction
<1> QED
  BY <1>3 DEF CountsTo

Shares(given, selected) ==
  given = [k \in 0..Len(selected) |->
             IF k = 0 THEN 0
             ELSE given[k - 1] + C!Capped(selected[k], ((CandidateLimit - given[k - 1])
                    + (Len(selected) - k + 1) - 1) \div (Len(selected) - k + 1))]

\* The share of a source is a number.
LEMMA ShareIsInt ==
  ASSUME NEW selected \in Seq(C!Sources), NEW at \in 1..Len(selected)
  PROVE  C!Allocated(selected)[at] \in Int
<1>1. PICK n \in Nat : n = Len(selected) /\ DOMAIN selected = 1..n
  OBVIOUS
<1>2. ASSUME NEW k \in 1..n, NEW v \in Int
      PROVE  v + C!Capped(selected[k], ((CandidateLimit - v) + (n - k + 1) - 1) \div (n - k + 1)) \in Int
  <2>1. n - k + 1 \in Nat /\ n - k + 1 > 0 /\ (CandidateLimit - v) + (n - k + 1) - 1 \in Int
    BY <1>2, ContextAssumption
  <2>2. SourceLimit[selected[k]] \in Int
    BY <1>1, <1>2, ContextAssumption
  <2> QED
    BY <2>1, <2>2 DEF C!Capped
<1>3. PICK step : step = [p \in (1..n) \X Int |->
                            p[2] + C!Capped(selected[p[1]],
                              ((CandidateLimit - p[2]) + (n - p[1] + 1) - 1) \div (n - p[1] + 1))]
  OBVIOUS
<1>4. step \in [(1..n) \X Int -> Int]
  BY <1>2, <1>3
<1>5. PICK f \in [0..n -> Int] : f[0] = 0 /\ \A k \in 1..n : f[k] = step[<<k, f[k - 1]>>]
  <2>1. PICK values, base : values = Int /\ base = 0
    OBVIOUS
  <2>2. base \in values /\ step \in [(1..n) \X values -> values]
    BY <1>4, <2>1
  <2>3. \E f \in [0..n -> values] : CountsTo(f, n, base, step)
    BY <2>2, CountExists, Zenon
  <2> QED
    BY <2>1, <2>3 DEF CountsTo
<1>6. Shares(f, selected)
  <2>1. ASSUME NEW k \in 0..n
        PROVE  f[k] = IF k = 0 THEN 0
                      ELSE f[k - 1] + C!Capped(selected[k],
                             ((CandidateLimit - f[k - 1]) + (n - k + 1) - 1) \div (n - k + 1))
    <3>1. CASE k = 0
      BY <1>5, <3>1
    <3>2. CASE k # 0
      <4>1. k \in 1..n /\ k - 1 \in 0..n
        BY <3>2
      <4>2. <<k, f[k - 1]>> \in (1..n) \X Int
        BY <1>5, <4>1
      <4> QED
        BY <1>3, <1>5, <3>2, <4>1, <4>2
    <3> QED
      BY <3>1, <3>2
  <2> QED
    BY <1>1, <1>5, <2>1 DEF Shares
<1>7. PICK given : given = CHOOSE g : Shares(g, selected)
  OBVIOUS
<1>8. Shares(given, selected)
  BY <1>6, <1>7
<1>9. C!Allocated(selected) = [k \in DOMAIN selected |-> given[k] - given[k - 1]]
  BY <1>7 DEF C!Allocated, Shares
<1>10. \A k \in Nat : k <= n => given[k] \in Int
  <2> DEFINE Good == {k \in Nat : k <= n => given[k] \in Int}
  <2>1. 0 \in Good
    BY <1>1, <1>8 DEF Shares
  <2>2. ASSUME NEW k \in Nat, k \in Good
        PROVE  k + 1 \in Good
    <3> SUFFICES ASSUME k + 1 <= n
                 PROVE  given[k + 1] \in Int
      OBVIOUS
    <3>1. given[k] \in Int /\ k + 1 \in 1..n /\ k + 1 \in 0..n /\ (k + 1) - 1 = k /\ k + 1 # 0
      BY <2>2
    <3>2. PICK j : j = k + 1
      OBVIOUS
    <3>3. given[j] = given[k] + C!Capped(selected[j],
                       ((CandidateLimit - given[k]) + (n - j + 1) - 1) \div (n - j + 1))
      BY <1>1, <1>8, <3>1, <3>2 DEF Shares
    <3> QED
      BY <1>2, <3>1, <3>2, <3>3
  <2>3. \A k \in Nat : k \in Good
    <3> HIDE DEF Good
    <3> QED
      BY <2>1, <2>2, NaturalInduction
  <2> QED
    BY <2>3
<1>11. given[at] \in Int /\ given[at - 1] \in Int /\ at \in DOMAIN selected
  BY <1>1, <1>10
<1> QED
  BY <1>9, <1>11

-----------------------------------------------------------------------------
(* The cut.                                                                *)

Currents == [C!AllItems -> [version : Nat, eligible : BOOLEAN]]

\* What was read may have changed since, and only that.
Behind(refs) == \A ref \in refs : ref.version <= current[ref.item].version

\* A resolution finds only what did not change between the read and the beginning of the resolution.
Begun(w) ==
  /\ w.began \in [C!AllItems -> Nat]
  /\ \A i \in C!AllItems : w.began[i] <= current[i].version
  /\ \A ref \in w.pool : ref.version <= w.began[ref.item]
  /\ \A ref \in C!ToSet(w.resolved) : ref.version = w.began[ref.item]

WholeItem == Items[Whole][1]

CutInv ==
  /\ current \in Currents
  /\ work.selected \in Seq(C!Sources) /\ work.at \in Nat \ {0}
  /\ work.batch \in Seq(Refs) /\ Behind(C!ToSet(work.batch))
  /\ work.pool \in SUBSET Refs /\ Behind(work.pool)
  /\ work.step \in {"resolve", "composed", "used"} => Begun(work)
  /\ work.step \in {"idle", "open", "validate", "rank"} => snapshot = C!NoSnapshot
  /\ work.step = "resolve" => snapshot = C!NoSnapshot \/ work.began[WholeItem] = work.revision
  /\ ContextIsACut

LEMMA WholeIsAnItem == WholeItem \in C!AllItems
<1>1. Items[Whole] \in Seq(C!AllItems) /\ Items[Whole] # << >>
  BY ContextAssumption
<1> QED
  BY <1>1 DEF WholeItem

\* What a source returns is as it is.
LEMMA QueryReads ==
  ASSUME current \in Currents, NEW s \in C!Sources, NEW limit \in Int, limit > 0
  PROVE  C!Query(s, limit) \in Seq(Refs) /\ Behind(C!ToSet(C!Query(s, limit)))
<1>1. PICK usable, size, first :
        /\ usable = C!Among(Items[s], {i \in C!ItemsOf(s) : current[i].eligible})
        /\ size = (IF Len(usable) < limit THEN Len(usable) ELSE limit)
        /\ first = SubSeq(usable, 1, size)
  OBVIOUS
<1>2. usable \in Seq(C!AllItems)
  <2>1. Items[s] \in Seq(C!AllItems)
    BY ContextAssumption
  <2> QED
    BY <1>1, <2>1, AmongKeeps
<1>3. size \in Nat /\ size <= Len(usable)
  BY <1>1, <1>2
<1>4. first \in Seq(C!AllItems)
  <2>1. \A k \in 1..size : usable[k] \in C!AllItems
    BY <1>2, <1>3
  <2>2. 1 \in Int /\ size \in Int
    BY <1>3
  <2>3. SubSeq(usable, 1, size) \in Seq(C!AllItems)
    BY <2>1, <2>2, SubSeqProperties, Zenon
  <2> QED
    BY <1>1, <2>3
<1>5. PICK n \in Nat : n = Len(first) /\ DOMAIN first = 1..n /\ \A k \in 1..n : first[k] \in C!AllItems
  BY <1>4
<1>6. C!Query(s, limit) = [k \in DOMAIN first |-> [item |-> first[k], version |-> current[first[k]].version]]
  BY <1>1 DEF C!Query
<1>7. ASSUME NEW k \in 1..n
      PROVE  /\ [item |-> first[k], version |-> current[first[k]].version] \in Refs
             /\ current[first[k]].version <= current[first[k]].version
  <2>1. current[first[k]].version \in Nat
    BY <1>5 DEF Currents
  <2> QED
    BY <1>5, <2>1 DEF Refs
<1>8. PICK batch : batch = C!Query(s, limit)
  OBVIOUS
<1>9. batch \in Seq(Refs) /\ \A ref \in C!ToSet(batch) : ref.version <= current[ref.item].version
  BY <1>5, <1>6, <1>7, <1>8 DEF C!ToSet
<1> QED
  BY <1>8, <1>9 DEF Behind

LEMMA ChangeKeepsCut == ContextInv /\ CutInv /\ C!Change => CutInv'
<1> SUFFICES ASSUME ContextInv, CutInv, C!Change
             PROVE  CutInv'
  OBVIOUS
<1>1. current' \in Currents /\ \A i \in C!AllItems : current[i].version <= current'[i].version
  <2>1. current \in Currents /\ \A i \in C!AllItems : current[i].version \in Nat /\ current[i].version + 1 \in Nat
    BY DEF CutInv, Currents
  <2>2. CASE current' = [i \in C!AllItems |-> IF i \in C!ItemsOf(Whole)
                                              THEN [current[i] EXCEPT !.version = @ + 1] ELSE current[i]]
    <3>1. ASSUME NEW i \in C!AllItems
          PROVE  /\ current'[i] \in [version : Nat, eligible : BOOLEAN]
                 /\ current[i].version <= current'[i].version
      <4>1. current[i] \in [version : Nat, eligible : BOOLEAN]
        BY <2>1 DEF Currents
      <4> QED
        BY <2>1, <2>2, <4>1
    <3> QED
      BY <2>2, <3>1 DEF Currents
  <2>3. ASSUME NEW i \in C!AllItems,
               current' \in {[current EXCEPT ![i].version = @ + 1], [current EXCEPT ![i].eligible = ~ @]}
        PROVE  current' \in Currents /\ \A j \in C!AllItems : current[j].version <= current'[j].version
    <3>1. PICK item : item \in [version : Nat, eligible : BOOLEAN] /\ current[i].version <= item.version
                      /\ current' = [current EXCEPT ![i] = item]
      <4>1. current[i] \in [version : Nat, eligible : BOOLEAN]
        BY <2>1 DEF Currents
      <4>2. CASE current' = [current EXCEPT ![i].version = @ + 1]
        <5>1. PICK item : item = [current[i] EXCEPT !.version = @ + 1]
          OBVIOUS
        <5>2. item \in [version : Nat, eligible : BOOLEAN] /\ current[i].version <= item.version
          BY <2>1, <4>1, <5>1
        <5> QED
          BY <4>2, <5>1, <5>2
      <4>3. CASE current' = [current EXCEPT ![i].eligible = ~ @]
        <5>1. PICK flag : flag = ~ current[i].eligible
          OBVIOUS
        <5>2. PICK item : item = [current[i] EXCEPT !.eligible = flag]
          OBVIOUS
        <5>3. item \in [version : Nat, eligible : BOOLEAN] /\ current[i].version <= item.version
          <6>1. flag \in BOOLEAN
            BY <5>1
          <6> QED
            BY <2>1, <4>1, <5>2, <6>1
        <5> QED
          BY <4>3, <5>1, <5>2, <5>3
      <4> QED
        BY <2>3, <4>2, <4>3
    <3> QED
      BY <2>1, <3>1 DEF Currents
  <2> QED
    BY <2>2, <2>3 DEF C!Change
<1>2. UNCHANGED <<work, snapshot>>
  BY DEF C!Change
<1>3. ASSUME NEW refs \in SUBSET Refs, Behind(refs)
      PROVE  \A ref \in refs : ref.version <= current'[ref.item].version
  <2> SUFFICES ASSUME NEW ref \in refs
               PROVE  ref.version <= current'[ref.item].version
    OBVIOUS
  <2>1. ref.item \in C!AllItems /\ ref.version \in Nat
    BY DEF Refs
  <2>2. current[ref.item].version \in Nat /\ current'[ref.item].version \in Nat
    BY <1>1, <2>1 DEF CutInv, Currents
  <2> QED
    BY <1>1, <1>3, <2>1, <2>2 DEF Behind
<1>4. C!ToSet(work.batch) \in SUBSET Refs
  BY DEF CutInv, C!ToSet
<1>5. Behind(C!ToSet(work.batch))' /\ Behind(work.pool)'
  BY <1>2, <1>3, <1>4 DEF CutInv, Behind, C!ToSet
<1>6. work.step \in {"resolve", "composed", "used"} => Begun(work)'
  <2> SUFFICES ASSUME Begun(work)
               PROVE  Begun(work)'
    BY DEF CutInv
  <2>1. ASSUME NEW i \in C!AllItems
        PROVE  work.began[i] <= current'[i].version
    <3>1. work.began[i] \in Nat /\ current[i].version \in Nat /\ current'[i].version \in Nat
      BY <1>1 DEF CutInv, Currents, Begun
    <3> QED
      BY <1>1, <3>1 DEF Begun
  <2> QED
    BY <1>2, <2>1 DEF Begun, C!ToSet
<1>7. ContextIsACut'
  BY <1>2 DEF CutInv, ContextIsACut, C!ContextIsACut
<1> QED
  BY <1>1, <1>2, <1>5, <1>6, <1>7 DEF CutInv, WholeItem

LEMMA CutStep == ContextInv /\ CutInv /\ C!CNext => CutInv'
<1> SUFFICES ASSUME ContextInv, CutInv, C!CNext
             PROVE  CutInv'
  OBVIOUS
<1>1. CASE C!Change
  BY <1>1, ChangeKeepsCut
\* A refused request has nothing left to keep.
<1>2. ASSUME UNCHANGED current, work' = C!Refused
      PROVE  CutInv'
  <2>1. C!Refused = [step |-> "refused", revision |-> 0, selected |-> << >>, at |-> 1, batch |-> << >>,
                     read |-> << >>, pool |-> {}, failed |-> FALSE, manifest |-> << >>,
                     resolved |-> << >>, missing |-> {}, began |-> << >>]
    <3>1. PICK none : none = C!NoWork
      OBVIOUS
    <3>2. C!Refused = [none EXCEPT !.step = "refused"]
      BY <3>1 DEF C!Refused
    <3> QED
      BY <3>1, <3>2 DEF C!NoWork
  <2> QED
    BY <1>2, <2>1 DEF CutInv, Behind, ContextIsACut, C!ContextIsACut, C!ToSet
\* What routing changes.
<1>3. ASSUME UNCHANGED <<current, snapshot>>, work'.step \in {"open", "validate", "rank"},
             snapshot = C!NoSnapshot,
             work'.selected \in Seq(C!Sources), work'.at \in Nat \ {0},
             work'.batch \in Seq(Refs), Behind(C!ToSet(work'.batch)),
             work'.pool \in SUBSET Refs, Behind(work'.pool)
      PROVE  CutInv'
  BY <1>3 DEF CutInv, Behind, ContextIsACut, C!ContextIsACut
<1>4. << >> \in Seq(Refs) /\ Behind(C!ToSet(<< >>)) /\ Behind({})
  BY DEF Behind, C!ToSet
<1>5. CASE C!Perceive
  <2>1. PICK revision, selected, set :
          /\ selected = C!Among(ReadingOrder, set)
          /\ work' = [C!NoWork EXCEPT !.step = "open", !.revision = revision, !.selected = selected]
    BY <1>5 DEF C!Perceive
  <2>2. work' = [step |-> "open", revision |-> revision, selected |-> selected, at |-> 1,
                 batch |-> << >>, read |-> << >>, pool |-> {}, failed |-> FALSE,
                 manifest |-> << >>, resolved |-> << >>, missing |-> {}, began |-> << >>]
    BY <2>1 DEF C!NoWork
  <2>3. selected \in Seq(C!Sources)
    BY <2>1, AmongKeeps, ContextAssumption
  <2>4. UNCHANGED <<current, snapshot>> /\ snapshot = C!NoSnapshot
    BY <1>5 DEF C!Perceive, CutInv
  <2> QED
    BY <1>3, <1>4, <2>2, <2>3, <2>4
<1>6. CASE C!Open
  <2>1. UNCHANGED <<current, snapshot>> /\ snapshot = C!NoSnapshot /\ work.step = "open"
    BY <1>6 DEF C!Open, CutInv
  <2>2. /\ work.selected \in Seq(C!Sources) /\ work.at \in Nat \ {0}
        /\ work.batch \in Seq(Refs) /\ Behind(C!ToSet(work.batch))
        /\ work.pool \in SUBSET Refs /\ Behind(work.pool) /\ Shaped(work)
    BY DEF CutInv, ContextInv
  <2>3. CASE work' = [work EXCEPT !.step = "rank"]
    BY <1>3, <2>1, <2>2, <2>3 DEF Shaped
  <2>4. ASSUME NEW at, NEW failed, at = work.at + 1, work' = [work EXCEPT !.at = at, !.failed = failed]
        PROVE  CutInv'
    <3>1. at \in Nat \ {0}
      BY <2>2, <2>4
    <3>2. work' = [step |-> "open", revision |-> work.revision, selected |-> work.selected, at |-> at,
                   batch |-> work.batch, read |-> work.read, pool |-> work.pool, failed |-> failed,
                   manifest |-> work.manifest, resolved |-> work.resolved, missing |-> work.missing,
                   began |-> work.began]
      BY <2>1, <2>2, <2>4 DEF Shaped
    <3> QED
      BY <1>3, <2>1, <2>2, <3>1, <3>2
  <2>5. ASSUME NEW s, NEW batch, ~(work.at > Len(work.selected)), s = work.selected[work.at],
               batch = C!Query(s, C!Limit), C!Limit > 0,
               work' = [work EXCEPT !.step = "validate", !.batch = batch, !.read = batch]
        PROVE  CutInv'
    <3>1. work.at \in 1..Len(work.selected)
      BY <2>2, <2>5
    <3>2. s \in C!Sources /\ C!Limit \in Int
      BY <2>2, <2>5, <3>1, ShareIsInt DEF C!Limit
    <3>3. current \in Currents
      BY DEF CutInv
    <3>4. batch \in Seq(Refs) /\ Behind(C!ToSet(batch))
      BY <2>5, <3>2, <3>3, QueryReads
    <3>5. work' = [step |-> "validate", revision |-> work.revision, selected |-> work.selected,
                   at |-> work.at, batch |-> batch, read |-> batch, pool |-> work.pool,
                   failed |-> work.failed, manifest |-> work.manifest, resolved |-> work.resolved,
                   missing |-> work.missing, began |-> work.began]
      BY <2>2, <2>5 DEF Shaped
    <3> QED
      BY <1>3, <2>1, <2>2, <3>4, <3>5
  <2> QED
    BY <1>6, <2>3, <2>4, <2>5 DEF C!Open
<1>7. CASE C!Validate
  <2>1. UNCHANGED <<current, snapshot>> /\ snapshot = C!NoSnapshot /\ work.step = "validate"
    BY <1>7 DEF C!Validate, CutInv
  <2>2. /\ work.selected \in Seq(C!Sources) /\ work.at \in Nat \ {0}
        /\ work.batch \in Seq(Refs) /\ Behind(C!ToSet(work.batch))
        /\ work.pool \in SUBSET Refs /\ Behind(work.pool) /\ Shaped(work)
    BY DEF CutInv, ContextInv
  <2>3. ASSUME NEW at, at = work.at + 1, work' = [work EXCEPT !.step = "open", !.at = at]
        PROVE  CutInv'
    <3>1. at \in Nat \ {0}
      BY <2>2, <2>3
    <3>2. work' = [step |-> "open", revision |-> work.revision, selected |-> work.selected, at |-> at,
                   batch |-> work.batch, read |-> work.read, pool |-> work.pool, failed |-> work.failed,
                   manifest |-> work.manifest, resolved |-> work.resolved, missing |-> work.missing,
                   began |-> work.began]
      BY <2>2, <2>3 DEF Shaped
    <3> QED
      BY <1>3, <2>1, <2>2, <3>1, <3>2
  <2>4. CASE work.batch # << >>
    <3>1. PICK head, batch, rest :
            /\ head = Head(work.batch) /\ batch = Tail(work.batch) /\ rest = [work EXCEPT !.batch = batch]
      OBVIOUS
    <3>2. head \in Refs /\ batch \in Seq(Refs)
      BY <2>2, <2>4, <3>1
    <3>3. /\ head \in C!ToSet(work.batch)
          /\ \A ref \in C!ToSet(batch) : ref \in C!ToSet(work.batch)
      <4>1. PICK n, list : n \in Nat /\ list = work.batch /\ list \in Seq(Refs) /\ n = Len(list)
        BY <2>2
      <4>2. n > 0 /\ head = list[1] /\ DOMAIN list = 1..n
        BY <2>4, <3>1, <4>1
      <4>3. DOMAIN batch = 1..(n - 1) /\ \A k \in 1..(n - 1) : batch[k] = list[k + 1]
        BY <2>4, <3>1, <4>1, <4>2
      <4>4. ASSUME NEW ref \in C!ToSet(batch)
            PROVE  ref \in C!ToSet(list)
        <5>1. PICK k \in 1..(n - 1) : ref = batch[k]
          BY <4>3 DEF C!ToSet
        <5>2. k + 1 \in 1..n
          BY <4>1, <4>2
        <5> QED
          BY <4>2, <4>3, <5>1, <5>2 DEF C!ToSet
      <4>5. head \in C!ToSet(list)
        BY <4>1, <4>2 DEF C!ToSet
      <4> QED
        BY <4>1, <4>4, <4>5
    <3>4. Behind(C!ToSet(batch)) /\ head.version <= current[head.item].version
      BY <2>2, <3>3 DEF Behind
    <3>5. rest = [step |-> "validate", revision |-> work.revision, selected |-> work.selected,
                  at |-> work.at, batch |-> batch, read |-> work.read, pool |-> work.pool,
                  failed |-> work.failed, manifest |-> work.manifest, resolved |-> work.resolved,
                  missing |-> work.missing, began |-> work.began]
      BY <2>1, <2>2, <3>1 DEF Shaped
    <3>6. \/ \E pool : pool = work.pool \cup {head} /\ work' = [rest EXCEPT !.pool = pool]
          \/ work' = rest
          \/ \E failed : work' = [rest EXCEPT !.failed = failed]
      BY <1>7, <2>4, <3>1, <3>5 DEF C!Validate
    <3>7. ASSUME NEW pool, pool = work.pool \cup {head}
          PROVE  pool \in SUBSET Refs /\ Behind(pool)
      BY <2>2, <3>2, <3>4, <3>7 DEF Behind
    <3>8. /\ work'.step = "validate" /\ work'.selected = work.selected /\ work'.at = work.at
          /\ work'.batch = batch
          /\ work'.pool = work.pool \/ work'.pool = work.pool \cup {head}
      BY <3>5, <3>6
    <3>9. work'.pool \in SUBSET Refs /\ Behind(work'.pool)
      BY <2>2, <3>7, <3>8
    <3> QED
      BY <1>3, <2>1, <2>2, <3>2, <3>4, <3>8, <3>9
  <2> QED
    BY <1>7, <2>3, <2>4 DEF C!Validate
\* A resolution begins with what is current.
<1>8. ASSUME NEW manifest, UNCHANGED <<current, snapshot>>,
             snapshot = C!NoSnapshot \/ C!Revision = work.revision,
             work' = [step |-> "resolve", revision |-> work.revision, selected |-> work.selected, at |-> 1,
                      batch |-> work.batch, read |-> work.read, pool |-> work.pool, failed |-> work.failed,
                      manifest |-> manifest, resolved |-> << >>, missing |-> {}, began |-> C!Versions]
      PROVE  CutInv'
  <2>1. PICK began : began = C!Versions
    OBVIOUS
  <2>2. began \in [C!AllItems -> Nat] /\ \A i \in C!AllItems : began[i] = current[i].version
    BY <2>1 DEF C!Versions, CutInv, Currents
  <2>3. ASSUME NEW ref \in work.pool
        PROVE  ref.version <= began[ref.item]
    <3>1. ref.item \in C!AllItems
      BY DEF CutInv, Refs
    <3> QED
      BY <2>2, <3>1 DEF CutInv, Behind
  <2>4. \A i \in C!AllItems : began[i] <= current[i].version
    BY <2>2
  <2>5. snapshot = C!NoSnapshot \/ began[WholeItem] = work.revision
    BY <1>8, <2>2, WholeIsAnItem DEF C!Revision, WholeItem
  <2>6. Begun(work)'
    BY <1>8, <2>1, <2>2, <2>3, <2>4 DEF Begun, C!ToSet
  <2>7. ContextIsACut'
    BY <1>8 DEF ContextIsACut, C!ContextIsACut
  <2> QED
    BY <1>8, <2>1, <2>5, <2>6, <2>7 DEF CutInv, Behind, WholeItem
<1>9. CASE C!Rank
  <2>1. PICK manifest : \/ work' = C!Refused
                        \/ work' = C!Begins([work EXCEPT !.manifest = manifest])
    BY <1>9 DEF C!Rank
  <2>2. UNCHANGED <<current, snapshot>> /\ snapshot = C!NoSnapshot
    BY <1>9 DEF C!Rank, CutInv
  <2>3. CASE work' = C!Begins([work EXCEPT !.manifest = manifest])
    <3>1. work' = [step |-> "resolve", revision |-> work.revision, selected |-> work.selected, at |-> 1,
                   batch |-> work.batch, read |-> work.read, pool |-> work.pool,
                   failed |-> work.failed, manifest |-> manifest, resolved |-> << >>,
                   missing |-> {}, began |-> C!Versions]
      BY <2>3 DEF C!Begins, ContextInv, Shaped
    <3> QED
      BY <1>8, <2>2, <3>1
  <2> QED
    BY <1>2, <2>1, <2>2, <2>3
<1>10. CASE C!Recheck
  <2>1. CASE work' = C!Begins(work) /\ C!Revision = work.revision
    <3>1. work' = [step |-> "resolve", revision |-> work.revision, selected |-> work.selected, at |-> 1,
                   batch |-> work.batch, read |-> work.read, pool |-> work.pool,
                   failed |-> work.failed, manifest |-> work.manifest, resolved |-> << >>,
                   missing |-> {}, began |-> C!Versions]
      BY <2>1 DEF C!Begins, ContextInv, Shaped
    <3> QED
      BY <1>8, <1>10, <2>1, <3>1 DEF C!Recheck
  <2> QED
    BY <1>2, <1>10, <2>1 DEF C!Recheck
<1>11. CASE C!Resolve
  <2>1. PICK ref, at, next :
          /\ ref = work.manifest[work.at] /\ at = work.at + 1 /\ next = [work EXCEPT !.at = at]
    OBVIOUS
  <2>2. /\ Routed(work) /\ work.step = "resolve" /\ work.at \in 1..Len(work.manifest)
        /\ ref \in work.pool /\ at \in Nat \ {0} /\ Shaped(work) /\ Begun(work)
        /\ UNCHANGED <<current, snapshot>>
    BY <1>11, <2>1 DEF C!Resolve, ContextInv, Routed, CutInv
  <2>3. \/ C!Resolves(ref) /\ work' = [next EXCEPT !.resolved = Append(@, ref)]
        \/ work' = [next EXCEPT !.missing = @ \cup {ref}]
        \/ work' = C!Refused
    BY <1>11, <2>1 DEF C!Resolve
  \* In what is to be kept, only what is resolved is new.
  <2>4. ASSUME NEW resolved, NEW missing,
               work' = [step |-> "resolve", revision |-> work.revision, selected |-> work.selected,
                        at |-> at, batch |-> work.batch, read |-> work.read, pool |-> work.pool,
                        failed |-> work.failed, manifest |-> work.manifest, resolved |-> resolved,
                        missing |-> missing, began |-> work.began],
               \A known \in C!ToSet(resolved) : known.version = work.began[known.item]
        PROVE  CutInv'
    <3>1. Begun(work)'
      BY <2>2, <2>4 DEF Begun
    <3>2. ContextIsACut'
      BY <2>4 DEF ContextIsACut, C!ContextIsACut
    <3> QED
      BY <2>2, <2>4, <3>1, <3>2 DEF CutInv, Behind, WholeItem
  <2>5. CASE work' = [next EXCEPT !.missing = @ \cup {ref}]
    <3>1. PICK missing : missing = work.missing \cup {ref}
      OBVIOUS
    <3>2. work' = [step |-> "resolve", revision |-> work.revision, selected |-> work.selected,
                   at |-> at, batch |-> work.batch, read |-> work.read, pool |-> work.pool,
                   failed |-> work.failed, manifest |-> work.manifest, resolved |-> work.resolved,
                   missing |-> missing, began |-> work.began]
      BY <2>1, <2>2, <2>5, <3>1 DEF Shaped
    <3> QED
      BY <2>2, <2>4, <3>2 DEF Begun
  <2>6. CASE C!Resolves(ref) /\ work' = [next EXCEPT !.resolved = Append(@, ref)]
    <3>1. PICK resolved : resolved = Append(work.resolved, ref)
      OBVIOUS
    <3>2. work' = [step |-> "resolve", revision |-> work.revision, selected |-> work.selected,
                   at |-> at, batch |-> work.batch, read |-> work.read, pool |-> work.pool,
                   failed |-> work.failed, manifest |-> work.manifest, resolved |-> resolved,
                   missing |-> work.missing, began |-> work.began]
      BY <2>1, <2>2, <2>6, <3>1 DEF Shaped
    <3>3. ref.version = work.began[ref.item]
      <4>1. ref.item \in C!AllItems /\ ref.version \in Nat
        BY <2>2 DEF CutInv, Refs
      <4>2. /\ ref.version = current[ref.item].version
            /\ ref.version <= work.began[ref.item] /\ work.began[ref.item] <= current[ref.item].version
        BY <2>2, <2>6, <4>1 DEF C!Resolves, Begun
      <4>3. work.began[ref.item] \in Nat
        BY <2>2, <4>1 DEF Begun
      <4> QED
        BY <4>1, <4>2, <4>3
    <3>4. \A known \in C!ToSet(resolved) : known \in C!ToSet(work.resolved) \/ known = ref
      <4>1. PICK pool, before : pool = work.pool /\ before = work.resolved
        OBVIOUS
      <4>2. before \in Seq(pool) /\ ref \in pool /\ resolved = Append(before, ref)
        BY <2>2, <3>1, <4>1 DEF Routed
      <4>3. PICK n \in Nat : n = Len(before) /\ DOMAIN before = 1..n
        BY <4>2
      <4>4. /\ resolved \in Seq(pool) /\ Len(resolved) = n + 1
            /\ resolved[n + 1] = ref /\ \A j \in 1..n : resolved[j] = before[j]
        <5>1. n = Len(before)
          BY <4>3
        <5> QED
          BY <4>2, <5>1, AppendProperties, Zenon
      <4>5. DOMAIN resolved = 1..n + 1
        BY <4>4
      <4> QED
        BY <4>1, <4>3, <4>4, <4>5 DEF C!ToSet
    <3> QED
      BY <2>2, <2>4, <3>2, <3>3, <3>4 DEF Begun
  <2> QED
    BY <1>2, <2>2, <2>3, <2>5, <2>6
<1>12. CASE C!Finish
  <2>1. CASE work' = C!Refused
    BY <1>2, <1>12, <2>1 DEF C!Finish
  <2>2. ASSUME work' # C!Refused
        PROVE  CutInv'
    <3>1. PICK composed, step :
            /\ composed = [fragments |-> C!Fitting(work.resolved), missing |-> work.missing]
            /\ step = (IF snapshot = C!NoSnapshot THEN "composed" ELSE "used") /\ snapshot' = composed
            /\ work' = [work EXCEPT !.step = step]
      BY <1>12, <2>2 DEF C!Finish
    <3>2. /\ Routed(work) /\ work.step = "resolve" /\ Begun(work) /\ Shaped(work)
          /\ UNCHANGED current
      BY <1>12 DEF C!Finish, ContextInv, CutInv
    <3>3. work' = [step |-> step, revision |-> work.revision, selected |-> work.selected,
                   at |-> work.at, batch |-> work.batch, read |-> work.read, pool |-> work.pool,
                   failed |-> work.failed, manifest |-> work.manifest, resolved |-> work.resolved,
                   missing |-> work.missing, began |-> work.began]
      BY <3>1, <3>2 DEF Shaped
    <3>4. Begun(work)'
      BY <3>2, <3>3 DEF Begun
    <3>5. ASSUME NEW k \in DOMAIN composed.fragments
          PROVE  composed.fragments[k].version = work.began[composed.fragments[k].item]
      <4>1. PICK found : found = C!ToSet(work.resolved)
        OBVIOUS
      <4>2. found \in SUBSET Refs /\ work.resolved \in Seq(found)
        <5>1. PICK pool, before : pool = work.pool /\ before = work.resolved
          OBVIOUS
        <5>2. before \in Seq(pool) /\ pool \in SUBSET Refs /\ found = C!ToSet(before)
          BY <3>2, <4>1, <5>1 DEF Routed, CutInv
        <5>3. PICK n \in Nat : n = Len(before) /\ DOMAIN before = 1..n
          BY <5>2
        <5>4. found \in SUBSET pool /\ \A j \in 1..n : before[j] \in found
          BY <5>2, <5>3 DEF C!ToSet
        <5> QED
          BY <5>1, <5>2, <5>3, <5>4
      <4>3. composed.fragments \in Seq(found)
        BY <3>1, <4>2, FittingKeeps
      <4>4. composed.fragments[k] \in found
        BY <4>3
      <4> QED
        BY <3>2, <4>1, <4>4 DEF Begun
    <3>6. step = "used" => work.began[WholeItem] = work.revision
      BY <3>1, <3>2 DEF CutInv
    <3>7. ContextIsACut'
      BY <3>1, <3>3, <3>5, <3>6 DEF ContextIsACut, C!ContextIsACut, WholeItem
    <3> QED
      BY <3>1, <3>2, <3>3, <3>4, <3>7 DEF CutInv, Behind
  <2> QED
    BY <2>1, <2>2
<1> QED
  BY <1>1, <1>5, <1>6, <1>7, <1>9, <1>10, <1>11, <1>12 DEF C!CNext

LEMMA CutInvariance == SSpec => []CutInv
<1>1. SInit => CutInv
  <2> SUFFICES ASSUME C!CInit
               PROVE  CutInv
    BY DEF SInit
  <2>1. current \in Currents
    BY DEF C!CInit, Currents
  <2>2. /\ work.step = "idle" /\ work.selected = << >> /\ work.at = 1 /\ work.batch = << >>
        /\ work.pool = {} /\ snapshot = C!NoSnapshot
    BY DEF C!CInit, C!NoWork
  <2> QED
    BY <2>1, <2>2 DEF CutInv, Behind, C!ToSet, ContextIsACut, C!ContextIsACut
<1>2. ContextInv /\ CutInv /\ [SNext]_<<focus, vars, gvars, cvars, dvars>> => CutInv'
  <2> SUFFICES ASSUME ContextInv, CutInv, [SNext]_<<focus, vars, gvars, cvars, dvars>>
               PROVE  CutInv'
    OBVIOUS
  <2>1. CASE UNCHANGED cvars
    BY <2>1 DEF cvars, CutInv, Currents, Behind, Begun, WholeItem, ContextIsACut, C!ContextIsACut, C!ToSet
  <2>2. CASE C!CNext
    BY <2>2, CutStep
  <2> QED
    BY <2>1, <2>2 DEF SNext, Spend, Grow, Think, Dispute
<1> QED
  BY <1>1, <1>2, ContextInvariance, PTL DEF SSpec

\* However the sources change between one read and the next, all fragments of a context were true
\* together at the moment its last resolution began (compose, current).
THEOREM ContextsAreCuts == SSpec => []ContextIsACut
<1>1. CutInv => ContextIsACut
  BY DEF CutInv
<1> QED
  BY <1>1, CutInvariance, PTL
=============================================================================
