# Verification of the continuity engine

The continuity engine keeps one *subject* alive across conversations, devices and restarts: an
event-sourced state, a scheduler that gives it opportunities to think, planners that act in a
world on its behalf, and a host that runs all this. This directory models the engine in TLA+,
checks the models with TLC on small instances, and proves the properties that matter most with
TLAPS for instances of every size. `PROJECT.json` names for every definition the lines of
`src/` it translates, for every property a mutant of the code that breaks it, and for every
hazard of the code the properties that watch it. Paths below are relative to
`src/src/continuity_engine` unless they start with `docs/`.

## How to run it

    tlc -workers 2 -config MCSubjectGate.cfg MCSubjectGate.tla     # any run of the table below
    tlapm SubjectStateProofs.tla                                   # any of the proof modules

The configuration of a run is `MC<run>.cfg`. Its module has the same name, except that both
scheduler runs use `MCScheduler`, the execution runs (ExecutionPlan, ExecutionRace, StopForgotten)
`MCActionExecution`, ReplayAnswer `MCSubjectState` and Overrun `MCModelExecution`. The proof modules are
`SubjectStateProofs`, `SubjectGateProofs`, `SchedulerProofs`, `ActionExecutionProofs`,
`RuntimeCognitionProofs`, `ResourcesGrowthContextProofs`, `ModelExecutionProofs` and
`InteractionMemoryEntriesProofs`.

## Inventory of the system

The engine is one Python process (or several on one directory) whose threads serve HTTP requests,
tick the scheduler and call adapters. Every component keeps its state in JSON documents; a *write*
of a document is atomic (temporary file, rename), and most repositories save conditionally, under
a revision the caller loaded. Hardly any component holds a lock between the load and the save. So
the hard behaviours are nearly everywhere the same: two calls interleave between a load and the
write that depends on it; a call dies between two writes; an answer of an adapter is lost, late or
about something another thread has settled meanwhile; a retry meets the trace of what it retries.

| component | state | operations | what makes it hard | what makes it correct |
|---|---|---|---|---|
| **Subject state and history** (`services/subject_state_service.py`, `storage/json_repository.py`, `domain/evolution.py`) | one document per subject: state, revision, validated list of updates | create, direct save, apply_event | load, list, evolve and commit are four steps; replay of an event; regressing clocks; direct saves that do not move the revision | the document is an append-only log; nothing recorded is lost; an answer is durable |
| **Subject lifecycle** (`services/subject_lifecycle_service.py`) | the lifecycle field inside the state | submit: create, activate, suspend, resume, archive, delete, intent | authorised on one state, committed to another; birth in one write; delete is final | events only while active; transitions of the table only, by the bound owner |
| **Scheduler** (`services/scheduler_service.py`) | a queue of tasks with attempts under one revision | submit, cancel, tick | overlapping ticks; lost, late and failing answers; crash between checkpoint and receipt; cancellation under way; aging priorities | at most one delivery per task; final states tell the truth; nothing starves |
| **Action execution** (`services/action_planning_service.py`, `execution_service.py`, `storage/json_execution_outbox.py`, the ledger of `json_integration_repository.py`) | capability ledger (no lock), delivery outbox (lock), the world | run, execute, query, cancel, collect, alternative, compensation | a ledger that loses writes; crash around the effect; dependent steps; expiry; owners that cancel | at most one effect per request, none after a cancellation, callers told the truth, order of dependent steps |
| **Persistent runtime** (`services/persistent_runtime_service.py`) | control, owner and generation, observation checkpoint | pause, resume, stop, running, tick, serve | a host dies attached; a command between guard and dispatch | STOP is terminal; one owner; a fenced host does nothing |
| **Runtime cognition** (`services/runtime_cognition.py`) | none of its own: it writes seven stores one after the other | needs, dispatch and query of a task; consolidation and recall | a crash between any two of the writes; a context that ages; late cancellations | a need is thought about once; usage and ends say what happened |
| **Resources** (`services/resource_manager.py`) | daily budget, history of allocations and usage | preview, request, allocate, record usage, set mode | check and conditional save are two steps; overuse | never more reserved than the budget; a session allocated once |
| **Integration operations** (`services/continuity_interaction_service.py`, `storage/json_integration_repository.py`) | operation journal with stages and checkpoints, capability ledger, results | submit, submit_capability_result | crash between any two writes; a request sent again, with another body, or while its wait is open; a subject that others change | the journal says what the stores hold; one change, one thought, one answer per request |
| **Continuity core** (`services/continuity_core_service.py`) | selections, contexts and action choices of a cycle | prepare, authorise, after_action | the choice is replayed after a crash | the choice that ran is the choice that was made |
| **Awakening and wake cycles** (`services/awakening_service.py`, `wake_perception_thinking*.py`) | cycles and sessions | create, wake, recover | a cycle due twice; a session interrupted | one session per cycle and due time |
| **Perception** (`services/perception_service.py`) | none | perceive | none (pure) | deterministic selection |
| **Thinking** (`services/thinking_service.py`) | sessions, one result each | handle, wait for a capability, complete, abandon | a result arriving for an abandoned session | a session ends once |
| **Action assessment** (`services/action_service.py`, `wake_perception_thinking_action_service.py`) | sessions of assessed intents | select, decide, plan, evolve | permissions and subject change while it thinks | it acts on what it knew and was allowed |
| **Timeline** (`services/timeline_service.py`) | none | projection over the updates | unknown order of times | a stable order that respects revisions |
| **Memory, consolidation and lineage** (`services/memory*.py`, `storage/json_memory_repository.py`) | versions of memories and summaries, receipts | consolidate, recalculate, propagate, summarise; deactivate, archive, delete, restore, weaken | reads outside the lock of the write; commands in between; jobs of several writes | what ended stays so; summaries rest on what stands; one evidence, one content |
| **Learning** (`services/learning_service.py`) | candidates, audits, traits | capture, adjust, validate, reject | evidence is withdrawn or loses its independence | a trait is what its history says |
| **Contradictions** (`services/contradiction_detector_service.py`) | cases with their audits, one document (no lock) | detect, resolve, reopen, supersede | lost writes; evidence verified again at every read | every stored history is legal; reopened only on news |
| **Context routing and composition** (`services/context_router_service.py`, `context_composer_service.py`) | none | route, compose, current | sources change between the reads; failing reads; budgets | a context is one cut of its sources; what is required is there |
| **Recall and input processing** (`services/associative_recall_service.py`, `input_processing_service.py`) | facts inside an operation | admit, prepare, finish | partial receipts | no fact without its receipt |
| **Permissions** (`services/permission_service.py`) | one document per permission with its changes (no lock) | create, update_status, restrict, revoke | lost changes; reading one document after the other | no state allows more than the one before it |
| **Environment access** (`services/environment_access_service.py`) | attachments, the host in charge (one document with the entries) | register, disable, hand off | a handover decided on an older document | only the host in charge is relieved or used |
| **Devices and temporary tools** (`services/device_operation_service.py`, `temporary_tool_service.py`) | adapters of the execution path | validate, execute, query | as action execution | as action execution |
| **Growth** (`services/subject_growth_service.py`) | preparations and resolutions in the audit of a learning | submit: solidify, roll back, recover | two documents, no transaction: a crash between preparation, evolution and resolution | traits on record follow what the subject evolved with |
| **Unfinished items, recognition, dynamic mind** (`services/unfinished_item_service.py`, `recognition_service.py`) | fields of the subject's state | submit, commit, withdraw | a field computed anew on an older state; commands sent again | what ended stays so; a conclusion is replaced by what corrects it |
| **Expression** (`services/expression_policy_service.py`) | none | decide | none (pure) | deterministic |
| **Cross entry continuity** (`services/cross_entry_service.py`) | bindings, pauses, deliveries | configure, pause, choose, check, deliver | a check reads the document again for every question | a message goes out only if all that permits it held at once |
| **External capabilities and absorption** | evidence of results | request, adopt | corroboration | nothing adopted without evidence |
| **Model capability** (`services/model_capability_service.py`, `storage/json_model_execution_repository.py`) | ledger of executions and usages (no lock) | submit, recover, retry | a provider that answers late or not at all; a call lost between any two of six writes | executed once; every success accounted; ledger and engine agree |
| **Interfaces and frontend**, **test sandbox** | none | parsing, wiring | — | — |

How they interact: the *host* (persistent runtime) ticks the *scheduler*; a due task becomes a
notification to *runtime cognition*, which asks the *resources*, opens a *wake cycle* and calls
*thinking* and *actions* through the *continuity core*; an HTTP request takes the same path
through the *integration operations*. Both end in events of the *subject* and in requests of the
*action execution*. All calls are synchronous; what is shared are the documents. Callbacks
exist in one place only: the guard the runtime passes to a tick, asked before each dispatch.

## What is modelled, and how it corresponds to the code

### The subject: `SubjectRepository`, `SubjectState`, `SubjectHistory`

`SubjectRepository` is the pure part: events (`domain/events.py`), the lifecycle table
(`domain/subject_lifecycle.py`), what an event makes of a state (`Evolve`,
`domain/evolution.py`), and what the document accepts (`CanSave`, `CanAppend`, `CanCreate`,
`ValidHistory`, `storage/json_repository.py`).

`SubjectState` is the two services. Its variable `doc` is the file; everything else belongs to
the threads (`Writers`): where each is (`pc`), what it loaded (`snap`), listed (`known`), built
(`made`) and answered (`answer`). One action is one stretch of code between two accesses to the
document: `Load`, `List`, `EvolveState`, `Commit`, `Confirm` are `apply_event`;
`CreateCheck/CreateSave` and `EditLoad/EditCheck/EditSave` the direct paths; `CommandReplay`,
`CommandList`, `CommandCreate`, `CommandLoad`, `CommandReload` the submission of a lifecycle
command, which goes on in the same `EvolveState` and `Commit`. `Raise` is an exception or a failed write,
`Restart` the death of the process: all threads forget what they held, the document stays. Only the
write inside the repository is atomic, as its lock makes it.

Abstracted: the fields of a state are the set of items that events add to it, and the time of the last interaction, which an interaction moves
on without any mutation; the clock gives any
value of `0..MaxTime` at every reading; the conflict of two bodies under one identity is the
inequality of two event records. Left out: `import_test_observation` (a test-only import that
ends in `apply_event`), the choice of environments, formatting and hashing.

`SubjectHistory` is the promise: an append-only log of events, each applied to the value of the
same instant. `RefinesHistory` says `SubjectState` implements it: the load, list, evolve and
commit of one call take effect in the single instant of the commit.

### The scheduler: `Scheduler`, `Delivery`

`queue` is the stored queue; `pc`, `attempt`, `draft`, `reply`, `after` belong to the calls under
way, of clients (`Submit`, `Cancel`) and tickers. A loaded revision is kept as membership in
`fresh`: a save succeeds (`Save`) only for a worker in it and then empties it; the others meet
`Conflict`. A tick is `BeginVerify` (ask about the attempt that waits longest; or `Select`),
`Answer`/`NoAnswer`, `Select` or `Defer` (choose by effective priority among the first
`ScanLimit`, checkpoint the attempt as UNKNOWN, save), `Dispatch`, `Receipt`/`NoReceipt`, and the
application of an answer to the queue as it is by then: `Apply`, `Mismatch`, `NotPending`,
`PutOff`. The adapter and the channel to it (`ledger`, `flight`; `Arrive`, `Lose`) follow the contract that
`testing/p11_scheduler_fixture.py` implements: one receipt per attempt, and a query that finds
nothing fences the attempt, so a late request is no longer delivered.

Time is kept as offsets from now, moved by `Elapse`; what is further back than `Horizon` counts
as `Horizon` back. `OrderKept` stops the clock when this would make two overdue attempts
indistinguishable, so no tie is invented. The model has one subject and one environment; a task is created
when it is submitted, and due `DueIn` later, or earlier where that is negative.

`Delivery` is the promise: an opportunity is delivered at most once; COMPLETED only after its delivery,
CANCELLED and RETRY_EXHAUSTED only without one, now and ever.

### The execution of actions: `ActionExecution`, `ActionEffect`

`outbox` and `links` are the delivery outbox, `ledger` the part of the capability ledger the
path uses, `facts` and `effects` the world and its receipts, `expired` the choices whose lifetime
is over, `lock` the outbox transaction, `job` the calls under way. `run` of the planner is
`BeginRun`, `Reserve`+`Write` (reservation of each step), then per step `Resume` (earlier
attempts, confirmed by the adapter), `Ask` (query), `Gate` (permissions, expiry, dependencies),
`Accept` (record a result or proposal, followed by `Write`), `Call`, and at the end
`Retain`/`Return`. `execute` is `Call` (checks; take the lock, checkpoint DISPATCHING), `World`
(the effect), `Answer` or `Refused`, `Collect`. `cancel` is `BeginCancel`, `Stop` (takes the
lock, queries, writes the stop) and `Stopped`. `Abandon` ends any call anywhere, by exception or
death; `Expire`, `Propose`, `AskOriginal` and `Compensate` are the environment of a choice: its clock, a prior
proposal, the look at what is to be compensated and the link of the compensation.

The ledger is modelled as it is: a write replaces the whole document by the draft computed
from what was loaded, so concurrent writers lose each other's records, and the properties hold *in spite* of
that. Abstracted: the gates that depend on other components (permissions, resources, risk, and
that no other entry of the outbox is at work on the same capability or asset: `services/execution_service.py:184-197`)
may refuse at any time; each request has its own capability and target; the world is taken from
the contract of the adapter, without relying on a deduplication of its own; an identical result recorded at the
same clock reading counts as a new record; the checks `execute` makes before it takes the lock are merged
with those it repeats under the lock. Not modelled: the external capability requests of the coordination
service, the result context, the replay through the continuity core.

`ActionEffect` is the promise: at most one effect for a request, none for a cancelled one, and
nobody is told anything but how it really ended.

### The persistent runtime: `RuntimeControl`

`doc` is the checkpoint (`domain/persistent_runtime.py`), `serving` the host that holds the lock of
the owner, `host` where each host is in `running` and `_tick`. `Control` is the command of the
owner; `Attach` and `Leave` the two ends of `running`; `Tick`, then `Guard` and `Stage` in turn,
then `Observe` one tick. A stage is what the work does between two of its guards: the
observation of needs, the tick of the scheduler, one step of a dispatch; here only counts that it
happens. A transaction on the checkpoint is one step, since it holds a file lock from its load
to its save and has no remote call inside; a busy lock is `LeaveBusy` and `ObserveBusy`. `Interrupt`
is an exception that ends the service in order, `Die` the death of the process.

Abstracted: the owner token, drawn anew with each generation, is whether there is one, since owner
and generation are only ever compared together; the revision of the control is the number of commands. The
clock may refuse a tick or a guard at any time. A command that is refused (a wrong expected
revision, a wrong subject, a repeated identity, RESUME of an inactive subject) changes nothing. A
guard refused in the middle of a dispatch leaves only the bookkeeping of the scheduler. The program keeps
the last 64 notes of interruptions; the model keeps them all.

### The resources: `Resources`

`account`, `usage` and `decisions` are the document of `JsonResourceRepository`; `client` is what
each thread has read. A request is `Ask` (the history), `Assess` (the account, and the decision
of `ResourcePolicy`, here `Evaluate`), then `Allocate` or `Defer`: one save under the lock, which looks
the identity up again (`Fresh`) and, for an allocation, insists on the revision that was read (`Current`). Settlement is
`BeginSettle` (the account), `FindUsage` (the record of the session) and `Settle`; a change of mode `BeginMode`, `SetMode`. `Lost` forgets a call anywhere.

Abstracted: identities drawn at random are places in the lists; ratios of what remains are compared by
cross-multiplication, without the rounding of floats; the four kinds of requests differ by whether they
have a depth. The lock of this repository is one per process, so two processes
on one account are out of its contract and of the model. The wake scheduler is a client like any other; what it
does with its allocation belongs to the awakening.

### The model capability: `ModelExecution`

`record` and `usage` are the ledger of `JsonModelExecutionRepository`, one execution per request of a
capability with its attempts, prepared results and delivery marks; `engine` is what the integration
repository keeps of the request (`save_capability_result`, the phases of the operation); `provider` is
what really became of each attempt; `call` is the call under way, and `today` the clock. `Submit`,
`Recover` and `Retry` are the entry points; they end in `_drive`, whose branches are the actions:
`Reserve` (`_ensure_record`), `Redeliver`, `QueryDispatched` (a dispatch without an answer),
`QueryAmbiguous` (an answer that settled nothing: `_persist_query_resolution`), `Classify`,
`Conclude` and `Dispatch`. After them come the writes in the order of the code: `Execute`
(`_execute_with_budget`), `PersistFact`, `Account`, `Prepare`, `Deliver`, `Finish` (the engine completes),
`Checkpoint`, and `MarkCompleted` where the engine had completed before. `Lose` drops the call
between any two of them, by an exception, a failed write or the death of the process. `Decide` is a provider that
settles an attempt it had kept open: with an outcome, or with the proof that it never ran. `Refuse` is
`authorize_new_computation`, which a new computation has to pass before its attempt is kept and again before the provider is called.

Abstracted: a fact is its class, its tokens and its day; requests differ only in their identity; token
limits stand for all limits of a profile. Calls follow one another: nothing in the ledger guards against two
writers, and the assembly of the service (`interfaces/local_model_capability_app.py`) adds no lock, so a host has to call
it in turn, as its tests do. Two concurrent calls on one ledger are not modelled.

### Native cognition: `NativeCognition`

How a need of the subject becomes one thought (`runtime_cognition.py`). A need is named by the revision it
was found in and by its round: the store evidence that a closed task was never executed lets it be assessed again. `Submit`, `BeginDispatch`
and `BeginQuery` are what the scheduler does with the task; `Wake`, `StartWake`, `FinishWake`, `Mind`, `Allocate`,
`Refused`, `SavePrepared`, `Provide`, `Enter`, `Call`, `Answer`, `Thought`, `Act`, `Evolve`, `Note`, `Settle`, `Deliver` are one
dispatch, each up to the next durable write; `Query`, `Close` and `CloseTask` take up what a lost call left.
`Lose` drops the call between any two. `Change`, `Age`, `Withdraw` and `Cancel` are the world around it:
the subject evolves elsewhere, a context expires, an event is revoked, the task is to be cancelled. `Remember`, `Write` and `Recall` are the
upkeep of memory.

Abstracted: what is thought; the resources, which may refuse what they have not given yet; the queue, whose order,
times, capacity and backpressure belong to `Scheduler`; the dispatch of an action, which is that of
`ActionExecution`; the limit of 64 events of one consolidation. The repository of action sessions
counts as durable, as `testing/p18_runtime_fixture.py` makes it. Only `runtime_cognition.py` itself calls
`cancel`. A thought that was returned but did not evolve, whose receipt was lost and whose context has aged, stays
UNKNOWN for ever (`Stranded`): the code keeps it so, and `CognitionEnds` says what it may wait for.

### An interaction: `InteractionJournal`, `Exchange`

`ContinuityInteractionService` over its ledger. `op` is the journal, `wake`, `think`, `asked`, `attempts`, `subject` and `done`
the stores it speaks of, `call` the one call being served: the server is serial. `Submit` and `Deliver` are the
two entry points; then each action is one durable write: `Prepare`, `BeginWake`, `EndWake`, `CheckpointWake`,
`Perceive`, `BeginThinking`, `CallProvider`, `EndThinking`, `Ask`, `BeginWait`, `CheckpointCapability`, `TakeResult`, `Resume`,
`RefuseSession`, `CheckpointThinking`, `Decide`, `CompleteDomain`, `Evolve`, `AttachEvolution`,
`CheckpointEvolution`, `SaveResult`, `Close`. `WellFormed` and `MayFollow` are what the ledger accepts; a record it refuses is a
fault of the call. `Stop` ends the process between any two writes; `ChangeElsewhere` changes, suspends or
resumes the subject.

Abstracted: the body of a message is the revision it expects; a capability result its identity and status. Not
modelled: the optional continuity core inside the call, expression and station receipts, the
binding (it is fixed), the HTTP contract, and the recovery of records older than the journal.

`Exchange` is the promise to whoever sends a request: it is admitted at one revision, changes the subject at most once
and only from that revision, and is answered once with the revisions the subject really had. The refinement
maps `Reserve` to `Admit`, `Evolve` to `Change`, `SaveResult` to `Answer`, and all else to a stutter.

### Memory: `Memory`

`memory` and `summary` hold the last version of each memory and summary, `receipts` the consolidations on record, `timeline` what
became of each event, `job` the writes that each maintenance call still has to make. A consolidation reads three times, and anything may
happen in between: `Consider` (what was put away or cannot be used), `Consolidate` (the list of what there is: merge, create or refuse) and `Bind`
(the versions of the memories the result is made from). `Recalculate`, `Propagate` and `Summarise` read once. They leave their writes in
`job`; `Write` makes the next one in one transaction, which
checks again what the repository checks (`Accepted`: `MayAppend`, `SourcesAreCurrent`, `MayConsolidate`, `Loads`), or is refused
and ends the call. `Propagate` tells a memory that its event was corrected or revoked, or that it is deleted (`Signals`). `Command` is a lifecycle
command, one transaction; `Reconsider` corrects or revokes an event. `Usable` is the
recursion of `_usable_in` as a least set: a memory in a cycle of sources is in none.

Abstracted: kinds and types of evidence are part of the scope; times, confidence and activation are free
choices, so that a memory may be archived for its temperature from the beginning or by any merge or recalculation (`cold`); a weight is
full, less or zero; lineage is what the versions say. Core runs one maintenance call at a time, recall another. `unseen` records what a
consolidation could not find of its evidence, and is read by no action but only by `OneMeaning` (see Findings).

### Growth: `Growth`

`candidate` is what was learnt, `command`, `preparation`, `resolution` the audit, `active` the traits on record,
`subject` what the subject evolved with, `submission` the command under way (the lock). `Submit`, `Settle`,
`Prepare`, `Confirm`, `Evolve`, `Finish` are one submission; `Break` ends it anywhere and frees the lock, so what was left
prepared is settled by the next command for the same learning. `Capture`, `Adjust`, `Reject`, `Validate` change candidates without that
lock; `Revoke` and `Elsewhere` are the timeline and the other events of the subject. Confidence counts
twentieths and an average is rounded down. Left out: owners and permissions (a refusal is `Break`), analyses and what they cost.

### Entries: `Entries`

`document` is the one document of attachments, bindings, pauses and the host in charge; every writer names the revision it
has seen (`Transacts`). `setting` is a change under way (`See*`, `CheckSetting`, `WriteSetting`), `delivery` a message and
its check: `Choose` (the binding of the source is read), `Seal` (that of the target, on its own, and sealed with the choice), then
`Begin`, `CheckSource`, `CheckTarget`, `CheckContact`, `CheckOrigins`, `Compare`, each a read of
its own; whether the origins may be told is asked only here. Ports, expiry and the state of the subject may refuse anywhere (`RefuseChoice`,
`Refuse`, `Abandon`); accounts, audiences and purposes are left out, and so are conversations across entries and the later use of what was sent
(`delivery_current` for `consume`): that makes the same reads without the contact check, and sends nothing.

### Context: `Context`

`current` is what each source would return, `work` the routing and composition under way, `snapshot` the
context. `Perceive` selects the sources, `Open` reads one for as many candidates as its share of what the sources before it left, and
the limit of that source, allow (`Allocated`, `Capped`),
`Validate` reads each candidate again, `Rank` orders them, `Resolve` reads one reference, `Finish` composes what
fits (`Fitting`), `Recheck` resolves everything again before the context is used. `Change` moves any source
between any two of these. Abstracted: relevance and order (an arbitrary order), permission (any read may be
refused), contents, exact duplicates. `Resolves` is the check of a resolver: the very version, and still usable.

### Contradictions: `Contradictions`

`cases` is the document, `proven` the evidence the verifier accepts at present, `client` the calls. `Detect` and
`SaveDetected` open cases where the claims of one context are incompatible (`Disputed`, `Trusted`); `Decide` and `AppendTransition`
resolve, reopen or supersede one; `Write` replaces the whole document by the one that was read and one audit more, so
that writers lose what others wrote. `Readable`: all evidence of past decisions is verified at every read, so one
withdrawn evidence makes the whole document of a subject unreadable until it is found again. That is what the code does; nothing in
the repository says otherwise. A piece of evidence rests on one or more sources (`Grounds`); a case is reopened if not all of them are known to it,
be it from its claims or from earlier decisions.

### The gate of actions: `ActionGate`

`document` holds the changes of each permission, `owner` the calls that change them (`Load`, `Compare`, `Write`: no lock),
`wake` the call of an awakened subject: `Perceive`, `Think`, `Read` (the permissions one after the other), `Decide`,
`Evolve`. `Decision` is the order of the gates. `update_status` may set any status, so a revoked permission can become active again, as wide
as it was; and a revocation whose owner was told may be overwritten by another owner's change. What holds is
`NeverWidened`. Abstracted: the second provider of permissions, any of whose grants may be missing, stale or in need of a confirmation;
what an action costs; scopes, which are part of a capability's name.

### Unfinished items and recognition: `Matters`

Both are fields of the subject's state, so `history` is all there is; `command` holds the bodies of issued
commands, `call` the calls. `Begin` issues a command or sends it again; `ReadHistory`, `Prepare` and `Apply` are one call;
`Happen` is any other event. What has ended is no longer in the state and is found only in the history (`Admissible`). A command names
any revision its caller likes; `named` records how it stood to the present one at issue. `MattersEndOnce` is about what callers know, not guess
(`Prudent`): the history is read before the state is compared with that revision, so a command that named a revision still to come may
miss an end recorded in between, and the code would accept it.
Abstracted: evidence that is not current any more, owners and gates, the legacy list, times, and all conclusions but one.

### Compositions

`SubjectGate`, `ResourcesGrowthContext`, `InteractionMemoryEntries` and `MCRuntimeCognition` put components side by side
that share no store: none of them writes what another reads. A behaviour of the composition is therefore
about one of them, which the initial state chooses (`focus`), while the others rest; interleaving them would only
multiply states without adding a behaviour of any one. Each composition names the properties of its components. The
theorems of a component alone carry over by a lemma (`SubjectBesideOthers`, `ResourcesBesideOthers`,
`JournalBesideOthers`: the composition implies the component's specification). Components that do interact are composed by
what one assumes of the other: the adapter of `Scheduler` is the contract `NativeCognition` and `ActionExecution` are written to, and the
events that `Growth`, `Matters` and `InteractionJournal` apply are steps of `SubjectHistory`.

## Runs

| run | question | properties | instance |
|---|---|---|---|
| SubjectGate | does an interleaving of creates, edits, events, conflicts and lifecycle commands lose or rewrite history, or report what is not there; does a permission widen, or a wake act on what it was not granted; does an ended matter come back, or a conclusion go without its answer? | `DurableAnswer`, `Consistent`, `RefinesHistory`, `NeverWidened`, `ActsOnWhatItKnew`, `MattersEndOnce`, `ConclusionsAreAnswered` | subject: 2 writers (symmetric), 3 event and 3 command identities, clock 0..1; gate: 1 permission, 2 owners, 1 wake; matters: 2 callers, 3 commands, 1 item, 3 learnings; 1,981,494 states |
| ReplayAnswer | (finding) may a replay return a state older than the update? | `ReplayReturnsCurrentState` | the subject of SubjectGate |
| SchedulerRace | is an opportunity delivered twice, an attempt forgotten or a report taken back? | `NoAttemptLeftOpen`, `ReportsAreDurable`, `RefinesDelivery` | 2 tickers, 1 client, 1 task of 2 attempts, 1 fault; 985,751 states |
| SchedulerLive | does the queue overflow, and does a task end although another's result stays unknown for ever? | `WithinCapacity`, `ResponsiveTasksEnd` | 1 client, 1 ticker, 3 tasks, one of them due later and one overdue, capacity 2, fair; 609,317 states |
| ExecutionPlan | are dependent effects in order when a plan is retried and compensated? | `DependenciesFirst` | 1 planner, plans {first, second} and {undo}, the first may be tried twice; 4,419,812 states |
| ExecutionRace | is there at most one effect, and none after a cancellation, with two planners of one choice and an owner who cancels? | `RefinesEffect` | 2 planners (symmetric), 1 owner, 1 request; 4,313,400 states |
| StopForgotten | (finding) is the stop of a cancellation in the ledger? | `StopIsRecorded` | 1 planner, 1 owner, 1 request |
| RuntimeCognition | does a host act against what the owner last commanded, and do hosts end after a stop; is a need thought about twice, a reservation settled for what did not happen, a task ended untruly, or never? | `AtMostOneLateStage`, `ControlTakesEffect`, `OneThoughtPerNeed`, `UsageIsTrue`, `EndsAreTrue`, `CognitionEnds` | control: 2 hosts, 3 identities (the third only stops), 1 loss; cognition: 1 need assessed twice, 2 attempts a task, 1 lost call, 1 event; fair; 93,054 states |
| ResourcesGrowthContext | is a budget overspent or a charge lost; does a trait stand without its evidence, or twice; is a context a mixture of times, or without what it requires; is a stored dispute illegal or reopened without news? | `AccountsBalance`, `TraitsFollowFacts`, `OneActiveTrait`, `ResolvedForGood`, `ContextIsACut`, `RequiredOrNothing`, `HistoriesAreLegal`, `ReopenedOnNews` | resources: 2 clients (symmetric), 3 requests, two of one session; growth: 2 learnings (symmetric), 3 commands; context: 3 sources with 5 items, budgets of 4 candidates, 3 fragments, 4 tokens; disputes: 2 cases, 2 pieces of evidence that share a source, at most 5 audits; 2,628,931 states |
| ModelExecution | is a request executed twice, a success left unaccounted, and does every request end? | `ExecutedOnce`, `SuccessIsAccounted`, `RequestsSettle` | 2 requests that share the budget of a day, one of them retried, 2 attempts, 2 days, 2 lost calls, fair; 356,376 states |
| Overrun | (finding) may a success beyond its limit reach the engine? | `OverrunStaysOut` | 1 request, 1 attempt, executions that use 1 or 2 tokens of 1 |
| InteractionMemoryEntries | does the journal of an interaction say what the stores hold, is a request thought about, applied and answered once; do summaries rest on what stands, does evidence mean two things; does a message go out although something that permits it no longer holds? | `JournalFollows`, `ThoughtOnce`, `FaultsForAReason`, `RefinesExchange`, `TerminalIsLast`, `SummariesStand`, `OneMeaning`, `SentAsPermitted`, `DecidedOnCurrent` | journal: 2 requests, 2 results (both symmetric); memory: 3 memories, 2 events, 1 summary, 4 candidates, 4 writes; entries: 2 entries, 1 attachment, 2 hosts, 2 users, 4 documents; 819,463 states |

*Why the bounds are enough.* Every hazard of the subject is a race of two writers: a third adds
another interleaving of the same pairs of steps on one document, and what it could break is covered
by the proofs, which have any number of writers. Two clock values suffice to make a clock regress; three
identities to have an event, one that refers to it and one that conflicts. At the gate two owners race for one
document while a wake reads it; more permissions are more documents of the same kind. The matters need an
issued, a repeated and a conflicting command, and learnings that propose a conclusion, correct it and disprove
the correction. In the scheduler an attempt, a late answer about it and the next attempt need two attempts
and two tickers; overflow of the capacity a dispatched, a waiting and a new task; starvation two tasks. In the
execution a lost write needs two workers, a dependency two steps, a compensation a third. In the runtime a second host
exists only to attach after the first was lost, and three identities give a pause, its resumption and a stop, or one
repeated. In the cognition one loss at every place is followed by every recovery, and a second round follows only a first that was closed. In
the resources a budget that the two sessions overspend, and requests on both sides of each threshold of
the policy, make every branch of it fire. Two learnings that suggest one trait, and three commands, give a solidification,
its roll back and one left half done. The candidates of the context do not all fit, and its identity must not be cut. One
case in dispute has claims of independent sources and one has not; of the two sources of one piece of evidence one is a claim of the first case and the other is what the second piece rests on, so that
what is partly known is told from what is all known. In the model capability two lost calls let a loss
follow the recovery from a loss, the second attempt shows what a retry may do to the first, a budget of one execution a
day makes the requests compete for it, and the second day gives it back. The candidates of the memory are those of its
hazards: one evidence under two contents, in two scopes, by way of a memory, and two memories that merge; four writes
let a command or a recalculation come between the reading and the writing of the second consolidation. An
entry and its attachment are checked one after the other, so two of each that change are enough.

The bounds in guards are constants: `MaxTime`, `Horizon`, `MaxFaults`, `MaxLosses`, `MaxLost`, `MaxDay`, `Retried`,
`MaxAttempts` (of a model execution), `MaxRound`, `MaxRevision` (of a subject, or changes of mode), `MaxGrowth`, `MaxChanges`,
`MaxWrites`, `MaxDocument`, `MaxGate`, `MaxExperience`, `MaxMatter` and `MaxCourse`; proposals are limited by the
`MaxAttempts` of the program. Four state constraints save states. `InOrder` keeps one of several behaviours that differ in names, and in the entries ends a behaviour
when a message went out (what changes afterwards changes without one as well) or when a setting is left that no further document can take.
`OneField` keeps the commands about matters and about conclusions in different behaviours, since they change different fields.
`OneAstray` lets one command of a behaviour be unusual: of a wrong kind, a matter that begins ended, or one that names another revision than the present. That and
`Audited`, which ends a behaviour of the disputes after so many audits, are bounds.

Deadlock is checked in every run but those in which the system really may come to an end: in `ResourcesGrowthContext` all requests
are decided, all learnings settled, the context made or all audits written; in `RuntimeCognition` the hosts have
stopped or all needs ended; in `InteractionMemoryEntries` all requests are answered and all writes made; in `ModelExecution` and
`Overrun` every request is completed on the last day. `SubjectGate` ends its behaviours of the gate and of the matters by a step of its own (`Ended`)
when their bound is reached, so a deadlock before that would be found.

*Fairness.* `SchedulerLive`, `RuntimeCognition` and `ModelExecution` use a fair specification. In the scheduler,
`Ticks` is weakly fair because `serve` of the runtime ticks for ever and no tick blocks; `Select` strongly
because the deferrals (subject inactive, quiet hours, no resources) come and go but not at every tick for
ever; `Save \/ Conflict` weakly because a save ends one way or the other; `Elapse` weakly because time passes. Strong
fairness of the adapter's answer is assumed only for tasks in `Responsive`, and the property is about those: the
other task may stay unknown for ever.

In the control of the runtime, `Leave`, `Tick`, `Guard` and `Stage` are weakly fair because `serve` loops without
waiting for anybody; the disjunct of `Stage` that ends the work is strongly fair because a tick has finitely many
stages; `Observe` is strongly fair because the checkpoint is not busy each time. Nothing is
assumed of the owner, of the subject's life, of `Attach` (nobody need start a host) or of faults.

In the cognition the work on each submitted task is strongly fair (`NFairness`): `serve` ticks the scheduler for ever, and the scheduler
comes back to every task, which is its own `ResponsiveTasksEnd`. At most one task is open at a time in the instance, so the
run states it as weak fairness of the work on any. Losses are bounded, and nothing is assumed of cancellations, of changes of the subject or of
the aging of a context.

In the model capability `Step` is weakly fair because `_drive` is a loop that waits for nobody; `Dispatch` and `Execute` are together strongly
fair, which says that a new computation is not refused for ever (the subject is active again at some time); `Submit` is
strongly fair for a host that sends an unanswered request again, whenever no other call is under way; `Decide` is
weakly fair because a provider settles what it holds. `Retry` and `Recover` are not fair: a request
that failed for now may stay so, and `Settled` counts it.

## Findings

Three runs are expected to be violated: they state what a document says and the code does
not do.

* `ReplayReturnsCurrentState`: `apply_event` loads the state before it lists the history. If the event
  is committed in between, the replay returns the update with a state that predates it.
* `OverrunStaysOut`: a success is judged against the limits only when it is the first answer to its attempt; one that
  a query finds after an ambiguous answer is kept, accounted for and given to the engine whatever it used.
* `StopIsRecorded`: `cancel` records the stop by a load and a replacement of the ledger without a lock; a
  run that loaded the ledger earlier writes over it. The outbox still refuses the dispatch (`RefinesEffect` holds),
  but the ledger no longer backs it up, as the document says.

Found while proving: **one evidence, two contents.** `OneMeaning` once spoke of all memories, and no run contradicted
it. The attempt to prove it did. Let `p` rest on the event `e1`; `n` on the same event, in another scope; and `m`, in scope `s` with
content `a` and with `e2` among its roots, on the memory `p`. When `n` is deactivated, the weight that `e1` may
still give `p` is zero, so `m` is not usable and not listed, although its own state is AVAILABLE. A consolidation of `b` in scope `s` from
`e2` therefore reads no conflict. If `n` is restored between that read and the write, the checks of the write pass, and
`e2` stands under two contents in one scope, which `services/memory_consolidation_service.py:132` means to exclude. The services of the engine
create memories of events only (`_consolidate_events` of the core, the absorption of external results); memories made from memories come through the
interface of the service and its tests. A second way to the same end needs no such memory, and TLC finds it once the reads
of a consolidation are kept apart: the old memory is active when the consolidation looks for what was put away (lines 91-98), deactivated when it lists what
there is (105), and restored before the write. `OneMeaning` now says what holds, and is proved: of memories that rest on events alone, but for one that was put
away exactly when the list was read (`unseen`). No document of the repository speaks of either case. The
instance of the run has not the four memories the first counterexample takes.

What the models keep as the code has it, and no document forbids: a revoked permission can become active again, as wide as it was (`ActionGate`);
a revocation its owner was told of can be overwritten by another owner; one withdrawn piece of evidence makes the
whole dispute document of a subject unreadable (`Contradictions`); a choice that expires while another run
dispatches it leaves a receipt nobody can accept (`services/action_planning_service.py:206`); and a learning may be rejected
between the last look at it and the evolution that makes it a trait (`services/subject_growth_service.py:211`). The last two are the hazards without a property.

## What is proved

All theorems are about the specifications the runs check, for all values of the constants that satisfy the assumptions
stated with them: disjoint identities and well-formed requests (`RepositoryAssumption`, `ServiceAssumption`,
`ExecutionAssumption`, `ResourceAssumption`, `JournalAssumption`), positive limits and natural bounds (`SchedulerAssumption`, `ControlAssumption`,
`CognitionAssumption`, `ModelAssumption`, `GateAssumption`), finitely many memories (`MemoryAssumption`), and a whole source that is not empty among
finite sources with natural costs (`ContextAssumption`). TLC evaluates them in every run. Every invariant and every safety
property of the passing runs is stated by a theorem; the theorems also hold beyond the bounds, which are arbitrary constants.

**`SubjectStateProofs`.** `TypeCorrect`, `WritersStayConsistent`, `AnswersAreDurable`, `UpdatesAreKept`,
`OnlyTransitionsChange`, `InactiveSubjectsRecordNothing`, `DeletedSubjectsStay`,
`UpdatedAtIsMonotone`, `DocumentIsAHistory`. The inductive invariant is `Consistent` (checked by
SubjectGate): the document is empty, bare at revision 0, or has a valid history
(`DocumentInv`); a loaded snapshot is outdated or equal to what is stored (`SnapshotInv`: from revision 1
on a revision names one state); a writer about to commit holds what its event makes of its
snapshot (`CommitInv`); and whoever was answered finds the record (`ConfirmInv`). None of the
properties is inductive by itself: a stale writer is harmless only because its snapshot's
revision tells it from the stored one. The refinement maps the commit to the append and everything
else to a stutter. Besides what the run checks, it is proved that no update is lost (`NoLostUpdate`), that only the transitions of the
table change a lifecycle (`OnlyTransitions`), that an inactive subject records nothing (`RecordedOnlyWhileActive`), that deletion is final
(`DeletedIsFinal`) and that times never go back (`UpdatedAtNeverRegresses`).

**`SubjectGateProofs`.** `PermissionsOnlyNarrow`, `ActsAreFounded`, `EndedMattersStay`, `ConclusionsAreCorrected`. A document of the gate is a
chain in which each link allows no more than the one before; an owner that waits to write holds such a chain,
whatever the document has become (`HolderInv`), so an overwritten document is narrowed as well. A wake was granted no more than was permitted
at some moment since it began, and when it is about to change the subject it has loaded the revision it perceived. Of the
matters: the history only grows, and a prudent command names a revision no later than its issue, so what a call read was read at that revision or
later; what it prepared is true as long as its command names the present revision, and is refused afterwards.

**`SchedulerProofs`.** `TypeCorrect`, `AttemptsOneByOne`, `ReportsStand`, `CapacityKept`, `SchedulerKeepsItsPromise`, for any tasks, tickers and
clients. In the stored queue (`QueueInv`) the attempts of a task before the last are known not to
have been delivered and never will be, the last is as the state says, and no later one was ever heard of. A queue
about to be saved over the revision it was loaded from differs from the stored one in one record, itself sound (`DraftInv`); a call that speaks
with the adapter is about an attempt on record (`CallInv`), and was told the truth (`ReplyInv`). That the fence of a query comes before the next
attempt is what makes `Delivery` hold: a request in flight for a fenced attempt is not delivered.

**`ActionExecutionProofs`.** `TypeCorrect`, `EffectsLeaveTraces`, `OrderIsKept`,
`ExecutionKeepsItsPromise`. The inductive invariant `IInv` says of each worker `Sound`: inside an
outbox step it holds the lock (`Locked`), it is where its plan says (`Placed`), what it believes
about a request was confirmed by the adapter, whose receipts never change (`Informed`), and what it
is about to dispatch is fit for it (`Protected`); of each entry that effects, counted attempts and state
agree (`EntryInv`); of callers that they were told what is so (`ToldInv`). It assumes nothing of the ledger:
that is the point of the argument, since the ledger loses writes. Each action has a lemma; a worker not
involved keeps `Sound` because only the lock holder changes the outbox, and the world
only under the lock.

**`RuntimeCognitionProofs`.** Of the control: `CheckpointStaysLoadable`, `ControlIsShown`, `WorkStopsAtNextGuard`,
`EveryLossIsNoted`, `NothingFollowsStop`. The inductive invariant adds to the properties what relates hosts
and checkpoint: a host at work holds the lock and its generation is the present one (`OneAtWork`); until a
stop the last owner stays recorded (`OwnerStays`); once a late stage is done no host is at a stage, because the next guard sees the
command (`NoneLate`); an observation that no control has overtaken is one of what is desired (`Observed`). Of the
cognition: `TypeCorrect`, `ThoughtOnce`, `UsageTold`, `EndsTold`. What is known of a need depends only on its own
records and on where the call for it is: that is `Local`, with a part for each stretch of the dispatch (`CalledInv`, `WokenInv`,
`EvolvedInv`, `UsedInv`, `QueuedInv`), and a call for another task does not touch it. The rounds of one revision are tied by `Ordered`: a round begins only
after the earlier ones were closed as never executed, and nothing opens them again. Therefore the provider is called once for
all rounds together, which no single record says.

**`ResourcesGrowthContextProofs`.** Of the resources: `TypeCorrect`, `NothingIsAllocatedTwice`, `ReserveIsProtected`,
`ModeIsFollowed`, `UsageIsSettledOnce`, `AccountsAddUp`. A reading of the current revision is the account (`SeenIsCurrent`), so the comparison
of revisions under the lock carries the judgement of the policy over to the commit (`Judged`; `PolicySound` is the lemma
about the policy: what it allows fits and is no deeper than its mode). `AccountsAddUp` needs to know that a sum over a
finite set does not depend on the order in which it is taken; as no theorem of induction with an operator as its parameter can be used, that
is proved for the set of subsets for which it holds, from the well-foundedness of inclusion of finite sets.
Of the growth: `TraitsAreTraced`, `TraitsAreOne`, `ResolutionsStand`. The lock of the submission leaves one
thing at most to resolve of a learning; a proposed trait finds none of its learning on record, and a withdrawal the
trait it withdraws, until it is resolved by whoever comes. Of the context: `RequiredIsThere`, `ContextsAreCuts`. A version only
grows, so what was read before the resolution began and is resolved after it began did not change between, and all that a context holds was current at
the instant in which the resolution began. Of the disputes: `DisputesStayLegal`, `ReopeningsAreNews`: what a call
is about to write is sound by itself, so it does not matter whose document it overwrites.

**`ModelExecutionProofs`.** `TypeCorrect`, `RequestsAreExecutedOnce`, `SuccessesAreAccounted`,
`EngineAndLedgerAgree`. No step for one request touches another, so the invariant (`Invariance`) is `Local`, on the five values
kept for one request, and `Frame` carries each step over to the state. `Traced` says that only the last
attempt may have succeeded or be open, and that what the ledger says of it is what became of it (`Honest`); `Charged` that the
usage is that of the success and precedes its result; `Followed` that results are distinct, and that the
engine is at most one result behind the ledger and the ledger at most one mark behind the engine;
`Fits` what a call has made sure of before it comes where it is. The properties are not inductive: a retry is
harmless only because a retryable or disproved attempt is so at the provider too, which is `Honest`.

**`InteractionMemoryEntriesProofs`.** Of the journal: `JournalCorrect`, `OneThought`, `JournalKeepsItsPromise`, `FaultsHaveReasons`. What is kept of one
request is sound by itself (`Sound`): its record is well formed, agrees with the sessions, the updates of the subject and the
result, and knows the result that closed its capability; the call being served finds its request where it left it
(`Served`); and the rest stays sound although the subject moves on (`FrameStep`). Of the entries: `MessagesArePermitted`,
`SettingsAreCurrent`. The document only grows by revisions, so to compare the revision that was read with the present one
is to compare the whole document, and all that was found on the way still holds (`SettingInv`, `DeliveryInv`). Of the memory: `EndedMemoriesStay`,
`SummariesAreCurrent`, `EvidenceHasOneMeaning`. Every version, stored or planned by a call under way, has the fields a write is checked by
(`MemoryTypes`). A transaction leaves summaries that stand because that is checked of the document it makes; a
lifecycle command is not checked so, but ends no memory that a summary rests on. What is said of which evidence is
changed by a consolidation alone, of which there is one at a time and which reads everything that rests on its evidence but what is put away at
that moment; so what it decided still agrees with the rest when it is written, whatever commands came between (`MeaningInv`), and only what it could not
see is excepted.

Some theorems state properties that no run lists, because a run that checks the others would add nothing: type
correctness, `Loadable`, `ShownAsDesired`, `LossesAreNoted` and `StopIsTerminal` of the control, `AllocatedOnce`, `ReserveIsKept`, `DepthFollowsMode` and
`SettledOnce` of the resources, `EngineFollowsLedger` of the model capability, `EffectsAreTraceable` of the execution.

## What is only model-checked

Liveness: `ResponsiveTasksEnd`, `ControlTakesEffect`, `CognitionEnds` and `RequestsSettle`, because fairness and ENABLED are beyond the
provers. That a tick finds something to choose whenever it should is part of the first. The three findings, which are
counterexamples. What `Cost`, relevance and order compute is not proved either: they are arbitrary constants or choices.

## What is not modelled, and why

* *Perception*, *expression* and the timeline's projection are pure functions of data no protocol depends on; what they lead to is a free choice in the models.
* *Recall and input processing* are stations an accepted input passes; each writes a receipt of its own, which `InteractionJournal` has as one step.
* *External capabilities and absorption* follow the path of `ActionExecution` and of the model ledger in outline, against providers of which the repository has no implementation.
* *Interfaces and frontend* parse, route and wire; the *test sandbox and fixtures* support the tests. Neither keeps state of the engine; the adapters the services are tested against are modelled where they are used.

Of the components marked `partly`, `PROJECT.json` says what is left out and why.

## Plan

The order is that of the risk: what acts outside the process first, then what runs it, then what
it remembers, then what it computes. The subject, the scheduler, the execution, the runtime, the resources, the model capability, the
cognition, the interaction, memory, growth, entries, context, disputes, permissions and matters are done, each with its proofs.
What is left, in this order:

1. Two writers of one model ledger, which would be `ModelExecution` with what each call has read, and the receipts of
   expired choices in `ActionExecution` (`ReceiptsRecoverable`).
2. The rest of an interaction (`domain/integration_results.py`, `services/continuity_interaction_service.py`): recovery of older
   records, expression and station receipts, and the continuity core inside a call.
3. Lineage, activation and time of `domain/memory.py`, as part of `Memory`.
4. The scoring and the composition of `domain/context_routing.py` and `domain/context_composition.py`, as pure algorithms against
   reference definitions.
5. The rules of `domain/action.py` and of the wake cycle, which the models have as choices; then external capabilities.
