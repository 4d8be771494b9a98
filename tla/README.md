# Formal verification of Sentinel Procurement Agent

TLA+ models of the coordination core of the agent (`apps/api/src/sentinel_api`,
below `src/`), the TLC runs that check them and the TLAPS proofs about them.
`PROJECT.json` is the index: components, runs, what each definition models
(file and lines), known disagreements with the documentation, the hazards of the
code, the theorems. Paths below are relative to `sentinel_api/` unless they
start with `docs/` or name a file of the repository's root.

## The system

A buyer's request becomes a *run*. A durable parent workflow starts child
workflows that research suppliers, evaluate them, generate artifacts and prepare
an email proposal. The operator watches projections of an event journal, steers
the run (pause, resume, redirect, message, retry) and decides on the proposal;
only an approved, unexpired, unspent permit for the exact current version lets
one email leave.

| Component | State | Operations | Talks to |
|---|---|---|---|
| Parent workflow (`workflows/parent.py`, `child.py`) | work states, results, active children, accepted commands, pause flag, request revision | run, five updates, redirect and retry application, child start and finish | journal and invalidation activities; children; operator through updates |
| Event journal (`persistence/postgres.py`) | events per run with a sequence, idempotency keys, projections, outbox | create, append, rebuild, claim, publish, release | every component appends; stream and views read |
| Event stream (`realtime.py`, `routes/events.py`) | a reader's cursor | batches, heartbeat, resume | journal |
| Executor (`integration/executor.py`) | records of one attempt | research, evaluate, artifacts, proposal | research tools, evaluation, broker, records |
| Approval broker (`protected_actions/`) | proposals, versions, permits, intents | create, edit, issue permit, authorize and consume | the gate calls it |
| Operator gate (`integration/service.py`, `protected.py`, `repository.py`) | put-once records: autonomy, proposal refs, decisions, executions | create run, control, redirect, retry, decide, edit, execute, set autonomy | broker, email service, parent, journal |
| Email execution (`email/`) | outcome per intent with its audit trail | execute, reconcile | outcome store (compare-and-set), provider |
| Redirects (`integration/service.py`, `workflows/parent.py`, `integration/executor.py`) | command, prepared and promoted revision records; the parent's accepted and applied redirects | submit, store, update, promote; load the revision | operator, parent, executor |
| Evaluation (`evaluation/`, `research/evidence.py`) | the observations and conflict groups of a revision, the evaluations so far | observe, find and resolve conflicts, evaluate a candidate, rank | executor |
| Artifacts, other research, domain | none between calls | rendering, web I/O, validation | executor |
| Routes, app, configuration, web client | none that matters here | parsing and display | services |

### What is hard here, and what makes each part correct

* **Broker.** `now`, the context and the policy are read before the lock, so a
  commit may be judged on stale arguments. Correct: a permit is used once, for
  exactly the bytes and version approved, while that version is current.
* **Gate.** Three stores and no transaction across them: a request can be
  overtaken, or die, between any two writes. Correct: one authorization per
  version, only for decided permits, and truthful execution records.
* **Email.** Lost answers, concurrent claims, requests that outlive their
  caller, a time-limited idempotency window, crashes after the claim. Correct:
  the outcome never claims "not sent" when something may have been sent.
* **Executor.** Temporal repeats the whole activity after a failure, a timeout or
  a dead worker; without heartbeats an earlier try may still run beside it, over
  the same put-once records and a broker that makes a new proposal whenever it is
  asked. Correct: one proposal per attempt, an execution record that mixes no two
  tries, a journal that agrees with what is kept.
* **Parent.** Updates run at every await; flags change at once, commands are
  applied later; cancellations race answers. Correct: states, results, children
  and journal agree; commands are applied; a finished run is settled.
* **Redirects.** A redirect is three records and a workflow update, with the
  executor reading the records on the other side; requests race for the next
  number, break off between any two writes and are sent again. Correct: one
  lineage of revisions, seen by the operator as the workflow took it; work done
  from the text that was accepted; an accepted redirect takes effect.
* **Evaluation.** Evidence contradicts itself, expires while the run works, does
  not convert, or is of a kind the requirement does not accept; conflicts overlap
  and are resolved in any order. Correct: what is not proven never makes a
  candidate eligible, and the best of the proven is recommended.
* **Journal and stream.** Appends race for a number and for an idempotency key;
  a retried append must hear of the first; a transaction may fail or be dropped
  after it took its number; rows are rebuilt beside appends; outbox leases
  expire under their consumer; a browser resumes after every broken connection.
  Correct: no gap, no lost answer, rows that say what the events say, one owner
  per message, every event delivered once and in order.

## Modules

| Module | Models | Checked by |
|---|---|---|
| `ApprovalBroker` | `protected_actions/broker.py`, `postgres.py` | run `broker`, proofs |
| `ApprovalBrokerProofs` | theorems about the broker | TLAPS |
| `ExternalEffect` | the abstract contract of one external action (`protected_actions/outcomes.py`) | refined by `EmailExecution`, used by `OperatorGate` |
| `EmailExecution` | `email/` with its provider and the network | run `email`, proofs |
| `EmailExecutionProofs` | claims, trails and the refinement of the contract | TLAPS |
| `OperatorGate` | the protected requests of `integration/service.py` over broker, records and `ExternalEffect` | runs `gate`, `gate_resend`, proofs |
| `OperatorGateProofs` | one authorization per version, true records, and the use of the broker and of the contract | TLAPS |
| `ParentWorkflow` | `workflows/parent.py` with `child.py`, the journal's deduplication and run status | run `parent`, proofs |
| `ParentWorkflowProofs` | theorems about states, results, children and journal keys | TLAPS |
| `RevisionLineage` | what the redirects of a run amount to | refined by `RequestRevisions` |
| `RequestRevisions` | `redirect` of `integration/service.py` with its records, its update of the parent, and the attempts that load a revision | runs `revisions`, `revisions_stale_proposal`, proofs |
| `RequestRevisionsProofs` | the refinement, and what attempts load | TLAPS |
| `Evaluation` | `evaluation/engine.py`, `normalization.py`, the conflicts of `research/evidence.py`, as the executor drives them | run `evaluation`, proofs |
| `EvaluationProofs` | eligibility, what reverses an answer, and the ranking | TLAPS |
| `Executor` | `integration/executor.py` as `workflows/child.py` schedules it, over `integration/repository.py` | runs `executor`, `executor_restart`, proofs |
| `ExecutorProofs` | theorems about the executor's attempts and tries | TLAPS |
| `EventJournal` | `persistence/postgres.py` with the tables of migrations 0001 and 0002, `integration/event_store.py`, `realtime.py`, `routes/events.py` | runs `journal`, `delivery`, proofs |
| `EventJournalProofs` | theorems about writers, projections, outbox and stream | TLAPS |
| `*MC` | the small instances | |

How they compose: `OperatorGate` EXTENDS `ApprovalBroker` and performs its
actions inside the steps of the requests; run `gate` checks that what it does is
a behaviour of the broker's `Spec` (`GateUsesBroker`, also proved), so the
broker's theorems apply under it. It takes the email sink at its contract, an INSTANCE of
`ExternalEffect`; run `email` checks that `EmailExecution` implements that
contract under the mapping at the end of the module (`ImplementsContract`), and
that what the gate does is a behaviour of it is proved (`ContractRespected`).
`ParentWorkflow` takes an append as one step that drops a repeated key: what
`EventJournal` shows of `append_event` (`AnswersStored`, `RaisesExplained`) is
what allows that, here and in `Executor`. `Executor` is what `ChildEnds` of
`ParentWorkflow` stands for, seen from inside: an attempt that completes, is
cancelled or fails with or without a retry to come; and `OneProposalPerAttempt`
is why `OperatorGate` may start from one proposal. `RequestRevisions` takes of
`ParentWorkflow` what concerns one work item and redirects, of `Executor` that
an attempt loads its revision and stores a proposal, and adds the service's side
of the call; `RevisionLineage` is its abstract specification, reached by the
mapping at the end of the module. `Evaluation` is the step `EvaluationOf` of
`Executor`.

### State and actions

*ApprovalBroker.* `status`, `versions`, `permits` and `intents` are the tables
of migration 0003; `calls` is what a caller has read before the locked body
runs. `BeginIssue` and `BeginCommit` read, `IssuePermit`, `AuthorizeAndConsume`
and `Refuse` are the bodies, one transaction each. A version is what its digests
bind (`Content`); `Controlled` says which contents a policy revision addresses
to its recipient, which folds the payload validation into one test.

*EmailExecution.* `outcome`, `audit` and `reference` are the row of
`action_outcomes`; a `worker` is one call of `execute` or `reconcile`, with the
await it is at. Resend answers at `ProviderHandles`, even to a request nobody
waits for (`stray`); `accepted` is the provider's memory of the idempotency key.
The outcome store's conflict is a plain early return.

*OperatorGate.* A `request` is one coroutine of the API with the step it is at.
Decision records are dated when made (`Prepare`) and stored later
(`PutDecision`), which is what orders the list that `execute` reads. `refs` are
the proposal references that the executor stores.

*ParentWorkflow.* `main` is the await the coroutine is at; updates are accepted
only there, since the event loop runs nothing else between two awaits. Awaits of
one piece of code that journal several events in a row count as one. Children
run on their own; a requested cancellation may lose against the answer.
`EventKey` is the idempotency key an append would use, `shown` the status the
run's row has in the projection.

*Executor.* One work item under one revision. `child` is the child workflow of
each attempt, `tries` the number the server has given its latest activity task;
`run`, `pos` and `phase` say where each try is, in the code's order, and
`Begin`, the operation and `Finish` are the three parts of `_step`, with a crash
or an error possible between any two of them. `Current` is the server's side:
whatever a try does, only the one it waits for is heard. `record` holds the
attempt-keyed records that `_put_json` and the last `put` write, `artifacts`,
`proposals` and `references` those with random ids; contents with random ids in
them are named by the try that made them, so that `Reused` tells them apart as
`put` does. `failure` is the demo profile's step.

*EventJournal.* One run's journal (runs share no row). `run` is the row of
`runs` with its counter, `view` the projections, both updated by `Projected` from
each event; work items and subagents have tables of their own, so a row is found
by family and subject (`RowOf`); `events` and `outbox` are the tables. A `call` is one transaction of
a writer: `Lock` is the `SELECT ... FOR UPDATE`, after which it either returns
the stored event, inserts (`AppendNew`), fails and rolls back, or is dropped; a
`Rebuild` needs the same lock and is one step. `held` is what an outbox consumer
believes to own, `outbox[n].lease` what the database clock says. `stream` is the
server's generator with the page it has read, `wire` what is in flight,
`received` what the browser has, its last element being the `Last-Event-ID` of
its next connection. With `backend = "memory"` the same actions are those of the
local store: nothing reopens, the outbox stays empty and the stream is one page.
A draft is reduced to its key, the row it is about, the status and the
completion (or blocker) it sets, and whether it names a first row.

*RequestRevisions.* A `request` is a coroutine of the API at one of its awaits:
it lists the records, stores its command (`intent`), the prepared record, calls
the workflow, and stores the promoted record (both in `stored`, in the order of
`created_at`). `put` is put-once and raises when the content differs. A request
may break off at any await (`Break`); one that breaks off in its call leaves an
`orphan`, an update that may still arrive. `Deliver` is validator and handler.
`accepted` and `applied` are the parent's redirects; `work` says where it is
with its item - `starting` while `start_child_workflow` is awaited, `launched`
when a command that came in between has cancelled the child and is applied before
it is waited for - and `run` whether it works, journals its completion or has
returned. `attempts` outlive their cancellation, since an activity without
heartbeats is not told; `Found` is `_request_record`.

*Evaluation.* `observations` and `conflicts` are what the executor has gathered;
`Standing` is `_resolve_evidence` followed by the comparison, and its conditions
come in the code's order, which matters: acceptable types, open conflicts, the
resolution, marked conflicts, expiry, conversion, agreement, criterion.
`Evaluate` takes one candidate at its own reading of the clock, `Rank` orders
them by the code's sort key. A number is its amount in the base unit, `Converts`
says which observations `_normalize_value` does not raise for. `FindConflicts`
compares the values as found, `Values` the converted ones, as the code does.
(The executor of the repository passes no conflicts; the engine and the research
module have them, and their tests.)

## Runs

Passing runs:

* `broker`: one proposal, two permits, two callers, two contents and two policy
  revisions, permits that live for one tick of three. Two permits and two
  callers suffice for the races over one permit and between two approvals; two
  versions for an edit between approval and commit; two revisions for a policy
  that changes in flight.
* `email`: one intent (intents share nothing), two workers, three attempts, one
  crash, a window of one in three instants. Both adapters, both recipients.
* `gate`: one proposal of two versions, two permits, two requests at a time, one
  death, up to three prepared decisions, two autonomy records. The policy is
  fixed; its changes are the broker run's subject.
* `parent`: two items, the second depending on the first one's output, the first
  cancellable, both started in one batch, any two commands at any await, giving
  up and cancellation anywhere; safety and liveness. (With three commands, which
  takes longer than a run should, the safety properties hold as well; they are
  proved for every number.)

* `journal`: two writers, five drafts as the parent, executor and tests append
  them (with and without key, for the run, a work item and a subagent, one of
  them a first event without names), four events, pages of two, both backends.
  Four events let a row be created, ended, reopened and rebuilt, and need more
  than one page; two writers are all it takes to race for a lock or a key.
* `delivery`: one writer, two consumers, two events, pages of one; outbox and
  stream under fairness. Two messages and claims of up to two let one consumer
  hold several, lose one and be overtaken by the other.

* `executor`: two attempts of two tries, two things a search may find, with and
  without research-only autonomy and the demo's failure. Two tries overlap in
  every way that one server's view allows, since a third differs from the second
  only by its number; the second attempt is there to show that attempts do not
  share records, after a pause or an operator's retry. A pause falls in the first
  try (`MaxPaused`): one in the second only adds a bystander.

* `evaluation`: two candidates, four requirements of the three priorities and of
  four types, and any three of eighteen observations: of two units, of a unit
  that does not convert, expired early or late, unknown, marked as conflicting,
  of a type that is not accepted, of another revision, dates with and without a
  zone. Three observations let two agree against one, one of a contradiction
  expire, and conflicts overlap.
* `revisions`: two redirects, three submissions and two requests at a time, one
  broken request. So each redirect may race the other, or be sent again, and one
  of them be cut off anywhere. The safety properties are proved for every number
  of them; the run's own subject is `RedirectTakesEffect`.

Deadlock is not checked: all of these systems stop when the bounded inputs are
used up or a run has ended.

Violation runs, each a disagreement of the code with its documentation (details
and quotes in `PROJECT.json`, "findings"):

* `gate_resend`: editing and approving again sends a second email while the
  first one's outcome is unknown.
* `executor_restart`: a worker that stops after the evidence was stored leaves an
  attempt that no later try can finish: their evidence has new ids, the put is
  refused, and the attempt fails as a tool bug that nobody can retry.
* `revisions_stale_proposal`: a redirect that is accepted while the parent starts
  a child is applied before the child has a result, and so invalidates nothing;
  the child answers although it was cancelled, and the run ends with a proposal
  made for the revision before. (A cancelled attempt, which nobody stops, may also
  store its proposal after the new one, or the new attempt fail: `_proposal`
  returns the last one stored.) One request suffices.

Known limits that no run is spent on:

* a reconciliation whose process dies stays `RECONCILING`
  (`email/service.py:117`; `ClaimsResolve` supposes that no process dies);
* a released retry of an email is sent without another look at the idempotency
  window (`email/resend.py:143`, against `docs/architecture/email-execution.md:54`);
  no code of the repository reconciles yet, the service offers it;
* a command accepted while the completion is being journaled is acknowledged and
  never applied (`workflows/parent.py:140`; `CommandsApplied` and
  `RedirectTakesEffect` speak of commands accepted before);
* a redirect that broke off before its prepared record, and is sent again, goes
  straight to the workflow (`integration/service.py:261`), against
  `docs/implementation/pr-11-end-to-end-integration.md:62-67`, where the prepared
  revision precedes the acknowledgement: its attempts fail, or work from the text
  of a refused redirect of the same number. `LoadsWhatWasAccepted` speaks of
  commands submitted once.

### Bounds

Every bound is a CONSTANT: `MaxVersion`, `MaxRevision`, `MaxTime`, `Ttl`
(broker), `MaxAttempts`, `MaxCrashes`, `MaxTime`, `Window` (email),
`MaxAutonomy`, `MaxDecisions`, `MaxCrashes` (gate), `NItems`, `MaxConcurrency`,
`MaxCommands`, `Changes` (parent), `MaxAttempts`, `MaxTries`, `MaxPaused`
(executor; the second is the code's own, three by default), `MaxObservations`,
`MaxTime` (evaluation), `MaxSubmissions`, `MaxFaults` (redirects), `MaxEvents`, `PageSize`, `ClaimLimit`
(journal; the bound on events is kept by the callers). Attempts of the parent's
work items need none: each command costs an item at most one more attempt. Symmetry is used over permits
and callers, which the models only compare for equality, and never with a
liveness property.

### Fairness

*Email*: weak fairness of each worker's own steps, since a call that has begun
goes on; its awaits return or raise, because the transport has a timeout
(`email/http_transport.py`). Nobody is obliged to call, the provider is not
obliged to answer, the clock need not advance, and no process must die; a
process that has died owes nothing, which is why `ClaimsResolve` is about
behaviours without crashes.

*Parent*: weak fairness of the main coroutine and of every child: Temporal
schedules a workflow task when an await can return; activities have timeouts and
bounded attempts, so a child ends. The operator owes nothing, so `RunSettles`
supposes a run that is not left paused or blocked.

*Executor*: some worker takes a scheduled try, and the server keeps its timers;
both are the platform's. Nothing is asked of a worker that has taken a try: it
may hang for ever, which is what `AttemptSettles` is about.

*Redirects*: the API's event loop serves its requests, Temporal the parent, and
attempts go on: weak fairness of each of the three groups. Requests and attempts
are finite in number and length, so fairness of the group is fairness of each
member. Nobody has to submit anything, or to send it again.

*Event journal*: an `EventSource` reconnects by itself, which is the weak
fairness of `Connect`; reading, sending and receiving are strongly fair, since a
browser whose every connection breaks before it has brought anything learns
nothing. The outbox has no consumer in the repository; `EveryEventDelivered`
supposes one that keeps polling, leases and delays that run out, and a message
that is not lost, failed or outlived every time it is claimed (strong fairness
of a successful publication). Writers owe nothing.

## Proofs

`ApprovalBrokerProofs` proves, for every number of proposals, permits, callers,
contents, policy revisions and ticks, from `BrokerAssumption` alone:
`TypeCorrect`, `SingleUse`, `IntentsApproved`, `StatusBacked` and, as an action
property, `CommitsCurrent`. The argument is one inductive invariant,
`BrokerInv`. The safety properties are not inductive alone:

* a commit reads `versions[p][v]` for the permit's version, so one must know
  that versions exist and stay (`VersionsExist`, `PermitsAnchored`: versions are
  only appended, and each permit stores the content of a stored version);
* a refusal or a body uses a call made earlier, so calls must name permits and
  versions that exist (`CallsKnown`);
* `PermitsSingleUse` and `IntentMatchesApproval` support each other: a permit
  that is not consumed has no intent, which keeps the new intent's permit fresh,
  and a permit's other fields never change, which keeps old intents matched.

There is one lemma per action. The temporal steps combine them with PTL.

`EventJournalProofs` proves from `JournalAssumption`, for every number of
writers, consumers, drafts and events and every page and claim size:
`NumbersAreGapFree`, `AcknowledgedIsStored`, `ConcurrencyNeverRaises`,
`ReplayIsExact`, `LeasesAreRespected`, `OnlyTheOwnerSettles`, `ProjectionsAgree`
and `JournalTypes`. Four invariants carry them, each over its own variables:

* `WriterInv`. `GapFree` alone is not inductive: an insertion uses the number its
  transaction read earlier. `Locking` says that number is still the row's and
  that nobody else holds the lock, `FirstStored` what a second creator is told.
  With it the conflict on `UNIQUE (run_id, per_run_sequence)` and on the
  idempotency index cannot be reached, which is `RaisesExplained`.
* `ReaderInv`. What was received and what is in flight are together 1, 2, 3... up
  to the cursor, and the page is what comes next. `PageIsInitial` shows, by the
  cardinalities of finite sets, that a page of any size leaves nothing out
  between the cursor and its end; `NumbersGrow` that appending never puts a
  number below it.
* `OutboxInv`. A message has a holder exactly when it has a lease, and none once
  it is published. `MessagesTouched` says what a step may do to a message, and
  both action properties follow from it.

* `ProjectionInv`. The projections are compared with a description of what the
  events say (`Tells`, for one row; `Agrees`, for all of them and the counts)
  that does not go through `Updated` and `Upserted`. One lemma shows that adding
  the event with the next number keeps it (`ProjectedAgrees`), and it serves
  twice: for an append, and for each step of a rebuild. The rebuild is a fold
  over the stored events; it starts from rows that tell of no event except that
  the completion of the run before may still stand (the flag of `Agrees`), and
  `ReplayAgrees` goes up the event numbers to the last one, where the flag no
  longer matters: the run was shown as completed because some event made it so.
  That what works again is not shown as completed needs one assumption on the
  drafts (in `JournalAssumption`): an update of the run that completes it also
  says its status.

`ExecutorProofs` proves from `ExecutorAssumption`, for every number of attempts
and tries and whatever searches find: `ProposesOnce`, `ExecutionsAreWhole`,
`LatestTryCompletes`, `ToolEventsAgree`, `ExecutorTypes` and, as an action
property, `RecordsStay`. None of the properties is inductive, as they speak of
what is stored while the next write depends on where a try is. The invariant,
`IInv`, ties the two:

* `Owns`: what lies behind a running try is stored and is its own. Since evidence
  differs between tries and `put` keeps the first, two running tries cannot both
  be beyond it. `Places` says where a try can be at all, and that `Reference`
  is reached under the asking autonomy only.
* `ProposalsOwned`: a proposal's try is the one whose evidence was kept, which
  also holds when the try is over; this is what makes proposals unique.
* `WrittenLast` and `Answered`: whoever has written an execution record only
  answers, so its `found` stays what the record was made from.
* `Journaled`: a try has journaled what lies behind it, which with `Owns` gives
  `JournalAgrees` when it answers.

`StepGrows` (nothing stored is replaced) carries what holds for a try over the
steps of all the others (`OthersStill`).

`ParentWorkflowProofs` proves from `ParentAssumption`, for every plan of work
items, every number of commands and of children at once: `ParentTypes`,
`BooksAgree`, `PausesReach`, `EndIsSettled` and `NothingSwallowed`. The coroutine
goes on from what it found before its awaits, so the invariant `IInv` says what
it relies on at each of them:

* `Places`: the items it is about to start are still pending, those it is about
  to take in still active, and it reports the end only when everything is settled;
* `Retries`: a retry that waits to be applied still finds its item failed, or
  queued by the retry before it. That is what the handler checked; it survives
  because only retries take an item out of `failed`, redirects but for those;
* for `NothingSwallowed`, `Written`: a key in the journal belongs to a command
  that was processed, or to an attempt not later than the one on display. The
  revisions of accepted redirects grow (`RevisionsGrow`), so their keys differ.

`RequestRevisionsProofs` proves from `RevisionsAssumption`, for every number of
commands, callers, submissions and faults: `RevisionsFormALineage`, the
refinement of `RevisionLineage`, `AttemptsLoadTheirRevision` and
`RevisionsTypeCorrect`. `IInv` says that a record exists once (`PutOnce`), that
the operator sees 1, 2, ... as they were accepted and the workflow is ahead by at
most one (`Chain`), and what a request holds: a number not beyond the next one,
because the visible one only grows, a command stored as it holds it (`Intents`,
`Requests`). A step then maps to `Take`, `Show` or a stutter. `OInv` adds that a
command submitted once was prepared before it left (`Once`), whence every
attempt of its revision finds that text.

`EmailExecutionProofs` proves from `EmailAssumption`, for every number of
intents, calls, attempts and crashes: `EmailTypes`, `ClaimsExclude`,
`TrailAccounts` and `ContractImplemented`, the refinement of `ExternalEffect` by
the mapping at the end of `EmailExecution`. `OneOwner` is nearly inductive; the
other two need to know who can know of an email:

* `Backed`: a message id, a stored idempotency key, an accepted request or a
  confirmation that waits to be recorded is that of an email that was sent. This
  is what lets a confirmation map to the contract's `Confirm`.
* `Unambiguous`: as long as no attempt was declared ambiguous, an email was sent
  by the attempt under way, and the call that runs it is `Told`, so that it
  cannot record a clean failure; and a request without a worker belongs to an
  attempt whose call can only declare it ambiguous, or is dead.

The steps that leave the rows alone share `WorldExplained`, those that move one
share `OutcomeMoves`: the hypotheses of these two lemmas are what each await of
the service owes to the others.

`OperatorGateProofs` proves from `GateAssumption` and `BrokerAssumption`, for
every number of requests, proposals, permits, decisions and crashes:
`GateTypes`, `BrokerRespected` (the refinement `GateUsesBroker`),
`VersionsAuthorizedOnce`, `NothingUndecided`, `RecordsTrue`, `ContractRespected`
and `StoreNeverRefuses`. The three stores
share no transaction; what holds them together, over `BrokerInv`, is what each
request may rely on at its await (`IInv`):

* `Served`: a request inside the broker carries the call it made, and has read
  the proposal it decides on. This is what makes every step of a handler a call
  the broker allows.
* `Approvals`: a prepared decision is its request's own until it is stored, two
  stored approvals of one version are one (`DecidedOnce`, from the put-once
  reference), and each names a permit issued for that version. So a request that
  executes, and an intent, name the one permit the version will ever have; with
  `PermitsSingleUse` a version has one intent.
* `Resolved`: whoever consumed a permit is alone at its external effect. An
  attempt is the only one of its permit, so that a failure reported for it is
  that no email was or will be sent, and nobody opens what an execution records.

The gate performs the contract's actions, so that `ContractRespected` needs only
that a request at its effect holds a permit. What could go wrong is the other
half: the model would hide a handler that the outcome store turns away, since a
step whose contract action is disabled is not taken. `StoreNeverRefuses` says
that this never decides anything: whoever the broker lets through finds the
store in the state its next call needs. It rests on `IInv` and on one more fact,
that only a consumed permit was ever dispatched (`BegunOnlyByCommits`).

`EvaluationProofs` proves from `EvaluationAssumption`, for any requirements,
candidates, evidence and conflicts: `EligibleAreProven` and, as an action
property, `NothingElseReverses`. Both rest on what an answer needs
(`AnswerNeeds`): every conflict about the evidence resolved in one way, and
usable evidence that speaks with one voice. A new observation is in no conflict
yet and a conflict that was just found is open, so that either can only take an
answer away; expiry only removes voices from those that agreed. The first
theorem needs the invariant `Evaluated` as well: the evidence stands still once
the first candidate is evaluated.

About the ranking it proves `BestIsRecommended`, and with it `EvaluationTypes`,
from an invariant of its own (`RankingInv`): a ranking exists only when every
candidate has been evaluated, and gives each the number of those before it plus
one. The score is a sum of weights over the requirements, a fold; `SumExists`
shows that it is defined by extending what the fold computes on small sets of
requirements to ever larger ones, so that `ScoreIsInt` holds for any finite set
of requirements with any weights (a weight, a Decimal in the code, is a whole
amount of the smallest unit in use). Then the code's sort key orders candidates
strictly (`BeforeStrict`, `BeforeTotal`, `BeforeTransitive`), the sets of those
ahead of two candidates are of different size (`AheadShrinks`), and somebody is
first (`SomebodyIsFirst`); the key puts eligibility before score, which makes the
first one the best of the proven.

Folds and sums are recursive, and the library's induction theorems cannot be
instantiated here. The two places that need induction (`ReplayAgrees`,
`SumExists`) use its first-order form (`AllNumbers`): a set of numbers that
contains 0 and every successor contains them all, which follows from the
well-foundedness of `<`.

Every safety property a passing run checks is thus stated by a theorem. Only
model-checked are the liveness properties, which are out of the prover's reach
(`ENABLED` under fairness): `ClaimsResolve`, `CommandsApplied`, `RunSettles`,
`AttemptSettles`, `RedirectTakesEffect`, `ReaderCatchesUp` and
`EveryEventDelivered`; and the violated properties of the three violation runs.

## Not modelled

* Canonicalisation and digests: a digest stands for its content (no collisions).
* Repeated command ids of the parent (stored acknowledgement or refusal), message
  bodies, run summaries.
* Titles, labels, units and times of the projections, and the CHECKs and foreign
  keys of the tables on them; events of unknown families. A work item whose
  update has no status takes the event's under PostgreSQL and keeps the previous
  one in the local store; the drafts all have one.
* The walking skeleton's fallback stream; heartbeats.
* Artifact rendering, routes, configuration, web client, migrations, and the
  web side of research: sequential I/O, formatting or wiring.
* In `Evaluation`: the rounding of Decimal divisions, the confidence that decides
  which of several agreeing observations is shown, the wording of reasons.
* In `RequestRevisions`: the listing of what a redirect reuses, which ends in a
  journal entry that nothing reads; dependencies that nothing depends on; control
  commands other than redirects; the inline launcher of the demo, which accepts
  every redirect and drops the journal entry of a second one.
* `retry_work` of the service and its listing of 500 events.
* In `Executor`: other revisions of the request, the steps that only journal
  (several in a row count as one), more than one artifact. A try that was
  cancelled or has timed out is not told, so it may still make a proposal after
  the operator's pause; the code promises nothing else, and no property does.
* Temporal's own replay: a worker restart replays the history and is no step.

## Plan

1. The views over the journal: the service's listings of 500 events against a
   longer journal, and the web client's refreshes, whose answers may arrive out of
   order.
2. A gate with two proposals, fed by `RequestRevisions`: what an operator may
   approve while a redirect is under way.
3. The loop of `plan_invalidation` against the definition the parent uses.
