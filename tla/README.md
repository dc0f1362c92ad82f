# Kogane in TLA+

Kogane collects a household's financial evidence: collectors log in to
providers on a schedule, write what they fetched to an R2 bucket, and a
Processor registers, parses, publishes and projects it. Almost everything that
can go wrong there goes wrong *between* two statements: Workers and Durable
Objects stop at any moment, D1 answers get lost, platform alarms are retried or
given up, two ticks overlap, and an operator edits the same rows. This directory
holds the specifications of that logic, the TLC configurations that check them
on small instances, and proofs of what holds for every instance.

Paths below are relative to the repository. `PROJECT.json` maps every
definition to the lines it models and lists components, runs, mutants, hazards,
findings and theorems.

## 1. Inventory

| Component | State it keeps | Operations | Interacts with | What makes it correct |
| --- | --- | --- | --- | --- |
| Execution lease, `packages/collection/src/schedule-lease.ts` | one row per source (`lease_ref`, `started_at`, `heartbeat_at`), timers of the holder | claim, heartbeat, deadline, abort, forced stop, release | D1; the tick and the operator clear the same row | provider attempts of one source never overlap; nobody's lease is freed under them; a dead call frees its source; every call returns |
| Schedule alarm, `services/processor/src/schedule-alarm.ts` | a Durable Object's alarm | `alarm`, `performAlarm`, `reconcile` | schedule rows, occurrences, collectors | a nominal instant is submitted at most once, of the configuration in force, outside maintenance; no alarm is lost for good |
| Schedule store, `services/processor/src/schedule-store.ts` | schedules, revisions, occurrences, maintenance rules, leases | edit, bootstrap, sweep, expiry, lease release, rule revisions, status pages | alarms, operator, delegated agents | version-checked edits; sweeps never touch what is alive; delegated writes bounded and reversible |
| Schedule model, `packages/collection/src/schedule-model.ts` | none (pure) | `nextNominal`, `afterMaintenance`, deferral unions | alarm, store, dispatch | strictly later nominals; an instant outside every window |
| Operations API, `packages/application/src/operations/requests.ts` | `ops_requests`, `ops_request_stages` | accept, `pendingDispatches`, `recordDispatch`, `recordOperationStage` | dispatch lane, human hand-over | idempotent acceptance; stages are evidence and never reopen |
| Collector dispatch, `packages/application/src/operations/collector-dispatch.ts`, `services/processor/src/operations/dispatch.ts` | `ops_collector_dispatches` | wait, decline, claim, outcome, abandon, track | requests, collectors' RPC, lease (read), rules (read), trail | one call per request; rows in step; every execution ends |
| Collector trail, `packages/application/src/operations/collector-trail.ts` | none (reads CORE) | `runTrail`, `trailOutcome` | registration, parse jobs, publication | verdicts follow the evidence |
| Collection contract, `packages/collection/src/{writer,manifest,reader,verify}.ts` | R2 objects and terminals | `persistRun`, read, verify | registration | a terminal exists only after its objects, and once |
| Registration and seal, `packages/application/src/{collection,ingest}`, `storage-d1/src/atomic/seal.ts` | `collection_runs`, fetch runs, artifacts | `registerTerminal`, budgets, seal | queue consumer, scan, imports | idempotent, resumable, sealed once |
| Parse jobs and publication, `storage-d1/src/atomic/publication.ts`, `processor/src/publication-gate.ts` | parse jobs, parse runs, published runs | lease, publish, supersede, gate | releases | one current publication per artifact and parser |
| Release adoption, `processor/src/release-adoption.ts` | releases, candidates, publication events | activate, roll back | publication | active release and projection agree |
| Change lifecycle, `application/src/command`, `storage-d1/src/atomic/decision-commit.ts` | plans, approvals, receipts, decisions | plan, simulate, approve, commit | outbox, audit | a receipt guards the whole commit; approvals are used up once |
| Decision outbox, `storage-d1/src/core/decision-outbox.ts` | outbox rows with leases | claim, process, poll, complete | projections | a published receipt tells the truth; a processed row is final; the failure budget is kept; every row settles |
| READ projections, `processor/src/read-projection.ts` and others | READ D1 rows, CORE build job | bounded build, publish | CORE revisions | readers see one complete build that never goes backwards |
| Batch jobs (reconciliation, cards, prices, rewards, reports) | checkpoints | one bounded step per tick | CORE | resumable without loss or repetition |
| Maintenance survey, delegated operations, audit | proposals, grants, audit rows | propose, adopt, reverse | rule revisions | budgets, fences, append-only audit |
| Identity, domain rules, parsers, queries, collectors, web application, infrastructure | various | various | | not planned before the above |

What is hard here: overlapping passes of the same lane (after a Durable
Object's reset its previous tick may still be running), statements whose
answer is lost after they ran, reads acted on after other writers moved the
row, resets between reservation and submission, four clocks that bound each
other, timeouts racing late answers. Every such place found so far is a hazard
of `PROJECT.json`, at its line, with the properties that would catch it or the
module planned for it.

## 2. Modules

| Module | Models |
| --- | --- |
| `SourceLock` | abstract: one hold of a source at a time, ended under an active execution only by a person |
| `AtMostOnce` | abstract: work is claimed before the provider is contacted, contacted at most once, settled once |
| `CollectionLease` | the lease protocol; implements `SourceLock` |
| `CollectionLeaseProofs` | its theorems |
| `ScheduleAlarm` | one job's alarm, with every writer of its rows; implements `AtMostOnce` |
| `OperationDispatch` | the lane for collection, session-refresh and import requests; implements `AtMostOnce` |
| `DecisionOutbox` | the outbox of accepted judgements, from the commit to the published receipt |
| `DecisionOutboxProofs` | its theorems |
| `ChangeCommit` | plan, approve and commit of a judgement, with the other writers of the mappings |
| `CollectionWriter` | collectors storing a run: objects, then the terminal |
| `TerminalRegistration` | extends it: registration and seal of persisted runs by the queue and the scan |
| `TerminalRegistrationProofs`, `ChangeCommitProofs`, `ScheduleAlarmProofs`, `OperationDispatchProofs` | the theorems of the modules they are named for |
| `NatExtremes` | lemmas: a least and a greatest element of a set of naturals (next instants, next revisions, the scan's order) |
| `MC*` | instances for TLC |

Definitions named as the weaker variant of another (`NeverSilent`,
`ClaimableAgain`, `MoveRunBlindly` and so on) are the mutants of
`PROJECT.json`: each stands before the definition it would break, is used by
nothing, and exchanging it makes TLC find the named property violated.

### CollectionLease

The row is `leaseRef`, `startAge`, `hbAge`. No instant is stored: every
timestamp is kept as its age and every timer as the time it still has to run,
and one step, `Advance`, moves them all; ages stop growing at `AgeCap`, above
every bound the code compares with. `Advance` may not pass a due timer of a
live isolate, because timers fire when due, but nothing bounds how long a
heartbeat or a release is under way.

A member of `Execs` is one call of `withCollectionLease` and its random
reference. `SendClaim`, `ExecuteClaim`, `ClaimAnswered`, `ClaimBusy` and
`ClaimLost` are the claim, whose answer may be late or lost; `BeatTick`,
`BeatWritten`, `BeatAnswered`, `BeatFailed` one heartbeat (sent, run, heard,
lost); `DeadlineFires`, `Abort`, `ForceFires` the stop; `Settle`,
`ReleaseAnswered`, `ReleaseUnheard` the release and its retries; `Crash` ends a
call anywhere. A `Stubborn` call survives its forced stop, as a plain Worker
does, and keeps its heartbeat. Around the calls: a build without heartbeats
(`OldClaim`, `OldRelease`), which leaves `heartbeat_at` alone and writes
`started_at` from its isolate's clock (`StartAges`, as for the claims of this
build), the tick (`TickSelect`, `TickExpire`, `TickFails`: SELECT, then UPDATE)
and the operator (`OpSees`, `OpRelease`, with a reference that may be old).
When that isolate lags D1, a heartbeat left on the row can look younger than
the claim, and the claim falls under the short rule: the case
`schedule-store.ts:160-163` accepts. It occurs in the checked instance, and
`HourRule` says which claims are not in it.

External assumption: D1 answers or fails the *claim* within `ClaimWait`. It
enters `Margin`: `Max(ClaimWait, Loss) + Beat + Grace <= StaleAfter`, the
arithmetic of ADR 0085 (3 + 1 + 0.5 minutes against 10).

### ScheduleAlarm

Instants are numbers; a pattern is the set of its nominal instants and the
rules the set of instants they close, so `NextNominal` and `AfterMaintenance`
are a least element. The handler is `AlarmFires`, `AlarmReads` (the block up to
its decision), then `AlarmDefers` or `ClaimWon`/`ClaimRefused` (the claim
batch), `Submit`, `Finish`. `blockConcurrencyWhile` is `BlockFree`: the blocks
of the handler and of `reconcile` exclude each other, while the rows stay open
to everyone else: `Edit`, `EditRules`, `Initialize`, `MarkAbandoned`.
`BlockFails` and `FinishFails` are a failed statement, run or not, and
`alarm()`'s catch; `Reset` ends the object with its alarm kept, retried or
given up. Reading the row and then the rules is one step: the writes that
follow are guarded by the row's revision. The branch of lines 85-89 (the run is
due, its nominal instant is not) is modelled and never taken: it would need a
`next_run_at` before `next_nominal_at`, which `RunFollowsNominal` excludes.

### OperationDispatch

Every D1 batch of a pass is one step and `pc[t]` says where the pass is, with
what it has read: `TickReads` (the queue), `TickTakes`, `Looks`,
`BringsInStep`, `Declines`/`DeclineReaches`, `Waits`/`Requeues`, `Claims`,
`Calls`, `Records`, `Persists` for `dispatchCollector`; `ImportRegisters`,
`ImportStage`, `ImportRetries`, `ImportStalls` for `dispatchImport`;
`AbandonReads`, `Abandons`, `DueReads`, `TrackReads`, `SyncReads`,
`SyncWrites`, `Publishes`, `TrackEnds` for `trackCollectors`. `Stops` ends a
pass anywhere; a stage write the 0040 trigger refuses ends it too. Deadlines
are facts that become true (`overdue`, `old`, `horizon`). `LongCalls` says
whether a pass may still be in its call an hour after the start: the passing run
allows it, the violation runs do not need it.

Abstracted: a waiting reason is "waits", so configuration, windows and lease
are free choices of each look; the limits of the queue and of tracking, and the
interval between looks, are subsumed by passes that stop early; failure codes
are dropped, except that a block may be rewritten for a new code. A request
runs at most one trail. `Asked` lists the sets of requests that may be accepted
together; the checked instance accepts a collection, a session refresh or an
import, one in a behaviour. A refresh beside an import would need an assumption
the code does not give: an import whose stage write is refused every time throws
every pass before it reaches the others, and what an import answers is left
free. The theorems cover any requests together. Two requests of collector kinds
in one pass, where `startsLeft` bites, are not instantiated.

### DecisionOutbox

A row is the part of `decision_outbox` the dispatcher reads; `available` and
`until` keep what is left of `available_at_ms` and `lease_until_ms` in units of
30 s, so that no instant is stored. A pass of `dispatchDecisionOutbox` is
`Claim`, `Stamp`, `Select`, then per row `Work` (the processor answers) and
`Record` (the answer's UPDATE), then one `Publish` per operation it completed a
row of: one step per statement. The pass takes its instants from one
`Date.now()` at its start, which the claim is merged with, so it carries its
`age`; ages stop at the longest delay, past which they make no difference.
`Stop` ends a pass between any two steps; its random token is then nobody's
(`Lost`), which is all that a later step can tell about it. Around the passes:
`Commit`, `LedgerMoves` (the revision triggers), `SnapshotMoves` (a build is
published, by the projection lane or by a processor), `Unblock`.

The identity sweep and the missing agent transport are a processor that
completes or throws, without a modelled effect; the build the balance processor
pushes on is `SnapshotMoves`. `MaxPolls` and `MaxRevision` bound the counters.
Since a pending answer needs a poll left, the bound on polls also says that a
build does not stay pending for ever: `EveryRowSettles` is about the rest.

### ChangeCommit

`facts` are the rows of the two mapping tables and of the relations, with the
revision each claims and the operation that made it; `Rev` is the revision the
plans are made for (`REVISION_OF`), `Active` and `Protected` are the views of
migration 0029. A plan is its change and its base revision, since its id is a
digest of both. `CreatePlan`, `Approve` and `ApproveTooLate` are one batch each.
A commit call is `Begin` (the plan is loaded), `LooksUp` (the receipt),
`ReadsApproval`, `RunsBatch`, and for a batch whose reservation did not write
`FindsReceipt`, `ComparesRevisions`, `MarksStale`; anything may happen between
two of them, and `Lost` takes the answer away at any point.

`RunsBatch` is the whole D1 batch, statement by statement: `Reserves` is the
first statement, and the later ones ask only what their own SQL asks. What the
judgement writes (`Judge`) is spelled out because its conditions differ from
the reservation's: the ledger row has its own (`Judges`), the mapping row joins
whatever ledger row its operation has (`Maps`), the rest is joined to any
receipt of the operation and principal (`Guarded`), and triggers may abort the
batch (`Aborts`). `Direct` is the internal route `/identity-revise`, which
shares the operation ids but not the receipts, and `PolicyMaps` automatic
policy.

`Keys` says which operation ids a caller may use for which change, `DirectKeys`
the same for the direct route. Neither is restricted: the shipped client derives
one id per approval (`docs/change-lifecycle.md:571`,
`apps/web/src/pages/Confirm.tsx:113`), but the server checks nothing of the
kind, and delegated and direct callers choose theirs. One id may therefore serve
a release, a relation and an assignment, and both routes. Two definitions name
what is then left out of the properties. `Unreserved` is a relation's row
written under the receipt of a release, by a batch whose reservation failed.
`DecidedDirectly` is an id under which the direct route has made the decision an
assignment's batch takes for its own. Section 6 says how both come about.

Abstracted: expiry is a free choice (`late`); what a refusal is called is not
kept; targets of an assignment exist; a relation's triple is its subject. Calls
that name an approval of another plan or person are refused before they write
and are not begun.

### CollectionWriter

An object is its digest, a manifest the set of the objects it names, and the
order of `Runs` the order in which the bucket lists them. `Persists` is the
look for a terminal, `PutsObject` one artifact (put, verified or reused),
`PutsTerminal` the create-only put and the reading of the winner's terminal
that follows it. `Interrupted` is a put that fails, one that is stored although
its answer is lost, and a collector that stops; all leave a writer that knows
nothing, and it may try again. `Attempted` says which attempts are made in one
behaviour.

### TerminalRegistration

`row` is the run's row with its newest `registered` stage, `fetchRun` what the
fetch run holds. A call of `registerTerminal` goes through `Starts` (row and
verdicts so far), `Verifies`, `Creates`, `Catalogues` (one artifact each),
for a staged inventory `HoldsItems`, `TakesSlice`, `ChecksRoom`, `InsertsItems`,
then `Reports`, the seal (`Declares`, `ReadsAttempt`, `Seals`), `Links`,
`Completes`; `Blocks`/`BlocksRow` is a verdict against the run, which is two
writes, `Yields` the end of its budget, `Denied` a refusal of the route, and
`Throws` an error of R2 or CORE or the end of the isolate. Runs of at most
`DirectSeal` artifacts take the direct seal. `Verifies` is one step, as is an
artifact's verification, adoption and row: objects are never deleted or
changed, so nothing can happen in between that matters.

The scan's tick is `Ticks`, then `Takes` per pending run, `Lists`, `Takes` per
terminal of the page, `Advances`; `Delivered` is a notification, for which
nothing is assumed. Budgets count steps: an artifact, an inventory chunk and
the final step cost one. The scan and one delivery never share a budget, as
they run in different invocations.

## 3. Runs

| Run | Instance | Shows |
| --- | --- | --- |
| `lease_safety` | two calls, one stubborn, and an old build; `Beat` 1, `Loss` 2, `Grace` 0, `Deadline` 4, stale and legacy 3, two release attempts; isolate clocks one unit behind D1's | `MutualExclusion`, `LeaseCoversAction`, `ReleasedCallStops`, `OnlyKnownReleases`, `ImplementsLock`, `OldClaimKeepsItsHour`, and under fairness `NoCallKeepsTheLease` |
| `schedule_safety` | horizon 4, two patterns sharing instants, a two-instant window, one edit, editor's clock behind by one | `SubmitsOnce`, `OutcomeIsFinal`, `ClaimsCurrentConfig`, `Waits`, `RunFollowsNominal`, `AbandonedIsOver`, and under fairness `ReachedIsClaimed`, `StartedSettles` |
| `dispatch_safety` | a collection, a refresh or an import; two passes; the trail still registering, then published | `RowsInStep`, `PublishedHasEvidence`, `CallsOnce`, `OutcomeIsFinal`, and under fairness `EveryOperationEnds`, `DeclinesArrive` |
| `change_commit` | a protected mapping and a relation, five kinds of commit, two approvals of one use, two operation ids that each serve several changes and both routes, two calls, revisions up to 2 | `NoLostUpdate`, `SpentOnce`, `AcceptedIsInEffect`, `AnswersAreReceipts` |
| `decision_outbox` | one operation with an identity and a balance row, two passes, a lease of 2 units, 2 attempts, 1 poll | `BudgetHolds`, `PublishedIsVisible`, `ReceiptHasAPublisher`, `ClosedStays`, and under fairness `EveryRowSettles` |
| `registration` | a run two collections persist, one staged and one sealed directly, a run that is refused; the scan and a delivery, budgets of 2 steps, pages of one terminal, one fault | `TerminalHasObjects`, `RegisteredIsWhole`, and under fairness `EveryTerminalIsJudged` |
| `requeued` | one collection, two passes | disagreement of section 6 |
| `published_failed` | one collection, two passes, a trail that may also be blocked | disagreement of section 6 |
| `commit_empty` | the instance of `change_commit` | disagreement of section 6 |
| `commit_unguarded` | the instance of `change_commit` | disagreement of section 6 |
| `outbox_interrupted` | the instance of `decision_outbox` | disagreement of section 6 |
| `registration_blocked` | the instance of `registration`, no faults | disagreement of section 6 |

Why these bounds are enough. A lease conflict needs two calls and one row; the
old build, the tick and the operator are further actors, and a reference may be
used again once no trace of it is left, so histories of any length occur. The
durations are the smallest that let a heartbeat be confirmed, a silence be
noticed and the deadline come after a lease could be stale, with a grace and a
claim too short to be seen and a lag as long as the time between two heartbeats;
the proofs remove these bounds. A
schedule race needs one nominal before and one after an edit that moves it: two
patterns with a shared instant and one edit. The dispatch races are between two
passes over one request; requests share nothing but a pass's budget of starts,
and the theorems cover the trails the run leaves out. In the outbox two passes
meet on a row when the lease of the first runs out, and on an operation when
each closes one of its rows; the revision moves once for a commit and once more
beside it. The proofs remove these bounds for the outbox's safety. A commit race
needs two calls, and the keys let them meet in every way: the same operation
with the same payload, with another plan (the first id serves an assignment, a
relation and a release, the second the other judgement of that relation and the
release), on one subject and on one plan under two operations (the release
that writes nothing is the plan that could be accepted twice), and on an
operation the direct route has used; two revisions are enough for a plan to go
stale under a judgement and under policy. A registration race is between the
scan and one delivery over one run; the second run is there for the order of
the page and for a refusal, a budget of two steps stops a call in every phase,
and a page of one terminal with one registration exercises a held cursor. Each property has a mutant that
the same instance catches, so the interesting case is within its bounds.

Every run checks deadlock: there is always a step left, be it time, a new claim
or a next pass.

## 4. Fairness

*Lease.* Time passes (strong, as a step that is always enabled again); of a
live isolate's timers and its D1 calls in the claim and the release, one that is
due comes to an end (`Awaited`); the tick selects, and is not failed for ever.
No claim is sent, no heartbeat answered, no action settles and nobody releases
for fairness' sake: `NoCallKeepsTheLease` holds although an action ignores its
abort.

*Schedule.* Due alarms fire, the tick bootstraps (`Initialize`,
`MarkAbandoned`, `ReconcileReads`), begun handlers go on, and resets and failed
statements stop happening after some moment (the variable `calm`, raised by
`Calms`, which only `FairSpec` has; `Spec` lets them come for ever): that is the
recovery the code promises, not that outages do not happen. Nobody edits for
fairness' sake.

*Dispatch.* A pass's next step is taken, the lane comes back, retry times and
deadlines arrive (`DeadlinePasses`: each deadline comes once for a request, so
fairness of any is fairness of each), and passes stop being stopped after some moment (`calm`
again). `calm` is a state, not a condition on steps: the step of a stop has the
same effect as the end of a pass, so a condition on steps would forbid both.

*Registration.* The scan ticks and a tick goes on (one weak fairness condition
for all its steps), and the retry interval passes. Nothing is assumed of
collectors, deliveries or the operator, and `EveryTerminalIsJudged` supposes
that the route stays active in the end: a revoked route is refused retryably
for as long as it is revoked. Faults are bounded by `MaxFaults`, since no
registration outlives a store that always fails.

*Outbox.* The tick starts a pass, a pass goes on or stops, and time passes.
Nothing is asked of builds, commits or the operator, and passes may stop for
ever: every claim uses up an attempt, so even then a row settles.

## 5. Proofs

Every invariant, every action property and every refinement that a passing run
checks is also a theorem, for every value of the constants that satisfies the
modules' named assumptions; TLC evaluates those assumptions on every run. Each
proof has one inductive invariant, one step per action, and the property as a
consequence. All the inductive invariants were first checked by TLC on the
instances of section 3.

### Lease (`CollectionLeaseProofs`)

| Theorem | States |
| --- | --- |
| `LeaseTyping` | `[]TypeOK` |
| `LeaseInvariant` | the inductive invariant |
| `LeaseExcludes` | `[]MutualExclusion` |
| `LeaseCovers` | `[]LeaseCoversAction` |
| `LeaseReleasedStops` | `[]ReleasedCallStops` |
| `LeaseTakenByKnown` | `OnlyKnownReleases` |
| `OldClaimKept` | `OldClaimKeepsItsHour` |
| `LeaseImplementsLock` | `ImplementsLock`: the lease refines `SourceLock` |

For every set of calls, every duration and every lag of an isolate's clock.
`OldClaimKept` is about the claims `HourRule` names, and says of the others, the
claims of an isolate that lags D1, only that the tick does not free them before
their own `started_at` is older than `StaleAfter`. `MutualExclusion`
is not inductive: that the tick does not free the lease of a live call depends
on how long ago its last heartbeat can have been written. The invariant
relates, for every call, the age of the last confirmed heartbeat to the next
tick of its timer (a call that has been silent for `Loss` aborts at its next
beat, so `beatAge` stays below `Quiet` until it aborts and below
`Quiet + Grace` until it is forced), the row's `hbAge` to the ages the call and
its heartbeats in flight remember (the row's heartbeat is never older than any
confirmed one), and the holder to the calls that may act (a running call holds
the lease, or lost it to a person, or has been silent beyond `StaleAfter`).
With `Margin` a call that is still active is never stale, hence never freed by
the tick, hence still the holder; two active calls would both hold the row. The
refinement follows from the same: a step that ends a hold under an active call
can only be `OpRelease`. No finiteness of `Execs` is used. Assumed: `Names`,
`Durations`, `Margin`.

### Alarm (`ScheduleAlarmProofs`)

| Theorem | States |
| --- | --- |
| `AlarmInvariant`, `AlarmTyping` | the inductive invariant; `[]TypeOK` |
| `RunsFollow` | `[]RunFollowsNominal` |
| `OutcomesAreFinal` | `OutcomeIsFinal` |
| `ClaimsFitTheConfig` | `ClaimsCurrentConfig` |
| `ClaimsWait` | `Waits` |
| `SweepSparesTheLiving` | `AbandonedIsOver` |
| `AlarmSubmitsOnce` | `SubmitsOnce`: the alarm refines `AtMostOnce` |

For every set of patterns and windows, horizon and number of edits, of `Spec`
and of `FairSpec`. What a handler carries is only known to fit the
configuration *under the revision it was read at* (`handler.rev = revision =>
handler.next \in pattern`); the writes ask for that revision, which is why an
edit always wins. From the claim on, the occurrence belongs to its handler: it
is `started`, not submitted, and started no earlier than the handler began, so
the sweep cannot reach it within `RunLimit`. Assumed: `Instance`, in which
`RunLimit =< AbandonAfter` is the one fact about time (the platform ends an
alarm handler long before the sweep's hour), and `NoRow`.

### Dispatch (`OperationDispatchProofs`)

| Theorem | States |
| --- | --- |
| `DispatchInvariant`, `DispatchTyping` | the inductive invariant; `[]TypeOK` |
| `RowsAgree` | `[]RowsInStep` |
| `PublishedEvidence` | `[]PublishedHasEvidence` |
| `OutcomesFinal` | `OutcomeIsFinal` |
| `DispatchCallsOnce` | `CallsOnce`: the lane refines `AtMostOnce` |

For any requests of the three kinds, any number of overlapping passes and every
trail, of `Spec` and of `FairSpec`. An execution goes one way: untouched, then
declined, or started, answered and tracked. `StatusInv` lists the statuses each
part of that way allows the request, `PassInv` says that what a pass read, however
long ago, still tells what is behind the execution, that a start has one pass
that may call, and that a look that is going to publish carries a write for
every stage not yet on record. `RowsInStep` alone is far from inductive: a pass
brings a request in step from a row read several batches earlier. Of a
collection with a result it says what is true: its request runs, or one of the
two late batches of section 6 has failed it, and while it is not yet published
that needs a start that had grown old. Assumed:
`Requests` and `NoRow`. One guard of the model is an assumption about time and
not code: an execution is not an hour old while the pass that claimed it has
yet to make its call (`StartGrowsOld`); without it the claim of at most one
call would still hold, but not that the call precedes the outcome.

### Outbox (`DecisionOutboxProofs`)

| Theorem | States |
| --- | --- |
| `OutboxInvariant`, `OutboxTyping` | the inductive invariant; `[]TypeOK` |
| `PublishedTruth` | `[]PublishedIsVisible` |
| `BudgetKept` | `[]BudgetHolds` |
| `ProcessedStays` | `ClosedStays` |
| `ReceiptsFollow` | `[]ReceiptHasAPublisher` |

For every set of operations, rows and passes and every limit, budget and delay.
`PublishedIsVisible` is not inductive: it needs that what a row requires is not
below what its operation wrote, although the stamp is a statement of its own
after the claim, and that an answer is only recorded while the row still
carries the pass's token, and so is unchanged since it was given. The budget,
the finality of a processed row and the publisher each add one conjunct.
Assumed: `Instance`, that is the types of the constants, at least one row per
operation (`EXISTS` in the publishing statement), tokens distinct from `NULL`
and from each other.

### Commit (`ChangeCommitProofs`)

| Theorem | States |
| --- | --- |
| `LedgerInvariant`, `CommitTyping` | the inductive invariant; `[]TypeOK` |
| `AcceptedOnce` | `[]SpentOnce` |
| `AnswersAgree` | `AnswersAreReceipts` |
| `NothingIsLost` | `[]NoLostUpdate` |
| `AcceptedHolds` | `[]AcceptedIsInEffect` |

For every set of accounts, instruments, relations, changes, approvals, callers
and revisions, and every use of operation ids. There are two invariants on
purpose. `LedgerInv` is about the ledger alone: a receipt's plan is committed
and its approval has spent a use, and no row of the judgement tables is there
without the decision or receipt it hangs on. `JudgedInv` adds that a revision is
not claimed twice but by an `Unreserved` row, and that what a receipt accepts is
in effect. It rests on three facts. No row of a relation claims a revision past
the number of its rows (`Counted`), so a row appended at the next revision is
above all others. A plan approved for a relation was made for no more rows than
there are (`Foreseen`), as relations lose none, so a reservation that compares
its base with the count compares what its author saw. And what a row was written
under does not change (`UnreservedStays`), because receipts and approvals are
never taken back. Assumed
besides: `Universe`, `NoRow`.

### Collectors and registration (`TerminalRegistrationProofs`)

| Theorem | States |
| --- | --- |
| `RegistrationTyping` | `[]TypeOK` |
| `TerminalsHaveObjects` | `[]TerminalHasObjects` |
| `RegisteredRunsAreWhole` | `[]RegisteredIsWhole` |

For every number of runs, objects, attempts and deliveries and every budget.
The one invariant has a part per actor: an attempt has stored what it counted
(`WriterInv`); a call works on a run with a terminal that is not refused, and
inserts nothing beyond the slice it took (`CallInv`); the catalogue is stored,
and a sealed run holds exactly its terminal (`RunInv`). Collectors never take
anything back (`Settled`), which is all that the registration needs to know of
them. Typing is not free here: that the scan's cursor stays in range depends on
the order of the listing. Assumed: `Writing` and `Registering` (the runs are
numbered in listing order; limits are positive).

### Left to TLC

Liveness is outside the prover's reach (it needs `ENABLED` and fairness):
`NoCallKeepsTheLease`, `ReachedIsClaimed`, `StartedSettles`,
`EveryOperationEnds`, `DeclinesArrive`, `EveryRowSettles` and
`EveryTerminalIsJudged`. So are the six disagreements of section 6, which are
counterexamples.

## 6. Findings

* `requeued`: the comment in `recordCollectorWait` says a row another tick
  already started is not put back in the queue. Its second batch does not ask
  again, so a start claimed between the two batches is put back. The next pass
  brings the request in step, unless the request has ended by then: then it is
  listed as pending for good.
* `published_failed`: at the 48 h horizon one pass has looked at a run and found
  it not settled, another finds it published and says so. The first pass's batch
  then updates no execution, as it asks for a `collected` one, and still runs
  `failRequest`, which asks only that the request is not over: the execution is
  `published`, the request `failed`, for good, where ADR 0048 has a published
  collection stay `running`. The late abandonment of a start does the same to a
  row that was `collected` meanwhile. `RowsInStep` says that these are the only
  two ways out of step.
* `outbox_interrupted`: a pass that stops after closing an operation's last row
  and before its publish loop leaves the receipt `accepted` for good, although
  `docs/change-lifecycle.md` has it published once no row is unprocessed and
  assumes interrupted delivery: later passes publish only operations they
  completed a row of. `ReceiptHasAPublisher` is what remains true: without such
  a stop every receipt finds its publisher.
* `commit_empty`: a release of an override that is not in force any more passes
  planning, approval and the reservation; only the ledger row asks for a
  protected subject. The receipt says `accepted`, the approval is spent and the
  plan committed, and there is no decision and no outbox row, so the receipt
  never becomes published either. For assignments and relations
  `AcceptedIsInEffect` holds.
* `commit_unguarded`: two calls use one operation id for two plans, and both
  look for a receipt before either has written it. The second batch's
  reservation fails, but its later statements ask for *any* receipt of the
  operation and principal, and the mapping row for any ledger row of the
  operation, so they run all the same: an assignment under the id of a release
  gets its mapping row and its outbox row, a relation under the id of a release
  that wrote nothing its row and its decision; the approval is spent, the plan
  closed, and the call refused. `decision-commit.ts:36-37` and
  `relation-writes.ts:11-12` say that nothing else can write unless the
  reservation did. It takes an operation id used for two changes, which the
  shipped client does not do and the server does not refuse.
* `registration_blocked`: two calls register one run; `sealRun` of one reads the
  inventory before and the attempt after the other's batch, finds an attempt
  without an inventory, and the run is blocked for good, and linked by the other
  call. The staged path has the same gap between the reads of
  `addInventoryItems`, and there a blocked run whose other call yields is not
  continued by anyone.

What follows from `commit_unguarded` bounds two properties. A relation written
under the receipt of a release is at a revision nothing compared, so another
judgement may claim the same one and be lost: `NoLostUpdate` holds but for these
rows (`Unreserved`). An assignment under an id whose decision the direct route
has made may be accepted without a row of its own: `AcceptedIsInEffect` holds
but for these receipts (`DecidedDirectly`). A release under such an id may also
supersede an override made later (`identity-commands.ts:312`) although its
reservation failed; `FailedGuardWritesNothing` speaks of appended rows and does
not count that.

Two more behaviours are visible in the model and have no run. A repeated commit
that read the receipt before the first one wrote it may be told `plan_not_open`
or `approval_exhausted`; its next try gets the receipt. And a repeated batch
spends its own approval if a receipt of its operation is on record
(`decision-commit.ts:63` says only if the reservation wrote): `SpentOnce` says
that no receipt is without a spent use, not that no use is spent without one.

## 7. Plan

Modelled so far: lease, alarm, dispatch, outbox, commit, writer, registration;
every safety property a passing run checks is proved. What is left is breadth.

Modules that would extend the model, each in place of a run it covers:

1. `ParseLane`: jobs, publication, supersession, the release gate, activation
   and rollback; abstract: one current publication per artifact.
2. `MaintenanceWindows` (the calendar functions of `schedule-model.ts` against a
   reference definition) and `MaintenanceRevision` (rule revisions, delegated
   budget and deferral bound, reversal).
3. `ReadProjection`: fixed input, bounded build, publishing switch.
4. `CollectorTrail` for several runs, and imports joined to the parse lane.

## 8. Not modelled

Of the modelled components: contract versions and the carry-over of
registrations between them; a second manifest under one run id reaching CORE;
corrupt terminals; `artifactBudget` and `maxContinuations`; budgets shared
between the lanes of one invocation; units, ranges and reports, which are
written and read back like artifacts; the economic-event, card and ownership
kinds of the change lifecycle with their preconditions and triggers; delegated
commits and their reversal.

Whole components: collectors' network code, parsers (judged by fixtures),
queries, presentation, infrastructure. The reasons are in `PROJECT.json`.
