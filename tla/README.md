# Formal models of the Musanad contracts backend

This directory holds TLA+ models of the core of the Musanad contract life-cycle
backend, TLC configurations that check them on small instances, and theorems
about them that TLAPS checks for every instance. Paths below are relative to the
root of the repository; migrations are named by their number
(`database/migrations/611_...sql` is "611").

## 1. The system

The backend is a thin Express/TypeScript layer (`src/`) over PostgreSQL.
A controller validates a request and calls one function `fn_*`
(`database/migrations/*.sql`) through `callFunction`
(`src/database/client.ts:492`), which runs it in a READ COMMITTED transaction
of its own: `BEGIN`, the session's user and tenant, `SELECT fn_...`, `COMMIT`;
an error is a `ROLLBACK` and is not retried. So the state of the system is the
database, its operations are the functions, and its concurrency is that of
PostgreSQL's locks. Cron services and workers in the same process (one set per
replica) sweep the tables beside the HTTP calls.

Three kinds of lock matter:

- rows locked by `SELECT ... FOR UPDATE` and by `UPDATE`;
- rows shared by the foreign keys of an `INSERT` (`FOR KEY SHARE`);
- one advisory lock for the whole database. Every table of the engine has an
  audit trigger (024:250, 035:348, 003:194) that calls
  `fn_audit_log_record_v2` through `fn_audit_trigger` (637:99), and that
  function takes `pg_advisory_xact_lock(4815162342)` (280:34). A transaction
  waits for it at its first write and keeps it until it ends. Writers are thus
  serialised from their first write on, reads before it are not, and a call
  that asks for a row after its first write can deadlock with one that does not.

### Inventory

| Component | State | Operations | Hard behaviour | Correct when |
|---|---|---|---|---|
| Contract status | `contract.status`, `is_active` | `fn_contract_status_update_user`, `_internal`, `fn_contract_delete` | two writers, called from three subsystems | only listed transitions; nothing leaves a terminal status |
| Approval engine | `approval_matrix`, `approval_chain`, `approval_step` | route, decide, delegate, reassign, escalate | decisions in any order, late decisions on finished chains, any-of/all-of groups that grow | one open chain per contract in approval; a verdict needs the sign-off its last order demands; an open chain can finish |
| Approval transactions | the locks of each session | each call, lock by lock | interleavings, deadlock | each commit is one atomic operation; each call ends |
| Escalation cron | none | a sweep every 15 minutes, LIMIT 200 | replicas; rows that never leave the scan | every overdue step is escalated once |
| Signature ceremony | `signature_party`, `signature_invitation` | create parties, send, resend, cancel, sign, decline, view, expire | expiry racing a signature, steps, rosters that grow, batches | an executed contract is covered by signatures; a refusal is final; a waiting contract has a signer |
| Signature transactions | the locks of each session | each call, lock by lock | two sweeps, sweep against resend, deadlock | as for approvals |
| Expiration cron | none | a sweep every 15 minutes, 50 batches of 100 | one bad row fails its batch | every overdue invitation is expired |
| Audit chain | `audit_log` hash chain | one row per audited write; verify, export | concurrent writers | the chain never forks |
| Contract versions | `contract_version`, `contract.parent_contract_id` | create, update, version | numbering under concurrency, parent cycles | numbers unique and increasing; no cycle |
| Notifications | `notification_dispatch_log` | send, claim due, record outcome | claim without a mark, late outcomes, lost records | a mail recorded as sent was accepted; what is queued settles |
| Report runs | `report_run`, the bucket of outputs | trigger, claim, render, complete, fail | the request and the worker render one run; crash between claim and completion | outcome, output and answer agree; a generating run is held |
| Ingestion, clause extraction | job columns of `contract_version`, `ingestion_review_queue`, `contract_clause_extracted` | sweep, extract, record, review, request | claim not held while processing, overlapping sweeps, bounded scans | no version stays extracting unnoticed; no text is lost |
| Accounts, sessions | failed attempts, lock-out, token blacklist | login, refresh, logout | counter races, expiry of locks | a locked account stays locked, an unlocked one starts afresh |
| Risk cases | `risk_case`, its events, alerts | file, route, assign, decide, snooze, close, promote, dismiss, escalate | reads without a lock, constraints that refuse a routed row, jobs without a user | every case has an owner, a closed case an outcome; only a promotion re-opens it |
| Advisory drafts | review columns, mail of the draft | generate, approve, reject, modify, dispatch | older functions lock, newer ones do not | mail leaves only for approved drafts |
| Obligations | SLA timers | check, escalate | repeated sweeps | each breach escalated once |
| Migration batches | `migration_batch`, `migration_record`, contracts | queue, run file by file, roll back, purge | overlapping runs, crash, rollback and purge under a run | totals match; a file is imported once; a rollback or purge holds |
| Work orders, redline import | small status machines | assign, nudge, complete | groups of assignees | |
| Rule evaluator | rules, a cache | evaluate, refresh | stale cache | agrees with a reference evaluation |
| AI gateway | rate-limit rows | gate, commit | check then act | the limit holds |
| Signer questions | `signer_qa_session` | start, gate, commit | rate limits | the limit holds |
| Scores, margins, sources; HTTP; rendering; storage | none | recomputation and I/O | | |

`PROJECT.json` lists every component with its sources, what is modelled of it,
and the hazards of the code line by line.

## 2. Modules

| Module | Extends | What it is |
|---|---|---|
| `ContractStatus` | | the statuses of a contract and the pairs each of its two writers lets through |
| `ContractLifecycle` | `ContractStatus` | the abstract life of a contract: what its status may do, and when an approval is open |
| `ApprovalChain` | `ContractStatus` | the approval engine, one action per function |
| `SignatureCeremony` | `ContractStatus` | the signature ceremony and its cron, one action per function |
| `ContractEngines` | `ApprovalChain`; instances of `SignatureCeremony`, `ContractLifecycle` | both engines on the same contracts, and the mapping to the life cycle they implement |
| `ApprovalLocks` | `ApprovalChain` | its transactions split at their locks |
| `SignatureLocks` | `SignatureCeremony` | its transactions split at their locks |
| `MigrationBatches` | | import of a Drive folder: batches, runs, rollback, purge |
| `AdvisoryDrafts` | | review and dispatch of advisory drafts, and the queue of outgoing mail |
| `ReportRuns` | | report runs, rendered by their request and by a worker |
| `DocumentPipeline` | | ingestion of versions and extraction of their clauses |
| `RiskCases` | | risk cases from filing to closing |
| `MC...` | the module it names | constants for TLC |
| `ApprovalChain_proofs`, `SignatureCeremony_proofs`, `ContractEngines_proofs`, `AdvisoryDrafts_proofs`, `MigrationBatches_proofs`, `ReportRuns_proofs`, `DocumentPipeline_proofs`, `RiskCases_proofs` | the module, `TLAPS` | the theorems |

The modules stand in three relations.

*Refinement of a life cycle.* `ContractLifecycle` knows three things of a
contract: its status, whether it is live, and whether an approval of it is open.
`ContractEngines` lets the approval engine and the ceremony work on the same
`status` and `live` and maps `open` to the contracts with a chain in progress
(`INSTANCE ContractLifecycle WITH open <- {c \in Contract : InProgress(c) # {}}`).
`Lifecycle` is the abstract specification under that mapping: a property of the
run `approval_chains` and the theorem `EnginesImplementLife`.

*Refinement of transactions.* `ApprovalLocks` and `SignatureLocks` give the
variables of the modules they extend to sessions that take locks one at a time,
read what is committed at that moment, and write at `COMMIT`.
`EveryCommitIsAtomic == [][Next]_vars` says that they implement the atomic
module under the identity mapping: each commit is an operation of it on the
state it commits to, each other step a stutter. What is shown of the atomic
specification then holds of the interleavings.

*Claims without claims.* The other modules have no such pair, because the code
has no atomic transaction to compare with: a worker's job is several database
calls. There a job is a process of several steps, what it read stays in its
variables, and other jobs move between its steps. A function of the database is
one step if it locks the row before it reads it, and two (a read and a write by
id) if it does not.

### Approval (`ApprovalChain`)

`status` and `live` are `contract.status` and `contract.is_active`; `chain` and
`steps` are the two tables, with `status |-> "none"` for an id not inserted yet.
`grouped` stands for `parallel_group`, which a CHECK makes equal to `step_order`
(024). `Matrix` is a set of rule sets that the matrix may hold for a contract:
`fn_approval_matrix_set` accepts orders 1..N without gaps, hence
`MatrixAssumption`.

- `RouteInit` is `fn_approval_route_init` (541:18).
- `Decide` is `fn_approval_decide` (611:39): its branches are `RejectRequired`,
  `RejectOptional`, `RequestResubmission`, `ApproveWait`, `ApproveAdvance` and
  `ApproveFinal`. What they share, `DecideStep`, has every check of the function
  and no more: it checks neither the status of the chain nor its current order.
- `Delegate`, `Reassign`, `Escalate` are the functions of 025. `Escalate` is
  enabled on any pending step: its hours may have run out.
- `StatusUpdateUser` and `DeleteContract` are what the drafter does meanwhile.

A `RAISE` rolls the transaction back, so it is a disabled action. Permissions
are abstracted to sets of users; notes and notifications are left out.

### Approval transactions (`ApprovalLocks`)

`Txn` are sessions; each runs one call at a time. `pc` names the lock a call
asks for next: step, chain, contract, audit, peers, in the order of its
function. A decision of a step that is assigned locks step, chain and contract,
and then writes. A decision of an unassigned step, which every routed step is
until somebody is named for it, first claims the step for its caller: that
`UPDATE` (611:112) takes the audit lock before chain and contract are locked
(`Claims`, `AfterStep`), and only then is a step that was decided already refused
(`ClaimRaise`). Either locks the peers it skips last (`LookForPeers`).
`fn_approval_reassign` and `fn_approval_escalate` write at once. `seen` is
`v_step`, the row read at the lock; `peers` and `skip` follow the skipping
`UPDATE`, which takes its snapshot when it starts and re-reads each row once it
has it. `DeadlockAbort` is PostgreSQL's detector (40P01). A call
commits, raises or is aborted; nothing is retried.

### Signatures (`SignatureCeremony`)

`roster` are the `signature_party` rows, `inv` the status of each party's active
invitation, `due` the open invitations past their 14 days; `Signatory` are the
parties with `is_required`. Deactivated invitations matter to no function and
are left out. `Sign`, `Decline`, `View`, `Resend`, `CancelInvitation`,
`SendForSignature`, `CreateParties` are the functions of 036 (and 088, which
resends for the signer); `ExpireDue(batch)` is
`fn_signature_invitation_expire_due` on the due rows that no other session
holds, in one transaction; `Sweep` is the cron with nobody else at work.
`ExpireDue` is disabled when one of its transitions is refused, since the
`RAISE` undoes the batch. `RunOut` is the clock.

### Signature transactions (`SignatureLocks`)

A call is a sequence of locks (`Locks`), then a commit. Signatures, refusals and
cancellations lock invitation, contract, party and then write; a view and a
resend write, and refer to the contract afterwards; a sweep locks its batch with
SKIP LOCKED, writes, and refers to the contracts. `Admitted` is what a function
checks once it has the invitation. `CountExhausted` is the sweep's count of what
is left of a step, made after its first write and before the contract is locked.
Creation of rosters and the send are not interleaved (they precede the rest, on
an approved contract); later views of an opened link only count and are left out.

### Migration (`MigrationBatches`)

A run is one call of `processBatch` (`src/services/migration-orchestrator.service.ts:391`)
and each database call of it a step: `Load`, `List`, `Register`, then for every
file `Check`, `Skip`, `Claim`, `Download`, `Compare`, `Ingest`, `Stage`, `Link`,
`Flag`, `Settle`, `Count`, and at last `Finish` (the final status) and `Synced`
(the connection's `last_synced_at`, in the same `try`). `Fetch` is a sweep of the worker, which
claims nothing: two runs may take one batch. `CreateBatch` may be followed by a
run in the request itself when the worker is disabled. `Rollback` and `Purge`
are the two administrative functions (467, 475), possible between any two steps
of a run. `contract` follows the contract each run creates for a file: loose
until it is linked to its record, tagged, or inactive after a rollback.

Any call to Drive, to the storage or to the database may fail (`Fault`). An error
out of `processSingleFile` makes the record failed, whatever was done for it
before, and the batch goes on (`FileError`, `FileFails`). An error anywhere else,
of that note included, reaches the catch around the whole (`Abort`): it sets the
batch failed, whatever status it has by then. If the database refuses that too,
the batch keeps its status and the run is gone (`AbortLost`). The failure of the
look for similar contracts is ignored (`Flag`). `Crash` ends all runs.

### Advisory drafts and mail (`AdvisoryDrafts`)

`Approve`, `Reject`, `Modify` and `Dispatch` lock the draft (216, 217).
`send_directly`, `route_for_review`, `exec_approve`, `exec_modify` and
`send_after_review` (677, 681) do not: `Read` checks the row, `Write` updates it
by id. `Dispatch` queues the mail and `SendFirst` is the first attempt made by
the request after the commit. `Fetch`, `Send`, `Record` are a tick of the retry
worker; `Outcome` is the retry table (218), computed from the row at the time of
the record. `Slip` loses a record, `Crash` stops the server between any two.

### Report runs (`ReportRuns`)

`Trigger` inserts a run and starts to render it without a claim; `Poll` claims
what is pending for a tick of the worker, `PollByHand` for a caller of the
endpoint. `Render`, `Upload`, `Complete`, `MarkFailed` are an execution of
either; `TooLate` is the refusal of a record because another execution was
first. `by` names the execution whose output the row holds, `file` the outputs
in the bucket, `left` the runs whose claim was given up (a crash, a lost record,
the module turned off, a claim from outside).

### Documents (`DocumentPipeline`)

`sweep` is where each sweep of the ingestion worker is with each version it
fetched (`Fetch`, `Skip`, `Ingest`, `Extract`, `Complete`, `RecordPage`,
`NoText`, `Fail`); two sweeps may hold one version since the claim ends with its
statement. `IngestUnchecked` is the sweep that ingests although the check of the
module failed. `ManualIngest` and `ResolvePage` are the endpoints. `TakeUp`,
`Upsert`, `NoClause` are a tick of the clause worker. It returns when the module
is disabled (`enabled`, which `Toggle` switches) and goes on when the check fails
(`TakeUpUnchecked`); nothing else depends on the module, so that the check and
the read after it are one step. `marker` is the row an
extraction request inserts, which counts as a clause. `left` are versions set
extracting and given up.

### Risk cases (`RiskCases`)

The functions of the first release (258) lock the case and are one step:
`Assign`, `Transition`, `AcceptRisk`, `Snooze`, `Escalate`, `Close`. Promotion,
dismissal, reassignment, un-snoozing and the two nightly jobs read and write in
two steps (`Read`, `Write`). `Accepts` are the constraints of the tables: an open
case needs a role (645), an event must be of a listed type (647), and user 0 is
nobody; what they refuse is rolled back. `AutoCreate` files an alert of the
correlation engine, routed by `Routed`; `Tell` is the daily look at the
executive's queue; `GrowOld` is time.

## 3. What the runs check

`tlc -config X.cfg M` with the names below; `PROJECT.json` names for each
property a mutant, an operator of the module (marked "Mutant") that replaces the
definition before it by what a plausible bug would make of it: TLC finds the
property violated under each.

| Run | Instance | Distinct states | Shows |
|---|---|---|---|
| `approval_chains` | 1 contract, 2 chains of up to 3 steps, 4 rule sets, 2 users, a roster of 2 signers | 219,012 | the two engines together: one open chain, agreement of contract and chain, sign-off of the last order, the life cycle |
| `approval_groups` | 1 chain of up to 4 steps, 2 rule sets that escalate, delegation and reassignment | 383,706 | any-of and all-of rules for groups that grow, and the assignment of each waiting step |
| `locks_any_of` | 2 sessions, 6 calls, 2 chains; an any-of group, and a group whose peers escalate to each other with a second order; steps are claimed, or reassigned first | 1,369,987 | commits are atomic; which calls can be in a deadlock |
| `locks_calls` | 2 sessions, 5 calls, 2 chains, 2 required peers | 372,383 | late decisions and re-routing race; every call ends |
| `ceremony` | 2 contracts, 5 parties, 2 steps, weakly fair cron | 338,100 | agreement of contract and signers; an overdue invitation settles unless a row blocks the batch |
| `signing` | 3 sessions, 2 of them crons, 4 calls, 2 required parties | 323,558 | commits are atomic, an exhausted step is halted, no deadlock among calls that lock before they write |
| `migration_import` | 2 batches, 2 runs, 2 files with the same bytes and terms, 1 failing call, 1 crash | 605,904 | totals, single import, rollback, purge, end of a started batch |
| `advisory_delivery` | 1 draft, 2 calls, 2 ticks, 5 attempts, 1 lost record, 1 crash | 59,758 | mail and approval agree; what is queued settles |
| `report_runs` | 2 runs, 2 ticks of one run each, 1 lost record, 1 crash | 437,416 | outcome, output and answer agree; every run ends or was given up |
| `documents` | 2 versions (1 of a tenant without the module), 2 sweeps and 1 tick that read one version each, 1 failed call or crash, the module switch | 251,148 | nothing stays extracting unnoticed, no text is lost, every version that a scan reaches is taken up |
| `risk_cases` | 1 case, 2 overlapping calls | 49,451 | owner, outcome, re-opening, report of rotting cases |
| `late_verdict` | as `approval_chains` | violation | section 4 |

### Properties

Contracts.

- `OneOpenChain`: a contract is routed through one open chain at most, although
  steps of old chains stay decidable.
- `PointerAtUndecided`, `LastOrderOutstanding`, `GroupsSettled`: an open chain
  can still finish. The pointer is never on an order whose required steps are
  all decided, and the required sign-off of the last order is outstanding, in
  whatever order the steps are decided and escalated.
- `LastOrderSignedOff`: a chain turns to approved only when its last order is
  signed off.
- `ApprovedByChain`: a contract that is approved, being signed or executed has
  an approved chain, whatever the ceremony and late decisions did since.
- `Lifecycle`: both engines implement `ContractLifecycle`.
- `AssignmentKept`: no delegation or reassignment loses the named approver.
- `EveryCommitIsAtomic`: nothing read before a wait is stale when it is written.
- `LockOrderKept` of the ceremony: calls that lock all their rows before they
  write never wait for each other in a circle. Of the approvals: every circle
  has a call in it that wrote before it had locked all its rows (`WroteEarly`:
  the claim of an unassigned step, a reassignment, an escalation, a decision that
  skips peers) or a routing that found an open chain on a draft (`FoundOpen`), or
  is made of escalations that wait for each other's step as their peer.
- `EveryCallEnds`: with the detector, no session waits for ever.
- `AwaitingHasSigner`: no mix of refusals, cancellations, expiries and optional
  signatures leaves a contract waiting for nobody; `ExhaustedIsHalted` says so
  of two replicas that each expire one invitation of a step.
- `RefusalIsFinal`, `AnswersStay`: answers are neither withdrawn nor replaced,
  and a required refusal goes with the contract's rejection.
- `ExecutedIsCovered`: a fully signed contract keeps as many signatures on its
  last step as the step has required parties (the code counts, see below).
- `HaltsWhenExhausted`: a ceremony ends early only when a step has nobody left.
- `DueSettles`: unless one of its contracts refuses, the batch gets through.

Jobs.

- `TotalsAgree`: what a completed batch reports is what its records say, if one
  run worked on it. `BatchEnds`: a started batch ends unless the server stops or
  the catch of its run cannot set the status (`"lost"`).
- `RollbackHolds`: a rolled back batch that one run worked on gets no live
  contract and keeps its status, unless its run fails after its last file, at
  `Synced`. `PurgeIsComplete`: a run that is still at work writes nothing of a
  purged batch.
- `OneLiveImport`: a file has one live imported contract whose record has not
  failed, over all batches.
- `MailedIsApproved`: mail leaves only for drafts that are approved and stay so.
  `SentWasAccepted`: a mail recorded as sent was accepted. `MailSettles`: what
  is queued is sent or given up.
- `OutputExists`, `AnswerHolds`: the recorded output exists and is of the
  execution named; a request never contradicts the row. `ClaimIsHeld`, `RunsEnd`:
  a generating run is in the hands of one tick, or was given up; a run ends.
- `ExtractingIsHeld`, `ClausesHaveText`: a sweep ends with each version it has
  taken up, and a text that clauses come from is never lost. `VersionsSettle`,
  `CompleteIsTakenUp`: liveness of the two scans for the versions within their
  limits (`First(Window, Pending)`, `First(Reach, Waiting)`); a version that
  others hide is promised nothing, nor is any while the module is disabled.
- `CaseHasRole`, `ClosedHasOutcome`, `ClosedIsLeftByPromotion`: every case has
  an owner, a closed one an outcome, and only a promotion re-opens it, whatever
  calls that read it before write afterwards. `RottingIsTold`: a case of the
  executive's queue that nobody acts on is reported.

Where a promise fails in the code, the property has the condition under which it
holds (`Alone`, `left`, `crashed`, `"lost"`, `"sync"`, the limits of the scans), and section 4 says what happens otherwise.

### Bounds, and why they are enough

*Contracts.* One contract suffices where functions touch one contract only; the
exception is the cron's batch, so `ceremony` has two. Two chains let an old
chain be decided while a new one is open; a third would repeat the second. Three
steps hold each shape of group the code tells apart (alone, all-of, any-of) next
to a second order, and three orders; a fourth step leaves room for escalation
peers. Five parties give each step required and optional signers. `MaxCalls`
bounds the calls of the lock models: the races are between two calls and what a
third did before them; five reach a late resubmission request on an old chain,
which puts a contract back to draft with its new chain open
(`RouteFindsChain`), and six a decision on the new chain that meets a routing
there. `locks_any_of` reaches a deadlock of each kind of `WroteEarly` and that of
two escalations: without either, TLC finds `LockOrderKept` violated. `FoundOpen`
by itself takes seven calls, one of them the reassignment of the step that is
decided, as the decision of an unassigned one has written already; the theorem
covers it. `alice` reassigns, so that steps are decided both ways. Sessions that may run the same calls are symmetric in the
safety runs, and so are the parties of `signing`, who share one step; the run
with `EveryCallEnds` uses no symmetry.

*Jobs.* Two runs, sweeps or ticks make one overlap, and overlaps are of two.
Two files are a file and its twin, two batches a batch and its repetition; a run
serves one batch. `MaxRetry` is the code's five. `Batch` (runs a tick claims) is
1 instead of 5, so that two ticks share the work in every way; `MaxAttempts` is
1 instead of 3, since a failed version is never pending again and more attempts
are never made. `Window` is 1 instead of 2 and `Reach` 1 instead of 4, so that
both limits bind with two versions: `Muted` puts a tenant without the module in
front of the one queue, a version without clauses may stay in front of the
other. `Slips` and `Faults` bound lost records and failures to one, which lies
between any two steps; a second repeats the first. `MaxFaults` is one failing
call of an import, beside one crash; `Abort` and `AbortLost` after a call for a
file count the error and the failure to note it as one, and the theorems hold for
every `MaxFaults`.
With one case or draft the two calls always meet on the same row.

Systems that stop when every id is used have `CHECK_DEADLOCK FALSE`.

### Fairness

`LocksFairSpec` is weakly fair in each session's steps (a session whose lock is
free runs on) and in the deadlock detector (it examines every waiting session
after `deadlock_timeout`). A session may wait for a lock others hold in turn:
weak fairness suffices since calls are finitely many. The ceremony's `FairSpec`
is weakly fair in `Sweep`: the cron ticks every 15 minutes and starts again after
an error (`src/services/signature-expiration.cron.service.ts:131`).

Jobs: each run of a migration is weakly fair (every await of it returns or
throws; whether it is started, or fails, is not promised). The retry worker, the report
worker, both document workers and the daily job of risk cases are timers, so
their ticks are weakly fair, and so is the clock of the retry table
(`BecomeDue`). Nothing is asked of people, requests, faults or the module
switch.

## 4. Where the code and its documentation disagree

One disagreement has a run, which TLC ends with a counterexample:

- `late_verdict` (`RollbackIsCancellation`): 033:28-29 says that "approved" on an
  awaiting contract is the cancel-rollback path of the last active invitation.
  The engine takes it too: three orders, the last signed off first; the contract
  goes out for signature; the late approval of the middle order takes the final
  branch again (611:228) and puts the contract back to approved while its
  invitations stay open.

The models exhibit the following as well. Each is part of a model, and the
properties above hold with it; where one of them had to be conditioned, the
condition is named.

*Approvals and signatures.*

- Two required steps are not an all-of sequence, which 615:15 calls them: the
  engine looks for later pending steps only (611:222), so the second step's
  approver alone approves the contract.
- Two sweeps on sibling steps insert the same escalation peer twice, since the
  check (025:1241) precedes every lock they share; the header of
  `src/services/approval-escalation.cron.service.ts:14` excludes it. It takes two
  rules of one order that escalate to one role (or one that escalates to the role
  of an ungrouped sibling), which the seeded rules do not have (527:69) and
  `fn_approval_matrix_set` accepts. `CommitsAreAtomic` proves that no other rule
  set shows it, `InterleavedCallsKeepTheEngine` that the chain can finish and is
  approved by its sign-off all the same.
- A late decision on a finished chain rewrites its status, called terminal in
  `docs/database/M2-data-dictionary.md:262` (611:132 reads no status). It can
  even settle the contract while a newer chain routes it, but never brings an
  ended contract back (`TerminalContractsStay`).
- `in_review` to `in_approval` always raises: the router accepts only `draft`
  and `resubmission_requested` (541:41, 026:104).
- The rejection of a lone optional step leaves the pointer on a used-up order.
- An optional witness stands in for a required employer: the signatures of all
  parties are compared with the number of required ones (036:671;
  `docs/dev-handoff.md:861` asks for the last required employer).
- A cancelled invitation stays active, so the contract that was rolled back to
  approved cannot be sent again (036:486, 035:173; `docs/ops-runbook.md:714`).
- One contract that refuses its transition fails the expiry batch at each tick,
  and invitations of other contracts stay overdue (036:931;
  `docs/ops-runbook.md:712`). `DueSettles` has the condition that none refuses.
- Step 2 of a ceremony is never invited by the documented second send
  (`docs/dev-handoff.md:861`): it requires `approved` (036:236).
- A signer and the sweep can deadlock (the sweep holds the audit lock and waits
  for the contract), against `docs/dev-handoff.md:821`. So can approvals: the
  decision of an unassigned step holds the audit lock from its claim on (611:112)
  and waits for chain and contract, while a cancellation or a routing that holds
  the contract, or a decision of an assigned step that holds the chain, waits for
  the audit lock to write. The skipper of an any-of group holds the audit lock
  and waits for the peer's step, whose approver waits for that lock or for the
  chain. Before their first write two calls deadlock
  when a routing has found an open chain on a draft (it holds the contract and
  waits for the chain, 541:48, while a decision holds the chain and waits for the
  contract, 611:142), and when two sweeps escalate two steps of one order to each
  other's role (each holds its own step and waits for the other, 025:1248).
  `LockOrderKept` says what every deadlock has in it; `EveryCallEnds` that the
  detector resolves them all.

*Migration.*

- Sweeps that overlap run one batch twice (`src/workers/migration-sync.worker.ts:27`,
  `fn_migration_batch_set_status` compares nothing): files fail in one run and
  succeed in the other, totals are those of the last to finish, against
  "Idempotent" in `src/services/migration-orchestrator.service.ts:387`.
  `TotalsAgree`, `RollbackHolds` and `OneLiveImport` are stated for batches that
  one run took (`Alone`).
- A crash leaves a batch in progress for ever, since the sweep reads queued
  batches only (`crashed` in `BatchEnds`), and so does a catch that cannot set the
  status (orchestrator 501; `"lost"`).
- `fn_migration_batch_rollback` locks the batch to prevent a race with the worker
  (467:531), but the run sets its final status before its last statement
  (orchestrator 476, 483): rolled back between the two, and that statement
  failing, the batch ends as failed (`"sync"` in `RollbackHolds`).
- A record that fails after its contract was linked (an error of the last update,
  orchestrator 852) leaves the contract live, and since a failed record is outside
  the index (466:168) the next batch imports the file again (the records that
  `OneLiveImport` leaves out).
- A second import of a folder fails as a whole: the first file whose record is
  still active meets the unique index (466:168) and the run is aborted; a
  rollback leaves records active, so the folder cannot be imported again.
- `flagged_logical_duplicate` is always overwritten by the final status; the
  contract of a file whose extraction failed stays live and untagged.

*Advisory drafts and mail.*

- The executive's functions check what they read without a lock (677:160): a
  draft rejected meanwhile is approved or sent by the stale call. `exec_modify`
  checks no status, and an approval without a text overwrites a modification.
- The worker claims nothing (222:28) and the request's own attempt records
  nothing, so every dispatched mail is sent at least twice; a late failure turns
  a sent mail back to pending, a late success overwrites a final failure, and
  the fifth delay of the table (218) is never used.

*Report runs.*

- The request renders without a claim (`src/controllers/report.controller.ts:397`)
  what a tick may render too; the loser's output stays in the bucket.
- A run whose worker stops is generating for ever (`left` in `RunsEnd`).
- `src/services/report-scheduler.service.ts:70` passes its arguments in another
  order than the function takes them (264:17): scheduled runs are never inserted.

*Documents.*

- Asking for an extraction prevents it: the request inserts a row (146:141) that
  the worker counts as a clause (`src/workers/clause-extraction.worker.ts:52`),
  against `src/services/clause-extraction.service.ts:484`.
- The claim of a sweep ends with its statement; a late failure overwrites a
  completion (the text stays, `ClausesHaveText`); a version set extracting by
  hand or left there by a crash is never read again (`left`).
- A failed version is never pending again, so "retry-2x-then-fail" (132:73) is
  one attempt. Two versions of tenants without the module hide all later ones
  from the sweep, and four versions without clauses hide all later ones from the
  clause worker; the liveness properties promise nothing beyond these limits.

*Risk cases.*

- 645:35 says its constraint is always satisfiable. Alerts of the first tier,
  which are filed open and routed afterwards, and manual cases without a role
  are refused by it: the check is immediate.
- The jobs act as user 0, whom the references refuse, so that automatic
  dismissal (551) and escalation always fail; un-snoozing writes an event of a
  type that is not listed (413:57, 647:22) and fails too. The whole call is
  rolled back and the case is as it was.
- A promotion re-opens a closed case and keeps its outcome; a dismissal
  overwrites what was decided since its read. Alerts announced while no listener
  is connected are never filed. `src/services/rule-cache.service.ts:52` drops a
  reload that is asked for while another is under way.

## 5. What is proved

For every value of the constants, under the named assumptions of the modules:

| Module | Theorem | States |
|---|---|---|
| `ApprovalChain_proofs` | `TypeCorrect` | `Spec => []TypeOK` |
| | `OneOpenChainForApproval` | `OneOpenChain` and `InApprovalHasOpenChain` |
| | `OpenChainsProgress` | `GroupsSettled`, `PointerAtUndecided`, `LastOrderOutstanding` |
| | `TerminalContractsStay` | `TerminalStays` |
| | `ApprovalsAreSignedOff` | `LastOrderSignedOff` |
| | `AssignmentsAreKept` | `AssignmentKept` |
| | `GroupsAlwaysSettled` | `GroupsSettled` |
| | `CommitsAreCalls` | every commit of `ApprovalLocks` is a call of the engine, up to the search for an escalation peer |
| | `CallsDoNotDeadlock` | `LockOrderKept` of the approvals |
| | `InterleavedCallsKeepTheEngine` | all of the above but the types, of `LocksSpec` |
| | `CommitsAreAtomic` | `EveryCommitIsAtomic`, if `EscalationsDistinct` |
| | `LocksImplementTheEngine` | `LocksSpec => Spec`, if `EscalationsDistinct` |
| `SignatureCeremony_proofs` | `CeremonyTypeCorrect` | `Spec => []TypeOK` |
| | `RefusalsAreFinal` | `RefusalIsFinal` |
| | `AwaitingContractsHaveSigners` | `AwaitingHasSigner` |
| | `AnswersAreKept` | `AnswersStay` |
| | `HaltsOnlyExhausted` | `HaltsWhenExhausted` |
| | `ExecutedAreCovered` | `ExecutedIsCovered` |
| | `SigningIsAtomic` | `EveryCommitIsAtomic` of `SignatureLocks` |
| | `SweepsHaltExhausted` | `ExhaustedIsHalted` |
| | `AnswersDoNotDeadlock` | `LockOrderKept` of the ceremony |
| | `SigningKeepsTheCeremony` | `RefusalIsFinal`, `ExecutedIsCovered`, `AnswersStay` of `LocksSpec` |
| `ContractEngines_proofs` | `EnginesKeepOneOpenChain` | `OneOpenChain` of the composition |
| | `ApprovedContractsHaveChain` | `ApprovedByChain` |
| | `EnginesKeepProgress` | `GroupsSettled`, `PointerAtUndecided`, `LastOrderOutstanding` of the composition |
| | `EnginesSignOff` | `LastOrderSignedOff` of the composition |
| | `EnginesImplementLife` | `EnginesSpec => Lifecycle` |
| `AdvisoryDrafts_proofs` | `TypeCorrect` | `Spec => []TypeOK` |
| | `MailIsApproved` | `MailedIsApproved` |
| | `SentMeansAccepted` | `SentWasAccepted` |
| `MigrationBatches_proofs` | `RowsCorrect` | the types of all but the totals and tallies; a run at work has its batch and file |
| | `PurgesAreComplete` | `PurgeIsComplete` |
| | `RollbacksHold` | `RollbackHolds` |
| | `OneImportIsLive` | `OneLiveImport` |
| | `TotalsAlwaysAgree` | `TotalsAgree` |
| `ReportRuns_proofs` | `TypeCorrect` | `Spec => []TypeOK` |
| | `OutputAlwaysExists` | `OutputExists` |
| | `AnswersHold` | `AnswerHolds` |
| | `ClaimsAreHeld` | `ClaimIsHeld` |
| `DocumentPipeline_proofs` | `TypeCorrect` | `Spec => []TypeOK` |
| | `ExtractingAlwaysHeld` | `ExtractingIsHeld` |
| | `ClausesAlwaysHaveText` | `ClausesHaveText` |
| `RiskCases_proofs` | `TypeCorrect` | `Spec => []TypeOK` |
| | `CaseAlwaysHasRole` | `CaseHasRole` |
| | `ClosedAlwaysHasOutcome` | `ClosedHasOutcome` |
| | `ClosedOnlyLeftByPromotion` | `ClosedIsLeftByPromotion` |

*Approvals.* `OneOpenChain` and `InApprovalHasOpenChain` are inductive only
together: a late verdict moves the contract out of `in_approval`, and routing
must find no open chain. The lemma `DecideOpens` says which chains a decision
leaves open, `DecideVerdict` what it does to the contract. For `OpenChainsProgress`
the two readable properties are not inductive: an approval that carries an
any-of group skips its optional peers, and whether the order is then settled
depends on what happened to the others. `GroupsSettled` is what carries them: a
required step of an open chain is pending, approved, or skipped beside an
approved one, and once one is decided no optional peer waits. The proof has one
lemma per branch of a decision (`ProgressRejectOptional`, `ProgressApproveWait`,
`ProgressApproveAdvance`, then `ProgressDecide`), one for escalation and one for
routing; `ProgressFrame` covers the chains an action leaves alone. From them
follows `LastOrderSignedOff`: the deciding step is of the last order, for
`LastOrderOutstanding` keeps a required step of it pending and `ApproveFinal` wants
none later, and `GroupsSettled` tells what the others of the order came to
(`FinalSignsOff`). `AssignmentKept` is inductive by itself, one row at a time
(`KeptNext`).

*Signatures.* `IInv` adds `Invited` to the three invariants: who is invited is on
the roster, on a step with a required party. It is needed because an exhausted
step is found among invitations, while the invariants speak of parties, and
because sending must not meet a refusal (`SendFresh`). `RefusalIsFinal` is an
equivalence, so each action is shown neither to create a refusal without the
rejection nor the reverse. `AnswersAreKept` and `HaltsOnlyExhausted` are action
properties shown from `IInv`. `ExecutedIsCovered` compares cardinalities, for
which the parties are assumed to be finitely many (`FiniteAssumption`): the
signature that executes covers the last step (`SignCovers`), and afterwards the
roster stands and signatures only grow in number (`CoverKept`).

*Composition.* `Engines` is the conjunction of the types, `OneOpenChain`,
`InApprovalHasOpenChain`, `SentAfterApproval` (nobody is invited before the
approval) and `ApprovedByChain`. Each step of the ceremony either is a step the
approval module knows (a cancellation by the user, a deletion) or a
`CeremonyMove`, which touches only contracts that are approved or out for
signature (`CeremonyStep`); those keep the invariants of the approval engine
since its guards speak of `in_approval`. For the refinement, each action of
either engine is shown to be an action of `ContractLifecycle` under the mapping,
or a stutter; the invariant tells which, as a verdict may come from an old chain
while the newer one stays open.

*Jobs.* The invariants are inductive over processes: what a job has read or
rendered is tied to the row it will write. For drafts, `MailedIsApproved` needs
that a draft in dispatch is approved whatever a call that reads before it
writes does; for report runs, that an execution in the record stage has its
output in the bucket, and that a claimed run is marked; for risk cases, that
every row a call may write satisfies `Accepts` or leaves the case alone;
for documents, that the version is in the hands of a sweep that is past the
fetch, as only those end with a write of its status (`ExtractingIsAtWork`).

*Imports.* The properties speak of a batch that one run took (`Alone`, a
cardinality: runs are assumed to be finitely many, `SerialAssumption`); the proofs compare runs instead (`Sole`, lemma
`AloneIsSole`). `RollbackHolds` rests on `EndsWithRun`: a batch that one run
took has an outcome only when that run is done with its files (`Over`), so that
only an error of its last statement writes to the batch when it is rolled back. `OneLiveImport` needs three facts: the index keeps one
active record of a file over all batches (`Unique`); before the link a run has
no live contract of the file it is at or has still to do (`Untagged`, without
any premise on the runs); and, while no batch was taken twice, a live contract
has a record of its run's batch that is active or has failed (`Tagged`), since a run that stages a
file has put its record through the index (`Fresh`) and no other run touches it.
The steps on a file share one lemma on what they do (`FileEffects`), the others
leave live contracts alone (`Quiet`). `TotalsAgree` needs the books of a run at
work (`Books`): its tally is the count of the batch's records by status, since a
file that is still to be done, or being done, has a record of a status that no
callback counts (`AtWork`), and every callback comes with the one write that
moves the record out of those (`FileTally`). Between two files the batch's
totals are the tally, so the end of the run, which alone completes a batch
(`OnlyFinishCompletes`), finds them equal. Counts need finitely many files
(`FileAssumption`).

*Transactions of approvals.* `AInv` ties what a session has read to the rows it
holds. `Exclusive`: a row that is held alone is held by one session. `Shape`:
the locks a session holds at each point of its call, among them the audit lock
of a claim. `Checked`: the step it read
is still as it read it and still passes the checks, and the peers it will skip
are those that an atomic decision would skip. `Rooted`: an id without a chain
has no steps. The four are inductive together only: `Checked` survives the
commits of others because they write only rows they hold (`Undisturbed`, one
lemma for each kind of call), and holding excludes (`Exclusive`, which needs
`Shape`). The peers of a decision are found by a snapshot and locked one by one;
they stay as found since the decision holds the audit lock by then, without
which nobody commits. The search of an escalation for its peer has no such lock:
it is made before the audit lock is taken, for a row that does not exist yet,
and nothing keeps others from inserting it. So the proof is made for `LateNext`,
which is `Next` with escalations that insert the peer whatever was inserted
since: `CommitsAreCalls` says that every commit is a step of it, for every rule
set. The lemmas behind the theorems of the atomic engine are proved of
`LateNext` in the first place (`NextIsLate`), which gives
`InterleavedCallsKeepTheEngine` without a condition.

`EInv` says when the search is never out of date: the pending escalations of one
order go to different roles (`Distinct`, which the rule sets have by
`EscalationsDistinct` and which escalations keep, since a peer escalates no
further), hence an escalation that found no peer would still find none
(`StillAlone`). `CommitsAreAtomic` and the refinement `LocksImplementTheEngine`
follow. The condition cannot be dropped: with two rules of one order that
escalate to one role TLC finds two sweeps that insert the peer twice. It is true
of the seeded rules, and of both rule sets of `locks_any_of`.

`CallsDoNotDeadlock`: in a circle without a call that wrote early and without a
routing that found a chain, nobody who waits holds the audit lock, and each waits
for a row that comes later in the order step, chain, contract, audit than all it
holds, or is at its search for a peer; then all are (`NoCircle`).

*Transactions of the ceremony.* `LInv` is the same in a table: a session holds
the first `held` locks of `Locks(call)` (`Shape`), no two sessions hold locks
that exclude each other (`Exclusive`), and what a call found under its locks
still holds (`Checked`), which for a sweep is that its batch is due and that the
contracts it will halt are those whose steps its batch exhausts. The last one
is not under a lock when it is counted, but only a holder of the audit lock can
change it. Every commit is then an operation of the ceremony
(`StepIsAtomic`), for every number of sessions and replicas of the cron, and
`ExhaustedIsHalted` and the other invariants carry over. `AnswersDoNotDeadlock`
gives each kind of row its rank in the order in which the calls lock them
(`Rank`, `NoCycle`). TLC has checked `LInv` on the instance of `signing`. The
premise that each contract has a required party
(`SentAssumption`) is what `fn_signature_send_for_signature` checks.

### Only model-checked

- `EveryCallEnds`, `DueSettles`, `BatchEnds`, `MailSettles`, `RunsEnd`,
  `VersionsSettle`, `CompleteIsTakenUp`, `RottingIsTold`: liveness under
  fairness is beyond the prover, as is `ENABLED`.
- `Refuse` of `SignatureLocks` is enabled where `ENABLED Write` is not; the
  proofs use what it does and never when it is enabled.
- `RollbackIsCancellation` is violated (section 4).

## 6. Plan

Modelled so far, in the order of their weight: approvals, signatures, their
transactions and their composition; imports; report runs; drafts and mail;
documents; risk cases. What would come next:

1. *Escalation sweep*: its scan with a limit over rows that never leave it.
2. *Contract versions*: numbering and the walk over parents under concurrency.
3. *Accounts*, *rate limits* (gate and commit), *work orders*, *redline import*.
4. *Rule evaluator* as a recursive function with a reference definition.

Runs stay few, one for each question: a new module takes its run from the
properties that another one subsumes.

## 7. Not modelled, and why

HTTP validation, permissions and row-level security (who may call a function is
a set of users here), rendering, export, storage and AI calls (I/O without state
of their own), recomputation of scores and margins, demo data. Signature images
and geometry, notes, event rows and the fan-out of notifications are data that no
property tells apart. Text extraction, the recognition of fields and parties and
the evaluation of rules are computations whose results are inputs of the models.
Accounts, contract versions, the audit chain's hashes, obligations, work orders,
redlines and rate limits are small machines under one lock each and come after
the systems above; they are marked `not_modelled` in `PROJECT.json`.
