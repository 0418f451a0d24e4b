# Cathedral in TLA+

A TLA+ model of the stateful parts of Cathedral, the confidential-compute
scoring subnet in `src/cathedral/`. The modules are translated from the code;
TLC checks them on small instances, and TLAPS proves almost all of their safety
properties for every value of their constants.

- [The system](#the-system)
- [How the code is modelled](#how-the-code-is-modelled)
- [Modules](#modules)
- [Runs](#runs)
- [Proofs](#proofs)
- [Disagreements between the code and its documentation](#disagreements-between-the-code-and-its-documentation)
- [What is not modelled](#what-is-not-modelled)

## The system

A validator pays workers for verified work on attested machines. Its parts keep
their state in SQLite files and small signed or authenticated documents, and
several processes share them: the epoch runtime, standalone probers, the
enrollment service, publishers, exporters, auditors, timers and the operator's
commands.

| Part | Code | State | Operations that change it |
| --- | --- | --- | --- |
| Epoch and score ledger | `ledger.py` | epochs, challenges, attestations, lifecycle snapshots, receipts, customer jobs, frozen reports, score-class exports | begin, issue, lease, resolve, attest, snapshot, complete, abort, abandon, publish, export, enqueue, claim, reclaim, prune |
| Report poster | `poster.py` | none (the downstream's) | post a frozen report; the answer may be lost |
| Worker registry | `enroll.py` (`RegistryStore`), `lifecycle.py` | enrollments, nonces, lifecycle rows with (generation, revision), verdicts and chip bindings, the lifecycle clock | enroll, re-enroll, record a verdict or a failure, revoke, retire, remove, expire, apply a policy |
| Prober | `prober.py` | a probe in flight | list due workers, collect, verify, commit |
| Confidential runtime | `runtime.py` | an epoch in flight | attest targets, admit unique chips, run lanes, complete, publish |
| Enrollment service and admission policy | `enroll.py` (`RegistryApp`), `admission_policy.py` | attempt windows, policy marks in memory and on disk, the mark over registration snapshots | load a policy, recognise a retransmission, rate-limit, resolve the owner, enroll |
| Key release | `key_release.py` | assignments, grants, clock marks | issue a grant, redeem it, dispatch an execution |
| Execution adapter | `workload.py` | bindings with claims and results, a durable clock | claim, call the provider, store or release |
| GPU identity registry | `gpu.py` | claims, generation, two-slot anchor file | begin, commit and roll back a claim, reserve for a canary, recover, release |
| Provider contract | `provider_contract.py`, `provider_transcript.py` | a Worker's attempts, permits, reservation, settlement | one validated record after another |
| Policy registry | `policy_registry.py`, `receipt.py`, `scripts/cathedral_measurement_approval.py` | installed release, history, journal, writer lock, accepted state, receipts | review, renew, install, accept, issue a receipt, verify it |
| Public evidence | `score_class.py`, `evidence.py`, `provenance.py`, `replay.py`, part of `cli.py` | reports, blobs, per-epoch copies, index with its high-water mark, packages, the auditors' fences | publish, export, recover the index, verify, reserve fences |
| Coldkey allowlist, re-attestor | `coldkey_allowlist.py`, `lifecycle.py` | in memory only | accept a document, share a flight |
| Verification, collectors, worker service, CLI, scripts | several | none | I/O, parsing, cryptography |

They meet in a few places, and that is where the code is hard to test:

- **A refresh of a worker** reads a due list or an enrollment and a lifecycle
  token, talks to the worker with no lock held, and commits against the token it
  read. Probers, runtimes, the worker itself and the operator race it.
- **An enrollment** reads a policy file, a rate limit and a registration snapshot
  one after the other before it commits; the files are rotated in place, and the
  worker repeats requests whose answer was lost.
- **An epoch** opens a row in the ledger, leases customer jobs into it, and is
  completed, aborted or abandoned by whoever comes first. Publication posts
  outside the ledger's lock.
- **A grant** is bound to one attestation and is validated three times while it is
  redeemed, against a registry and policies that move on in between.
- **An execution** is claimed in a shared table and runs with no transaction open;
  the claim can run out under a slow provider.
- **A GPU admission** is a two-phase commit over two databases, one of which has a
  generation anchor in a separate file.
- **An installation** of a policy release writes a journal record, an archive copy,
  the live file and another record, under a lock that dies with its holder, while
  runtimes accept whatever is live.
- **An export** of evidence writes blobs, a copy, an index and a high-water mark;
  auditors read them at any point and remember what they saw.

The behaviours modelled throughout are these: interleavings of all callers at the
granularity of a transaction or a file write; processes that stop at any step;
answers that are lost and requests that are repeated; files that are damaged, lost
or put back in an old version; wall clocks that are set back; leases, claims,
evidence and permits that run out while they are in use.

`PROJECT.json` lists every component with its status and every hazard at the line
where it bites.

## How the code is modelled

- **One transaction, one action.** A store method runs in one `BEGIN IMMEDIATE`
  transaction and is rolled back on an exception. It is one action: its guard is
  the conjunction of the method's checks, and a refused call changes nothing. A
  method that opens several transactions, samples a clock in between, writes
  several files or calls another process without a lock is one action per such
  stretch.
- **Callers are free.** Unless a call sequence is part of the code (a probe, an
  enrollment, a redemption, an execution, an admission, an installation, an
  export), any caller may call any method at any time.
- **Digests, tokens and documents are model values**, or the fact they stand for:
  evidence is the endpoint or the event that brought it, a ciphertext the unwrap
  that made it, a policy its release, a claim's token the write that inserted it, a
  manifest its epoch and the arguments of its export.
- **Clocks are ticks.** `Tick` advances the wall clock; where the code defends
  against it, `SetBack` moves it backwards.
- **Every bound has a name** (`MaxEpochs`, `MaxTime`, `MaxRevision`, ...) and sits
  in a guard. A bound cuts a behaviour short and adds none.
- **Definitions marked as faulty variants** are deliberately wrong versions of an
  operation. No specification uses them; each is there to show that a property
  fails when the code is changed that way.

## Modules

| Module | Models | Code |
| --- | --- | --- |
| `Ledger` | the ledger, with the poster and the downstream | `ledger.py`, part of `poster.py`, `receipt.py`, `score_class.py`, `economics.py` |
| `WorkerRegistry` | the registry store, and a refresh by a prober or a runtime | `RegistryStore` in `enroll.py`, `lifecycle.py`, parts of `prober.py` and `runtime.py` |
| `EnrollmentService` | the enrollment service over `WorkerRegistry` | `RegistryApp` in `enroll.py`, `admission_policy.py` |
| `KeyRelease` | grants and their redemption | `key_release.py` |
| `Execution` | dispatch and the external execution adapter | parts of `key_release.py` and `workload.py` |
| `GpuIdentity` | the GPU identity registry, and an admission with its GPUs | `GpuIdentityRegistry` in `gpu.py`, parts of `prober.py` and `runtime.py` |
| `CustomerBill` | what a customer is promised about one Worker | abstract |
| `ProviderContract` | one Worker's records, which implement `CustomerBill` | `provider_contract.py`, `provider_transcript.py` |
| `PolicyRegistry` | installation, acceptance and receipts | `policy_registry.py`, `receipt.py`, `cathedral_measurement_approval.py` |
| `EvidenceLane` | reports, evidence exports and audits | `score_class.py`, `evidence.py`, `provenance.py`, `replay.py`, parts of `cli.py` |
| `LedgerProofs`, `RegistryProofs`, `KeyReleaseProofs`, `ExecutionProofs`, `GpuProofs`, `ProviderProofs`, `PolicyProofs`, `EvidenceProofs` | theorems; `RegistryProofs` is about `WorkerRegistry` and `EnrollmentService` | |
| `MC*` | constants, symmetries and constraints for TLC | |
| `MCLedgerScenes`, `MCRegistryScenes` | several scenes in one run, one of them chosen at the start | |

### Ledger

Variables are the tables: `epochs`, `challenges` (canonical and customer),
`attestations`, `lifecycles`, `receipts`, `reports`, `jobs`, `exports`, and
`posts` for the publishers inside `post_and_mark_published`. `sent` and
`accepted` are what the downstream has seen and taken.

`BeginEpoch`, `IssueChallenge`, `ResolveCanonical`, `ResolveCustomer`,
`AddAttestation`, `AddLifecycleSnapshot`, `CompleteEpoch`, `AbortEpoch`,
`AbandonCompletedEpoch`, `EnqueueCustomerJob`, `ClaimCustomerJob`,
`PruneCustomerJobs` and `RecordScoreClassExport` are the methods of the same
names. A publication is `PostReport`, `ReceiveAcknowledgement` and
`MarkPublished`, with `DownstreamAccepts` on the other side; `PostFails` ends it
when the answer is a refusal or is lost, before or after an acceptance.

What it must guarantee:

- `EpochsInOrder`: epochs finish in the order of their source epochs, and an
  aborted one is retried before the next begins;
- `PublishedWasAccepted`: nothing is marked published that the downstream did not
  accept;
- `FrozenReportReproducible`: the frozen report is what the rows give, at any
  later time;
- `TablesAgree`: a receipt agrees with the challenge and the lifecycle snapshot,
  whichever is written first, and the score-class exports form one chain;
- `LeaseFence`, `JobCreditedOnce`: tables `customer_jobs` and `challenges` stay in
  step and a job is paid for once;
- `QueueBounded`: the active jobs stay within the quotas and the results that may
  still arrive fit in the storage limit, although only `enqueue_customer_job`
  counts them;
- `SettledForever`: outcomes do not change once they are settled.

### WorkerRegistry

`lifecycle[h]` is the lifecycle row with its (generation, revision) token,
`attestations[h]` the verdict with its chip, `last_seen` the registry's durable
clock, `wall` the wall clock, `allowed` the measurements the policy accepts, and
`refresh[c]` what a client holds between two steps of a refresh. `removing` holds
the workers between the two transactions of a removal.

A prober goes `ListDue`, `ProbeDue`, `ProbeEndpoint`, `Collect`,
`RequireCurrentPolicy`, then `RecordVerdict` or `RecordProbeFailure`. A runtime
goes `ListEnrollment`, `ReadToken`, `Collect`, `AdmitUniqueChip`, then
`RecordVerdict`, `RecordRefreshFailure` or `RevokeIdentityConflict`. Workers
enroll and move; the operator retires, removes and re-enrolls; the policy drops a
measurement (`DropMeasurement`, `ApplyLifecyclePolicy`). The constant `Operator`
says which of its commands the operator uses.

What it must guarantee:

- `OneChipOneWorker`: one live binding per chip;
- `EvidenceFromCurrentEndpoint`: the evidence of an attested worker came from the
  endpoint it is enrolled at;
- `RetriesLeft`: failures of independent clients add up;
- `CapsHold`: the caps of the admission policy are never exceeded;
- `RemovedOffBoard`: a removed worker stays off the board;
- `TokenAdvances`: the compare-and-set token never repeats;
- `NoSelfRecovery`: no late result restores a stopped worker;
- `Settles`: every pending worker gets its verdict.

### EnrollmentService

Extends `WorkerRegistry` with the processes of the service. `policy` and
`snapshot` are the two files operators rotate, `state_file[s]` and `highest[s]`
the mark of the policy provider on disk and in memory, `high_water` the mark over
registration snapshots, `completed` the requests whose enrollment was stored,
`attempts` the rate limit's windows, `calls[s]` the request a process has in hand.
`used` and `overcharged` only record what happened.

A request goes `Receive` (which loads the policy; `PersistFails` when the mark
cannot be written), `IsCompletedEnrollment`, `CheckAndRecordHotkeyAttempt`,
`IsRegistered`, `ResolveColdkey` and `Admit`, which is the registry's `Enroll`.
`Reject` ends it at any check whose inputs are left out. `Restart`,
`DamageStateFile`, `RotatePolicy` and `RotateSnapshot` are the environment;
`Reconcile` is the operator's removal of workers that are no longer registered,
whose two transactions are the registry's `Remove` and `ClearVerdict`.

What it must guarantee: `AdmittedByNewest` (an admission follows the newest policy
the process ever decided by, and the newest snapshot anyone relied on) and
`LostAnswersCheap` (a completed request for the worker's present endpoint, repeated
at will, is charged to its hotkey's budget fewer times than there are processes). Of
a completed request for an endpoint the worker has left, the docstring of
`is_completed_enrollment` asks that it be charged and the code does not: nothing is
claimed there.

### KeyRelease

`grants` is the durable grant store, `broker` the broker's idempotency cache, which
a restart of a non-durable broker forgets, and `unwraps` numbers the ciphertexts
made. `calls[c]` is one `issue_grant` or `redeem` with its program counter.
`redeem` validates before it records `redeeming`, again after the broker answered
and again before it returns; each validation samples the clock, reads the
lifecycle and the record, and compares policies, in separate steps. `released` is
what `redeem` returned last.

What it must guarantee: `OneCiphertext`, `CurrentAtRelease` and
`RecordedBeforeUnwrap`, each a sentence of `docs/KEY_RELEASE.md`: retries "return
the same stored ciphertext", "revocation or expiry stops a new release or
ciphertext reissue", and the service "durably records `redeeming` before calling
the broker".

### Execution

`bindings` is the shared table (request, claim, result), `high_water` its durable
clock, `adapter_seen` the in-memory mark a restart loses, `locks` the lock of a
process's adapter. `Dispatch` issues the permit, `VerifyAuthorization` checks it
against the clock, `Claim` binds or takes over, `Answer` or `Fail` is the provider,
`StoreResult` or `ReleaseClaim` ends the call.

What it must guarantee: `OneResult` (every caller gets the stored result, late
answers included), `ClaimEndsWithItsCall` (a claim with time left is not taken over
or freed by another) and `ExpiredStaysExpired` (`docs/WORKLOAD_ADMISSION.md`: "A
process restart therefore cannot make an already observed earlier time acceptable
after clock rollback").

### GpuIdentity

`claims` is the claims table, `generation` the database's generation, `slots` the
anchor file, and `writer` the process that has committed in SQLite and holds the
anchor's lock. `calls[p]` is an admission: `Probe`, `BeginClaim` (or
`ClaimConflict`, `ClaimRefused`), `RecordVerdict` or `RecordRaises`, then
`CommitClaim` or `RollbackClaim`; or a canary's reservation, `Reserve` and
`RollbackClaim`. `Crash` stops a process anywhere, leaving the slot it was writing
unwritten, torn or written; `AppendFails` is the write error that the process
survives. The worker registry appears as `workers`: whether a worker is retired,
and the GPUs of the verdict in force. Its token is reduced to whether the
lifecycle moved since the probe began. `TokenAdvances`, proved of
`WorkerRegistry`, is what makes that enough.

What it must guarantee:

- `AnchorRecoverable`: no sequence of stops locks the registry out;
- `OneGpuOneHolder`: a verdict in force owns its GPUs, and a canary's GPUs are its
  own for the epoch, unless a recovery event lists its reservation;
- `CommittedForever`: only a release after retirement removes a committed claim.

`Recover` is the operator's command: it needs a pending claim and nothing else, so it
may run beside an admission or an epoch that is still under way, which then goes on
with a token whose claim was settled or released. `recovered` are the tokens its
events list. A release follows the retirement, as in the rotation runbook of
`docs/GPU_ATTESTATION.md`; the command itself does not check that.

### CustomerBill and ProviderContract

`CustomerBill` is what a customer relies on, in three variables: `funds`,
`charged` and `delivered`. A cap is reserved once; it is charged at most once, up
to the cap and only for a Worker that delivered, or it is released. It may be held
first, but only for a Worker that did not deliver. The bill allows a delivery for
free, as `docs/PROVIDER_CONTRACT.md` does; the contract's records never use that.

`ProviderContract` is one Worker as the validators of the contract see it: a
transcript of records, each accepted only if it fits what came before. Its state
is the submission, the reservation, the attempts with their permits, results and
cleanup observations, the guests that are really present (`present`, and
`unassigned` for the recorded outcome that no attempt was or will be assigned), and
the settlements. `Submit`,
`Reserve`, `Assign`, `Renew`, `Advance`, `ReceiveResult`, `EnterCleanup`,
`Teardown`, `ObserveCleanup`, `Finish`, `GiveUp`, `Charge`, `Hold`, `Release`,
`Resolve` and `Redeliver` are the kinds of record. A behaviour is a prefix of a
valid transcript. `Bill` is the refinement mapping.

What it must guarantee: `BillKept` (it implements `CustomerBill`), `ChargeBacked`
and `GuestsAccounted`.

### PolicyRegistry

`live`, `archive`, `torn`, `journal` and `lock` are the files of the publisher
(`torn` the archive files that were cut short); `pc`,
`current`, `candidate` and `reviewed` what a writer (the operator, or the renewal
timer) has read and prepared; `accepted` the state file of the runtimes on one
host, `loaded` what a runtime has read, `bound` the releases epochs were pinned to,
`receipts` what was issued under them.

`Approve`, `Rollover` and `Sign` prepare a candidate; `StartInstall`,
`StartRepublish` and `Renew` take the lock and prove the successor; then
`WritePrepared`, `Archive`, `Replace` and `WriteCommitted`. `Fail` stops a writer at
any of these, in the middle of the archive file too, and the lock goes with it. A runtime goes `Load`, `Accept`, `Issue`,
`End`; another may accept in between.

What it must guarantee: `OneDigestPerRelease`, `PinnedResolvable` (a pinned release
can always be found), `LiveAcceptable` (what is installed can be accepted),
`ReceiptsStand` (receipts verify until their key is withdrawn), `AcceptedAdvances`
and `JournalCovers`.

### EvidenceLane

`facts[e]` is what the ledger knows of an epoch (units, receipts, candidates,
attested workers), `reports[e]` its signed report, `blobs`, `copies`, `index`,
`highwater` and `lock` the evidence directory, `exporter[x]` an export under way,
`envelopes` and `packages` the raw evidence retained and disclosed, `audit[v]` an
audit between verification and reservation, `fences` the auditors' shared state
file. `top` and `proven` only record what was shown.

`Publish`, `ExportScoreClass` and `ExportControlled` make the report and the raw
packages; an export goes `StartExport`, `PutManifest`, `PutEpochCopy`,
`WriteIndex`, `WriteHighwater`; `Refuse` and `Crash` end it. `CorruptIndex`,
`LoseIndex`, `LoseEnvelope` and `Expire` are the environment. An audit is `Verify`,
then `Reserve` or `Fail`.

What it must guarantee: `RowsResolve`, `ExportVerifies`, `VectorReproduced` (the
recomputed shares agree with the vector exactly when the report could carry all
units; units its decimal format cannot carry are reported as zero and show as a
discrepancy), `FullMeansReplayed`, `LatestAdvances` and `FencesAdvance`.

## Runs

Each line is one question. State counts are of the instance in the `.cfg` file.

| Run | Instance | States | Shows |
| --- | --- | --- | --- |
| `ledger_epochs` | scene 1: 3 epoch rows, 3 source epochs, 1 publisher, no work; scene 2: 1 epoch, 2 workers, 1 job, 2 lifecycle events | 495,338 | `EpochsInOrder`, `PublishedWasAccepted`, `TablesAgree`, `FrozenReportReproducible`, `SettledForever` |
| `ledger_jobs` | 3 jobs, 1 worker, 2 epochs, 2 attempts, leases of 1 tick, 2 active jobs | 537,475 | `LeaseFence`, `JobCreditedOnce`, `QueueBounded` |
| `ledger_abandon` | 1 source epoch, 1 publisher, no work | violation | an abandoned epoch's report may have been accepted |
| `registry` | five scenes, below | 1,215,728 | `OneChipOneWorker`, `EvidenceFromCurrentEndpoint`, `RemovedOffBoard`, `CapsHold`, `AdmittedByNewest`, `LostAnswersCheap`, `TokenAdvances`, `NoSelfRecovery` |
| `registry_live` | 2 workers, 1 prober, fair | 2,903 | `Settles` |
| `registry_listed_before` | 1 worker, 2 endpoints, 1 runtime | violation | the runtime commits an old endpoint's evidence |
| `key_release` | 2 processes, 1 grant, 2 events, 2 unwraps | 1,007,304 | `OneCiphertext`, `CurrentAtRelease`, `RecordedBeforeUnwrap` |
| `execution` | 3 threads in 2 processes, 1 execution, 2 requests, 2 results | 506,304 | `OneResult`, `ClaimEndsWithItsCall`, `ExpiredStaysExpired` |
| `gpu_identity` | 2 workers, 2 GPUs, 2 processes, 5 writes | 718,255 | `AnchorRecoverable`, `OneGpuOneHolder`, `CommittedForever` |
| `provider` | 2 requests, 2 nonces, cap 2, 2 attempts, 2 permits each, 3 points in time | 350,574 | `BillKept`, `ChargeBacked`, `GuestsAccounted` |
| `policy` | 1 operator, 1 timer, 2 runtimes, 3 releases, 1 failure, 1 receipt | 667,902 | `OneDigestPerRelease`, `PinnedResolvable`, `LiveAcceptable`, `ReceiptsStand`, `AcceptedAdvances` |
| `evidence` | 2 exporters, 2 auditors, 3 epochs, 1 crash, 1 damage | 349,282 | `RowsResolve`, `ExportVerifies`, `VectorReproduced`, `FullMeansReplayed`, `LatestAdvances`, `FencesAdvance` |

The `registry` scenes are: two workers of one host under a prober and a runtime
with time passing; one worker that moves, is removed and re-enrolled under two
probers while the policy drops a measurement; three workers of two owners under
caps of 1 and 2; one enrollment service that restarts while its files are rotated
back and forth; two services that share the registry while a worker moves, repeats
its requests and is removed. A scene takes steps of `Next` and no others, and is
fixed for the whole behaviour: it saves the product of questions that do not
interact. `policy` and `evidence` restrict `Next` in the same way.

### Why the bounds are enough

- Ledger: an order violation needs two epochs and an attempt in between that is
  aborted or abandoned: three rows. Three jobs with room for two active ones make
  the storage and the active limit bind, and two attempts over two epochs allow a
  late result after a reclaim and after an abort. The epoch, scoring and job
  questions touch different tables, so each instance gives room to its own.
- Registry: two clients are the fewest that race; two workers on one host the
  fewest that contend for a chip; revision 3 of a generation covers enroll, a
  failure and a verdict after it. Two generations are the fewest in which a stale
  token can be met again.
- Enrollment service: two policy versions and three snapshots, two of them at one
  block, give a rollback and an equivocation of each; one restart separates what is
  on disk from what is in memory; two processes are the fewest between which an
  answer can be lost and the request repeated.
- Key release: two processes, a revocation and a re-attestation (two events), one
  policy change, one tick with a lifetime of one tick for evidence and of two for
  grants. Grants of different assignments share no row.
- Execution: three threads are two that share a lock and one that does not. A claim
  and a permit each last one tick.
- GPU identity: five writes allow a claim, its commit, a release, another worker's
  claim and commit; or a reservation, its recovery, another's claim and commit, and
  what the first holder still does. Two slots repeat after two writes, so every slot
  is overwritten.
- Provider contract: two attempts are a failure and a retry, two nonces allow a
  result of the other attempt's guest, two permits a renewal, and three points in
  time a permit, a reservation and a deadline that run out before, at and after
  one another.
- Policy registry: three releases let a runtime skip one; one failure can hit each
  of the five steps of an installation; two writers are the fewest that race.
- Evidence: three epochs let an index carry a row, drop one and be rebuilt; two
  exporters have keys of their own; two auditors share the fences.

What the bounds cut off is covered by the proofs, which are for all values of the
constants.

Symmetry is used for sets of model values that no definition and no scene
distinguishes, and never with a liveness property: jobs and hotkeys of the ledger,
probers of the registry, callers of key release, the threads of one process,
hotkeys, GPUs and processes of the GPU registry, requests and nonces of the
provider contract, the runtimes of the policy registry, and the auditors. Deadlock
is not checked: the bounds end every behaviour, and the program may idle.

### Fairness

`Settles` is the one liveness property, under `ProberSpec`. The prober's main loop
runs pass after pass and takes up every due worker in each, so a probe that is due
again and again is begun. That is the case without `--max-probes` and with a share
for both classes of workers: `select_probe_targets` then takes the most overdue
first. With a budget and a share of 0.0 or 1.0 one class has priority and the other
may wait for ever, which the assumption leaves out. Each of a probe's steps is a call with a timeout and ends with
a verdict or a failure. Other clients and the worker may move the token in between,
which disables a commit for a while and enables it again in the next pass: hence
strong fairness of the steps of a probe, per worker (`ProbeFairness`). `GiveUp`,
the end of a probe that lost its race, is weakly fair. No fairness is assumed of
workers, operators, clocks or runtimes. A run without symmetry, without a clock and
with a retry delay of zero keeps it feasible.

## Proofs

The theorems hold for every value of the constants that satisfies the named
assumptions of the modules: bounds and lifetimes are natural numbers, functions
have their types, orders and thresholds are in range, and `None` is no value of
anything else (`BoundsAssumption`, `NoneAssumption` and `NoRowAssumption` of
`Ledger`; `RegistryAssumption`; `ServiceAssumption`; `KeyReleaseAssumption` and
`NoneAssumption` of `KeyRelease`; `ExecutionAssumption` and `NoRowAssumption` of
`Execution`; `GpuAssumption` and `NoClaimAssumption`; `ProviderAssumption`;
`PolicyAssumption`; `EvidenceAssumption`). Bounds like `MaxTime` are constants too,
so a theorem is about every bound. Sets of workers, jobs, callers, processes and so
on may be of any size; where a theorem counts workers or processes, those are
assumed finite.

| Theorem | States | Rests on |
| --- | --- | --- |
| `EpochsSettleInOrder` (with `EpochsFinalizeInOrder`, `AbortedEpochsAreRetried`) | `Spec => []EpochsInOrder` | `EpochInv` |
| `PublishedOnlyIfAccepted` | `Spec => []PublishedWasAccepted` | `EpochInv` |
| `LeasesMatchChallenges` | `Spec => []LeaseFence` | `LedgerInv` |
| `OneCreditPerJob` | `Spec => []JobCreditedOnce` | `LedgerInv` |
| `QueueStaysBounded` | `Spec => []QueueBounded` | `QueueInv` |
| `ReportsReproduce` | `Spec => []FrozenReportReproducible` | `TablesInv` |
| `TablesStayInStep` | `Spec => []TablesAgree` | `TablesInv` |
| `SettledStays` | `Spec => SettledForever` | `TablesInv` |
| `TypeCorrect`, `TypeOKHolds` (registry) | `Spec => []TypeInv`, `Spec => []TypeOK` | `TypeInv` |
| `ChipHeldOnce` | `Spec => []OneChipOneWorker` | `VerdictsSpaced` |
| `TokensNeverRepeat` | `Spec => TokenAdvances` | `NeverEnrolled` |
| `TokensStayCurrent` | `Spec => []TokensCurrent` | itself |
| `FailuresAddUp` | `Spec => []RetriesLeft` | itself |
| `StoppedStaysStopped` | `Spec => NoSelfRecovery` | `TypeInv` |
| `RemovedStaysOff` | `Spec => []RemovedOffBoard`, without `lifecycle retire` | itself |
| `ProbersReadTheEndpointLast` | `Spec => []EvidenceFromCurrentEndpoint`, without runtimes | `EvidenceInv` |
| `CapsStayHeld` | `Spec => []CapsHold`, for an operator who only removes | `CapsInv` |
| `AdmissionIsCurrent`, `RepeatsAreCheap` | `ServiceSpec => []AdmittedByNewest`, `ServiceSpec => []LostAnswersCheap` | `IInv` |
| `ServiceKeepsRegistry`, `RegistrySafeBehindService` | `ServiceSpec => Spec`, and what follows from it | `IInv` |
| `OneCiphertextPerGrant`, `ReleasesAreCurrent`, `UnwrapsAreOnRecord` | `Spec => []OneCiphertext`, `[]CurrentAtRelease`, `[]RecordedBeforeUnwrap` | `IInv` |
| `WellFormed`, `ResultsAgree`, `ExpiryIsFinal`, `ClaimsAreKept` | `Spec => []TypeOK`, `[]OneResult`, `[]ExpiredStaysExpired`, `ClaimEndsWithItsCall` | `IInv` |
| `NoLockout` | `Spec => []AnchorRecoverable` | `AnchorInv` |
| `WellFormed`, `HolderIsUnique`, `CommitsLast` | `Spec => []TypeOK`, `[]OneGpuOneHolder`, `CommittedForever` | `ClaimsInv` |
| `ChargesAreBacked`, `NoGuestForgotten` | `Spec => []ChargeBacked`, `[]GuestsAccounted` | `IInv`, `Endings` |
| `BillIsKept` | `Spec => BillKept`: `ProviderContract` implements `CustomerBill` | `IInv` |
| `PinnedStaysResolvable`, `ReleaseNumbersAreUnique`, `InstalledIsAcceptable`, `AcceptedOnlyAdvances` | `Spec => []PinnedResolvable`, `[]OneDigestPerRelease`, `[]LiveAcceptable`, `AcceptedAdvances` | `IInv` |
| `JournalIsComplete` | `Spec => []JournalCovers` | `Recorded` |
| `ReceiptsKeepVerifying` | `Spec => []ReceiptsStand` | `ReceiptsInv` |
| `EveryRowResolves`, `LatestOnlyAdvances`, `FencesOnlyAdvance` | `Spec => []RowsResolve`, `LatestAdvances`, `FencesAdvance` | `IInv`, `Audited` |
| `ExportsAlwaysVerify`, `BundlesReproduceTheVector` | `Spec => []ExportVerifies`, `[]VectorReproduced` | `Reported` |
| `FullAssuranceIsReplay` | `Spec => []FullMeansReplayed` | `Replayed` |
| `WellTyped` (evidence) | `Spec => []TypeOK` | `Shelved` |

Each proof module names Zenon for its leaves (`USE ZenonT(30)`): most are
first-order reasoning about sets, functions and records. The leaves with arithmetic
name the SMT solver (`SMTT(40)`). Where sets are counted, `LedgerProofs` and
`RegistryProofs` instantiate the library's theorems on finite sets as `FS` just
before they are needed, so that the earlier leaves are not tried with them in view;
`SameNotions` says that the instance counts as the modules do.

**Ledger.** Neither order property is inductive. Abandoning a complete epoch takes
it out of the finalized ones, and attempts aborted earlier become retryable again:
one has to know that they were attempts at the epoch that was just abandoned.
`EpochOrder` says so: the blocking epoch was begun last, it is beyond every other
finalized epoch, and without it all retryable attempts would be attempts at its
source epoch. `EpochMoves` reduces all actions to five moves of the epochs table,
and `EpochOrderKept` treats those. `PostsOK` carries an acknowledgement back to the
acceptance it reports. Jobs are treated one by one: `JobOK` ties the status of a
job to the statuses of all its attempts, and every action moves a challenge and its
job together (`ChallengeMove`, `JobMove`). `TablesInv` adds what the report rests
on: `FrozenOK` says that a frozen report is what the rows still give and that no
challenge of its epoch is open, and `ChallengeMove` that a challenge is issued only
in a running epoch and settled once. `ReceiptsOK` and `ExportsOK` are the agreement
of receipts and the export chain, row by row. The ledger's storage is a `SUM` over
rows; `ChargedBytes` counts it as the number of pairs of a row and a byte in it, so
that the library's facts about cardinality apply. `StepsFree` says that every step
but an enqueue leaves a row alone, changes the row of an active job without changing
its customer, or deletes it: no row comes to reserve more, and none becomes active.
`QueueInv` adds that the table is finite, which no assumption on `Jobs` is needed for.

**Registry.** `TypeInv` adds to `TypeOK` what a client holds in each phase of a
refresh: without it a commit could name no worker. The proof goes row by row
(`TransitionedOK`, `ReenrolledOK`, `RefreshFailedOK`, ...), then table by table.
`OneChipOneWorker` speaks of the registry's latest time and is not inductive,
because time moves: `VerdictsSpaced` says instead that two verdicts for one chip
are at least a lifetime apart, which no clock step can undo. `Advanced` is the
relation of `TokenAdvances` between a row and its successor, kept by each row
operation and closed under composition, since one transaction may make two
transitions. `TokensCurrent` is what the token is for: a client whose token still
matches holds a worker that is in the refresh set and unchanged since. On it rests
`EvidenceInv`: the endpoint a prober collects from is the one enrolled in the
generation of its token, because it reads the token first. `CapsInv` states the caps
over the set of workers that consume capacity, to which a step adds at most one, in
the transaction that counted them.

**Enrollment service.** `MarksOK` orders the three marks of a process: what it has
decided by, what it has in memory, what is on disk. `CallsOK` ties a request in
hand to the newest version. `Budget` counts the processes that still have a
completed request in hand: a completed request was charged together with the
processes that may yet charge it fewer times than there are processes. That the
service implements the registry step by step carries the registry's unconditional
theorems over to it.

**Key release.** `CallOK` describes what a call knows in each of its phases, and
`GrantOK` what a stored grant is: sealed to an event no newer than the worker's,
with an expiry within the lifetime of its evidence. The argument for
`CurrentAtRelease` is that events only go up. Between a validation's first read and
its release the worker may be revoked; then the worker's event is past the
grant's for good, and the lifecycle read that comes later in the same validation
refuses. `Onward` and `GrantMoves` state what one step may do to events and rows, so
that a call's facts survive the steps of all others.

**Execution.** `CallsOK` says what a call holds in each phase, `ReturnedOK` that what
was returned is of a bound execution. `ClockOK` is the reason for
`ExpiredStaysExpired`: the sample that found a permit expired is in the durable mark
before the refusal.

**GPU identity.** `AnchorInv`: the anchor is at the database's generation, or one
behind it with that older slot intact, so that a torn write costs only the other.
`ClaimsInv` keeps the tokens of calls apart and says of a verdict in force that no
call that may still take its claims back holds one of its GPUs. That is what a crash
between the two databases, or a recovery beside a running admission, could break: a
call whose token was recovered finds no claim with it any more. A reservation that
is not among the recovered ones still has its rows.

**Provider contract.** `IInv` is the order of attempts (one at a time, none after a
success), quotes that are the attempt's own because nonces differ, absence that is
final once proven, and a decision that comes after all attempts ended. `GuestsAccounted`
also needs `Endings`: an attempt ended because its guest was proven gone or because
the cleanup deadline passed. The refinement is shown step by step: each of the
records is a step of `CustomerBill` or leaves its three variables alone.

**Policy registry.** What a writer read stays installed while it holds the lock
(`LockHeld`, `Current`), so the successor it proved is still the successor when it is
installed, although the proof was against a copy (`Successor`). `Chain` is the
archive: one document per release, each acceptable after its predecessor. `Found`
covers what runtimes have loaded, accepted or bound. `ReceiptsInv` carries a key's
material from the release a receipt names to the one accepted now.

**Evidence.** `Remembered` is the point of the high-water mark: the last pointer
shown can be told from the index, from the mark where there is no index, or from the
epoch copies where the index is corrupt. `Reported` ties every report to the facts
it was made of (`Faithful`) and every artifact to the checks made when it was stored.
`Replayed` holds between an audit's verification and its reservation, when files may
be lost. `Shelved` adds the remaining types and that the holder of the lock is in its
transaction.

**Conditions that are part of a theorem.** Three registry theorems assume something
of the environment, and each assumption is needed:

- `ProbersReadTheEndpointLast` assumes there is no runtime. With one the property is
  false: run `registry_listed_before`.
- `RemovedStaysOff` assumes that the operator does not use `lifecycle retire`, which
  leaves the verdict row as it is.
- `CapsStayHeld` assumes that the operator neither re-enrolls nor retires:
  `operator_reenroll` enforces no caps, and `lifecycle retire` turns a failed worker,
  which takes no capacity, into a retiring one, which does. It also assumes finitely
  many workers.

**Only model-checked.**

- `Settles`, on `registry_live`: liveness under fairness.
- What a sum of work units comes to: `SumFunction` is recursive, and its value is an
  induction over data. The theorems about reports use only that equal rows give
  equal sums.
- `EvidenceFromCurrentEndpoint` beside a runtime where no worker moves, in the first
  scene of `registry`.
- `ServiceTypeOK` of `EnrollmentService` states the types the definitions are written
  for. The parts the theorems need are in `MarksOK` and `CallsOK`; that the attempts
  of a hotkey stay a sequence of times is a fact about `SelectSeq`, which is
  recursive. The other modules' type invariants are proved or are part of an
  inductive invariant.

## Disagreements between the code and its documentation

Two are runs that TLC refutes:

- `ledger_abandon`. `abandon_completed_epoch` says an abandoned epoch is
  "permanently unpayable" (`ledger.py:1338-1341`). `post_and_mark_published` posts
  outside the lock (`ledger.py:2136`), so an operator may abandon the epoch after
  the downstream accepted its report and before `mark_published`.
- `registry_listed_before`. After an endpoint change "a fresh probe is required"
  (`enroll.py:2621-2622`). The runtime lists endpoints at `runtime.py:691` and
  reads the lifecycle token at `runtime.py:1070`; a worker that moves in between is
  attested with the old endpoint's evidence. Probers read the token first, and for
  them the property is proved.

More were met while modelling. The modules follow the code:

- A rejected GPU admission keeps its claim. `docs/GPU_ATTESTATION.md:92-93`: "A
  rejected or raced admission rolls its pending claim back". When the CPU chip has
  another live owner, `record_verdict` stores a failure and returns
  (`enroll.py:3015-3026`), after which `prober.py:920` and `runtime.py:1272` commit
  the claim. In `GpuIdentity` this is `RecordVerdict` with no GPUs, followed by
  `CommitClaim`.
- Chip contention can fail the later worker. `docs/LIFECYCLE.md:99-100`: "a
  duplicate or already-bound `chip_id` is refused for the epoch and the worker
  stays eligible". The runtime's own check does that; a prober's verdict, or one
  that loses a race to the commit, is stored as `failed` by `record_verdict`.
- A failed worker returns through an endpoint change. The docstring of
  `_enforce_enrollment_caps` (`enroll.py:2661-2664`) says that a failed worker
  "cannot legally return to `PENDING`"; `enroll` with a new endpoint opens a new
  generation for it. The caps are enforced again there, which `CapsHold` covers.
- The docstring of `is_completed_enrollment` (`enroll.py:2815-2822`) asks for a
  request "AND whose endpoint still matches what is enrolled"; the code compares
  the request's digest only, so a repeat of it is free after the worker moved, too.
- "For a scored epoch, the dedicated canary's GPU identities [...] are held under an
  exclusive, temporary reservation" (`docs/GPU_ATTESTATION.md:133-136`).
  `recover_interrupted` (`gpu.py:1895-2067`) does not ask whether the holder is still
  running: run beside an epoch it releases the reservation, and a worker may be
  admitted with those GPUs before the epoch ends.
- "A crash before the atomic replace leaves only ``install_prepared`` and the
  unchanged live registry" (`cathedral_measurement_approval.py:917-919`). The archive
  file is written in place (`_secure_write_new`, `433-444`); a crash there leaves a
  part of it, and `930-936` refuse every later installation over that release.
- `docs/PROVIDER_CONTRACT.md` says "A proven-absence success accepts `charged`
  within the cap or `released` for a free run." The finalizer requires that "a
  successful Worker must settle against its winner", so a success is charged; and a
  success after the reservation ran out can be settled neither way.
- A runtime that skipped a release may be unable to accept the next one: an entry
  that a skipped release added and the next one already retired is new to that
  runtime and not active (`policy_registry.py:902-904`, `936-938`).
  `scripts/cathedral_measurement_approval.py:1004-1005` says "the runtime accepts
  the successor on its next ordinary epoch." `LiveAcceptable` is therefore about
  runtimes at most one release behind.
- The comment at `cli.py:1929-1933` says that after a crash between the epoch copy
  and the index "the next export's rebuild-from-manifests recovery re-references
  them". The rebuild happens only when an index exists and does not verify
  (`cli.py:1937-1952`); with a good index, the copy stays unlisted.
- An auditor that misses an epoch until its report expires cannot move its report
  fence along the chain any more and needs a new state file.

## What is not modelled

`PROJECT.json` lists every component with its status. In short:

- Cryptography, quote parsing and signature checks: a verification outcome is an
  input of the models. So are work units: instance generation and checking are pure.
- I/O, HTTP, file ownership and modes, argument parsing, logging.
- Schema migrations of the ledger and the registry, SQLite backup, and the ledger's
  audit tables for work artifacts and timing, which no decision reads.
- The order in which one epoch of the runtime calls the ledger. The ledger's
  callers are free, so its properties hold for that order too.
- The coldkey allowlist (a mark in memory only, lost with the process), the
  single-flight re-attestor (its verdict is committed through the registry's token
  like any other), and the floating-point weight arithmetic.
- Enrollment service: the IP limiter, timestamps, and the profile, network and
  claimed-coldkey checks are `Reject`; a hotkey's owner is a constant; each process
  has its own state file; snapshot marks written before digests were kept are left
  out.
- Provider contract: canonical encodings and signatures are ideal.
- Policy registry: the pinned checkpoint that a first acceptance may be held to
  (`policy_registry.py:837-845`), the five minutes by which a release may be dated
  ahead, the validity windows of single profiles and keys, and the
  `--policy-digest` override.
- Evidence: of `compare_with_vector`, the supported mechanism pairs, the shape of the
  rows, the burn snapshot and the fixed policy blocks (`provenance.py:806-1036`), the
  burn hotkey among the miners (`1103-1110`) and the tolerance of `1e-9`; and damage to
  the high-water file. `LoseIndex` happens only while the high-water mark is at the
  index. After a crash between the two writes the mark stays behind until the next
  export writes it. If `index.json` is deleted in that time, nothing remembers the
  last pointer: an absent index is not rebuilt from the epoch copies
  (`cli.py:1937`) and `publish` compares with the old mark only
  (`evidence.py:366-388`), so the pointer may step back.
