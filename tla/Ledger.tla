------------------------------- MODULE Ledger -------------------------------
(***************************************************************************)
(* The durable CPU scoring ledger (cathedral/ledger.py): scoring epochs,   *)
(* issued challenges, per-epoch attestations, worker lifecycle snapshots   *)
(* and signed receipts, the customer job queue with its leases, the frozen *)
(* report of a completed epoch, its publication and the score-class        *)
(* export stream.                                                          *)
(*                                                                         *)
(* Every mutating method of the class runs under its lock inside one       *)
(* BEGIN IMMEDIATE transaction that is rolled back on any exception, so    *)
(* one method is one action whose guard is the conjunction of the checks   *)
(* the method makes.  A refused call changes nothing and is a stuttering   *)
(* step.  The exception is post_and_mark_published, which calls the        *)
(* downstream poster with no lock held: it is three actions.               *)
(*                                                                         *)
(* Callers are left free: several processes (the epoch runtime, operator   *)
(* commands, a runtime that was presumed dead) share one database file,    *)
(* and any of them may call any method at any time.                        *)
(***************************************************************************)
EXTENDS Integers, FiniteSets, Functions

CONSTANTS
    Hotkeys,        \* worker identities
    Jobs,           \* the job ids the uuid generator may hand out
    Customers,      \* customer ids
    Keys,           \* idempotency keys a customer may supply
    Payloads,       \* digests of submitted work
    Audiences,      \* (network, netuid) pairs
    Evidence,       \* attestation facts of one worker, up to equality
    Snapshots,      \* worker lifecycle snapshots: records with a state field
    Publishers,     \* processes that run publish_completed
    PosterAudience, \* the network and netuid their posters are configured for
    SourceEpochs,   \* the epoch numbers of the score source
    Units,          \* work units a verified challenge may earn
    MaxEpochs,      \* bound: rows of the epochs table
    MaxTime,        \* bound: the clock
    LeaseTime,      \* customer lease duration, in clock ticks
    MaxAttempts,    \* max_attempts of a customer job
    MaxActive,      \* MAX_ACTIVE_CUSTOMER_JOBS
    MaxActivePerCustomer, \* MAX_ACTIVE_CUSTOMER_JOBS_PER_CUSTOMER
    ResultSizes,    \* sizes of a customer job's stored result
    PayloadBytes,   \* size of a stored payload
    ErrorBytes,     \* size of a stored error message
    MaxResultBytes, \* _MAX_CUSTOMER_JOB_RESULT_BYTES
    MaxStorageBytes, \* MAX_CUSTOMER_JOB_STORAGE_BYTES
    MaxCandidates,  \* MAX_LAUNCH_CANDIDATES
    MaxVerified,    \* MAX_LAUNCH_VERIFIED_CANDIDATES
    None            \* SQL NULL, and a row that is not there

ASSUME BoundsAssumption ==
    /\ MaxEpochs \in Nat /\ MaxTime \in Nat
    /\ LeaseTime \in Nat \ {0}
    /\ MaxAttempts \in Nat \ {0}
    /\ SourceEpochs \subseteq Nat
    /\ Units \subseteq Nat \ {0}
    /\ MaxActive \in Nat /\ MaxActivePerCustomer \in Nat
    /\ MaxCandidates \in Nat /\ MaxVerified \in Nat
    /\ MaxResultBytes \in Nat /\ ResultSizes \subseteq 0 .. MaxResultBytes
    /\ PayloadBytes \in Nat /\ ErrorBytes \in Nat /\ MaxStorageBytes \in Nat

ASSUME NoneAssumption ==
    /\ None \notin Hotkeys \cup Customers \cup Keys \cup Payloads
    /\ None \notin Audiences \cup {PosterAudience} \cup Snapshots \cup Nat

VARIABLES
    now,            \* the wall clock, in ticks
    epochs,         \* table epochs, by epoch_id
    lastEpoch,      \* the AUTOINCREMENT counter of table epochs
    challenges,     \* table challenges, by challenge_id
    attestations,   \* table epoch_attestations, by epoch and hotkey
    lifecycles,     \* table epoch_worker_lifecycle, by epoch and hotkey
    receipts,       \* table assurance_receipts, by epoch and hotkey
    reports,        \* report_body of epochs, with table epoch_scores
    jobs,           \* table customer_jobs, by job_id
    posts,          \* each publisher's call of poster.post
    sent,           \* epochs whose report bytes ever left the process
    accepted,       \* epochs whose report the downstream accepted
    exports         \* table score_class_exports, by epoch_id

epochVars == <<epochs, lastEpoch>>
factVars == <<attestations, lifecycles, receipts>>
postVars == <<posts, sent, accepted>>
vars == <<now, epochs, lastEpoch, challenges, attestations, lifecycles,
          receipts, reports, jobs, posts, sent, accepted, exports>>
-----------------------------------------------------------------------------
(* Row types.                                                              *)

EpochIds == 1 .. MaxEpochs

EpochRow == [status : {"absent", "running", "aborted", "complete", "published",
                       "abandoned"},
             source_epoch : SourceEpochs \cup {None},
             audience : Audiences \cup {None}]

NoEpoch == [status |-> "absent", source_epoch |-> None, audience |-> None]

(* A canonical challenge id is derived from the epoch attempt and a        *)
(* counter, and the runtime dispatches one per worker; a customer          *)
(* challenge id is derived from the job and the attempt.                   *)
CanonicalIds == {"sat"} \X EpochIds \X Hotkeys
CustomerIds == {"job"} \X Jobs \X (1 .. MaxAttempts)
ChallengeIds == CanonicalIds \cup CustomerIds

ChallengeRow == [status : {"absent", "issued", "verified", "failed", "abandoned"},
                 epoch_id : EpochIds \cup {None},
                 hotkey : Hotkeys \cup {None},
                 work_units : Units \cup {0}]

NoChallenge == [status |-> "absent", epoch_id |-> None, hotkey |-> None,
                work_units |-> 0]

AttestationRow == [evidence : Evidence, score_eligible : BOOLEAN]

(* The receipt's signed body, abstracted to what the ledger compares: the  *)
(* challenge it resolves, its status and units, and the lifecycle claims.  *)
ReceiptRow == [challenge_id : ChallengeIds,
               work_status : {"verified", "failed"},
               work_units : Units \cup {0},
               lifecycle : Snapshots]

JobRow == [status : {"absent", "queued", "leased", "succeeded", "failed", "pruned"},
           customer_id : Customers \cup {None},
           idempotency_key : Keys \cup {None},
           payload : Payloads \cup {None},
           submitted_at : 0 .. MaxTime,
           available_at : 0 .. MaxTime,
           attempt_count : 0 .. MaxAttempts,
           lease_owner : Hotkeys \cup {None},
           lease_epoch_id : EpochIds \cup {None},
           lease_expires_at : 0 .. (MaxTime + LeaseTime),
           resolved_at : 0 .. MaxTime,
           result_bytes : 0 .. MaxResultBytes]

NoJob == [status |-> "absent", customer_id |-> None, idempotency_key |-> None,
          payload |-> None, submitted_at |-> 0, available_at |-> 0,
          attempt_count |-> 0, lease_owner |-> None, lease_epoch_id |-> None,
          lease_expires_at |-> 0, resolved_at |-> 0, result_bytes |-> 0]

(* A publisher inside post_and_mark_published, and a row of the export     *)
(* stream with the report it declares as its predecessor.                  *)
PostRow == [phase : {"idle", "waiting", "acknowledged"},
            epoch_id : EpochIds \cup {None}]
ExportRow == [previous : EpochIds \cup {None}]

ASSUME NoRowAssumption == None \notin ExportRow

(* The frozen report: every hotkey of the universe with its gated units.   *)
(* Its score is those units over their maximum, so a score is positive     *)
(* exactly when the units are.                                             *)
IsReport(r) ==
    /\ DOMAIN r = {"source_epoch", "audience", "universe", "gated"}
    /\ r.source_epoch \in SourceEpochs
    /\ r.audience \in Audiences \cup {None}
    /\ r.universe \subseteq Hotkeys
    /\ DOMAIN r.gated = Hotkeys
-----------------------------------------------------------------------------
(* Queries shared by several methods.                                      *)

WithStatus(S) == {e \in EpochIds : epochs[e].status \in S}

Running(e) == epochs[e].status = "running"

(* The rows that stop a new epoch, and the rows whose source epoch is      *)
(* final: an abandoned epoch is neither.                                   *)
Blocking == WithStatus({"running", "complete"})
Finalized == WithStatus({"complete", "published"})

(* Aborted attempts beyond the newest finalized source epoch.              *)
Retryable ==
    {e \in WithStatus({"aborted"}) :
        \A f \in Finalized : epochs[f].source_epoch < epochs[e].source_epoch}

Newest(S) == {e \in S : \A f \in S : f <= e}

(* Challenges in S that are still issued become abandoned and earn 0.      *)
Abandon(S) ==
    [c \in ChallengeIds |->
        IF c \in S /\ challenges[c].status = "issued"
        THEN [challenges[c] EXCEPT !.status = "abandoned", !.work_units = 0]
        ELSE challenges[c]]

(* The challenge of the attempt a leased job is on.                        *)
LeaseChallenge(j) == <<"job", j, jobs[j].attempt_count>>

(* The row with every lease column NULL.                                   *)
Unleased(row) ==
    [row EXCEPT !.lease_owner = None, !.lease_epoch_id = None,
                !.lease_expires_at = 0]
-----------------------------------------------------------------------------
Init ==
    /\ now = 0
    /\ epochs = [e \in EpochIds |-> NoEpoch]
    /\ lastEpoch = 0
    /\ challenges = [c \in ChallengeIds |-> NoChallenge]
    /\ attestations = [e \in EpochIds |-> [h \in Hotkeys |-> None]]
    /\ lifecycles = [e \in EpochIds |-> [h \in Hotkeys |-> None]]
    /\ receipts = [e \in EpochIds |-> [h \in Hotkeys |-> None]]
    /\ reports = [e \in EpochIds |-> None]
    /\ jobs = [j \in Jobs |-> NoJob]
    /\ posts = [p \in Publishers |-> [phase |-> "idle", epoch_id |-> None]]
    /\ sent = {}
    /\ accepted = {}
    /\ exports = [e \in EpochIds |-> None]

(* datetime.now(UTC) moves on between calls.                               *)
Tick ==
    /\ now < MaxTime
    /\ now' = now + 1
    /\ UNCHANGED <<epochVars, challenges, factVars, reports, jobs, postVars,
                   exports>>
-----------------------------------------------------------------------------
(* Epochs.                                                                 *)

(* Faulty variant: an aborted source epoch may be skipped.                 *)
BeginEpochSkipping(s, audience) ==
    /\ lastEpoch < MaxEpochs
    /\ Blocking = {}
    /\ \A f \in Finalized : epochs[f].source_epoch < s
    /\ lastEpoch' = lastEpoch + 1
    /\ epochs' = [epochs EXCEPT ![lastEpoch + 1] =
                    [status |-> "running", source_epoch |-> s,
                     audience |-> audience]]
    /\ UNCHANGED <<now, challenges, factVars, reports, jobs, postVars, exports>>

BeginEpoch(s, audience) ==
    /\ lastEpoch < MaxEpochs
    /\ Blocking = {}
    /\ \A r \in Newest(Retryable) : s = epochs[r].source_epoch
    /\ \A f \in Finalized : epochs[f].source_epoch < s
    /\ lastEpoch' = lastEpoch + 1
    /\ epochs' = [epochs EXCEPT ![lastEpoch + 1] =
                    [status |-> "running", source_epoch |-> s,
                     audience |-> audience]]
    /\ UNCHANGED <<now, challenges, factVars, reports, jobs, postVars, exports>>

(* Faulty variant: the epoch's leases are left behind.                     *)
AbortEpochOnly(e) ==
    /\ Running(e)
    /\ epochs' = [epochs EXCEPT ![e].status = "aborted"]
    /\ UNCHANGED <<now, lastEpoch, challenges, factVars, reports, jobs,
                   postVars, exports>>

(* Leases of the epoch go back to the queue, whatever their attempt count; *)
(* challenges that no lease points at keep their status.                   *)
AbortEpoch(e) ==
    LET leased == {j \in Jobs : /\ jobs[j].status = "leased"
                                /\ jobs[j].lease_epoch_id = e}
    IN  /\ Running(e)
        /\ challenges' = Abandon({LeaseChallenge(j) : j \in leased})
        /\ jobs' = [j \in Jobs |->
                      IF j \in leased
                      THEN [Unleased(jobs[j]) EXCEPT !.status = "queued",
                                                     !.available_at = now]
                      ELSE jobs[j]]
        /\ epochs' = [epochs EXCEPT ![e].status = "aborted"]
        /\ UNCHANGED <<now, lastEpoch, factVars, reports, postVars, exports>>

(* Faulty variant: a published epoch may be abandoned too.                 *)
AbandonPublishedEpoch(e) ==
    /\ epochs[e].status \in {"complete", "published"}
    /\ epochs' = [epochs EXCEPT ![e].status = "abandoned"]
    /\ UNCHANGED <<now, lastEpoch, challenges, factVars, reports, jobs,
                   postVars, exports>>

AbandonCompletedEpoch(e) ==
    /\ epochs[e].status = "complete"
    /\ epochs' = [epochs EXCEPT ![e].status = "abandoned"]
    /\ UNCHANGED <<now, lastEpoch, challenges, factVars, reports, jobs,
                   postVars, exports>>
-----------------------------------------------------------------------------
(* Challenges and the facts recorded about workers in a running epoch.     *)

IssueChallenge(e, h) ==
    /\ Running(e)
    /\ challenges[<<"sat", e, h>>].status = "absent"
    /\ challenges' = [challenges EXCEPT ![<<"sat", e, h>>] =
                        [status |-> "issued", epoch_id |-> e, hotkey |-> h,
                         work_units |-> 0]]
    /\ UNCHANGED <<now, epochVars, factVars, reports, jobs, postVars, exports>>

(* Faulty variant: evidence is still taken after the epoch has ended.      *)
AddAttestationLate(e, h, row) ==
    /\ epochs[e].status # "absent"
    /\ attestations[e][h] = None
    /\ attestations' = [attestations EXCEPT ![e][h] = row]
    /\ UNCHANGED <<now, epochVars, challenges, lifecycles, receipts, reports,
                   jobs, postVars, exports>>

(* Facts are immutable within an epoch: an equal repeat is a no-op, a      *)
(* different one is refused.                                               *)
AddAttestation(e, h, row) ==
    /\ Running(e)
    /\ attestations[e][h] = None
    /\ attestations' = [attestations EXCEPT ![e][h] = row]
    /\ UNCHANGED <<now, epochVars, challenges, lifecycles, receipts, reports,
                   jobs, postVars, exports>>

(* Faulty variant: the snapshot is not compared with the receipt.          *)
AddLifecycleSnapshotBlind(e, h, snapshot) ==
    /\ Running(e)
    /\ lifecycles[e][h] = None
    /\ lifecycles' = [lifecycles EXCEPT ![e][h] = snapshot]
    /\ UNCHANGED <<now, epochVars, challenges, attestations, receipts, reports,
                   jobs, postVars, exports>>

AddLifecycleSnapshot(e, h, snapshot) ==
    /\ Running(e)
    /\ lifecycles[e][h] = None
    /\ receipts[e][h] # None => receipts[e][h].lifecycle = snapshot
    /\ lifecycles' = [lifecycles EXCEPT ![e][h] = snapshot]
    /\ UNCHANGED <<now, epochVars, challenges, attestations, receipts, reports,
                   jobs, postVars, exports>>

(* _resolve_challenge_in_transaction                                       *)
Resolvable(c) ==
    /\ challenges[c].status = "issued"
    /\ Running(challenges[c].epoch_id)

Resolved(c, status, units) ==
    [challenges EXCEPT ![c].status = status, ![c].work_units = units]

(* The receipt of a resolution agrees with the lifecycle row of its worker *)
(* when there is one, and is the only receipt of the worker in the epoch.  *)
(* resolve_challenge, the receiptless form, passes None.                   *)
ReceiptAllowed(c, snapshot) ==
    LET e == challenges[c].epoch_id
        h == challenges[c].hotkey
    IN  snapshot # None => /\ lifecycles[e][h] \in {None, snapshot}
                           /\ receipts[e][h] = None

WithReceipt(c, status, units, snapshot) ==
    LET e == challenges[c].epoch_id
        h == challenges[c].hotkey
    IN  IF snapshot = None
        THEN receipts
        ELSE [receipts EXCEPT ![e][h] =
                [challenge_id |-> c, work_status |-> status,
                 work_units |-> units, lifecycle |-> snapshot]]

ResolveCanonical(c, status, units, snapshot) ==
    /\ Resolvable(c)
    /\ ReceiptAllowed(c, snapshot)
    /\ challenges' = Resolved(c, status, units)
    /\ receipts' = WithReceipt(c, status, units, snapshot)
    /\ UNCHANGED <<now, epochVars, attestations, lifecycles, reports, jobs,
                   postVars, exports>>
-----------------------------------------------------------------------------
(* Customer jobs.                                                          *)

Stored == {j \in Jobs : jobs[j].status \notin {"absent", "pruned"}}
Active == {j \in Jobs : jobs[j].status \in {"queued", "leased"}}

(* last_error is cleared by a claim and by success, and set whenever a job *)
(* fails or goes back to the queue.                                        *)
HasError(j) ==
    \/ jobs[j].status = "failed"
    \/ jobs[j].status = "queued" /\ jobs[j].attempt_count > 0

(* Faulty variant: an active job is charged only for what it has stored.   *)
StorageBytesUnreserved(j) ==
    PayloadBytes + jobs[j].result_bytes
      + (IF HasError(j) THEN ErrorBytes ELSE 0)

(* What enqueue_customer_job charges a row: an active job reserves the     *)
(* largest result it may still store.                                      *)
StorageBytes(j) ==
    PayloadBytes
      + (IF j \in Active THEN MaxResultBytes ELSE jobs[j].result_bytes)
      + (IF HasError(j) THEN ErrorBytes ELSE 0)

(* SELECT SUM: the bytes charged to all rows.  <<j, n>> is byte n of row j,*)
(* and no row is longer than the longest of each of its three columns.     *)
RowBytes == 1 .. (PayloadBytes + MaxResultBytes + ErrorBytes)
ChargedBytes == {b \in Stored \X RowBytes : b[2] <= StorageBytes(b[1])}

EnqueueCustomerJob(j, customer, key, payload) ==
    /\ jobs[j].status = "absent"
    /\ key # None => ~ \E i \in Stored : /\ jobs[i].customer_id = customer
                                         /\ jobs[i].idempotency_key = key
    /\ Cardinality(Active) < MaxActive
    /\ Cardinality({i \in Active : jobs[i].customer_id = customer})
          < MaxActivePerCustomer
    /\ Cardinality(ChargedBytes) + PayloadBytes + MaxResultBytes
          <= MaxStorageBytes
    /\ jobs' = [jobs EXCEPT ![j] =
                  [NoJob EXCEPT !.status = "queued",
                                !.customer_id = customer,
                                !.idempotency_key = key,
                                !.payload = payload,
                                !.submitted_at = now,
                                !.available_at = now]]
    /\ UNCHANGED <<now, epochVars, challenges, factVars, reports, postVars,
                   exports>>

(* Deletes the oldest rows, up to a limit, among the terminal ones (of one *)
(* customer, or of all) that were resolved before the cutoff.              *)
PruneCustomerJobs(before, customer, deleted) ==
    LET old == {j \in Jobs : /\ jobs[j].status \in {"succeeded", "failed"}
                             /\ jobs[j].resolved_at < before
                             /\ customer \in {None, jobs[j].customer_id}}
    IN  /\ deleted # {} /\ deleted \subseteq old
        /\ \A d \in deleted, k \in old \ deleted :
              jobs[d].resolved_at <= jobs[k].resolved_at
        /\ jobs' = [j \in Jobs |->
                      IF j \in deleted THEN [NoJob EXCEPT !.status = "pruned"]
                                       ELSE jobs[j]]
        /\ UNCHANGED <<now, epochVars, challenges, factVars, reports, postVars,
                       exports>>

Expired == {j \in Jobs : /\ jobs[j].status = "leased"
                         /\ jobs[j].lease_expires_at <= now}

(* The job table after claim_customer_job has reclaimed expired leases and *)
(* failed the queued jobs that are out of attempts.                        *)
Reclaimed(j) ==
    LET out == jobs[j].attempt_count >= MaxAttempts
    IN  CASE j \in Expired /\ ~out ->
               [Unleased(jobs[j]) EXCEPT !.status = "queued",
                                         !.available_at = now]
          [] j \in Expired /\ out ->
               [Unleased(jobs[j]) EXCEPT !.status = "failed",
                                         !.available_at = now,
                                         !.resolved_at = now]
          [] jobs[j].status = "queued" /\ out ->
               [jobs[j] EXCEPT !.status = "failed", !.resolved_at = now]
          [] OTHER -> jobs[j]

(* ORDER BY available_at, submitted_at; the final tie-break by job_id      *)
(* orders random ids, so any of the tied rows may come first.              *)
NoLater(a, b) ==
    \/ a.available_at < b.available_at
    \/ a.available_at = b.available_at /\ a.submitted_at <= b.submitted_at

Claimable(j) ==
    /\ Reclaimed(j).status = "queued"
    /\ Reclaimed(j).available_at <= now
    /\ Reclaimed(j).attempt_count < MaxAttempts

(* Reclaims, then leases the oldest queued job to h.  When the queue is    *)
(* empty the call returns None and the reclaimed rows are still committed. *)
ClaimCustomerJob(e, h) ==
    LET abandoned == Abandon({LeaseChallenge(i) : i \in Expired})
    IN  /\ Running(e)
        /\ \/ \E j \in Jobs :
                /\ Claimable(j)
                /\ \A i \in Jobs : Claimable(i) => NoLater(Reclaimed(j), Reclaimed(i))
                /\ LET attempt == Reclaimed(j).attempt_count + 1
                   IN  /\ challenges' = [abandoned EXCEPT ![<<"job", j, attempt>>] =
                                           [status |-> "issued", epoch_id |-> e,
                                            hotkey |-> h, work_units |-> 0]]
                       /\ jobs' = [i \in Jobs |->
                            IF i = j
                            THEN [Reclaimed(j) EXCEPT
                                    !.status = "leased",
                                    !.attempt_count = attempt,
                                    !.lease_owner = h,
                                    !.lease_epoch_id = e,
                                    !.lease_expires_at = now + LeaseTime,
                                    !.resolved_at = 0]
                            ELSE Reclaimed(i)]
           \/ /\ \A j \in Jobs : ~ Claimable(j)
              /\ challenges' = abandoned
              /\ jobs' = [j \in Jobs |-> Reclaimed(j)]
        /\ UNCHANGED <<now, epochVars, factVars, reports, postVars, exports>>

(* The lease a caller presents is the one claim_customer_job returned for  *)
(* attempt a of job j; the row of that challenge holds its owner and       *)
(* epoch.  The random token makes it the current lease exactly when the    *)
(* job is still leased for that attempt.                                   *)
CurrentLease(j, a) ==
    LET c == challenges[<<"job", j, a>>]
    IN  /\ jobs[j].status = "leased"
        /\ jobs[j].attempt_count = a
        /\ jobs[j].lease_owner = c.hotkey
        /\ jobs[j].lease_epoch_id = c.epoch_id
        /\ jobs[j].lease_expires_at > now

(* Faulty variant: attempts left mean another attempt, whatever came of    *)
(* this one.                                                               *)
JobAfterAlwaysRetry(j, a, disposition, result) ==
    LET final == IF a < MaxAttempts THEN "queued" ELSE disposition
    IN  [Unleased(jobs[j]) EXCEPT
            !.status = final,
            !.available_at = now,
            !.resolved_at = IF final = "queued" THEN 0 ELSE now,
            !.result_bytes = result]

(* _resolve_customer_job_in_transaction: a retry is granted only while     *)
(* attempts are left.                                                      *)
JobAfter(j, a, disposition, result) ==
    LET final == CASE disposition = "succeeded" -> "succeeded"
                   [] disposition = "retry" /\ a < MaxAttempts -> "queued"
                   [] OTHER -> "failed"
    IN  [Unleased(jobs[j]) EXCEPT
            !.status = final,
            !.available_at = now,
            !.resolved_at = IF final = "queued" THEN 0 ELSE now,
            !.result_bytes = result]

(* A verified result succeeds the job; a failed one retries or fails it.   *)
ResolveCustomer(j, a, status, units, snapshot, disposition, result) ==
    LET c == <<"job", j, a>>
    IN  /\ (status = "verified") = (disposition = "succeeded")
        /\ CurrentLease(j, a)
        /\ Resolvable(c)
        /\ ReceiptAllowed(c, snapshot)
        /\ challenges' = Resolved(c, status, units)
        /\ receipts' = WithReceipt(c, status, units, snapshot)
        /\ jobs' = [jobs EXCEPT ![j] = JobAfter(j, a, disposition, result)]
        /\ UNCHANGED <<now, epochVars, attestations, lifecycles, reports,
                       postVars, exports>>
-----------------------------------------------------------------------------
(* Completion: the report is computed from the epoch's own rows.           *)

ChallengesOf(e) == {c \in ChallengeIds : /\ challenges[c].epoch_id = e
                                         /\ challenges[c].status # "absent"}

CurrentWork(e, h) ==
    SumFunction([c \in {d \in ChallengesOf(e) : /\ challenges[d].hotkey = h
                                                /\ challenges[d].status = "verified"}
                   |-> challenges[c].work_units])

(* Score-eligible attestations, restricted to workers whose lifecycle row  *)
(* is attested as soon as the epoch has any lifecycle row.                 *)
Attested(e) ==
    LET scored == {h \in Hotkeys : /\ attestations[e][h] # None
                                   /\ attestations[e][h].score_eligible}
        rows == {h \in Hotkeys : lifecycles[e][h] # None}
    IN  IF rows = {}
        THEN scored
        ELSE {h \in scored \cap rows : lifecycles[e][h].state = "attested"}

GatedUnits(e) == [h \in Hotkeys |-> IF h \in Attested(e) THEN CurrentWork(e, h) ELSE 0]

Universe(e, given) ==
    given \cup {challenges[c].hotkey : c \in ChallengesOf(e)}
          \cup {h \in Hotkeys : attestations[e][h] # None \/ lifecycles[e][h] # None}

Earning(report) == {h \in Hotkeys : report.gated[h] > 0}

(* _validate_launch_report_cardinality                                     *)
WithinLaunchLimits(report) ==
    /\ Cardinality(report.universe) <= MaxCandidates
    /\ Cardinality(Earning(report)) <= MaxVerified

CompleteEpoch(e, given, audience) ==
    LET report == [source_epoch |-> epochs[e].source_epoch,
                   audience |-> audience,
                   universe |-> Universe(e, given),
                   gated |-> GatedUnits(e)]
    IN  /\ Running(e)
        /\ epochs[e].audience \in {None, audience}
        /\ \A c \in ChallengesOf(e) : challenges[c].status # "issued"
        /\ WithinLaunchLimits(report)
        /\ reports' = [reports EXCEPT ![e] = report]
        /\ epochs' = [epochs EXCEPT ![e].status = "complete"]
        /\ UNCHANGED <<now, lastEpoch, challenges, factVars, jobs, postVars,
                       exports>>
-----------------------------------------------------------------------------
(* Publication.  A publisher reads the frozen bytes under the lock, waits  *)
(* for the downstream with no lock held, and marks the epoch published     *)
(* only after an accepted acknowledgement.                                 *)

(* publish_completed has seen e blocking; a second publisher may finish    *)
(* before this one gets here.  Poster.post sends nothing but a report for  *)
(* its own audience.                                                       *)
PostReport(p, e) ==
    /\ posts[p].phase = "idle"
    /\ epochs[e].status \in {"complete", "published"}
    /\ WithinLaunchLimits(reports[e])
    /\ reports[e].audience = PosterAudience
    /\ posts' = [posts EXCEPT ![p] = [phase |-> "waiting", epoch_id |-> e]]
    /\ sent' = sent \cup {e}
    /\ UNCHANGED <<now, epochVars, challenges, factVars, reports, jobs,
                   accepted, exports>>

(* The downstream takes a report that was sent: at once, late, or again.   *)
DownstreamAccepts(e) ==
    /\ e \in sent
    /\ accepted' = accepted \cup {e}
    /\ UNCHANGED <<now, epochVars, challenges, factVars, reports, jobs, posts,
                   sent, exports>>

ReceiveAcknowledgement(p) ==
    /\ posts[p].phase = "waiting"
    /\ posts[p].epoch_id \in accepted
    /\ posts' = [posts EXCEPT ![p].phase = "acknowledged"]
    /\ UNCHANGED <<now, epochVars, challenges, factVars, reports, jobs, sent,
                   accepted, exports>>

(* A timeout, a refusal, a lost answer or the death of the process.        *)
PostFails(p) ==
    /\ posts[p].phase # "idle"
    /\ posts' = [posts EXCEPT ![p] = [phase |-> "idle", epoch_id |-> None]]
    /\ UNCHANGED <<now, epochVars, challenges, factVars, reports, jobs, sent,
                   accepted, exports>>

(* Faulty variant: the epoch is marked as soon as the report is sent.      *)
MarkPublishedUnacknowledged(p) ==
    LET e == posts[p].epoch_id
    IN  /\ posts[p].phase # "idle"
        /\ epochs[e].status \in {"complete", "published"}
        /\ epochs' = [epochs EXCEPT ![e].status = "published"]
        /\ posts' = [posts EXCEPT ![p] = [phase |-> "idle", epoch_id |-> None]]
        /\ UNCHANGED <<now, lastEpoch, challenges, factVars, reports, jobs,
                       sent, accepted, exports>>

(* An epoch already published with these bytes stays as it is; one that    *)
(* was abandoned meanwhile is refused.                                     *)
MarkPublished(p) ==
    LET e == posts[p].epoch_id
    IN  /\ posts[p].phase = "acknowledged"
        /\ epochs[e].status \in {"complete", "published"}
        /\ epochs' = [epochs EXCEPT ![e].status = "published"]
        /\ posts' = [posts EXCEPT ![p] = [phase |-> "idle", epoch_id |-> None]]
        /\ UNCHANGED <<now, lastEpoch, challenges, factVars, reports, jobs,
                       sent, accepted, exports>>
-----------------------------------------------------------------------------
(* The score-class export stream.  The exporter reads the snapshot and the *)
(* previous report first; the insert re-checks both in its transaction, so *)
(* previous is any report (or none) the exporter may have read.            *)

LatestExport ==
    {f \in EpochIds : /\ exports[f] # None
                      /\ \A g \in EpochIds : exports[g] # None =>
                           epochs[g].source_epoch <= epochs[f].source_epoch}

RecordScoreClassExport(e, previous) ==
    /\ epochs[e].status \in {"complete", "published"}
    /\ \A h \in Earning(reports[e]) : receipts[e][h] # None
    /\ exports[e] = None
    /\ IF LatestExport = {}
       THEN previous = None
       ELSE \A f \in LatestExport : /\ epochs[f].source_epoch < epochs[e].source_epoch
                                    /\ previous = f
    /\ exports' = [exports EXCEPT ![e] = [previous |-> previous]]
    /\ UNCHANGED <<now, epochVars, challenges, factVars, reports, jobs, postVars>>
-----------------------------------------------------------------------------
EpochStep ==
    \/ \E s \in SourceEpochs, a \in Audiences \cup {None} : BeginEpoch(s, a)
    \/ \E e \in EpochIds :
         \/ AbortEpoch(e)
         \/ AbandonCompletedEpoch(e)
         \/ \E given \in SUBSET Hotkeys, a \in Audiences \cup {None} :
              CompleteEpoch(e, given, a)

FactStep ==
    \E e \in EpochIds, h \in Hotkeys :
       \/ IssueChallenge(e, h)
       \/ \E row \in AttestationRow : AddAttestation(e, h, row)
       \/ \E snapshot \in Snapshots : AddLifecycleSnapshot(e, h, snapshot)

(* The runtime resolves work as verified with its derived units, or as     *)
(* failed with none.                                                       *)
Outcomes == ({"verified"} \X Units) \cup {<<"failed", 0>>}

ResolveCanonicalStep ==
    \E o \in Outcomes, snapshot \in Snapshots \cup {None}, c \in CanonicalIds :
       ResolveCanonical(c, o[1], o[2], snapshot)

ResolveCustomerStep ==
    \E o \in Outcomes, snapshot \in Snapshots \cup {None},
       j \in Jobs, a \in 1 .. MaxAttempts :
       \/ \E result \in ResultSizes :
            ResolveCustomer(j, a, o[1], o[2], snapshot, "succeeded", result)
       \/ \E disposition \in {"retry", "failed"} :
            ResolveCustomer(j, a, o[1], o[2], snapshot, disposition, 0)

ResolveStep == ResolveCanonicalStep \/ ResolveCustomerStep

JobStep ==
    \/ \E j \in Jobs, customer \in Customers, key \in Keys \cup {None},
          payload \in Payloads : EnqueueCustomerJob(j, customer, key, payload)
    \/ \E before \in 0 .. MaxTime, customer \in Customers \cup {None},
          deleted \in SUBSET Jobs : PruneCustomerJobs(before, customer, deleted)
    \/ \E e \in EpochIds, h \in Hotkeys : ClaimCustomerJob(e, h)

PublishStep ==
    \/ \E p \in Publishers : \/ \E e \in EpochIds : PostReport(p, e)
                             \/ ReceiveAcknowledgement(p)
                             \/ PostFails(p)
                             \/ MarkPublished(p)
    \/ \E e \in EpochIds : DownstreamAccepts(e)

ExportStep ==
    \E e \in EpochIds, previous \in EpochIds \cup {None} :
       RecordScoreClassExport(e, previous)

Next ==
    \/ Tick
    \/ EpochStep
    \/ FactStep
    \/ ResolveStep
    \/ JobStep
    \/ PublishStep
    \/ ExportStep

Spec == Init /\ [][Next]_vars
-----------------------------------------------------------------------------
(* Every table holds rows of its declared type, and the epochs with a      *)
(* frozen report are the completed, published and abandoned ones.          *)
TypeOK ==
    /\ now \in 0 .. MaxTime
    /\ epochs \in [EpochIds -> EpochRow]
    /\ lastEpoch \in 0 .. MaxEpochs
    /\ challenges \in [ChallengeIds -> ChallengeRow]
    /\ attestations \in [EpochIds -> [Hotkeys -> AttestationRow \cup {None}]]
    /\ lifecycles \in [EpochIds -> [Hotkeys -> Snapshots \cup {None}]]
    /\ receipts \in [EpochIds -> [Hotkeys -> ReceiptRow \cup {None}]]
    /\ DOMAIN reports = EpochIds
    /\ \A e \in EpochIds :
          IF epochs[e].status \in {"complete", "published", "abandoned"}
          THEN IsReport(reports[e]) ELSE reports[e] = None
    /\ jobs \in [Jobs -> JobRow]
    /\ posts \in [Publishers -> PostRow]
    /\ sent \subseteq EpochIds
    /\ accepted \subseteq EpochIds
    /\ exports \in [EpochIds -> ExportRow \cup {None}]

(* begin_epoch refuses while an epoch is running or complete, so at most   *)
(* one epoch is in either state and the epochs begun later are the ones    *)
(* that finish later: among complete and published epochs, source epochs   *)
(* grow with epoch ids, whatever was aborted or abandoned in between.      *)
FinalizedInOrder ==
    /\ \A e, f \in Blocking : e = f
    /\ \A e, f \in Finalized :
          e < f => epochs[e].source_epoch < epochs[f].source_epoch

(* begin_epoch never advances past an aborted source epoch: all aborted    *)
(* attempts beyond the finalized ones are of one source epoch, and an      *)
(* epoch that runs while there are such attempts is an attempt at it.      *)
RetryBeforeAdvance ==
    \A r \in Retryable, e \in Retryable \cup WithStatus({"running"}) :
       epochs[e].source_epoch = epochs[r].source_epoch

(* Epochs are settled in order: finalized ones in the order of their       *)
(* source epochs, and an aborted one is tried again before the next.       *)
EpochsInOrder == FinalizedInOrder /\ RetryBeforeAdvance

(* The frozen report of a completed, published or abandoned epoch is what  *)
(* complete_epoch would compute again from the epoch's rows: no later      *)
(* issue, resolution, reclaim, abort, attestation or lifecycle snapshot    *)
(* touches a row that was scored (ledger.py: "any independent              *)
(* recomputation over the bundle produce identical shares").               *)
FrozenReportReproducible ==
    \A e \in WithStatus({"complete", "published", "abandoned"}) :
       /\ reports[e].gated = GatedUnits(e)
       /\ Universe(e, {}) \subseteq reports[e].universe
       /\ \A c \in ChallengesOf(e) : challenges[c].status # "issued"

(* A leased job holds the one issued challenge of its current attempt, for *)
(* its owner, in an epoch that is still running: claim, resolve, reclaim   *)
(* and abort keep table customer_jobs and table challenges in step, so no  *)
(* lease outlives its epoch and no issued customer challenge is orphaned.  *)
LeaseFence ==
    \A j \in Jobs, a \in 1 .. MaxAttempts :
       LET c == challenges[<<"job", j, a>>]
       IN  c.status = "issued" <=>
             /\ jobs[j].status = "leased"
             /\ jobs[j].attempt_count = a
             /\ c.hotkey = jobs[j].lease_owner
             /\ c.epoch_id = jobs[j].lease_epoch_id
             /\ c.epoch_id \in WithStatus({"running"})

(* At most one attempt of a customer job is ever verified, and a job with  *)
(* a verified attempt has succeeded for good: a late result, a reclaimed   *)
(* lease or an aborted epoch never lets a second worker earn for it.       *)
JobCreditedOnce ==
    \A j \in Jobs, a \in 1 .. MaxAttempts :
       challenges[<<"job", j, a>>].status = "verified" =>
          /\ jobs[j].status \in {"succeeded", "pruned"}
          /\ \A b \in 1 .. MaxAttempts :
                b # a => challenges[<<"job", j, b>>].status # "verified"

(* A stored receipt and the epoch's other tables tell one story whichever  *)
(* was written first: the receipt's challenge is resolved with the same    *)
(* status and units for the same worker and epoch, and the lifecycle row   *)
(* of the worker is the snapshot the receipt signed.                       *)
ReceiptConsistent ==
    \A e \in EpochIds, h \in Hotkeys : receipts[e][h] # None =>
       LET r == receipts[e][h]
       IN  /\ challenges[r.challenge_id] =
                [status |-> r.work_status, epoch_id |-> e, hotkey |-> h,
                 work_units |-> r.work_units]
           /\ lifecycles[e][h] \in {None, r.lifecycle}

(* mark_published runs only after an accepted acknowledgement of the same  *)
(* frozen bytes, so a published epoch was accepted downstream, and what    *)
(* the downstream holds was frozen: it accepted no running or aborted      *)
(* epoch.                                                                  *)
PublishedWasAccepted ==
    /\ WithStatus({"published"}) \subseteq accepted
    /\ accepted \subseteq sent
    /\ sent \subseteq WithStatus({"complete", "published", "abandoned"})

(* Stated by abandon_completed_epoch: an abandoned epoch is permanently    *)
(* unpayable, so its report is not one the downstream has accepted.        *)
AbandonedNeverAccepted == WithStatus({"abandoned"}) \cap accepted = {}

(* The export stream is one chain: each report names as its predecessor    *)
(* the exported report with the next smaller source epoch, and the first   *)
(* names none, although exporters of several epochs may race, and epochs   *)
(* may be abandoned after their export.                                    *)
ExportChain ==
    \A e \in EpochIds : exports[e] # None =>
       LET earlier == {f \in EpochIds : /\ exports[f] # None
                                        /\ epochs[f].source_epoch < epochs[e].source_epoch}
       IN  IF earlier = {}
           THEN exports[e].previous = None
           ELSE /\ exports[e].previous \in earlier
                /\ \A f \in earlier : epochs[f].source_epoch
                     <= epochs[exports[e].previous].source_epoch

(* The tables are well formed and tell one story: a receipt agrees with    *)
(* the challenge and the snapshot of its worker, and the exports chain.    *)
TablesAgree == TypeOK /\ ReceiptConsistent /\ ExportChain

(* A row's payload and its result, at their largest while the job may      *)
(* still store one.                                                        *)
KeptBytes(j) ==
    PayloadBytes + (IF j \in Active THEN MaxResultBytes ELSE jobs[j].result_bytes)

ReservedBytes == {b \in Stored \X RowBytes : b[2] <= KeptBytes(b[1])}

ActiveOf(customer) == {j \in Active : jobs[j].customer_id = customer}

(* Limits are checked by enqueue_customer_job alone: retries, reclaimed    *)
(* leases and aborted epochs put jobs back into the queue, and results are *)
(* stored, unchecked.  Still the active jobs stay within both quotas, and  *)
(* payloads and results never outgrow the storage limit however the active *)
(* jobs end, since enqueue reserves room for the largest result of each.   *)
QueueBounded ==
    /\ Cardinality(Active) <= MaxActive
    /\ \A customer \in Customers :
          Cardinality(ActiveOf(customer)) <= MaxActivePerCustomer
    /\ Cardinality(ReservedBytes) <= MaxStorageBytes

(* An attempt's outcome is settled once: a challenge leaves the issued     *)
(* state to exactly one of verified, failed and abandoned and keeps it,    *)
(* and a published, aborted or abandoned epoch keeps its status and its    *)
(* report bytes.                                                           *)
SettledForever ==
    [][/\ \A c \in ChallengeIds :
            challenges[c].status \in {"verified", "failed", "abandoned"} =>
               challenges'[c] = challenges[c]
       /\ \A e \in EpochIds :
            epochs[e].status \in {"published", "aborted", "abandoned"} =>
               epochs'[e] = epochs[e] /\ reports'[e] = reports[e]]_vars
=============================================================================
