--------------------------- MODULE WorkerRegistry ---------------------------
(***************************************************************************)
(* The enrollment registry (RegistryStore of cathedral/enroll.py) and the  *)
(* worker lifecycle it stores (cathedral/lifecycle.py), with the clients   *)
(* that refresh attestation evidence: standalone probers                   *)
(* (cathedral/prober.py) and the epoch runtime (cathedral/runtime.py).     *)
(*                                                                         *)
(* Every store method is one BEGIN IMMEDIATE transaction, rolled back on   *)
(* an exception, so it is one action and a refused call stutters.  The     *)
(* clients hold no lock while they talk to a worker: they read a target,   *)
(* collect and verify evidence, and commit the verdict later against the   *)
(* (generation, revision) pair they read.                                  *)
(***************************************************************************)
EXTENDS Integers, FiniteSets

CONSTANTS
    Hotkeys, Coldkeys, Endpoints, Chips, Measurements,
    Coldkey,        \* the coldkey of each hotkey
    ChipAt,         \* the chip behind each endpoint
    Probers,        \* probe threads of the standalone prober
    Runtimes,       \* attestation threads of epoch runtimes
    Nonces,         \* nonces a worker signs enrollment requests with
    Governed,       \* whether a service may run under an admission policy
    Operator,       \* the operator commands in use: "retire", "remove", "reenroll"
    TTL,            \* verification_ttl_seconds, in ticks
    RetryDelay,     \* retry_delay_seconds, in ticks
    MaxFailures,    \* refresh failures before a worker is failed
    MaxPerColdkey,  \* max_endpoints_per_coldkey of the admission policy
    MaxTotal,       \* max_total_enrollments of the admission policy
    MaxTime,        \* bound: the wall clock
    MaxGeneration,  \* bound: reenrollments of one worker
    MaxRevision,    \* bound: transitions within one generation
    None            \* SQL NULL, and a row that is not there

Clients == Probers \cup Runtimes

ASSUME RegistryAssumption ==
    /\ TTL \in Nat \ {0} /\ RetryDelay \in Nat /\ MaxFailures \in Nat \ {0}
    /\ MaxTime \in Nat
    /\ MaxGeneration \in Nat \ {0} /\ MaxRevision \in Nat \ {0}
    /\ MaxPerColdkey \in Nat /\ MaxTotal \in Nat
    /\ Coldkey \in [Hotkeys -> Coldkeys]
    /\ ChipAt \in [Endpoints -> Chips]
    /\ Governed \subseteq BOOLEAN
    /\ Operator \subseteq {"retire", "remove", "reenroll"}
    /\ Probers \cap Runtimes = {}
    /\ None \notin Hotkeys \cup Endpoints \cup Chips \cup Measurements \cup Nat

VARIABLES
    wall,           \* the wall clock; it may be set back
    last_seen,      \* worker_lifecycle_clock: the latest time accepted
    enrollments,    \* endpoint of each enrolled hotkey
    nonces,         \* enroll_nonces
    lifecycle,      \* worker_lifecycle_current
    attestations,   \* the verdict row of each hotkey
    allowed,        \* measurements of the active policy
    governed,       \* this service was started with an admission policy
    removing,       \* hotkeys inside remove_enrollment, retired, row not cleared
    refresh         \* what each client has read and found so far

vars == <<wall, last_seen, enrollments, nonces, lifecycle, attestations,
          allowed, governed, removing, refresh>>

settings == <<allowed, governed>>
-----------------------------------------------------------------------------
(* lifecycle.py: the states and the transitions between them.              *)

States == {"pending", "attested", "stale", "failed", "retiring", "retired",
           "revoked"}
Terminal == {"retired", "revoked"}
NetworkEligible == {"pending", "attested", "stale"}
CapacityConsuming == NetworkEligible \cup {"retiring", "revoked"}

AllowedTransitions ==
    [pending  |-> {"pending", "attested", "failed", "retiring", "revoked"},
     attested |-> {"attested", "stale", "failed", "retiring", "revoked"},
     stale    |-> {"stale", "attested", "failed", "retiring", "revoked"},
     failed   |-> {"failed", "retiring", "revoked"},
     retiring |-> {"retiring", "retired", "revoked"},
     retired  |-> {"retired"},
     revoked  |-> {"revoked"}]

Times == 0 .. MaxTime

(* evidence names the endpoint the evidence was collected from: it stands  *)
(* for the evidence digest.  The check that a transition is not earlier    *)
(* than state_changed_at follows from the check against last_seen.         *)
LifecycleRow ==
    [state : States \cup {"absent"},
     generation : 0 .. MaxGeneration,
     revision : 0 .. MaxRevision,
     evidence : Endpoints \cup {None},
     expires_at : (0 .. (MaxTime + TTL)) \cup {None},
     measurement : Measurements \cup {None},
     retry_count : 0 .. MaxFailures,
     next_retry_at : (0 .. (MaxTime + RetryDelay)) \cup {None}]

NoLifecycle ==
    [state |-> "absent", generation |-> 0, revision |-> 0, evidence |-> None,
     expires_at |-> None, measurement |-> None, retry_count |-> 0,
     next_retry_at |-> None]

VerdictRow == [status : {"absent", "VERIFIED", "FAILED"},
               chip : Chips \cup {None},
               at : Times \cup {None}]

NoVerdict == [status |-> "absent", chip |-> None, at |-> None]

(* A refresh in progress: the policy it runs under, the endpoint and the    *)
(* token (generation and revision) it read, and the measurement of the     *)
(* evidence it verified (None when verification refused the evidence).     *)
Phases == {"idle", "started", "listed", "due", "collecting", "collected",
           "unreachable", "cleared"}

Refresh ==
    [phase : Phases,
     hotkey : Hotkeys \cup {None},
     policy : SUBSET Measurements,
     endpoint : Endpoints \cup {None},
     generation : 0 .. MaxGeneration,
     revision : 0 .. MaxRevision,
     measurement : Measurements \cup {None},
     verified_at : Times \cup {None}]

Idle == [phase |-> "idle", hotkey |-> None, policy |-> {}, endpoint |-> None,
         generation |-> 0, revision |-> 0, measurement |-> None,
         verified_at |-> None]

Init ==
    /\ wall = 0
    /\ last_seen = 0
    /\ enrollments = [h \in Hotkeys |-> None]
    /\ nonces = {}
    /\ lifecycle = [h \in Hotkeys |-> NoLifecycle]
    /\ attestations = [h \in Hotkeys |-> NoVerdict]
    /\ allowed = Measurements
    /\ governed \in Governed
    /\ removing = {}
    /\ refresh = [c \in Clients |-> Idle]
-----------------------------------------------------------------------------
(* Time, and the lifecycle transitions every operation is made of.         *)

Tick ==
    /\ wall < MaxTime
    /\ wall' = wall + 1
    /\ UNCHANGED <<last_seen, enrollments, nonces, lifecycle, attestations,
                   settings, removing, refresh>>

(* The host's clock is stepped back.                                       *)
SetBack ==
    /\ wall > 0
    /\ wall' = wall - 1
    /\ UNCHANGED <<last_seen, enrollments, nonces, lifecycle, attestations,
                   settings, removing, refresh>>

AdvanceLifecycleClock ==
    /\ wall >= last_seen
    /\ last_seen' = wall

(* The row after a transition: evidence and the retry count are inherited, *)
(* the retry schedule is not.                                              *)
Transitioned(row, target) ==
    [row EXCEPT !.state = target, !.revision = @ + 1, !.next_retry_at = None]

CanTransition(row, target) ==
    /\ row.state # "absent"
    /\ target \in AllowedTransitions[row.state]
    /\ row.revision < MaxRevision

Expired(row) == row.state = "attested" /\ wall >= row.expires_at

Materialized(row) ==
    IF Expired(row) THEN Transitioned(row, "stale") ELSE row

RoomToMaterialize == \A h \in Hotkeys :
    Expired(lifecycle[h]) => lifecycle[h].revision < MaxRevision

(* Faulty variant: the lifecycle is reset within its generation.           *)
ReenrolledInPlace(row) ==
    [NoLifecycle EXCEPT !.state = "pending",
                        !.generation = IF row.generation = 0 THEN 1
                                       ELSE row.generation,
                        !.revision = 1]

Reenrolled(row) ==
    [NoLifecycle EXCEPT !.state = "pending",
                        !.generation = row.generation + 1,
                        !.revision = 1]
-----------------------------------------------------------------------------
(* Enrollment.                                                             *)

Live(h) == enrollments[h] # None /\ lifecycle[h].state \in CapacityConsuming

(* Faulty variant: a worker that is enrolled is not counted again.         *)
EnforceCapsOnNewWorkers(h, endpoint) ==
    LET others == {k \in Hotkeys \ {h} : Live(k)} IN
    /\ lifecycle[h].state \notin Terminal \cup {"retiring"}
    /\ \A k \in others : enrollments[k] # endpoint
    /\ \/ enrollments[h] # None
       \/ /\ ~ \E k \in others : Coldkey[k] = Coldkey[h]
          /\ Cardinality(others) < MaxTotal

EnforceEnrollmentCaps(h, endpoint) ==
    LET others == {k \in Hotkeys \ {h} : Live(k)}
        held == {enrollments[k] : k \in {k \in others : Coldkey[k] = Coldkey[h]}}
    IN  /\ lifecycle[h].state \notin Terminal \cup {"retiring"}
        /\ \A k \in others : enrollments[k] # endpoint
        /\ endpoint \in held \/ Cardinality(held) < MaxPerColdkey
        /\ Cardinality(others) < MaxTotal

(* Faulty variant: a revocation can be lifted by the worker.               *)
ReenrollableUnlessRetiring(row) == row.state # "retiring"

(* reenroll_lifecycle without operator=True                                *)
Reenrollable(row) == row.state \notin Terminal \cup {"retiring"}

(* A signed request: the first one creates the worker, one that moves the  *)
(* endpoint starts a new generation, one that repeats it changes nothing.  *)
Enroll(h, endpoint, nonce) ==
    /\ <<h, nonce>> \notin nonces
    /\ governed => EnforceEnrollmentCaps(h, endpoint)
    /\ nonces' = nonces \cup {<<h, nonce>>}
    /\ enrollments' = [enrollments EXCEPT ![h] = endpoint]
    /\ \/ /\ enrollments[h] = endpoint
          /\ UNCHANGED <<last_seen, lifecycle, attestations>>
       \/ /\ enrollments[h] = None
          /\ AdvanceLifecycleClock
          /\ lifecycle' = [lifecycle EXCEPT ![h] = Reenrolled(NoLifecycle)]
          /\ UNCHANGED attestations
       \/ /\ enrollments[h] \notin {None, endpoint}
          /\ AdvanceLifecycleClock
          /\ Reenrollable(lifecycle[h])
          /\ lifecycle[h].generation < MaxGeneration
          /\ lifecycle' = [lifecycle EXCEPT ![h] = Reenrolled(@)]
          /\ attestations' = [attestations EXCEPT ![h] = NoVerdict]
    /\ UNCHANGED <<wall, settings, removing, refresh>>
-----------------------------------------------------------------------------
(* Operator commands.                                                      *)

(* cathedral lifecycle reenroll: lifts any state, keeps the verdict row.   *)
OperatorReenroll(h) ==
    /\ "reenroll" \in Operator
    /\ lifecycle[h].state # "absent"
    /\ lifecycle[h].generation < MaxGeneration
    /\ AdvanceLifecycleClock
    /\ lifecycle' = [lifecycle EXCEPT ![h] = Reenrolled(@)]
    /\ UNCHANGED <<wall, enrollments, nonces, attestations, settings, removing,
                   refresh>>

Retiring(row) ==
    IF row.state \in Terminal \cup {"retiring"}
    THEN row ELSE Transitioned(row, "retiring")

Retired(row) ==
    IF row.state \in Terminal
    THEN row ELSE Transitioned(Retiring(row), "retired")

RetireLifecycle(h, row) ==
    /\ lifecycle[h].state # "absent"
    /\ row.revision <= MaxRevision
    /\ AdvanceLifecycleClock
    /\ lifecycle' = [lifecycle EXCEPT ![h] = row]

(* cathedral lifecycle retire [--removed]; the verdict row stays.          *)
Retire(h) ==
    /\ "retire" \in Operator
    /\ \E row \in {Retiring(lifecycle[h]), Retired(lifecycle[h])} :
           RetireLifecycle(h, row)
    /\ UNCHANGED <<wall, enrollments, nonces, attestations, settings, removing,
                   refresh>>

(* Faulty variant: nobody comes back for the verdict row.                  *)
RemoveOnce(h) ==
    /\ "remove" \in Operator
    /\ RetireLifecycle(h, Retired(lifecycle[h]))
    /\ UNCHANGED <<wall, enrollments, nonces, attestations, settings, removing,
                   refresh>>

(* remove_enrollment, as reconcile runs it: retirement commits first ...   *)
Remove(h) ==
    /\ "remove" \in Operator
    /\ RetireLifecycle(h, Retired(lifecycle[h]))
    /\ removing' = removing \cup {h}
    /\ UNCHANGED <<wall, enrollments, nonces, attestations, settings, refresh>>

(* ... and the verdict row is cleared by a second transaction.  When the   *)
(* command stops between the two, this is the next run of reconcile.       *)
ClearVerdict(h) ==
    /\ h \in removing
    /\ removing' = removing \ {h}
    /\ attestations' = [attestations EXCEPT ![h] = NoVerdict]
    /\ UNCHANGED <<wall, last_seen, enrollments, nonces, lifecycle, settings,
                   refresh>>

(* A newer policy registry release drops a measurement; a release lists at *)
(* least one.                                                              *)
DropMeasurement(m) ==
    /\ m \in allowed /\ allowed # {m}
    /\ allowed' = allowed \ {m}
    /\ UNCHANGED <<wall, last_seen, enrollments, nonces, lifecycle,
                   attestations, governed, removing, refresh>>
-----------------------------------------------------------------------------
(* Reads that write: any reader of a worker's lifecycle turns expired      *)
(* evidence into a transition, which also moves the token.                 *)

LifecycleSnapshot(h) ==
    /\ lifecycle[h].state # "absent"
    /\ RoomToMaterialize
    /\ AdvanceLifecycleClock
    /\ lifecycle' = [lifecycle EXCEPT ![h] = Materialized(@)]
    /\ UNCHANGED <<wall, enrollments, nonces, attestations, settings, removing,
                   refresh>>

Due(row) ==
    /\ row.state \in NetworkEligible
    /\ row.next_retry_at # None => row.next_retry_at <= wall
    /\ row.expires_at # None => row.expires_at <= wall + TTL

(* due_refreshes, for the one hotkey the client goes on with.              *)
DueRefreshes(h) ==
    /\ RoomToMaterialize
    /\ AdvanceLifecycleClock
    /\ lifecycle' = [k \in Hotkeys |-> Materialized(lifecycle[k])]
    /\ Due(lifecycle'[h])
-----------------------------------------------------------------------------
(* A prober thread: the due workers and their tokens, then the endpoints.  *)

ProbeDue(c, h) ==
    /\ c \in Probers /\ refresh[c].phase = "idle"
    /\ DueRefreshes(h)
    /\ refresh' = [refresh EXCEPT ![c] =
           [Idle EXCEPT !.phase = "due", !.hotkey = h, !.policy = allowed,
                        !.generation = lifecycle'[h].generation,
                        !.revision = lifecycle'[h].revision]]
    /\ UNCHANGED <<wall, enrollments, nonces, attestations, settings, removing>>

ProbeEndpoint(c) ==
    /\ c \in Probers /\ refresh[c].phase = "due"
    /\ refresh' = [refresh EXCEPT ![c].phase = "collecting",
                                  ![c].endpoint = enrollments[refresh[c].hotkey]]
    /\ UNCHANGED <<wall, last_seen, enrollments, nonces, lifecycle,
                   attestations, settings, removing>>

(* The runtime: it applies its policy to every worker, lists endpoints,    *)
(* then the due workers, runs the canary, and only then reads the token.   *)
ApplyLifecyclePolicy(c, h) ==
    LET refused == {k \in Hotkeys :
            /\ lifecycle[k].state \in NetworkEligible
            /\ lifecycle[k].measurement \notin allowed \cup {None}}
    IN  /\ c \in Runtimes /\ refresh[c].phase = "idle"
        /\ \A k \in refused : lifecycle[k].revision < MaxRevision
        /\ AdvanceLifecycleClock
        /\ lifecycle' = [k \in Hotkeys |->
               IF k \in refused THEN Transitioned(lifecycle[k], "revoked")
                                ELSE lifecycle[k]]
        /\ refresh' = [refresh EXCEPT ![c] =
               [Idle EXCEPT !.phase = "started", !.hotkey = h, !.policy = allowed]]
        /\ UNCHANGED <<wall, enrollments, nonces, attestations, settings, removing>>

ListEnrollment(c) ==
    /\ refresh[c].phase = "started"
    /\ enrollments[refresh[c].hotkey] # None
    /\ refresh' = [refresh EXCEPT ![c].phase = "listed",
                                  ![c].endpoint = enrollments[refresh[c].hotkey]]
    /\ UNCHANGED <<wall, last_seen, enrollments, nonces, lifecycle,
                   attestations, settings, removing>>

ListDue(c) ==
    /\ refresh[c].phase = "listed"
    /\ DueRefreshes(refresh[c].hotkey)
    /\ refresh' = [refresh EXCEPT ![c].phase = "due"]
    /\ UNCHANGED <<wall, enrollments, nonces, attestations, settings, removing>>

ReadToken(c) ==
    LET h == refresh[c].hotkey IN
    /\ c \in Runtimes /\ refresh[c].phase = "due"
    /\ RoomToMaterialize
    /\ AdvanceLifecycleClock
    /\ lifecycle' = [lifecycle EXCEPT ![h] = Materialized(@)]
    /\ refresh' = [refresh EXCEPT
           ![c].phase = IF lifecycle'[h].state \in NetworkEligible
                        THEN "collecting" ELSE "unreachable",
           ![c].generation = lifecycle'[h].generation,
           ![c].revision = lifecycle'[h].revision]
    /\ UNCHANGED <<wall, enrollments, nonces, attestations, settings, removing>>
-----------------------------------------------------------------------------
(* Evidence arrives and is verified under the client's policy, is refused  *)
(* by it, or the worker could not be reached.  The runtime does not tell   *)
(* the last two apart.                                                     *)

Collect(c) ==
    /\ refresh[c].phase = "collecting"
    /\ \/ \E m \in refresh[c].policy :
              refresh' = [refresh EXCEPT ![c].phase = "collected",
                                         ![c].measurement = m,
                                         ![c].verified_at = wall]
       \/ /\ c \in Probers
          /\ refresh' = [refresh EXCEPT ![c].phase = "collected"]
       \/ refresh' = [refresh EXCEPT ![c].phase = "unreachable"]
    /\ UNCHANGED <<wall, last_seen, enrollments, nonces, lifecycle,
                   attestations, settings, removing>>

(* The prober commits only under the policy the pass began with.           *)
RequireCurrentPolicy(c) ==
    /\ c \in Probers /\ refresh[c].phase = "collected"
    /\ refresh' = [refresh EXCEPT ![c].phase =
           IF refresh[c].policy = allowed THEN "cleared" ELSE "unreachable"]
    /\ UNCHANGED <<wall, last_seen, enrollments, nonces, lifecycle,
                   attestations, settings, removing>>

Effective(verdict, when) ==
    verdict.status = "VERIFIED" /\ verdict.at > when - TTL

ChipRotationOwners(chip, h) ==
    {k \in Hotkeys \ {h} : /\ attestations[k].chip = chip
                           /\ Effective(attestations[k], wall)}

(* Faulty variant: only the revision is compared.                          *)
HoldsRevision(c, row) == row.revision = refresh[c].revision

HoldsToken(c, row) ==
    row.generation = refresh[c].generation /\ row.revision = refresh[c].revision

(* The runtime's admission checks; a worker that fails one of them sits    *)
(* out the epoch, and a policy that changed aborts it.                     *)
AdmitUniqueChip(c) ==
    LET h == refresh[c].hotkey
        admitted == /\ HoldsToken(c, lifecycle[h])
                    /\ lifecycle[h].state \in NetworkEligible
                    /\ ChipRotationOwners(ChipAt[refresh[c].endpoint], h) = {}
                    /\ refresh[c].policy = allowed
    IN  /\ c \in Runtimes /\ refresh[c].phase = "collected"
        /\ AdvanceLifecycleClock
        /\ refresh' = [refresh EXCEPT ![c] =
               IF admitted THEN [@ EXCEPT !.phase = "cleared"] ELSE Idle]
        /\ UNCHANGED <<wall, enrollments, nonces, lifecycle, attestations,
                       settings, removing>>
-----------------------------------------------------------------------------
(* Commits.  Each is one transaction that checks the token, and the client *)
(* is done whether or not the store accepts it.                            *)

RecordVerified(c, h, row) ==
    /\ AdvanceLifecycleClock
    /\ HoldsToken(c, row)
    /\ CanTransition(row, "attested")
    /\ refresh[c].verified_at <= wall
    /\ refresh[c].verified_at + TTL > wall
    /\ lifecycle' = [lifecycle EXCEPT ![h] =
           [Transitioned(row, "attested") EXCEPT
               !.evidence = refresh[c].endpoint,
               !.expires_at = refresh[c].verified_at + TTL,
               !.measurement = refresh[c].measurement,
               !.retry_count = 0]]
    /\ attestations' = [attestations EXCEPT ![h] =
           [status |-> "VERIFIED", chip |-> ChipAt[refresh[c].endpoint],
            at |-> wall]]

(* Refused evidence, or evidence for a chip another worker holds.  The     *)
(* verdict of a worker on its way out is recorded without a token check.   *)
RecordFailed(c, h, row) ==
    /\ attestations' = [attestations EXCEPT ![h] =
           [status |-> "FAILED", chip |-> None, at |-> wall]]
    /\ IF row.state \in Terminal \cup {"retiring"}
       THEN UNCHANGED <<last_seen, lifecycle>>
       ELSE /\ AdvanceLifecycleClock
            /\ HoldsToken(c, row)
            /\ CanTransition(row, "failed")
            /\ lifecycle' = [lifecycle EXCEPT ![h] = Transitioned(row, "failed")]

(* Faulty variant: the commit relies on the admission check.               *)
RecordVerdictUnchecked(c) ==
    LET h == refresh[c].hotkey IN
    /\ refresh[c].phase = "cleared"
    /\ IF refresh[c].measurement # None
       THEN RecordVerified(c, h, lifecycle[h])
       ELSE RecordFailed(c, h, lifecycle[h])
    /\ refresh' = [refresh EXCEPT ![c] = Idle]
    /\ UNCHANGED <<wall, enrollments, nonces, settings, removing>>

RecordVerdict(c) ==
    LET h == refresh[c].hotkey
        verified == /\ refresh[c].measurement # None
                    /\ ChipRotationOwners(ChipAt[refresh[c].endpoint], h) = {}
    IN  /\ refresh[c].phase = "cleared"
        /\ IF verified THEN RecordVerified(c, h, lifecycle[h])
                       ELSE RecordFailed(c, h, lifecycle[h])
        /\ refresh' = [refresh EXCEPT ![c] = Idle]
        /\ UNCHANGED <<wall, enrollments, nonces, settings, removing>>

(* Faulty variant: failures are not counted.                               *)
RefreshFailedUncounted(row) ==
    IF row.state \notin NetworkEligible THEN row
    ELSE [Transitioned(row, row.state) EXCEPT !.next_retry_at = wall + RetryDelay]

(* The row after one more failed refresh.                                  *)
RefreshFailed(row) ==
    LET attempt == IF row.retry_count + 1 < MaxFailures
                   THEN row.retry_count + 1 ELSE MaxFailures
        target == IF row.state = "attested" /\ wall < row.expires_at
                  THEN "attested"
                  ELSE IF row.state = "pending" THEN "pending" ELSE "stale"
    IN  IF row.state \notin NetworkEligible THEN row
        ELSE IF attempt = MaxFailures
        THEN [Transitioned(row, "failed") EXCEPT !.retry_count = attempt]
        ELSE [Transitioned(row, target) EXCEPT
                 !.retry_count = attempt,
                 !.next_retry_at = wall + RetryDelay]

(* record_probe_failure: the verdict row goes with the retry.              *)
RecordProbeFailure(c) ==
    LET h == refresh[c].hotkey
        row == RefreshFailed(lifecycle[h])
    IN  /\ c \in Probers /\ refresh[c].phase = "unreachable"
        /\ AdvanceLifecycleClock
        /\ HoldsToken(c, lifecycle[h])
        /\ row.revision <= MaxRevision
        /\ lifecycle' = [lifecycle EXCEPT ![h] = row]
        /\ attestations' = [attestations EXCEPT ![h] =
               [status |-> "FAILED", chip |-> None, at |-> wall]]
        /\ refresh' = [refresh EXCEPT ![c] = Idle]
        /\ UNCHANGED <<wall, enrollments, nonces, settings, removing>>

(* The runtime reads the worker again, which may expire its evidence, and  *)
(* then records the failure against the token it started with.             *)
RecordRefreshFailure(c) ==
    LET h == refresh[c].hotkey
        seen == Materialized(lifecycle[h])
        row == IF HoldsToken(c, seen) THEN RefreshFailed(seen) ELSE seen
    IN  /\ c \in Runtimes /\ refresh[c].phase = "unreachable"
        /\ AdvanceLifecycleClock
        /\ row.revision <= MaxRevision
        /\ lifecycle' = [lifecycle EXCEPT ![h] = row]
        /\ refresh' = [refresh EXCEPT ![c] = Idle]
        /\ UNCHANGED <<wall, enrollments, nonces, attestations, settings, removing>>

(* A GPU of the worker already backs another one.                          *)
RevokeIdentityConflict(c) ==
    LET h == refresh[c].hotkey IN
    /\ refresh[c].phase = IF c \in Probers THEN "collected" ELSE "cleared"
    /\ refresh[c].measurement # None
    /\ AdvanceLifecycleClock
    /\ HoldsToken(c, lifecycle[h])
    /\ CanTransition(lifecycle[h], "revoked")
    /\ lifecycle' = [lifecycle EXCEPT ![h] = Transitioned(@, "revoked")]
    /\ refresh' = [refresh EXCEPT ![c] = Idle]
    /\ UNCHANGED <<wall, enrollments, nonces, attestations, settings, removing>>

(* The store refused the commit, the deadline of the pass passed, the      *)
(* worker was not due, or the process stopped.                             *)
GiveUp(c) ==
    /\ refresh[c].phase # "idle"
    /\ refresh' = [refresh EXCEPT ![c] = Idle]
    /\ UNCHANGED <<wall, last_seen, enrollments, nonces, lifecycle,
                   attestations, settings, removing>>
-----------------------------------------------------------------------------
WorkerStep(h) ==
    \/ \E endpoint \in Endpoints, nonce \in Nonces : Enroll(h, endpoint, nonce)
    \/ OperatorReenroll(h) \/ Retire(h) \/ Remove(h) \/ ClearVerdict(h)
    \/ LifecycleSnapshot(h)

ClientStep(c) ==
    \/ \E h \in Hotkeys : ProbeDue(c, h) \/ ApplyLifecyclePolicy(c, h)
    \/ ProbeEndpoint(c) \/ ListEnrollment(c) \/ ListDue(c) \/ ReadToken(c)
    \/ Collect(c) \/ RequireCurrentPolicy(c) \/ AdmitUniqueChip(c)
    \/ RecordVerdict(c) \/ RecordProbeFailure(c) \/ RecordRefreshFailure(c)
    \/ RevokeIdentityConflict(c) \/ GiveUp(c)

Next ==
    \/ Tick \/ SetBack
    \/ \E m \in Measurements : DropMeasurement(m)
    \/ \E h \in Hotkeys : WorkerStep(h)
    \/ \E c \in Clients : ClientStep(c)

Spec == Init /\ [][Next]_vars
-----------------------------------------------------------------------------
(* Properties.                                                             *)

EvidenceDated(row) ==
    /\ row.expires_at = None <=> row.evidence = None
    /\ row.state = "attested" => row.evidence # None

(* Every row is well formed; a worker has a lifecycle from the moment it   *)
(* is enrolled, and evidence exactly as long as it has an expiry.          *)
TypeOK ==
    /\ wall \in Times /\ last_seen \in Times
    /\ enrollments \in [Hotkeys -> Endpoints \cup {None}]
    /\ nonces \subseteq Hotkeys \X Nonces
    /\ lifecycle \in [Hotkeys -> LifecycleRow]
    /\ attestations \in [Hotkeys -> VerdictRow]
    /\ allowed \subseteq Measurements
    /\ governed \in BOOLEAN
    /\ removing \subseteq Hotkeys
    /\ refresh \in [Clients -> Refresh]
    /\ \A h \in Hotkeys :
           /\ enrollments[h] = None <=> lifecycle[h].state = "absent"
           /\ EvidenceDated(lifecycle[h])

(* At most one worker holds a live binding to a chip, whatever races the   *)
(* check and however the clock is stepped: two verdicts naming one chip    *)
(* are never both within the TTL at the latest time the registry accepted. *)
OneChipOneWorker ==
    \A h, k \in Hotkeys :
        /\ h # k
        /\ attestations[h].chip = attestations[k].chip
        => \/ ~Effective(attestations[h], last_seen)
           \/ ~Effective(attestations[k], last_seen)

(* A worker that moves its endpoint has to be probed afresh: the evidence  *)
(* an attested worker rests on came from the endpoint it is enrolled at.   *)
EvidenceFromCurrentEndpoint ==
    \A h \in Hotkeys : lifecycle[h].state = "attested" =>
        lifecycle[h].evidence = enrollments[h]

(* Failures of two independent clients add up: no worker stays in the      *)
(* refresh set once it has used up its attempts.                           *)
RetriesLeft ==
    \A h \in Hotkeys : lifecycle[h].state \in NetworkEligible =>
        lifecycle[h].retry_count < MaxFailures

(* Under an admission policy the workers that consume capacity stay within *)
(* the total cap and the cap per coldkey, and no two share an endpoint,    *)
(* through failures, removals and moves.                                   *)
CapsHold ==
    LET live == {h \in Hotkeys : Live(h)} IN
    governed =>
        /\ Cardinality(live) <= MaxTotal
        /\ \A h, k \in live : h # k => enrollments[h] # enrollments[k]
        /\ \A h \in live :
               Cardinality({enrollments[k] :
                   k \in {k \in live : Coldkey[k] = Coldkey[h]}}) <= MaxPerColdkey

(* A worker reconcile has removed is off the public board, and no probe    *)
(* that was in flight puts it back.                                        *)
RemovedOffBoard ==
    \A h \in Hotkeys :
        lifecycle[h].state = "retired" /\ h \notin removing =>
            attestations[h].status # "VERIFIED"

(* The compare-and-swap token never repeats: every change of a lifecycle   *)
(* moves (generation, revision) up, so a client can not mistake a changed  *)
(* worker for the one it read.                                             *)
TokenAdvances == [][
    \A h \in Hotkeys : lifecycle'[h] # lifecycle[h] =>
        \/ lifecycle'[h].generation > lifecycle[h].generation
        \/ /\ lifecycle'[h].generation = lifecycle[h].generation
           /\ lifecycle'[h].revision > lifecycle[h].revision
    ]_vars

(* failed, retired and revoked workers do not resume by themselves: a late *)
(* result never restores one, only a new generation does, and a worker an  *)
(* operator or a policy stopped gets one only from an operator.            *)
NoSelfRecovery == [][
    \A h \in Hotkeys :
        /\ lifecycle[h].state \in States \ NetworkEligible
        /\ lifecycle'[h].state \in NetworkEligible
        => /\ lifecycle'[h].generation > lifecycle[h].generation
           /\ lifecycle[h].state # "failed" =>
                  enrollments' = enrollments /\ "reenroll" \in Operator
    ]_vars
-----------------------------------------------------------------------------
(* Liveness.                                                               *)

(* The prober loops: a pass takes up every due worker, and a probe that is *)
(* begun again and again is in the end completed and its result committed. *)
ProbeFairness(c, h) ==
    LET of(step) == step /\ refresh[c].hotkey = h IN
    /\ SF_vars(ProbeDue(c, h))
    /\ SF_vars(of(ProbeEndpoint(c)))
    /\ SF_vars(of(Collect(c)))
    /\ SF_vars(of(RequireCurrentPolicy(c)))
    /\ SF_vars(of(RecordVerdict(c)))
    /\ SF_vars(of(RecordProbeFailure(c)))

Fairness ==
    /\ \A c \in Probers, h \in Hotkeys : ProbeFairness(c, h)
    /\ \A c \in Clients : WF_vars(GiveUp(c))

(* Every enrolled worker gets its verdict: none stays pending for ever,    *)
(* whatever it answers and whoever else is probed.                         *)
Settles ==
    \A h \in Hotkeys :
        lifecycle[h].state = "pending" ~> lifecycle[h].state # "pending"
=============================================================================
