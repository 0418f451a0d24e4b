----------------------------- MODULE KeyRelease -----------------------------
(***************************************************************************)
(* Attestation-gated release of a workload's data key                      *)
(* (cathedral/key_release.py).  A grant ties an assignment to one          *)
(* attestation of its worker.  Redeeming it asks the key broker for a      *)
(* ciphertext, stores it and returns it; before each of the three the      *)
(* service validates the grant against the policies and the registry       *)
(* again.  Calls are threads of services; a service is a process that may  *)
(* stop at any point, and loses its clock's high-water mark when it does.  *)
(* Grants and the registry are durable and shared.                         *)
(*                                                                         *)
(* Every place where the code samples a clock, reads the registry, calls   *)
(* the broker or opens a transaction of its own is a step.  A digest is    *)
(* what it is the digest of: evidence is the lifecycle event that brought  *)
(* it, a policy is its release, a ciphertext the unwrap that made it.      *)
(***************************************************************************)
EXTENDS Integers, FiniteSets

CONSTANTS
    Callers,            \* threads inside issue_grant or redeem
    Services,           \* processes
    ServiceOf,          \* the process of each caller
    Assignments,        \* assignment ids
    Workers,            \* hotkeys
    Keys,               \* application encryption keys
    None,
    AssignmentTTL, GrantTTL, EvidenceTTL, MaxAge, Skew,
    DurableBroker,      \* whether the broker's idempotency cache survives
    MaxTime, MaxEvents, MaxRelease, MaxUnwraps

ASSUME KeyReleaseAssumption ==
    /\ ServiceOf \in [Callers -> Services]
    /\ {AssignmentTTL, GrantTTL, EvidenceTTL, MaxAge} \subseteq Nat \ {0}
    /\ Skew \in Nat
    /\ {MaxTime, MaxEvents, MaxRelease, MaxUnwraps} \subseteq Nat
    /\ DurableBroker \in BOOLEAN
    /\ None \notin Assignments \cup Workers \cup Keys \cup Nat

VARIABLES
    now,            \* the wall clock
    registry_seen,  \* the registry's durable high-water mark of it
    lifecycle,      \* the registry's lifecycle row of a worker
    record,         \* the registry's verified attestation record of a worker
    policy,         \* releases of the attestation and the workload policy
    assignments,    \* assignments the authority has signed
    grants,         \* table key_release_grants
    broker,         \* the broker's cache: grant to ciphertext
    unwraps,        \* ciphertexts the broker has made so far
    last_seen,      \* a service's own high-water mark of the clock
    calls,          \* calls in flight
    released        \* history: the last ciphertext returned, and when

registryVars == <<registry_seen, lifecycle, record>>
brokerVars == <<broker, unwraps>>
vars == <<now, registryVars, policy, assignments, grants, brokerVars,
          last_seen, calls, released>>
-----------------------------------------------------------------------------
Times == 0 .. MaxTime
Events == 0 .. MaxEvents
Releases == 0 .. MaxRelease

LifecycleRow == [state : {"attested", "other"}, event_id : Events,
                 evidence : Events, verified_at : Times, release : Releases]

Policy == [attestation : Releases, workload : Releases]

Assignment == [worker : Workers, workload : Releases,
               issued_at : Times, expires_at : Nat]

GrantRow == [state : {"issued", "redeeming", "redeemed"}, key : Keys,
             event_id : Events, policy : Policy, verified_at : Times,
             issued_at : Times, expires_at : Nat,
             envelope : (1 .. MaxUnwraps) \cup {None}]

(* None is no row and no number.                                            *)
ASSUME NoneAssumption == None \notin GrantRow /\ None \notin Nat

Phases == {"idle", "issue_lifecycle", "issue_record", "create",
           "redeem_lifecycle", "redeem_record", "begin", "broker", "answered",
           "persist_lifecycle", "persist_record", "persist", "check",
           "release_lifecycle", "release_record", "return"}

(* The fields of a call are the locals of its method; fresh is history:    *)
(* whether the grant was current when the release check began.             *)
Idle == [phase |-> "idle", id |-> None, at |-> 0, row |-> None, key |-> None,
         policy |-> None, envelope |-> None, fresh |-> FALSE]

Init ==
    /\ now = 0 /\ registry_seen = 0
    /\ lifecycle = [h \in Workers |->
           [state |-> "other", event_id |-> 0, evidence |-> 0,
            verified_at |-> 0, release |-> 0]]
    /\ record = [h \in Workers |-> None]
    /\ policy = [attestation |-> 0, workload |-> 0]
    /\ assignments = [a \in Assignments |-> None]
    /\ grants = [a \in Assignments |-> None]
    /\ broker = [a \in Assignments |-> None]
    /\ unwraps = 0
    /\ last_seen = [s \in Services |-> 0]
    /\ calls = [c \in Callers |-> Idle]
    /\ released = None
-----------------------------------------------------------------------------
(* The surroundings: clock, policies, registry and assignment authority.   *)

Tick ==
    /\ now < MaxTime
    /\ now' = now + 1
    /\ UNCHANGED <<registryVars, policy, assignments, grants, brokerVars,
                   last_seen, calls, released>>

(* The operator or NTP steps the clock back.                               *)
SetBack ==
    /\ now > 0
    /\ now' = now - 1
    /\ UNCHANGED <<registryVars, policy, assignments, grants, brokerVars,
                   last_seen, calls, released>>

RollPolicy(which) ==
    /\ policy[which] < MaxRelease
    /\ policy' = [policy EXCEPT ![which] = @ + 1]
    /\ UNCHANGED <<now, registryVars, assignments, grants, brokerVars,
                   last_seen, calls, released>>

(* record_verdict: the lifecycle and the record in one transaction, under  *)
(* the registry's own clock and the policy its prober holds, which may     *)
(* not be the newest.                                                      *)
Attest(h, key, release) ==
    /\ release <= policy.attestation
    /\ now >= registry_seen
    /\ lifecycle[h].event_id < MaxEvents
    /\ registry_seen' = now
    /\ LET event == lifecycle[h].event_id + 1 IN
       /\ lifecycle' = [lifecycle EXCEPT ![h] =
              [state |-> "attested", event_id |-> event, evidence |-> event,
               verified_at |-> now, release |-> release]]
       /\ record' = [record EXCEPT ![h] = [evidence |-> event, key |-> key]]
    /\ UNCHANGED <<now, policy, assignments, grants, brokerVars, last_seen,
                   calls, released>>

(* The registry revokes, retires or fails the worker; its verdict goes     *)
(* with an endpoint change or a failed probe and stays otherwise.          *)
Revoke(h, kept) ==
    /\ now >= registry_seen
    /\ lifecycle[h].event_id < MaxEvents
    /\ lifecycle[h].state = "attested"
    /\ registry_seen' = now
    /\ lifecycle' = [lifecycle EXCEPT ![h].state = "other",
                                      ![h].event_id = @ + 1]
    /\ record' = [record EXCEPT ![h] = IF kept THEN @ ELSE None]
    /\ UNCHANGED <<now, policy, assignments, grants, brokerVars, last_seen,
                   calls, released>>

(* WorkloadAssignmentAuthority.issue, for a workload admitted under the    *)
(* workload policy in force.                                               *)
IssueAssignment(a, h) ==
    /\ assignments[a] = None
    /\ assignments' = [assignments EXCEPT ![a] =
           [worker |-> h, workload |-> policy.workload,
            issued_at |-> now, expires_at |-> now + AssignmentTTL]]
    /\ UNCHANGED <<now, registryVars, policy, grants, brokerVars, last_seen,
                   calls, released>>
-----------------------------------------------------------------------------
(* What the service reads and checks.                                      *)

(* KeyReleaseService._now: a sample that does not run behind the last one. *)
Sample(c) ==
    /\ now >= last_seen[ServiceOf[c]]
    /\ last_seen' = [last_seen EXCEPT ![ServiceOf[c]] = now]

(* The call goes on to the next phase, or raises.                          *)
Proceed(c, ok, call) ==
    calls' = [calls EXCEPT ![c] = IF ok THEN call ELSE Idle]

(* WorkloadAssignmentAuthority.verify of a capability it signed.           *)
Verify(a, at) ==
    /\ assignments[a] # None
    /\ assignments[a].issued_at <= at
    /\ at < assignments[a].expires_at

FreshAt(verified_at, at) ==
    /\ verified_at <= at + Skew
    /\ at - verified_at < MaxAge

EligibleAt(row, at) ==
    /\ row.state = "attested"
    /\ at < row.verified_at + EvidenceTTL

(* RegistryStore.lifecycle_snapshot: advances the registry's clock and     *)
(* materializes an expiry before it reads.                                 *)
Snapshot(h) ==
    IF lifecycle[h].state = "attested" /\ now >= lifecycle[h].verified_at + EvidenceTTL
    THEN [lifecycle[h] EXCEPT !.state = "other", !.event_id = @ + 1]
    ELSE lifecycle[h]

ReadLifecycle(h) ==
    /\ now >= registry_seen
    /\ Snapshot(h).event_id <= MaxEvents
    /\ registry_seen' = now
    /\ lifecycle' = [lifecycle EXCEPT ![h] = Snapshot(h)]

(* The policy half of _validate_current.                                   *)
PolicyCurrent(grant) == policy = grant.policy

(* The registry half of _validate_current, on the snapshot it read.        *)
LifecycleCurrent(grant, row, at) ==
    /\ EligibleAt(row, at)
    /\ row.event_id = grant.event_id
    /\ row.evidence = grant.event_id
    /\ row.release = grant.policy.attestation
    /\ FreshAt(row.verified_at, at)

(* The record read after it.                                               *)
RecordCurrent(grant, h) ==
    /\ record[h] # None
    /\ record[h].evidence = grant.event_id
    /\ record[h].key = grant.key
-----------------------------------------------------------------------------
(* issue_grant.                                                            *)

IssueGrant(c, a, key) ==
    /\ calls[c].phase = "idle"
    /\ Sample(c)
    /\ Proceed(c, /\ Verify(a, now)
                  /\ assignments[a].workload = policy.workload,
               [Idle EXCEPT !.phase = "issue_lifecycle", !.id = a, !.at = now,
                            !.key = key, !.policy = policy])
    /\ UNCHANGED <<now, registryVars, policy, assignments, grants, brokerVars,
                   released>>

IssueLifecycle(c) ==
    LET call == calls[c]
        h == assignments[call.id].worker
    IN  /\ call.phase = "issue_lifecycle"
        /\ ReadLifecycle(h)
        /\ Proceed(c, TRUE, [call EXCEPT !.phase = "issue_record",
                                         !.row = Snapshot(h)])
        /\ UNCHANGED <<now, record, policy, assignments, grants, brokerVars,
                       last_seen, released>>

(* The verifier result the caller passes has to be the one on record.      *)
IssueRecord(c) ==
    LET call == calls[c]
        h == assignments[call.id].worker
    IN  /\ call.phase = "issue_record"
        /\ Proceed(c, /\ record[h] # None
                      /\ record[h].evidence = call.row.evidence
                      /\ record[h].key = call.key
                      /\ EligibleAt(call.row, call.at)
                      /\ call.row.release = call.policy.attestation
                      /\ FreshAt(call.row.verified_at, call.at),
                   [call EXCEPT !.phase = "create"])
        /\ UNCHANGED <<now, registryVars, policy, assignments, grants,
                       brokerVars, last_seen, released>>

Least(S) == CHOOSE x \in S : \A y \in S : x <= y

(* A grant lasts no longer than anything it rests on.                      *)
Expiry(call) ==
    Least({call.at + GrantTTL,
           assignments[call.id].expires_at,
           call.row.verified_at + EvidenceTTL,
           call.row.verified_at + MaxAge})

Candidate(call) ==
    [state |-> "issued", key |-> call.key, event_id |-> call.row.event_id,
     policy |-> call.policy, verified_at |-> call.row.verified_at,
     issued_at |-> call.at, expires_at |-> Expiry(call), envelope |-> None]

(* KeyReleaseStore.create_or_get: one grant per assignment.  The same      *)
(* candidate again returns the grant, another one conflicts; neither       *)
(* changes the table.                                                      *)
CreateOrGet(c) ==
    LET call == calls[c]
    IN  /\ call.phase = "create"
        /\ Proceed(c, FALSE, Idle)
        /\ grants' = IF grants[call.id] = None /\ call.at < Expiry(call)
                     THEN [grants EXCEPT ![call.id] = Candidate(call)]
                     ELSE grants
        /\ UNCHANGED <<now, registryVars, policy, assignments, brokerVars,
                       last_seen, released>>
-----------------------------------------------------------------------------
(* redeem.                                                                 *)

(* Assignment, channel key, expiry and policies at the first sample.       *)
Redeem(c, a, key) ==
    /\ calls[c].phase = "idle"
    /\ grants[a] # None
    /\ Sample(c)
    /\ Proceed(c, /\ Verify(a, now)
                  /\ key = grants[a].key
                  /\ now < grants[a].expires_at
                  /\ PolicyCurrent(grants[a]),
               [Idle EXCEPT !.phase = "redeem_lifecycle", !.id = a, !.at = now])
    /\ UNCHANGED <<now, registryVars, policy, assignments, grants, brokerVars,
                   released>>

(* The registry reads of _validate_current, the same at its three places.  *)
ValidateLifecycle(c, phase, next) ==
    LET call == calls[c]
        h == assignments[call.id].worker
    IN  /\ call.phase = phase
        /\ ReadLifecycle(h)
        /\ Proceed(c, LifecycleCurrent(grants[call.id], Snapshot(h), call.at),
                   [call EXCEPT !.phase = next])
        /\ UNCHANGED <<now, record, policy, assignments, grants, brokerVars,
                       last_seen, released>>

ValidateRecord(c, phase, next) ==
    LET call == calls[c]
        h == assignments[call.id].worker
    IN  /\ call.phase = phase
        /\ Proceed(c, RecordCurrent(grants[call.id], h),
                   [call EXCEPT !.phase = next])
        /\ UNCHANGED <<now, registryVars, policy, assignments, grants,
                       brokerVars, last_seen, released>>

Validate(c) ==
    \/ ValidateLifecycle(c, "redeem_lifecycle", "redeem_record")
    \/ ValidateRecord(c, "redeem_record", "begin")
    \/ ValidateLifecycle(c, "persist_lifecycle", "persist_record")
    \/ ValidateRecord(c, "persist_record", "persist")
    \/ ValidateLifecycle(c, "release_lifecycle", "release_record")
    \/ ValidateRecord(c, "release_record", "return")

(* Faulty variant: the redemption is not recorded before the broker call.  *)
BeginRedemptionUnrecorded(c) ==
    LET call == calls[c]
        grant == grants[call.id]
    IN  /\ call.phase = "begin"
        /\ Proceed(c, call.at < grant.expires_at,
                   [call EXCEPT
                      !.phase = IF grant.state = "redeemed" THEN "check"
                                                            ELSE "broker",
                      !.envelope = grant.envelope])
        /\ UNCHANGED <<now, registryVars, policy, assignments, grants,
                       brokerVars, last_seen, released>>

(* KeyReleaseStore.begin_redemption.                                       *)
BeginRedemption(c) ==
    LET call == calls[c]
        grant == grants[call.id]
        valid == call.at < grant.expires_at
    IN  /\ call.phase = "begin"
        /\ Proceed(c, valid,
                   [call EXCEPT
                      !.phase = IF grant.state = "redeemed" THEN "check"
                                                            ELSE "broker",
                      !.envelope = grant.envelope])
        /\ grants' = IF valid /\ grant.state = "issued"
                     THEN [grants EXCEPT ![call.id].state = "redeeming"]
                     ELSE grants
        /\ UNCHANGED <<now, registryVars, policy, assignments, brokerVars,
                       last_seen, released>>

(* KeyBroker.redeem: the ciphertext of this grant, or a new one.           *)
BrokerRedeem(c) ==
    LET call == calls[c]
        cached == broker[call.id] # None
        envelope == IF cached THEN broker[call.id] ELSE unwraps + 1
    IN  /\ call.phase = "broker"
        /\ envelope <= MaxUnwraps
        /\ Proceed(c, TRUE, [call EXCEPT !.phase = "answered",
                                         !.envelope = envelope])
        /\ broker' = [broker EXCEPT ![call.id] = envelope]
        /\ unwraps' = IF cached THEN unwraps ELSE unwraps + 1
        /\ UNCHANGED <<now, registryVars, policy, assignments, grants,
                       last_seen, released>>

(* A broker without durable idempotency restarts.                          *)
BrokerForgets ==
    /\ ~DurableBroker
    /\ broker' = [a \in Assignments |-> None]
    /\ UNCHANGED <<now, registryVars, policy, assignments, grants, unwraps,
                   last_seen, calls, released>>

AfterBroker(c) ==
    LET call == calls[c]
    IN  /\ call.phase = "answered"
        /\ Sample(c)
        /\ Proceed(c, /\ now < grants[call.id].expires_at
                      /\ PolicyCurrent(grants[call.id]),
                   [call EXCEPT !.phase = "persist_lifecycle", !.at = now])
        /\ UNCHANGED <<now, registryVars, policy, assignments, grants,
                       brokerVars, released>>

(* Faulty variant: the last ciphertext wins.                               *)
PersistRedemptionAlways(c) ==
    LET call == calls[c]
        valid == call.at < grants[call.id].expires_at
    IN  /\ call.phase = "persist"
        /\ Proceed(c, valid, [call EXCEPT !.phase = "check"])
        /\ grants' = IF valid
                     THEN [grants EXCEPT ![call.id].state = "redeemed",
                                         ![call.id].envelope = call.envelope]
                     ELSE grants
        /\ UNCHANGED <<now, registryVars, policy, assignments, brokerVars,
                       last_seen, released>>

(* KeyReleaseStore.persist_redemption: the first ciphertext is stored, a   *)
(* different one conflicts.                                                *)
PersistRedemption(c) ==
    LET call == calls[c]
        grant == grants[call.id]
        valid == call.at < grant.expires_at
    IN  /\ call.phase = "persist"
        /\ Proceed(c, /\ valid
                      /\ grant.state = "redeemed" => grant.envelope = call.envelope
                      /\ grant.state # "issued",
                   [call EXCEPT !.phase = "check"])
        /\ grants' = IF valid /\ grant.state = "redeeming"
                     THEN [grants EXCEPT ![call.id].state = "redeemed",
                                         ![call.id].envelope = call.envelope]
                     ELSE grants
        /\ UNCHANGED <<now, registryVars, policy, assignments, brokerVars,
                       last_seen, released>>

(* Whether the grant's worker and policies are still what it was issued    *)
(* for: history only.                                                      *)
StillCurrent(a) ==
    /\ policy = grants[a].policy
    /\ lifecycle[assignments[a].worker].event_id = grants[a].event_id

(* Faulty variant: the release check looks at the clock only.              *)
CheckReleaseClock(c) ==
    LET call == calls[c]
    IN  /\ call.phase = "check"
        /\ Sample(c)
        /\ Proceed(c, /\ now < grants[call.id].expires_at
                      /\ Verify(call.id, now),
                   [call EXCEPT !.phase = "return", !.at = now,
                                !.fresh = StillCurrent(call.id)])
        /\ UNCHANGED <<now, registryVars, policy, assignments, grants,
                       brokerVars, released>>

(* The start of _validate_release_point.                                   *)
CheckRelease(c) ==
    LET call == calls[c]
    IN  /\ call.phase = "check"
        /\ Sample(c)
        /\ Proceed(c, /\ now < grants[call.id].expires_at
                      /\ Verify(call.id, now)
                      /\ PolicyCurrent(grants[call.id]),
                   [call EXCEPT !.phase = "release_lifecycle", !.at = now,
                                !.fresh = StillCurrent(call.id)])
        /\ UNCHANGED <<now, registryVars, policy, assignments, grants,
                       brokerVars, released>>

(* Its second sample, after the reads; then the ciphertext is returned.    *)
Return(c) ==
    LET call == calls[c]
        ok == now < grants[call.id].expires_at /\ Verify(call.id, now)
    IN  /\ call.phase = "return"
        /\ Sample(c)
        /\ calls' = [calls EXCEPT ![c] = Idle]
        /\ released' = IF ok
              THEN [id |-> call.id, envelope |-> call.envelope,
                    at |-> now, fresh |-> call.fresh]
              ELSE released
        /\ UNCHANGED <<now, registryVars, policy, assignments, grants,
                       brokerVars>>

(* A sample behind the last one, a registry that refuses or is not         *)
(* reachable, a broker that fails or whose answer is lost.                 *)
Raise(c) ==
    /\ calls[c].phase # "idle"
    /\ calls' = [calls EXCEPT ![c] = Idle]
    /\ UNCHANGED <<now, registryVars, policy, assignments, grants, brokerVars,
                   last_seen, released>>

(* A process stops and starts again: its calls and its clock's memory go.  *)
Restart(s) ==
    /\ last_seen' = [last_seen EXCEPT ![s] = 0]
    /\ calls' = [c \in Callers |-> IF ServiceOf[c] = s THEN Idle ELSE calls[c]]
    /\ UNCHANGED <<now, registryVars, policy, assignments, grants, brokerVars,
                   released>>
-----------------------------------------------------------------------------
Environment ==
    \/ Tick \/ SetBack \/ BrokerForgets
    \/ \E which \in {"attestation", "workload"} : RollPolicy(which)
    \/ \E h \in Workers, key \in Keys, release \in Releases : Attest(h, key, release)
    \/ \E h \in Workers, kept \in BOOLEAN : Revoke(h, kept)
    \/ \E a \in Assignments, h \in Workers : IssueAssignment(a, h)
    \/ \E s \in Services : Restart(s)

CallStep(c) ==
    \/ \E a \in Assignments, key \in Keys : IssueGrant(c, a, key) \/ Redeem(c, a, key)
    \/ IssueLifecycle(c) \/ IssueRecord(c) \/ CreateOrGet(c)
    \/ Validate(c) \/ BeginRedemption(c) \/ BrokerRedeem(c) \/ AfterBroker(c)
    \/ PersistRedemption(c) \/ CheckRelease(c) \/ Return(c) \/ Raise(c)

Next == Environment \/ \E c \in Callers : CallStep(c)

Spec == Init /\ [][Next]_vars
-----------------------------------------------------------------------------
(* Properties.                                                             *)

(* Every row is well formed; a grant holds a ciphertext exactly when it is *)
(* redeemed.                                                               *)
TypeOK ==
    /\ now \in Times /\ registry_seen \in Times
    /\ lifecycle \in [Workers -> LifecycleRow]
    /\ record \in [Workers -> [evidence : Events, key : Keys] \cup {None}]
    /\ policy \in Policy
    /\ assignments \in [Assignments -> Assignment \cup {None}]
    /\ grants \in [Assignments -> GrantRow \cup {None}]
    /\ broker \in [Assignments -> (1 .. MaxUnwraps) \cup {None}]
    /\ unwraps \in 0 .. MaxUnwraps
    /\ last_seen \in [Services -> Times]
    /\ \A c \in Callers : calls[c].phase \in Phases
    /\ \A a \in Assignments : grants[a] # None =>
           (grants[a].state = "redeemed" <=> grants[a].envelope # None)

(* Whatever races, crashes and broker restarts happen, the ciphertext      *)
(* redeem returned last is the one the store holds: the stored one never   *)
(* changes once it went out, and all callers of a grant got the same bytes.*)
OneCiphertext ==
    released # None => released.envelope = grants[released.id].envelope

(* What redeem returns is current: the worker and the policies had not     *)
(* moved on before the release check began, so a revocation stops every    *)
(* later release and reissue, even of a ciphertext stored long before; and *)
(* at that moment the assignment is in its window, the grant has not       *)
(* expired, and the evidence behind it has neither expired nor aged out,   *)
(* however slow the checks were.                                           *)
CurrentAtRelease ==
    released # None =>
        LET grant == grants[released.id] IN
        /\ released.fresh
        /\ Verify(released.id, released.at)
        /\ released.at < grant.expires_at
        /\ released.at - grant.verified_at < MaxAge
        /\ released.at < grant.verified_at + EvidenceTTL

(* Every row is well formed, and the broker never unwraps a key for a      *)
(* redemption that is not on record: the redeeming state is stored before  *)
(* the call.                                                               *)
RecordedBeforeUnwrap ==
    /\ TypeOK
    /\ \A a \in Assignments : broker[a] # None =>
           grants[a] # None /\ grants[a].state # "issued"
    /\ \A c \in Callers : calls[c].phase \in {"answered", "persist"} =>
           grants[calls[c].id].state # "issued"
=============================================================================
