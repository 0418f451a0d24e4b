------------------------- MODULE EnrollmentService -------------------------
(***************************************************************************)
(* The enrollment service (RegistryApp of cathedral/enroll.py) in front of *)
(* the registry store, with the admission policy it loads for every        *)
(* request (cathedral/admission_policy.py) and the registration snapshot   *)
(* it takes ownership from.                                                *)
(*                                                                         *)
(* A service process answers one request at a time (wsgiref), and several  *)
(* may share the registry's database.  Each keeps the highest policy       *)
(* version it accepted in memory and in a state file of its own.  Policy   *)
(* and snapshot are files that the operator rotates in place; either may   *)
(* be an old copy put back.  A signed request may be delivered any number  *)
(* of times, at any time, to any process.                                  *)
(***************************************************************************)
EXTENDS WorkerRegistry, Sequences

CONSTANTS
    Services,       \* processes of the enrollment service
    Versions,       \* config_version of the policies ever signed
    ApprovedBy,     \* the coldkeys each of them admits
    Snapshots,      \* registration snapshots: block, and hotkeys registered
    Requests,       \* the requests workers sign
    AttemptLimit,   \* hotkey_enroll_limit
    Window,         \* hotkey_enroll_window_seconds, in ticks
    Damaged,        \* MAX_SQLITE_INTEGER: what an unreadable state file counts as
    MaxRestarts     \* bound: restarts of the services

ASSUME ServiceAssumption ==
    /\ IsFiniteSet(Services) /\ Services # {}
    /\ Versions \subseteq Nat \ {0}
    /\ Damaged \in Nat /\ \A v \in Versions : v < Damaged
    /\ ApprovedBy \in [Versions -> SUBSET Coldkeys]
    /\ Snapshots \subseteq [block : Nat \ {0}, hotkeys : SUBSET Hotkeys]
    /\ Requests \subseteq [hotkey : Hotkeys, endpoint : Endpoints, nonce : Nonces]
    /\ AttemptLimit \in Nat /\ Window \in Nat /\ MaxRestarts \in Nat
    /\ None \notin Snapshots \cup Requests

VARIABLES
    policy,         \* config_version of the policy file
    snapshot,       \* the registration snapshot file
    state_file,     \* the highest version on disk; Damaged if it cannot be read
    highest,        \* _highest_config_version of each process
    high_water,     \* registration_snapshot_high_water
    completed,      \* the requests whose digests are in enroll_nonces
    attempts,       \* hotkey_enroll_attempts: the times of each hotkey's attempts
    calls,          \* the request each process is answering
    restarts,
    used,           \* history: the newest version each process decided by
    overcharged     \* history: attempts charged for a completed request, of a
                    \* worker still enrolled where the request says

service == <<policy, snapshot, state_file, highest, high_water, completed,
             attempts, calls, restarts, used, overcharged>>

Marks == Versions \cup {0, Damaged}

CallPhases == {"idle", "received", "new", "charged", "registered", "admitted"}

Call == [phase : CallPhases, request : Requests \cup {None},
         version : Versions \cup {0}, basis : Snapshots \cup {None}]

NoCall == [phase |-> "idle", request |-> None, version |-> 0, basis |-> None]

ServiceStart ==
    /\ policy \in Versions /\ snapshot \in Snapshots
    /\ state_file = [s \in Services |-> 0]
    /\ highest = [s \in Services |-> 0]
    /\ high_water = None
    /\ completed = {}
    /\ attempts = [h \in Hotkeys |-> << >>]
    /\ calls = [s \in Services |-> NoCall]
    /\ restarts = 0
    /\ used = [s \in Services |-> 0]
    /\ overcharged = [r \in Requests |-> 0]

ServiceInit == Init /\ governed /\ ServiceStart
-----------------------------------------------------------------------------
(* What the operator does to the files, and what befalls the processes.    *)

RotatePolicy(v) ==
    /\ policy' = v
    /\ UNCHANGED <<vars, snapshot, state_file, highest, high_water, completed,
                   attempts, calls, restarts, used, overcharged>>

RotateSnapshot(x) ==
    /\ snapshot' = x
    /\ UNCHANGED <<vars, policy, state_file, highest, high_water, completed,
                   attempts, calls, restarts, used, overcharged>>

(* Faulty variant: the mark is kept in memory only.                        *)
RestartForgetting(s) ==
    /\ restarts < MaxRestarts
    /\ restarts' = restarts + 1
    /\ calls' = [calls EXCEPT ![s] = NoCall]
    /\ highest' = [highest EXCEPT ![s] = 0]
    /\ UNCHANGED <<vars, policy, snapshot, state_file, high_water, completed,
                   attempts, used, overcharged>>

(* The process stops, whatever it was doing, and starts again: it reads    *)
(* its state file (_load_high_water).                                      *)
Restart(s) ==
    /\ restarts < MaxRestarts
    /\ restarts' = restarts + 1
    /\ calls' = [calls EXCEPT ![s] = NoCall]
    /\ highest' = [highest EXCEPT ![s] = state_file[s]]
    /\ UNCHANGED <<vars, policy, snapshot, state_file, high_water, completed,
                   attempts, used, overcharged>>

(* The state file is damaged on disk.                                      *)
DamageStateFile(s) ==
    /\ state_file' = [state_file EXCEPT ![s] = Damaged]
    /\ UNCHANGED <<vars, policy, snapshot, highest, high_water, completed,
                   attempts, calls, restarts, used, overcharged>>
-----------------------------------------------------------------------------
(* A request.                                                              *)

(* load: a version below the mark is refused, one above it is written to   *)
(* the state file before it counts.                                        *)
Receive(s, r) ==
    /\ calls[s] = NoCall
    /\ policy >= highest[s]
    /\ highest' = [highest EXCEPT ![s] = policy]
    /\ state_file' = IF policy > highest[s]
                     THEN [state_file EXCEPT ![s] = policy] ELSE state_file
    /\ used' = [used EXCEPT ![s] = IF policy > @ THEN policy ELSE @]
    /\ calls' = [calls EXCEPT ![s] =
           [NoCall EXCEPT !.phase = "received", !.request = r, !.version = policy]]
    /\ UNCHANGED <<vars, policy, snapshot, high_water, completed, attempts,
                   restarts, overcharged>>

(* The state file could not be written, or it was replaced and only then   *)
(* did a call fail: the request is refused and the mark in memory stays.   *)
PersistFails(s) ==
    /\ calls[s] = NoCall
    /\ policy > highest[s]
    /\ state_file' = [state_file EXCEPT ![s] = policy]
    /\ UNCHANGED <<vars, policy, snapshot, highest, high_water, completed,
                   attempts, calls, restarts, used, overcharged>>

Goto(s, phase) == calls' = [calls EXCEPT ![s].phase = phase]

Answered(s) == calls' = [calls EXCEPT ![s] = NoCall]

(* Faulty variant: completed requests are not told from new ones.          *)
IsCompletedIgnored(s) ==
    /\ calls[s].phase = "received"
    /\ Goto(s, "new")
    /\ UNCHANGED <<vars, policy, snapshot, state_file, highest, high_water,
                   completed, attempts, restarts, used, overcharged>>

(* A retransmission of a completed request is refused and not charged.     *)
IsCompletedEnrollment(s) ==
    /\ calls[s].phase = "received"
    /\ IF calls[s].request \in completed
       THEN Answered(s) ELSE Goto(s, "new")
    /\ UNCHANGED <<vars, policy, snapshot, state_file, highest, high_water,
                   completed, attempts, restarts, used, overcharged>>

(* check_and_record_hotkey_attempt: one transaction, which forgets the     *)
(* attempts that have left the window.                                     *)
CheckAndRecordHotkeyAttempt(s) ==
    LET r == calls[s].request
        kept == SelectSeq(attempts[r.hotkey], LAMBDA t : t >= wall - Window)
        allow == Len(kept) < AttemptLimit
    IN  /\ calls[s].phase = "new"
        /\ attempts' = [attempts EXCEPT ![r.hotkey] =
               IF allow THEN Append(kept, wall) ELSE kept]
        /\ IF allow THEN Goto(s, "charged") ELSE Answered(s)
        /\ overcharged' = [overcharged EXCEPT ![r] =
               IF /\ allow /\ r \in completed
                  /\ enrollments[r.hotkey] = r.endpoint
               THEN @ + 1 ELSE @]
        /\ UNCHANGED <<vars, policy, snapshot, state_file, highest, high_water,
                       completed, restarts, used>>
-----------------------------------------------------------------------------
(* The registration snapshot, read for each of the two questions.          *)

(* check_registration_snapshot_block: no earlier block, and no other       *)
(* mapping at the same block.                                              *)
SnapshotCurrent(x) ==
    high_water # None => x.block > high_water.block \/ x = high_water

(* load_snapshot(advance_high_water=True), in one transaction with what    *)
(* the mark says.                                                          *)
LoadSnapshot ==
    /\ SnapshotCurrent(snapshot)
    /\ high_water' = snapshot

IsRegistered(s) ==
    /\ calls[s].phase = "charged"
    /\ LoadSnapshot
    /\ IF calls[s].request.hotkey \in snapshot.hotkeys
       THEN Goto(s, "registered") ELSE Answered(s)
    /\ UNCHANGED <<vars, policy, snapshot, state_file, highest, completed,
                   attempts, restarts, used, overcharged>>

(* _resolve_coldkey and admits_coldkey: the owner is taken from the        *)
(* snapshot as it is now, the decision from the policy loaded before.      *)
ResolveColdkey(s) ==
    LET h == calls[s].request.hotkey IN
    /\ calls[s].phase = "registered"
    /\ LoadSnapshot
    /\ IF h \in snapshot.hotkeys /\ Coldkey[h] \in ApprovedBy[calls[s].version]
       THEN calls' = [calls EXCEPT ![s].phase = "admitted", ![s].basis = snapshot]
       ELSE Answered(s)
    /\ UNCHANGED <<vars, policy, snapshot, state_file, highest, completed,
                   attempts, restarts, used, overcharged>>

(* store.enroll, whose transaction stores the request's digest with its    *)
(* nonce.  The answer may be lost.                                         *)
Admit(s) ==
    LET r == calls[s].request IN
    /\ calls[s].phase = "admitted"
    /\ Enroll(r.hotkey, r.endpoint, r.nonce)
    /\ completed' = completed \cup {r}
    /\ Answered(s)
    /\ UNCHANGED <<policy, snapshot, state_file, highest, high_water, attempts,
                   restarts, used, overcharged>>

(* Any other end: the snapshot is not acceptable, the store refuses the    *)
(* nonce, a cap or the worker's state, or the database stays busy.         *)
Reject(s) ==
    /\ calls[s].phase # "idle"
    /\ Answered(s)
    /\ UNCHANGED <<vars, policy, snapshot, state_file, highest, high_water,
                   completed, attempts, restarts, used, overcharged>>

(* The operator's reconcile command advances the same mark; the removals   *)
(* that follow are the registry's.                                         *)
Reconcile ==
    /\ LoadSnapshot
    /\ UNCHANGED <<vars, policy, snapshot, state_file, highest, completed,
                   attempts, calls, restarts, used, overcharged>>
-----------------------------------------------------------------------------
ServiceStep(s) ==
    \/ \E r \in Requests : Receive(s, r)
    \/ PersistFails(s) \/ IsCompletedEnrollment(s)
    \/ CheckAndRecordHotkeyAttempt(s) \/ IsRegistered(s) \/ ResolveColdkey(s)
    \/ Admit(s) \/ Reject(s) \/ Restart(s) \/ DamageStateFile(s)

OperatorStep ==
    \/ \E v \in Versions : RotatePolicy(v)
    \/ \E x \in Snapshots : RotateSnapshot(x)
    \/ Reconcile

(* The registry's own steps, enrollment apart.                             *)
RegistryStep ==
    /\ \/ Tick \/ SetBack
       \/ \E m \in Measurements : DropMeasurement(m)
       \/ \E h \in Hotkeys :
              \/ OperatorReenroll(h) \/ Retire(h) \/ Remove(h) \/ ClearVerdict(h)
              \/ LifecycleSnapshot(h)
       \/ \E c \in Clients : ClientStep(c)
    /\ UNCHANGED service

ServiceNext == RegistryStep \/ OperatorStep \/ \E s \in Services : ServiceStep(s)

ServiceSpec == ServiceInit /\ [][ServiceNext]_<<vars, service>>
-----------------------------------------------------------------------------
(* Properties.                                                             *)

(* The variables have their types, and the marks are in order: a process   *)
(* has on disk what it goes by, and goes by what it has decided by.        *)
ServiceTypeOK ==
    /\ policy \in Versions /\ snapshot \in Snapshots
    /\ state_file \in [Services -> Marks] /\ highest \in [Services -> Marks]
    /\ high_water \in Snapshots \cup {None}
    /\ completed \subseteq Requests
    /\ attempts \in [Hotkeys -> Seq(Times)]
    /\ calls \in [Services -> Call]
    /\ restarts \in 0 .. MaxRestarts
    /\ used \in [Services -> Versions \cup {0}]
    /\ overcharged \in [Requests -> Nat]
    /\ \A s \in Services : used[s] <= highest[s] /\ highest[s] <= state_file[s]

(* A worker is admitted by the newest policy its service has ever decided  *)
(* by, through restarts, failed writes and old copies of the file put back *)
(* (SignedAdmissionPolicyProvider.load), and as registered by a snapshot   *)
(* that was the newest relied on, by whichever process: at the block of    *)
(* the mark there is no other (check_registration_snapshot_block).         *)
AdmittedByNewest ==
    \A s \in Services : calls[s].phase = "admitted" =>
        LET h == calls[s].request.hotkey IN
        /\ calls[s].version = used[s]
        /\ Coldkey[h] \in ApprovedBy[used[s]]
        /\ h \in calls[s].basis.hotkeys
        /\ calls[s].basis = high_water \/ calls[s].basis.block < high_water.block

(* Lost answers do not use up a worker's budget: however often a completed *)
(* request for the worker's present endpoint is sent again, it is charged  *)
(* at most once by each process that had it in hand when another completed *)
(* it (is_completed_enrollment).                                           *)
LostAnswersCheap ==
    \A r \in Requests : overcharged[r] < Cardinality(Services)
=============================================================================
