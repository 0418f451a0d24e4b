----------------------------- MODULE GpuIdentity -----------------------------
(***************************************************************************)
(* The GPU identity registry (GpuIdentityRegistry in cathedral/gpu.py) and *)
(* the admissions that use it (prober.py and runtime.py): a pending claim  *)
(* on a worker's GPUs, the worker's verdict, then the committed claim; and *)
(* the reservation of a canary's GPUs for an epoch.                        *)
(*                                                                         *)
(* Every write of the registry commits in SQLite and then advances a       *)
(* generation anchor in a file of two slots.  A lock on that file is held  *)
(* over both, so one process at a time is between them; it may stop there, *)
(* before or in the middle of writing a slot.  Of the worker registry the  *)
(* model keeps what an admission needs: whether the lifecycle has moved,   *)
(* and the GPUs of the verdict in force.                                   *)
(***************************************************************************)
EXTENDS Integers, FiniteSets

CONSTANTS
    Hotkeys,        \* workers
    Canary,         \* the canary's hotkey
    Gpus,           \* GPU identities
    Processes,      \* probers and runtimes, one admission each at a time
    None,
    MaxGeneration   \* bound on the registry's generation

ASSUME GpuAssumption ==
    /\ MaxGeneration \in Nat \ {0}
    /\ Canary \notin Hotkeys
    /\ None \notin Hotkeys \cup {Canary} \cup Processes \cup Nat

VARIABLES
    claims,     \* table gpu_identity_claims_v3
    generation, \* database_generation
    slots,      \* the anchor's two slots
    writer,     \* the process between its SQLite commit and the anchor
    recovered,  \* the claim tokens in gpu_identity_recovery_events_v1
    running,    \* processes that have the registry open
    calls,      \* admissions and reservations under way
    workers     \* the worker registry: retirement and verdict

registryVars == <<claims, generation, slots, writer, recovered>>
vars == <<registryVars, running, calls, workers>>
-----------------------------------------------------------------------------
Generations == 0 .. MaxGeneration

ClaimRow == [hotkey : Hotkeys \cup {Canary}, token : Generations \cup {None},
             kind : {"worker", "canary"}]

(* A GPU without a claim is not one with a claim.                          *)
ASSUME NoClaimAssumption == None \notin ClaimRow

(* The verdict in force names the GPUs it was given for.                   *)
WorkerRow == [retired : BOOLEAN, gpus : SUBSET Gpus]

Phases == {"idle", "probing", "claimed", "recorded", "rejected", "reserved"}

(* A slot never written, or whose writing was cut off.                     *)
Unreadable == -1

(* A claim's token is the generation that inserted it: unique, like the    *)
(* random one of the code.  A lifecycle token never recurs, so all a call  *)
(* needs of the one it read is whether it is still the current one.        *)
Idle == [phase |-> "idle", hotkey |-> None, gpus |-> {}, token |-> None,
         current |-> FALSE]

Init ==
    /\ claims = [g \in Gpus |-> None]
    /\ generation = 0
    /\ slots = [i \in {0, 1} |-> IF i = 0 THEN 0 ELSE Unreadable]
    /\ writer = None
    /\ recovered = {}
    /\ running = Processes
    /\ calls = [p \in Processes |-> Idle]
    /\ workers = [h \in Hotkeys |-> [retired |-> FALSE, gpus |-> {}]]
-----------------------------------------------------------------------------
(* The anchor.                                                             *)

SlotOf(n) == n % 2

(* A slot counts only if it holds a generation that belongs there.         *)
Valid == {n \in Generations : slots[n % 2] = n}

(* _read_generation_anchor: refuses when no slot is valid, or two that do  *)
(* not follow each other.                                                  *)
Readable ==
    /\ Valid # {}
    /\ \A m, n \in Valid : m - n \in {-1, 0, 1}

Anchor == CHOOSE n \in Valid : \A m \in Valid : m <= n

(* _verify_authenticated_state: the database is at the anchor or one ahead.*)
Authenticated == Readable /\ generation \in {Anchor, Anchor + 1}

(* Its reconciliation: the anchor catches up with the database.            *)
Reconciled == [slots EXCEPT ![SlotOf(generation)] = generation]

(* Faulty variant: a database ahead of the anchor is not reconciled.       *)
WriteUnreconciled(p, rows) ==
    /\ writer = None
    /\ Authenticated
    /\ generation < MaxGeneration
    /\ generation' = generation + 1
    /\ claims' = rows
    /\ writer' = p
    /\ UNCHANGED slots

(* The transaction of process p: authenticate, reconcile, write.           *)
Write(p, rows) ==
    /\ writer = None
    /\ Authenticated
    /\ generation < MaxGeneration
    /\ slots' = Reconciled
    /\ generation' = generation + 1
    /\ claims' = rows
    /\ writer' = p

Commit(p, rows) == p \in running /\ Write(p, rows) /\ UNCHANGED recovered

(* A transaction that raises before it writes: only reconciled.            *)
Reconcile(p) ==
    /\ p \in running /\ writer = None /\ Authenticated
    /\ slots' = Reconciled
    /\ UNCHANGED <<claims, generation, writer, recovered, running>>

(* The call that made it ends.                                             *)
Refuse(p) ==
    /\ Reconcile(p)
    /\ calls' = [calls EXCEPT ![p] = Idle]
    /\ UNCHANGED workers

(* _append_generation_anchor, and the lock is released.                    *)
AppendAnchor(p) ==
    /\ writer = p
    /\ slots' = Reconciled
    /\ writer' = None
    /\ UNCHANGED <<claims, generation, recovered, running, calls, workers>>
-----------------------------------------------------------------------------
(* Admission of a worker.                                                  *)

(* A step of h's lifecycle, which advances its token: what the calls under *)
(* way have read of it is stale.                                           *)
Moved(h) ==
    [p \in Processes |-> [calls[p] EXCEPT !.current = @ /\ calls[p].hotkey # h]]

(* A lifecycle that ends: revoked or retired.                              *)
Retired == [retired |-> TRUE, gpus |-> {}]

Pending(g) == claims[g] # None /\ claims[g].token # None

Free(g) == claims[g] = None
Settled(g, h) == ~Free(g) /\ claims[g] = [hotkey |-> h, token |-> None, kind |-> "worker"]

(* A probe of a due worker: its lifecycle token is read here, its evidence *)
(* names the GPUs.                                                         *)
Probe(p, h, gpus) ==
    /\ p \in running
    /\ calls[p].phase = "idle" /\ writer # p
    /\ ~workers[h].retired
    /\ calls' = [calls EXCEPT ![p] =
           [phase |-> "probing", hotkey |-> h, gpus |-> gpus, token |-> None,
            current |-> TRUE]]
    /\ UNCHANGED <<registryVars, running, workers>>

(* Faulty variant: takes over the claim of a worker that is not admitted.  *)
BeginClaimOverLapsed(p) ==
    LET call == calls[p]
        Lapsed(g) == /\ \E h \in Hotkeys : Settled(g, h) /\ workers[h].gpus = {}
                     /\ ~Settled(g, call.hotkey)
        rows == [g \in Gpus |->
            IF g \in call.gpus /\ (Free(g) \/ Lapsed(g))
            THEN [hotkey |-> call.hotkey, token |-> generation + 1, kind |-> "worker"]
            ELSE claims[g]]
    IN  /\ call.phase = "probing"
        /\ \A g \in call.gpus : Free(g) \/ Settled(g, call.hotkey) \/ Lapsed(g)
        /\ Commit(p, rows)
        /\ calls' = [calls EXCEPT ![p].phase = "claimed", ![p].token = generation + 1]
        /\ UNCHANGED <<running, workers>>

(* begin_claim: inserts the rows that are missing.                         *)
BeginClaim(p) ==
    LET call == calls[p]
        rows == [g \in Gpus |->
            IF g \in call.gpus /\ Free(g)
            THEN [hotkey |-> call.hotkey, token |-> generation + 1, kind |-> "worker"]
            ELSE claims[g]]
    IN  /\ call.phase = "probing"
        /\ \A g \in call.gpus : Free(g) \/ Settled(g, call.hotkey)
        /\ Commit(p, rows)
        /\ calls' = [calls EXCEPT ![p].phase = "claimed", ![p].token = generation + 1]
        /\ UNCHANGED <<running, workers>>

(* identity_conflict: a GPU of another worker.  The worker it was for is   *)
(* revoked, unless its lifecycle has moved since the probe.                *)
ClaimConflict(p) ==
    LET call == calls[p]
    IN  /\ call.phase = "probing"
        /\ \E g \in call.gpus : ~Free(g) /\ claims[g].hotkey # call.hotkey
        /\ Reconcile(p)
        /\ \/ /\ call.current
              /\ workers' = [workers EXCEPT ![call.hotkey] = Retired]
              /\ calls' = [Moved(call.hotkey) EXCEPT ![p] = Idle]
           \/ /\ ~call.current
              /\ calls' = [calls EXCEPT ![p] = Idle]
              /\ UNCHANGED workers

(* identity_recovery_required: a GPU of this worker with a claim pending.  *)
(* A runtime's epoch ends here; a prober goes on to record a failed probe, *)
(* a transaction of the worker registry's own (Lapse).                     *)
ClaimRefused(p) ==
    /\ calls[p].phase = "probing"
    /\ \E g \in calls[p].gpus : Pending(g) /\ claims[g].hotkey = calls[p].hotkey
    /\ Refuse(p)

(* record_verdict, if the token read before the probe still holds.  It     *)
(* admits the worker, or stores a failure when the CPU's chip has another  *)
(* live owner; it returns either way.                                      *)
RecordVerdict(p, gpus) ==
    LET call == calls[p]
    IN  /\ call.phase = "claimed" /\ writer # p
        /\ call.current
        /\ workers' = [workers EXCEPT ![call.hotkey].gpus = gpus]
        /\ calls' = [Moved(call.hotkey) EXCEPT ![p].phase = "recorded"]
        /\ UNCHANGED <<registryVars, running>>

(* record_verdict, or a check before it, raises.                           *)
RecordRaises(p) ==
    /\ calls[p].phase = "claimed" /\ writer # p
    /\ calls' = [calls EXCEPT ![p].phase = "rejected"]
    /\ UNCHANGED <<registryVars, running, workers>>

Committable(call) ==
    \A g \in call.gpus : /\ claims[g] # None
                         /\ claims[g].hotkey = call.hotkey
                         /\ claims[g].token \in {None, call.token}
                         /\ claims[g].kind = "worker"

(* commit_claim                                                            *)
CommitClaim(p) ==
    LET call == calls[p]
        rows == [g \in Gpus |-> IF g \in call.gpus
                                THEN [claims[g] EXCEPT !.token = None]
                                ELSE claims[g]]
    IN  /\ call.phase = "recorded"
        /\ Committable(call)
        /\ Commit(p, rows)
        /\ calls' = [calls EXCEPT ![p] = Idle]
        /\ UNCHANGED <<running, workers>>

(* It raises: the claim stays as it is.                                    *)
CommitRefused(p) ==
    /\ calls[p].phase = "recorded"
    /\ ~Committable(calls[p])
    /\ Refuse(p)

OwnRows(call) == {g \in Gpus : /\ claims[g] # None
                               /\ claims[g].token = call.token
                               /\ claims[g].hotkey = call.hotkey}

(* Another admission of the same hotkey is pending: rollback_claim raises  *)
(* and its transaction is undone.                                          *)
OtherPending(call) ==
    \E g \in Gpus \ OwnRows(call) : Pending(g) /\ claims[g].hotkey = call.hotkey

(* rollback_claim, of a rejected admission and at the end of an epoch.     *)
RollbackClaim(p) ==
    LET call == calls[p]
        rows == [g \in Gpus |-> IF g \in OwnRows(call) THEN None ELSE claims[g]]
    IN  /\ call.phase \in {"rejected", "reserved"}
        /\ ~OtherPending(call)
        /\ Commit(p, rows)
        /\ calls' = [calls EXCEPT ![p] = Idle]
        /\ UNCHANGED <<running, workers>>

RollbackRefused(p) ==
    /\ calls[p].phase \in {"rejected", "reserved"}
    /\ OtherPending(calls[p])
    /\ Refuse(p)

(* begin_exclusive_reservation, for an epoch of a runtime.                 *)
Reserve(p, gpus) ==
    LET rows == [g \in Gpus |->
            IF g \in gpus
            THEN [hotkey |-> Canary, token |-> generation + 1, kind |-> "canary"]
            ELSE claims[g]]
    IN  /\ calls[p].phase = "idle"
        /\ \A g \in gpus : Free(g)
        /\ Commit(p, rows)
        /\ calls' = [calls EXCEPT ![p] =
               [phase |-> "reserved", hotkey |-> Canary, gpus |-> gpus,
                token |-> generation + 1, current |-> FALSE]]
        /\ UNCHANGED <<running, workers>>
-----------------------------------------------------------------------------
(* Stopping, starting and the operator's ceremonies.                       *)

(* What an interrupted write leaves of the slot.                           *)
Interrupted(outcome) ==
    CASE outcome = "unwritten" -> slots
      [] outcome = "torn"      -> [slots EXCEPT ![SlotOf(generation)] = Unreadable]
      [] outcome = "written"   -> Reconciled

(* The anchor cannot be written: the call raises, after SQLite committed.  *)
AppendFails(p, outcome) ==
    /\ writer = p
    /\ slots' = Interrupted(outcome)
    /\ writer' = None
    /\ calls' = [calls EXCEPT ![p] = Idle]
    /\ UNCHANGED <<claims, generation, recovered, running, workers>>

(* A process stops: outside a write, between the SQLite commit and the end *)
(* of the anchor's, or while it reconciles a database that is ahead.       *)
Crash(p, outcome) ==
    /\ p \in running \/ writer = p
    /\ \/ outcome = "unwritten"
       \/ writer = p
       \/ writer = None /\ generation = Anchor + 1
    /\ slots' = Interrupted(outcome)
    /\ writer' = IF writer = p THEN None ELSE writer
    /\ running' = running \ {p}
    /\ calls' = [calls EXCEPT ![p] = Idle]
    /\ UNCHANGED <<claims, generation, recovered, workers>>

(* GpuIdentityRegistry.__init__: refuses to open over a pending claim.     *)
Start(p) ==
    /\ p \notin running /\ writer = None /\ Authenticated
    /\ \A g \in Gpus : ~Pending(g)
    /\ slots' = Reconciled
    /\ running' = running \cup {p}
    /\ UNCHANGED <<claims, generation, writer, recovered, calls, workers>>

(* Faulty variant: interrupted worker claims are dropped.                  *)
RecoveredByDropping == [g \in Gpus |-> IF Pending(g) THEN None ELSE claims[g]]

(* Worker claims are committed, canary reservations released.              *)
Recovered ==
    [g \in Gpus |->
        IF ~Pending(g) THEN claims[g]
        ELSE IF claims[g].kind = "worker" THEN [claims[g] EXCEPT !.token = None]
        ELSE None]

(* recover_interrupted, by a process p of the operator's, whatever the     *)
(* other processes are doing.  Its event lists the tokens it settled or    *)
(* released.                                                               *)
Recover(p) ==
    LET pending == {g \in Gpus : Pending(g)}
    IN  /\ p \notin running
        /\ pending # {}
        /\ Write(p, Recovered)
        /\ recovered' = recovered \cup {claims[g].token : g \in pending}
        /\ UNCHANGED <<running, calls, workers>>

(* release_worker, by a process that could open the registry, after the    *)
(* worker was retired.                                                     *)
ReleaseWorker(p, h) ==
    /\ calls[p].phase = "idle"
    /\ workers[h].retired
    /\ \A g \in Gpus : ~(Pending(g) /\ claims[g].hotkey = h)
    /\ \E g \in Gpus : Settled(g, h)
    /\ Commit(p, [g \in Gpus |-> IF Settled(g, h) THEN None ELSE claims[g]])
    /\ UNCHANGED <<running, calls, workers>>

(* The worker registry, between the admission's steps: a revocation or a   *)
(* retirement, a re-enrollment, and a failed probe or an expiry, which may *)
(* end the verdict in force.                                               *)
Retire(h) ==
    /\ ~workers[h].retired
    /\ workers' = [workers EXCEPT ![h] = Retired]
    /\ calls' = Moved(h)
    /\ UNCHANGED <<registryVars, running>>

Reenroll(h) ==
    /\ workers[h].retired
    /\ workers' = [workers EXCEPT ![h].retired = FALSE]
    /\ calls' = Moved(h)
    /\ UNCHANGED <<registryVars, running>>

Lapse(h) ==
    /\ ~workers[h].retired
    /\ \E gpus \in {{}, workers[h].gpus} :
          workers' = [workers EXCEPT ![h].gpus = gpus]
    /\ calls' = Moved(h)
    /\ UNCHANGED <<registryVars, running>>

GpuSets == SUBSET Gpus \ {{}}

Admission(p) ==
    \/ \E h \in Hotkeys, gpus \in GpuSets : Probe(p, h, gpus)
    \/ BeginClaim(p) \/ ClaimConflict(p) \/ ClaimRefused(p)
    \/ RecordRaises(p) \/ \E gpus \in {calls[p].gpus, {}} : RecordVerdict(p, gpus)
    \/ CommitClaim(p) \/ CommitRefused(p) \/ RollbackClaim(p) \/ RollbackRefused(p)

Next ==
    \/ \E p \in Processes :
          \/ Admission(p) \/ AppendAnchor(p)
          \/ \E gpus \in GpuSets : Reserve(p, gpus)
          \/ \E outcome \in {"unwritten", "torn"} : AppendFails(p, outcome)
          \/ \E outcome \in {"unwritten", "torn", "written"} : Crash(p, outcome)
          \/ Start(p) \/ Recover(p)
          \/ \E h \in Hotkeys : ReleaseWorker(p, h)
    \/ \E h \in Hotkeys : Retire(h) \/ Reenroll(h) \/ Lapse(h)

Spec == Init /\ [][Next]_vars
-----------------------------------------------------------------------------
(* Properties.                                                             *)

(* Rows are well formed; canary reservations are always pending.           *)
TypeOK ==
    /\ claims \in [Gpus -> ClaimRow \cup {None}]
    /\ generation \in Generations
    /\ slots \in [{0, 1} -> Generations \cup {Unreadable}]
    /\ writer \in Processes \cup {None}
    /\ recovered \subseteq Generations
    /\ running \subseteq Processes
    /\ workers \in [Hotkeys -> WorkerRow]
    /\ \A p \in Processes : calls[p].phase \in Phases
    /\ \A g \in Gpus : ~Free(g) /\ claims[g].kind = "canary" =>
           claims[g].hotkey = Canary /\ Pending(g)

(* No crash locks the registry out: after any sequence of writes, torn     *)
(* slots and restarts the anchor is readable and the database is at it or  *)
(* one ahead, which the next open repairs.                                 *)
AnchorRecoverable == Authenticated

(* A GPU has one holder.  The GPUs of every verdict in force are claimed   *)
(* by that worker, pending or committed, so no two workers are admitted    *)
(* with one GPU, even when the operator recovers beside a live admission;  *)
(* and while an epoch holds a canary reservation, its GPUs are claimed by  *)
(* nobody else and no worker is admitted with them, unless a recovery      *)
(* event lists that very reservation (recover_interrupted).                *)
OneGpuOneHolder ==
    /\ \A h \in Hotkeys, g \in Gpus :
           g \in workers[h].gpus => claims[g] # None /\ claims[g].hotkey = h
    /\ \A p \in running :
           calls[p].phase = "reserved" /\ calls[p].token \notin recovered =>
               \A g \in calls[p].gpus :
                   /\ claims[g] = [hotkey |-> Canary, token |-> calls[p].token,
                                   kind |-> "canary"]
                   /\ \A h \in Hotkeys : g \notin workers[h].gpus

(* Nothing but the operator's release of a retired worker takes away a     *)
(* committed claim.                                                        *)
CommittedForever ==
    [][\A g \in Gpus, h \in Hotkeys :
          Settled(g, h) => claims'[g] = claims[g] \/ workers[h].retired]_vars
=============================================================================
