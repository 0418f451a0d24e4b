--------------------------- MODULE RegistryProofs ---------------------------
(***************************************************************************)
(* Theorems about WorkerRegistry, for every set of workers, clients and    *)
(* endpoints and every value of the bounds, and about EnrollmentService,   *)
(* for every set of service processes, policies, snapshots and requests.   *)
(***************************************************************************)
EXTENDS EnrollmentService, TLAPS

(* A step that names no prover goes to Zenon.                              *)
USE ZenonT(30)

USE DEF settings

(* What a client holds in each phase: it has a worker once it left idle,   *)
(* and the worker it reads was enrolled; an endpoint once it listed one;   *)
(* and the time of every measurement it verified.                          *)
ClientsOK ==
    \A c \in Clients :
        /\ refresh[c].phase \notin {"idle", "started"} =>
               /\ refresh[c].hotkey \in Hotkeys
               /\ enrollments[refresh[c].hotkey] # None
        /\ refresh[c].phase = "started" => refresh[c].hotkey \in Hotkeys
        /\ \/ refresh[c].phase \in {"idle", "started"}
           \/ refresh[c].phase = "due" /\ c \in Probers
           \/ refresh[c].endpoint \in Endpoints
        /\ refresh[c].measurement # None => refresh[c].verified_at # None

TypeInv == TypeOK /\ ClientsOK
-----------------------------------------------------------------------------
(* Rows.                                                                   *)

RowOK(row) == row \in LifecycleRow /\ EvidenceDated(row)

(* A transition keeps a row well formed while the revision has room.       *)
LEMMA TransitionedOK ==
    ASSUME NEW row, RowOK(row), row.revision < MaxRevision,
           NEW target \in States, target = "attested" => row.evidence # None
    PROVE  RowOK(Transitioned(row, target))
<1> DEFINE a == [row EXCEPT !.state = target]
           b == [a EXCEPT !.revision = a.revision + 1]
<1>1. a \in LifecycleRow /\ a.revision = row.revision
  BY DEF RowOK, LifecycleRow
<1>2. b \in LifecycleRow
  <2> HIDE DEF a
  <2> QED BY <1>1, RegistryAssumption, SMTT(40)
             DEF LifecycleRow, RegistryAssumption
<1>3. [b EXCEPT !.next_retry_at = None] \in LifecycleRow
  <2> HIDE DEF b
  <2> QED BY <1>2 DEF LifecycleRow
<1>4. Transitioned(row, target) \in LifecycleRow
  BY <1>3 DEF Transitioned
<1>5. EvidenceDated(Transitioned(row, target))
  BY DEF Transitioned, EvidenceDated, RowOK, LifecycleRow
<1> QED BY <1>4, <1>5 DEF RowOK

(* What a transition changes and what it leaves.                           *)
LEMMA TransitionedFields ==
    ASSUME NEW row \in LifecycleRow, NEW target
    PROVE  /\ Transitioned(row, target).state = target
           /\ Transitioned(row, target).generation = row.generation
           /\ Transitioned(row, target).revision = row.revision + 1
  BY DEF LifecycleRow, Transitioned

(* A fresh generation is well formed.                                      *)
LEMMA ReenrolledOK ==
    ASSUME NEW row, row.generation \in 0 .. (MaxGeneration - 1)
    PROVE  /\ RowOK(Reenrolled(row))
           /\ Reenrolled(row).state = "pending"
           /\ Reenrolled(row).generation = row.generation + 1
<1> DEFINE a == [NoLifecycle EXCEPT !.state = "pending"]
           b == [a EXCEPT !.generation = row.generation + 1]
<1>1. /\ row.generation + 1 \in 0 .. MaxGeneration
      /\ 0 \in 0 .. MaxGeneration /\ 0 \in 0 .. MaxRevision
      /\ 1 \in 0 .. MaxRevision /\ 0 \in 0 .. MaxFailures
  BY RegistryAssumption, SMTT(40) DEF RegistryAssumption
<1>2. RowOK(NoLifecycle)
  BY <1>1 DEF NoLifecycle, RowOK, LifecycleRow, EvidenceDated
<1>3. RowOK(a) /\ a.state = "pending"
  BY <1>2 DEF RowOK, LifecycleRow, EvidenceDated, States
<1>4. RowOK(b) /\ b.state = "pending" /\ b.generation = row.generation + 1
  <2> HIDE DEF a
  <2> QED BY <1>1, <1>3 DEF RowOK, LifecycleRow, EvidenceDated
<1>5. LET r == [b EXCEPT !.revision = 1] IN
      RowOK(r) /\ r.state = "pending" /\ r.generation = row.generation + 1
  <2> HIDE DEF b
  <2> QED BY <1>1, <1>4 DEF RowOK, LifecycleRow, EvidenceDated
<1> QED BY <1>5 DEF Reenrolled

(* So is a row whose expiry has been materialized.                         *)
LEMMA MaterializedOK ==
    ASSUME NEW row, RowOK(row), Expired(row) => row.revision < MaxRevision
    PROVE  /\ RowOK(Materialized(row))
           /\ Materialized(row).state = "absent" <=> row.state = "absent"
  BY TransitionedOK, TransitionedFields, SMTT(40)
     DEF Materialized, Expired, States, RowOK

(* So is a row on its way out, as long as its revisions fit.               *)
LEMMA RetiringOK ==
    ASSUME NEW row, RowOK(row), row.state # "absent"
    PROVE  /\ Retiring(row).revision <= MaxRevision =>
                  RowOK(Retiring(row)) /\ Retiring(row).state # "absent"
           /\ Retired(row).revision <= MaxRevision =>
                  RowOK(Retired(row)) /\ Retired(row).state # "absent"
<1>1. row \in LifecycleRow
  BY DEF RowOK
<1>2. Retiring(row).revision <= MaxRevision =>
          RowOK(Retiring(row)) /\ Retiring(row).state # "absent"
  BY <1>1, TransitionedOK, TransitionedFields, RegistryAssumption, SMTT(40)
     DEF Retiring, States, LifecycleRow, RegistryAssumption
<1>3. ASSUME row.state \notin Terminal, Retired(row).revision <= MaxRevision
      PROVE  RowOK(Retired(row)) /\ Retired(row).state # "absent"
  <2>1. /\ Retiring(row).revision \in Int
        /\ Retired(row).revision = Retiring(row).revision + 1
    BY <1>1, <1>3, SMTT(40) DEF Retired, Retiring, Transitioned, LifecycleRow
  <2>2. RowOK(Retiring(row)) /\ Retiring(row).revision < MaxRevision
    BY <1>2, <1>3, <2>1, RegistryAssumption, SMTT(40) DEF RegistryAssumption
  <2> QED BY <1>3, <2>2, TransitionedOK, TransitionedFields DEF Retired, States, RowOK
<1> QED BY <1>2, <1>3 DEF Retired

(* So is a row after one more failure.                                     *)
LEMMA RefreshFailedOK ==
    ASSUME NEW row, RowOK(row), wall \in Times,
           RefreshFailed(row).revision <= MaxRevision
    PROVE  /\ RowOK(RefreshFailed(row))
           /\ RefreshFailed(row).state = "absent" <=> row.state = "absent"
<1> DEFINE attempt == IF row.retry_count + 1 < MaxFailures
                      THEN row.retry_count + 1 ELSE MaxFailures
           target == IF row.state = "attested" /\ wall < row.expires_at
                     THEN "attested"
                     ELSE IF row.state = "pending" THEN "pending" ELSE "stale"
           failed == Transitioned(row, "failed")
           again == Transitioned(row, target)
           counted == [again EXCEPT !.retry_count = attempt]
<1>1. row \in LifecycleRow
  BY DEF RowOK
<1>2. attempt \in 0 .. MaxFailures /\ wall + RetryDelay \in 0 .. (MaxTime + RetryDelay)
  BY <1>1, RegistryAssumption, SMTT(40)
     DEF LifecycleRow, RegistryAssumption, Times
<1>3. target \in States /\ (target = "attested" => row.evidence # None)
  BY DEF RowOK, EvidenceDated, States
<1>4. CASE row.state \notin NetworkEligible
  BY <1>4 DEF RefreshFailed
<1>5. CASE row.state \in NetworkEligible /\ attempt = MaxFailures
  <2>1. RefreshFailed(row) = [failed EXCEPT !.retry_count = attempt]
    BY <1>5 DEF RefreshFailed
  <2>2. [failed EXCEPT !.retry_count = attempt].revision = row.revision + 1
    BY <1>1 DEF LifecycleRow, Transitioned
  <2>3. row.revision < MaxRevision
    BY <1>1, <2>1, <2>2, RegistryAssumption, SMTT(40)
       DEF LifecycleRow, RegistryAssumption
  <2>4. RowOK(failed) /\ failed.state = "failed"
    BY <1>1, <2>3, TransitionedOK, TransitionedFields DEF States
  <2> HIDE DEF failed, attempt
  <2>5. QED BY <1>2, <1>5, <2>1, <2>4
             DEF RowOK, LifecycleRow, EvidenceDated, NetworkEligible
<1>6. CASE row.state \in NetworkEligible /\ attempt # MaxFailures
  <2>1. RefreshFailed(row) = [counted EXCEPT !.next_retry_at = wall + RetryDelay]
    BY <1>6 DEF RefreshFailed
  <2>2. [counted EXCEPT !.next_retry_at = wall + RetryDelay].revision
          = row.revision + 1
    BY <1>1 DEF LifecycleRow, Transitioned
  <2>3. row.revision < MaxRevision
    BY <1>1, <2>1, <2>2, RegistryAssumption, SMTT(40)
       DEF LifecycleRow, RegistryAssumption
  <2>4. RowOK(again) /\ again.state = target
    BY <1>1, <1>3, <2>3, TransitionedOK, TransitionedFields
  <2>5. RowOK(counted) /\ counted.state = target
    <3> HIDE DEF again, attempt, target
    <3> QED BY <1>2, <2>4, SMTT(40) DEF RowOK, LifecycleRow, EvidenceDated
  <2>6. target # "absent"
    OBVIOUS
  <2> HIDE DEF counted, target, attempt
  <2>7. QED BY <1>2, <1>6, <2>1, <2>5, <2>6
             DEF RowOK, LifecycleRow, EvidenceDated, NetworkEligible
<1> QED BY <1>4, <1>5, <1>6
-----------------------------------------------------------------------------
(* Tables.                                                                 *)

LifecycleOK ==
    /\ lifecycle \in [Hotkeys -> LifecycleRow]
    /\ \A h \in Hotkeys :
           /\ enrollments[h] = None <=> lifecycle[h].state = "absent"
           /\ EvidenceDated(lifecycle[h])

StoreOK ==
    /\ wall \in Times /\ last_seen \in Times
    /\ enrollments \in [Hotkeys -> Endpoints \cup {None}]
    /\ nonces \subseteq Hotkeys \X Nonces
    /\ attestations \in [Hotkeys -> VerdictRow]
    /\ allowed \subseteq Measurements
    /\ governed \in BOOLEAN
    /\ removing \subseteq Hotkeys

RefreshOK == refresh \in [Clients -> Refresh] /\ ClientsOK

(* The type invariant, table by table.                                     *)
LEMMA TypeInvParts == TypeInv <=> StoreOK /\ LifecycleOK /\ RefreshOK
  BY DEF TypeInv, TypeOK, StoreOK, LifecycleOK, RefreshOK

(* The same of the next state.                                             *)
LEMMA TypeInvPartsNext == TypeInv' <=> StoreOK' /\ LifecycleOK' /\ RefreshOK'
  BY DEF TypeInv, TypeOK, StoreOK, LifecycleOK, RefreshOK

(* Replacing the row of one enrolled worker.                               *)
LEMMA LifecycleSet ==
    ASSUME LifecycleOK, NEW h \in Hotkeys, NEW row, RowOK(row),
           row.state = "absent" <=> lifecycle[h].state = "absent",
           lifecycle' = [lifecycle EXCEPT ![h] = row],
           UNCHANGED enrollments
    PROVE  LifecycleOK'
  BY DEF LifecycleOK, RowOK, EvidenceDated

(* A client goes back to idle.                                             *)
LEMMA IdleAgain ==
    ASSUME RefreshOK, NEW c \in Clients, refresh' = [refresh EXCEPT ![c] = Idle],
           UNCHANGED enrollments
    PROVE  RefreshOK'
<1>1. Idle \in Refresh
  BY RegistryAssumption, SMTT(40) DEF Idle, Refresh, Phases, RegistryAssumption
<1>2. refresh' \in [Clients -> Refresh]
  BY <1>1 DEF RefreshOK
<1>3. ClientsOK'
  BY DEF RefreshOK, ClientsOK, Idle
<1> QED BY <1>2, <1>3 DEF RefreshOK

(* Clients that do nothing keep what they hold while enrollments stay.     *)
LEMMA RefreshKept ==
    ASSUME RefreshOK, UNCHANGED refresh,
           \A h \in Hotkeys : enrollments[h] # None => enrollments'[h] # None
    PROVE  RefreshOK'
  BY DEF RefreshOK, ClientsOK, Refresh

(* The first tables are well typed.                                        *)
LEMMA InitTypeInv == Init => TypeInv
<1> SUFFICES ASSUME Init PROVE TypeInv
  OBVIOUS
<1>1. StoreOK
  BY RegistryAssumption, SMTT(40)
     DEF Init, StoreOK, Times, VerdictRow, NoVerdict, RegistryAssumption
<1>2. NoLifecycle \in LifecycleRow
  BY RegistryAssumption, SMTT(40)
     DEF NoLifecycle, LifecycleRow, RegistryAssumption
<1>3. LifecycleOK
  BY <1>2 DEF Init, LifecycleOK, NoLifecycle, EvidenceDated
<1>4. Idle \in Refresh
  BY RegistryAssumption, SMTT(40) DEF Idle, Refresh, Phases, RegistryAssumption
<1>5. RefreshOK
  BY <1>4 DEF Init, RefreshOK, ClientsOK, Idle
<1> QED BY <1>1, <1>3, <1>5, TypeInvParts

(* The clock, the policy and the workers' and operators' own steps.        *)
LEMMA WorkerStepTypeInv ==
    ASSUME TypeInv,
           \/ Tick \/ SetBack
           \/ \E m \in Measurements : DropMeasurement(m)
           \/ \E h \in Hotkeys : WorkerStep(h)
    PROVE  TypeInv'
<1>0. StoreOK /\ LifecycleOK /\ RefreshOK
  BY TypeInvParts
<1>1. CASE Tick \/ SetBack
  BY <1>0, <1>1, RefreshKept, TypeInvPartsNext, RegistryAssumption, SMTT(40)
     DEF Tick, SetBack, StoreOK, LifecycleOK, Times, RegistryAssumption
<1>2. ASSUME NEW m \in Measurements, DropMeasurement(m) PROVE TypeInv'
  BY <1>0, <1>2, RefreshKept, TypeInvPartsNext
     DEF DropMeasurement, StoreOK, LifecycleOK
<1>3. ASSUME NEW h \in Hotkeys, NEW endpoint \in Endpoints, NEW nonce \in Nonces,
             Enroll(h, endpoint, nonce)
      PROVE  TypeInv'
  <2>1. StoreOK'
    BY <1>0, <1>3, SMTT(40)
       DEF Enroll, StoreOK, AdvanceLifecycleClock, VerdictRow, NoVerdict
  <2>2. enrollments'[h] = endpoint /\ endpoint # None
    BY <1>0, <1>3, RegistryAssumption DEF Enroll, StoreOK, RegistryAssumption
  <2>3. RefreshOK'
    BY <1>0, <1>3, <2>2, RefreshKept DEF Enroll, StoreOK
  <2>4. LifecycleOK'
    <3>1. CASE UNCHANGED lifecycle /\ enrollments[h] = endpoint
      BY <1>0, <1>3, <2>2, <3>1 DEF Enroll, LifecycleOK, StoreOK
    <3>2. CASE lifecycle' = [lifecycle EXCEPT ![h] = Reenrolled(NoLifecycle)]
      <4>1. RowOK(Reenrolled(NoLifecycle)) /\ Reenrolled(NoLifecycle).state = "pending"
        BY ReenrolledOK, RegistryAssumption, SMTT(40)
           DEF NoLifecycle, RegistryAssumption
      <4> QED BY <1>0, <1>3, <2>2, <3>2, <4>1 DEF Enroll, LifecycleOK, StoreOK, RowOK
    <3>3. CASE /\ lifecycle' = [lifecycle EXCEPT ![h] = Reenrolled(lifecycle[h])]
               /\ lifecycle[h].generation < MaxGeneration
      <4>1. lifecycle[h].generation \in 0 .. (MaxGeneration - 1)
        BY <1>0, <3>3, RegistryAssumption, SMTT(40)
           DEF LifecycleOK, LifecycleRow, RegistryAssumption
      <4>2. RowOK(Reenrolled(lifecycle[h])) /\ Reenrolled(lifecycle[h]).state = "pending"
        BY <4>1, ReenrolledOK
      <4> QED BY <1>0, <1>3, <2>2, <3>3, <4>2 DEF Enroll, LifecycleOK, StoreOK, RowOK
    <3> QED BY <1>3, <3>1, <3>2, <3>3 DEF Enroll
  <2> QED BY <2>1, <2>3, <2>4, TypeInvPartsNext
<1>4. ASSUME NEW h \in Hotkeys, OperatorReenroll(h) PROVE TypeInv'
  <2>1. lifecycle[h].generation \in 0 .. (MaxGeneration - 1)
    BY <1>0, <1>4, RegistryAssumption, SMTT(40)
       DEF OperatorReenroll, LifecycleOK, LifecycleRow, RegistryAssumption
  <2>2. LifecycleOK'
    BY <1>0, <1>4, <2>1, ReenrolledOK, LifecycleSet DEF OperatorReenroll
  <2> QED BY <1>0, <1>4, <2>2, RefreshKept, TypeInvPartsNext
          DEF OperatorReenroll, StoreOK, AdvanceLifecycleClock
<1>5. ASSUME NEW h \in Hotkeys, Retire(h) PROVE TypeInv'
  <2>1. PICK row \in {Retiring(lifecycle[h]), Retired(lifecycle[h])} :
            RetireLifecycle(h, row)
    BY <1>5 DEF Retire
  <2>2. LifecycleOK'
    BY <1>0, <1>5, <2>1, RetiringOK, LifecycleSet DEF Retire, RetireLifecycle, LifecycleOK, RowOK
  <2> QED BY <1>0, <1>5, <2>1, <2>2, RefreshKept, TypeInvPartsNext
          DEF Retire, RetireLifecycle, StoreOK, AdvanceLifecycleClock
<1>6. ASSUME NEW h \in Hotkeys, Remove(h) PROVE TypeInv'
  <2>1. LifecycleOK'
    BY <1>0, <1>6, RetiringOK, LifecycleSet DEF Remove, RetireLifecycle, LifecycleOK, RowOK
  <2> QED BY <1>0, <1>6, <2>1, RefreshKept, TypeInvPartsNext
          DEF Remove, RetireLifecycle, StoreOK, AdvanceLifecycleClock
<1>7. ASSUME NEW h \in Hotkeys, ClearVerdict(h) PROVE TypeInv'
  BY <1>0, <1>7, RefreshKept, TypeInvPartsNext
     DEF ClearVerdict, StoreOK, LifecycleOK, VerdictRow, NoVerdict
<1>8. ASSUME NEW h \in Hotkeys, LifecycleSnapshot(h) PROVE TypeInv'
  <2>1. LifecycleOK'
    BY <1>0, <1>8, MaterializedOK, LifecycleSet
       DEF LifecycleSnapshot, RoomToMaterialize, LifecycleOK, RowOK
  <2> QED BY <1>0, <1>8, <2>1, RefreshKept, TypeInvPartsNext
          DEF LifecycleSnapshot, StoreOK, AdvanceLifecycleClock
<1> QED BY <1>1, <1>2, <1>3, <1>4, <1>5, <1>6, <1>7, <1>8 DEF WorkerStep

(* A client moves to another phase with the worker and endpoint it has.    *)
LEMMA PhaseSet ==
    ASSUME RefreshOK, NEW c \in Clients, NEW phase \in Phases,
           refresh' = [refresh EXCEPT ![c].phase = phase],
           UNCHANGED enrollments,
           refresh[c].hotkey \in Hotkeys,
           enrollments[refresh[c].hotkey] # None,
           refresh[c].endpoint \in Endpoints
    PROVE  RefreshOK'
<1>1. refresh' \in [Clients -> Refresh]
  BY SMTT(40) DEF RefreshOK, Refresh
<1>2. ClientsOK'
  BY SMTT(40) DEF RefreshOK, ClientsOK, Refresh
<1> QED BY <1>1, <1>2 DEF RefreshOK

(* due_refreshes leaves the table well typed, and a due worker enrolled.   *)
LEMMA DueRefreshesOK ==
    ASSUME LifecycleOK, NEW h \in Hotkeys, DueRefreshes(h), UNCHANGED enrollments
    PROVE  LifecycleOK' /\ enrollments[h] # None
<1>1. \A k \in Hotkeys :
          /\ RowOK(Materialized(lifecycle[k]))
          /\ Materialized(lifecycle[k]).state = "absent" <=>
                 lifecycle[k].state = "absent"
  BY MaterializedOK DEF LifecycleOK, RowOK, DueRefreshes, RoomToMaterialize
<1>2. LifecycleOK'
  BY <1>1 DEF LifecycleOK, RowOK, DueRefreshes
<1>3. lifecycle'[h].state # "absent"
  BY DEF DueRefreshes, Due, NetworkEligible
<1> QED BY <1>2, <1>3 DEF LifecycleOK

(* Reads of a client.                                                      *)
LEMMA ReadTypeInv ==
    ASSUME TypeInv, NEW c \in Clients,
           \/ \E h \in Hotkeys : ProbeDue(c, h) \/ ApplyLifecyclePolicy(c, h)
           \/ ProbeEndpoint(c) \/ ListEnrollment(c) \/ ListDue(c) \/ ReadToken(c)
    PROVE  TypeInv'
<1>0. StoreOK /\ LifecycleOK /\ RefreshOK
  BY TypeInvParts
<1>r. refresh[c] \in Refresh
  BY <1>0 DEF RefreshOK
<1>i. Idle \in Refresh
  BY RegistryAssumption, SMTT(40) DEF Idle, Refresh, Phases, RegistryAssumption
<1>1. ASSUME NEW h \in Hotkeys, ProbeDue(c, h) PROVE TypeInv'
  <2> DEFINE a == [Idle EXCEPT !.phase = "due"]
             b == [a EXCEPT !.hotkey = h]
             d == [b EXCEPT !.policy = allowed]
             e == [d EXCEPT !.generation = lifecycle'[h].generation]
             f == [e EXCEPT !.revision = lifecycle'[h].revision]
  <2>1. LifecycleOK' /\ enrollments[h] # None
    BY <1>0, <1>1, DueRefreshesOK DEF ProbeDue
  <2>2. /\ lifecycle'[h].generation \in 0 .. MaxGeneration
        /\ lifecycle'[h].revision \in 0 .. MaxRevision
    BY <2>1 DEF LifecycleOK, LifecycleRow
  <2>3. a \in Refresh /\ a.phase = "due" /\ a.measurement = None
    BY <1>i DEF Idle, Refresh, Phases
  <2>4. b \in Refresh /\ b.phase = "due" /\ b.hotkey = h /\ b.measurement = None
    <3> HIDE DEF a
    <3> QED BY <2>3 DEF Refresh
  <2>5. d \in Refresh /\ d.phase = "due" /\ d.hotkey = h /\ d.measurement = None
    <3> HIDE DEF b
    <3> QED BY <1>0, <2>4 DEF Refresh, StoreOK
  <2>6. e \in Refresh /\ e.phase = "due" /\ e.hotkey = h /\ e.measurement = None
    <3> HIDE DEF d
    <3> QED BY <2>2, <2>5 DEF Refresh
  <2>7. f \in Refresh /\ f.phase = "due" /\ f.hotkey = h /\ f.measurement = None
    <3> HIDE DEF e
    <3> QED BY <2>2, <2>6 DEF Refresh
  <2>8. refresh' = [refresh EXCEPT ![c] = f] /\ c \in Probers
    BY <1>1 DEF ProbeDue
  <2>9. RefreshOK'
    <3> HIDE DEF f
    <3> QED BY <1>0, <1>1, <2>1, <2>7, <2>8, ZenonT(60)
               DEF RefreshOK, ClientsOK, ProbeDue
  <2> QED BY <1>0, <1>1, <2>1, <2>9, TypeInvPartsNext
             DEF ProbeDue, DueRefreshes, StoreOK, AdvanceLifecycleClock
<1>2. ASSUME NEW h \in Hotkeys, ApplyLifecyclePolicy(c, h) PROVE TypeInv'
  <2> DEFINE a == [Idle EXCEPT !.phase = "started"]
             b == [a EXCEPT !.hotkey = h]
             d == [b EXCEPT !.policy = allowed]
             refused == {k \in Hotkeys :
                 /\ lifecycle[k].state \in NetworkEligible
                 /\ lifecycle[k].measurement \notin allowed \cup {None}}
  <2>1. \A k \in refused :
            /\ RowOK(Transitioned(lifecycle[k], "revoked"))
            /\ Transitioned(lifecycle[k], "revoked").state = "revoked"
            /\ lifecycle[k].state # "absent"
    <3> SUFFICES ASSUME NEW k \in refused
                 PROVE  /\ RowOK(Transitioned(lifecycle[k], "revoked"))
                        /\ Transitioned(lifecycle[k], "revoked").state = "revoked"
                        /\ lifecycle[k].state # "absent"
      OBVIOUS
    <3>1. /\ k \in Hotkeys /\ lifecycle[k].state # "absent"
          /\ lifecycle[k].revision < MaxRevision
      BY <1>2 DEF ApplyLifecyclePolicy, NetworkEligible
    <3>2. RowOK(lifecycle[k])
      BY <1>0, <3>1 DEF LifecycleOK, RowOK
    <3>3. lifecycle[k] \in LifecycleRow /\ "revoked" \in States
      BY <3>2 DEF RowOK, States
    <3> HIDE DEF refused
    <3> QED BY <3>1, <3>2, <3>3, TransitionedOK, TransitionedFields
  <2>2. lifecycle' = [k \in Hotkeys |->
            IF k \in refused THEN Transitioned(lifecycle[k], "revoked")
                             ELSE lifecycle[k]]
    BY <1>2 DEF ApplyLifecyclePolicy
  <2>3. LifecycleOK'
    <3> HIDE DEF refused
    <3> QED BY <1>0, <1>2, <2>1, <2>2, ZenonT(60)
               DEF LifecycleOK, RowOK, ApplyLifecyclePolicy
  <2>4. a \in Refresh /\ a.phase = "started" /\ a.measurement = None
    BY <1>i DEF Idle, Refresh, Phases
  <2>5. b \in Refresh /\ b.phase = "started" /\ b.hotkey = h /\ b.measurement = None
    <3> HIDE DEF a
    <3> QED BY <2>4 DEF Refresh
  <2>6. d \in Refresh /\ d.phase = "started" /\ d.hotkey = h /\ d.measurement = None
    <3> HIDE DEF b
    <3> QED BY <1>0, <2>5 DEF Refresh, StoreOK
  <2>7. refresh' = [refresh EXCEPT ![c] = d]
    BY <1>2 DEF ApplyLifecyclePolicy
  <2>8. RefreshOK'
    <3> HIDE DEF d
    <3> QED BY <1>0, <1>2, <2>6, <2>7, ZenonT(60)
               DEF RefreshOK, ClientsOK, ApplyLifecyclePolicy
  <2> QED BY <1>0, <1>2, <2>3, <2>8, TypeInvPartsNext
             DEF ApplyLifecyclePolicy, StoreOK, AdvanceLifecycleClock
<1>3. CASE ProbeEndpoint(c) \/ ListEnrollment(c)
  <2>1. refresh[c].hotkey \in Hotkeys /\ enrollments[refresh[c].hotkey] \in Endpoints
    BY <1>0, <1>3 DEF ProbeEndpoint, ListEnrollment, RefreshOK, ClientsOK, StoreOK
  <2>2. PICK phase \in {"collecting", "listed"} :
            refresh' = [refresh EXCEPT ![c].phase = phase,
                                       ![c].endpoint = enrollments[refresh[c].hotkey]]
    BY <1>3 DEF ProbeEndpoint, ListEnrollment
  <2> DEFINE a == [refresh[c] EXCEPT !.phase = phase]
             b == [a EXCEPT !.endpoint = enrollments[refresh[c].hotkey]]
  <2>3. /\ a \in Refresh /\ a.phase = phase /\ a.hotkey = refresh[c].hotkey
        /\ a.measurement = refresh[c].measurement /\ a.verified_at = refresh[c].verified_at
    BY <1>r DEF Refresh, Phases
  <2>4. /\ b \in Refresh /\ b.phase = phase /\ b.hotkey = refresh[c].hotkey
        /\ b.endpoint \in Endpoints
        /\ b.measurement = refresh[c].measurement /\ b.verified_at = refresh[c].verified_at
    <3> HIDE DEF a
    <3> QED BY <2>1, <2>3 DEF Refresh
  <2>5. refresh' = [refresh EXCEPT ![c] = b]
    BY <1>0, <2>2 DEF RefreshOK
  <2>6. RefreshOK'
    <3> HIDE DEF b
    <3> QED BY <1>0, <1>3, <2>1, <2>4, <2>5
            DEF RefreshOK, ClientsOK, ProbeEndpoint, ListEnrollment, StoreOK
  <2> QED BY <1>0, <1>3, <2>6, TypeInvPartsNext
          DEF ProbeEndpoint, ListEnrollment, StoreOK, LifecycleOK
<1>4. CASE ListDue(c)
  <2>1. /\ refresh[c].hotkey \in Hotkeys /\ refresh[c].endpoint \in Endpoints
        /\ enrollments[refresh[c].hotkey] # None
    BY <1>0, <1>4 DEF ListDue, RefreshOK, ClientsOK
  <2>2. LifecycleOK'
    BY <1>0, <1>4, <2>1, DueRefreshesOK DEF ListDue
  <2>3. RefreshOK'
    BY <1>0, <1>4, <2>1, PhaseSet DEF ListDue, Phases
  <2> QED BY <1>0, <1>4, <2>2, <2>3, TypeInvPartsNext
          DEF ListDue, DueRefreshes, StoreOK, AdvanceLifecycleClock
<1>5. CASE ReadToken(c)
  <2> DEFINE h == refresh[c].hotkey
             phase == IF lifecycle'[h].state \in NetworkEligible
                      THEN "collecting" ELSE "unreachable"
             a == [refresh[c] EXCEPT !.phase = phase]
             b == [a EXCEPT !.generation = lifecycle'[h].generation]
             d == [b EXCEPT !.revision = lifecycle'[h].revision]
  <2>1. /\ h \in Hotkeys /\ enrollments[h] # None
        /\ refresh[c].endpoint \in Endpoints
    BY <1>0, <1>5, RegistryAssumption
       DEF ReadToken, RefreshOK, ClientsOK, RegistryAssumption
  <2>2. LifecycleOK'
    <3> HIDE DEF h
    <3>1. UNCHANGED enrollments /\ lifecycle' = [lifecycle EXCEPT ![h] = Materialized(@)]
      BY <1>5 DEF ReadToken, h
    <3> QED BY <1>0, <1>5, <2>1, <3>1, MaterializedOK, LifecycleSet
               DEF ReadToken, RoomToMaterialize, LifecycleOK, RowOK
  <2>3. /\ lifecycle'[h].generation \in 0 .. MaxGeneration
        /\ lifecycle'[h].revision \in 0 .. MaxRevision
    BY <2>1, <2>2 DEF LifecycleOK, LifecycleRow
  <2>4. /\ a \in Refresh /\ a.hotkey = h /\ a.endpoint = refresh[c].endpoint
        /\ a.phase = phase
        /\ a.measurement = refresh[c].measurement /\ a.verified_at = refresh[c].verified_at
    BY <1>r DEF Refresh, Phases
  <2>5. /\ b \in Refresh /\ b.hotkey = h /\ b.endpoint = refresh[c].endpoint
        /\ b.phase = phase
        /\ b.measurement = refresh[c].measurement /\ b.verified_at = refresh[c].verified_at
    <3> HIDE DEF a, phase, h
    <3> QED BY <2>3, <2>4 DEF Refresh
  <2>6. /\ d \in Refresh /\ d.hotkey = h /\ d.endpoint = refresh[c].endpoint
        /\ d.phase = phase
        /\ d.measurement = refresh[c].measurement /\ d.verified_at = refresh[c].verified_at
    <3> HIDE DEF b, phase, h
    <3> QED BY <2>3, <2>5 DEF Refresh
  <2>7. refresh' = [refresh EXCEPT ![c] = d] /\ UNCHANGED enrollments
    <3>1. UNCHANGED enrollments
      BY <1>5 DEF ReadToken
    <3>2. refresh' = [refresh EXCEPT ![c].phase = phase,
                                     ![c].generation = lifecycle'[h].generation,
                                     ![c].revision = lifecycle'[h].revision]
      BY <1>5 DEF ReadToken
    <3> HIDE DEF phase, h
    <3>3. refresh' = [refresh EXCEPT ![c] = d]
      BY <1>0, <3>2 DEF RefreshOK
    <3> QED BY <3>1, <3>3
  <2>8. RefreshOK'
    <3> HIDE DEF d, h
    <3> QED BY <1>0, <2>1, <2>6, <2>7 DEF RefreshOK, ClientsOK
  <2> QED BY <1>0, <1>5, <2>2, <2>8, TypeInvPartsNext
          DEF ReadToken, StoreOK, AdvanceLifecycleClock
<1> QED BY <1>1, <1>2, <1>3, <1>4, <1>5

(* Evidence arrives and the admission checks run.                          *)
LEMMA CollectTypeInv ==
    ASSUME TypeInv, NEW c \in Clients,
           Collect(c) \/ RequireCurrentPolicy(c) \/ AdmitUniqueChip(c)
    PROVE  TypeInv'
<1>0. StoreOK /\ LifecycleOK /\ RefreshOK
  BY TypeInvParts
<1>1. refresh[c] \in Refresh
  BY <1>0 DEF RefreshOK
<1>2. /\ refresh[c].hotkey \in Hotkeys /\ refresh[c].endpoint \in Endpoints
      /\ enrollments[refresh[c].hotkey] # None
  BY <1>0
     DEF Collect, RequireCurrentPolicy, AdmitUniqueChip, RefreshOK, ClientsOK
<1>3. StoreOK' /\ LifecycleOK' /\ UNCHANGED enrollments
  BY <1>0
     DEF Collect, RequireCurrentPolicy, AdmitUniqueChip, StoreOK, LifecycleOK,
         AdvanceLifecycleClock
<1>4. ASSUME NEW m \in Measurements,
             refresh' = [refresh EXCEPT ![c].phase = "collected",
                                        ![c].measurement = m,
                                        ![c].verified_at = wall]
      PROVE  RefreshOK'
  <2> DEFINE a == [refresh[c] EXCEPT !.phase = "collected"]
             b == [a EXCEPT !.measurement = m]
             d == [b EXCEPT !.verified_at = wall]
  <2>1. /\ a \in Refresh /\ a.phase = "collected" /\ a.hotkey = refresh[c].hotkey
        /\ a.endpoint = refresh[c].endpoint
    BY <1>1 DEF Refresh, Phases
  <2>2. /\ b \in Refresh /\ b.phase = "collected" /\ b.hotkey = refresh[c].hotkey
        /\ b.endpoint = refresh[c].endpoint
    <3> HIDE DEF a
    <3> QED BY <2>1 DEF Refresh
  <2>3. wall \in Times /\ wall # None
    BY <1>0, RegistryAssumption, SMTT(40)
       DEF StoreOK, Times, RegistryAssumption
  <2>4. /\ d \in Refresh /\ d.phase = "collected" /\ d.hotkey = refresh[c].hotkey
        /\ d.endpoint = refresh[c].endpoint /\ d.verified_at # None
    <3> HIDE DEF b
    <3> QED BY <2>2, <2>3 DEF Refresh
  <2>5. refresh' = [refresh EXCEPT ![c] = d]
    BY <1>0, <1>4 DEF RefreshOK
  <2> HIDE DEF d
  <2> QED BY <1>0, <1>2, <1>3, <2>4, <2>5 DEF RefreshOK, ClientsOK
<1>5. CASE Collect(c)
  BY <1>0, <1>2, <1>3, <1>4, <1>5, PhaseSet, TypeInvPartsNext, <1>1
     DEF Collect, Phases, Refresh
<1>6. CASE RequireCurrentPolicy(c)
  <2>1. RefreshOK'
    BY <1>0, <1>2, <1>3, <1>6, PhaseSet DEF RequireCurrentPolicy, Phases
  <2> QED BY <1>3, <2>1, TypeInvPartsNext
<1>7. CASE AdmitUniqueChip(c)
  <2>1. \/ refresh' = [refresh EXCEPT ![c] = [@ EXCEPT !.phase = "cleared"]]
        \/ refresh' = [refresh EXCEPT ![c] = Idle]
    BY <1>7 DEF AdmitUniqueChip
  <2>2. CASE refresh' = [refresh EXCEPT ![c] = [@ EXCEPT !.phase = "cleared"]]
    <3>1. refresh' = [refresh EXCEPT ![c].phase = "cleared"]
      BY <2>2
    <3> QED BY <1>0, <1>2, <1>3, <3>1, PhaseSet, TypeInvPartsNext DEF Phases
  <2> QED BY <1>0, <1>3, <2>1, <2>2, IdleAgain, TypeInvPartsNext
<1> QED BY <1>5, <1>6, <1>7

(* The row a verified refresh commits.                                     *)
LEMMA RecordVerifiedOK ==
    ASSUME TypeInv, NEW c \in Clients, NEW h \in Hotkeys,
           refresh[c].endpoint \in Endpoints, refresh[c].measurement \in Measurements,
           RecordVerified(c, h, lifecycle[h]), UNCHANGED enrollments
    PROVE  LifecycleOK' /\ attestations' \in [Hotkeys -> VerdictRow]
<1> DEFINE expiry == refresh[c].verified_at + TTL
           r == Transitioned(lifecycle[h], "attested")
           a == [r EXCEPT !.evidence = refresh[c].endpoint]
           b == [a EXCEPT !.expires_at = expiry]
           d == [b EXCEPT !.measurement = refresh[c].measurement]
           e == [d EXCEPT !.retry_count = 0]
<1>0. StoreOK /\ LifecycleOK /\ RefreshOK
  BY TypeInvParts
<1>1. refresh[c].verified_at \in Times /\ refresh[c].measurement # None
  BY <1>0, RegistryAssumption DEF RefreshOK, ClientsOK, Refresh, RegistryAssumption
<1>2. expiry \in 0 .. (MaxTime + TTL) /\ expiry # None /\ refresh[c].endpoint # None
  BY <1>1, RegistryAssumption, SMTT(40) DEF Times, RegistryAssumption
<1>3. RowOK(lifecycle[h]) /\ lifecycle[h].state # "absent"
  BY <1>0 DEF LifecycleOK, RowOK, RecordVerified, CanTransition
<1>4. lifecycle[h].revision + 1 \in 0 .. MaxRevision
  BY <1>3, RegistryAssumption, SMTT(40)
     DEF RecordVerified, CanTransition, RowOK, LifecycleRow, RegistryAssumption
<1>5. r \in LifecycleRow /\ r.state = "attested"
  <2> DEFINE x == [lifecycle[h] EXCEPT !.state = "attested"]
             y == [x EXCEPT !.revision = x.revision + 1]
  <2>1. x \in LifecycleRow /\ x.state = "attested" /\ x.revision = lifecycle[h].revision
    BY <1>3 DEF RowOK, LifecycleRow, States
  <2>2. y \in LifecycleRow /\ y.state = "attested"
    <3> HIDE DEF x
    <3> QED BY <1>4, <2>1 DEF LifecycleRow
  <2>3. [y EXCEPT !.next_retry_at = None] \in LifecycleRow
    <3> HIDE DEF y
    <3> QED BY <2>2 DEF LifecycleRow
  <2>4. r.state = "attested"
    BY <1>3, TransitionedFields DEF RowOK
  <2> QED BY <2>3, <2>4 DEF Transitioned
<1>6. a \in LifecycleRow /\ a.state = "attested" /\ a.evidence = refresh[c].endpoint
  <2> HIDE DEF r
  <2> QED BY <1>5 DEF LifecycleRow
<1>7. /\ b \in LifecycleRow /\ b.state = "attested" /\ b.evidence = refresh[c].endpoint
      /\ b.expires_at = expiry
  <2> HIDE DEF a, expiry
  <2> QED BY <1>2, <1>6 DEF LifecycleRow
<1>8. /\ d \in LifecycleRow /\ d.state = "attested" /\ d.evidence = refresh[c].endpoint
      /\ d.expires_at = expiry
  <2> HIDE DEF b, expiry
  <2> QED BY <1>7 DEF LifecycleRow
<1>9. /\ e \in LifecycleRow /\ e.state = "attested" /\ e.evidence = refresh[c].endpoint
      /\ e.expires_at = expiry
  <2> HIDE DEF d, expiry
  <2> QED BY <1>8, RegistryAssumption, SMTT(40)
             DEF LifecycleRow, RegistryAssumption
<1>10. lifecycle' = [lifecycle EXCEPT ![h] = e]
  BY DEF RecordVerified
<1>11. RowOK(e) /\ e.state # "absent"
  <2> HIDE DEF e, expiry
  <2> QED BY <1>2, <1>9 DEF RowOK, EvidenceDated
<1>12. LifecycleOK'
  <2> HIDE DEF e
  <2> QED BY <1>0, <1>3, <1>10, <1>11, LifecycleSet
<1>13. attestations' \in [Hotkeys -> VerdictRow]
  BY <1>0, RegistryAssumption DEF RecordVerified, StoreOK, VerdictRow, RegistryAssumption
<1> QED BY <1>12, <1>13

(* Commits, refused commits included.                                      *)
LEMMA CommitTypeInv ==
    ASSUME TypeInv, NEW c \in Clients,
           \/ RecordVerdict(c) \/ RecordProbeFailure(c) \/ RecordRefreshFailure(c)
           \/ RevokeIdentityConflict(c) \/ GiveUp(c)
    PROVE  TypeInv'
<1> DEFINE h == refresh[c].hotkey
<1>0. StoreOK /\ LifecycleOK /\ RefreshOK
  BY TypeInvParts
<1>1. RefreshOK'
  <2>1. refresh' = [refresh EXCEPT ![c] = Idle] /\ UNCHANGED enrollments
    BY DEF RecordVerdict, RecordProbeFailure, RecordRefreshFailure,
           RevokeIdentityConflict, GiveUp
  <2> QED BY <1>0, <2>1, IdleAgain
<1>2. CASE GiveUp(c)
  BY <1>0, <1>1, <1>2, TypeInvPartsNext DEF GiveUp, StoreOK, LifecycleOK
<1> SUFFICES ASSUME ~GiveUp(c) PROVE TypeInv'
  BY <1>2
<1>3. /\ h \in Hotkeys /\ refresh[c].endpoint \in Endpoints
      /\ refresh[c].measurement \in Measurements \cup {None}
  BY <1>0
     DEF RecordVerdict, RecordProbeFailure, RecordRefreshFailure,
         RevokeIdentityConflict, RefreshOK, ClientsOK, Refresh
<1>4. RowOK(lifecycle[h])
  BY <1>0, <1>3 DEF LifecycleOK, RowOK
<1>5. /\ wall \in Times
      /\ [status |-> "FAILED", chip |-> None, at |-> wall] \in VerdictRow
  BY <1>0 DEF StoreOK, VerdictRow
<1>6. UNCHANGED enrollments
  BY DEF RecordVerdict, RecordProbeFailure, RecordRefreshFailure,
         RevokeIdentityConflict
<1> HIDE DEF h
<1>7. CASE RecordVerdict(c)
  <2>1. RecordVerified(c, h, lifecycle[h]) \/ RecordFailed(c, h, lifecycle[h])
    BY <1>7 DEF RecordVerdict, h
  <2>2. RecordVerified(c, h, lifecycle[h]) => refresh[c].measurement # None
    <3>1. CASE refresh[c].measurement # None
      BY <3>1
    <3>2. CASE refresh[c].measurement = None
      <4>1. RecordFailed(c, h, lifecycle[h])
        BY <1>7, <3>2 DEF RecordVerdict, h
      <4>2. attestations'[h].status = "FAILED"
        BY <1>0, <1>3, <4>1 DEF RecordFailed, StoreOK
      <4>3. RecordVerified(c, h, lifecycle[h]) => attestations'[h].status = "VERIFIED"
        BY <1>0, <1>3, SMTT(40) DEF RecordVerified, StoreOK
      <4> QED BY <4>2, <4>3
    <3> QED BY <3>1, <3>2
  <2>3. LifecycleOK' /\ attestations' \in [Hotkeys -> VerdictRow]
    <3>1. CASE RecordVerified(c, h, lifecycle[h])
      BY <1>3, <1>6, <2>2, <3>1, RecordVerifiedOK
    <3>2. CASE RecordFailed(c, h, lifecycle[h])
      <4>1. attestations' \in [Hotkeys -> VerdictRow]
        BY <1>0, <1>5, <3>2 DEF RecordFailed, StoreOK
      <4>2. CASE UNCHANGED <<last_seen, lifecycle>>
        BY <1>0, <1>6, <4>1, <4>2 DEF LifecycleOK
      <4>3. CASE /\ CanTransition(lifecycle[h], "failed")
                 /\ lifecycle' = [lifecycle EXCEPT ![h] =
                                      Transitioned(lifecycle[h], "failed")]
        <5>1. /\ RowOK(Transitioned(lifecycle[h], "failed"))
              /\ Transitioned(lifecycle[h], "failed").state = "failed"
          BY <1>4, <4>3, TransitionedOK, TransitionedFields
             DEF CanTransition, RowOK, States
        <5> QED BY <1>0, <1>3, <1>6, <4>1, <4>3, <5>1, LifecycleSet
                   DEF CanTransition
      <4> QED BY <3>2, <4>2, <4>3 DEF RecordFailed
    <3> QED BY <2>1, <3>1, <3>2
  <2>4. last_seen' \in Times
    BY <1>0, <2>1 DEF RecordVerified, RecordFailed, AdvanceLifecycleClock, StoreOK
  <2>5. StoreOK'
    BY <1>0, <1>7, <2>3, <2>4 DEF RecordVerdict, StoreOK
  <2> QED BY <1>1, <2>3, <2>5, TypeInvPartsNext
<1>8. CASE RecordProbeFailure(c)
  <2>1. StoreOK'
    BY <1>0, <1>5, <1>8 DEF RecordProbeFailure, StoreOK, AdvanceLifecycleClock
  <2>2. /\ RefreshFailed(lifecycle[h]).revision <= MaxRevision
        /\ lifecycle' = [lifecycle EXCEPT ![h] = RefreshFailed(lifecycle[h])]
    BY <1>8 DEF RecordProbeFailure, h
  <2>3. LifecycleOK'
    BY <1>0, <1>3, <1>4, <1>5, <1>6, <2>2, RefreshFailedOK, LifecycleSet
  <2> QED BY <1>1, <2>1, <2>3, TypeInvPartsNext
<1>9. CASE RecordRefreshFailure(c)
  <2> DEFINE seen == Materialized(lifecycle[h])
             row == IF HoldsToken(c, seen) THEN RefreshFailed(seen) ELSE seen
  <2>1. StoreOK'
    BY <1>0, <1>5, <1>9
       DEF RecordRefreshFailure, StoreOK, AdvanceLifecycleClock
  <2>2. row.revision <= MaxRevision /\ lifecycle' = [lifecycle EXCEPT ![h] = row]
    BY <1>9 DEF RecordRefreshFailure, h
  <2>3. seen.revision <= MaxRevision
    <3>1. CASE seen = lifecycle[h]
      BY <1>4, <3>1, SMTT(40) DEF RowOK, LifecycleRow
    <3>2. CASE Expired(lifecycle[h])
      <4>1. seen = Transitioned(lifecycle[h], "stale")
        BY <3>2 DEF Materialized
      <4>2. seen.revision = lifecycle[h].revision + 1 /\ seen.state = "stale"
        BY <1>4, <4>1, TransitionedFields, SMTT(40) DEF RowOK
      <4>3. CASE HoldsToken(c, seen)
        BY <1>0, <4>3, RegistryAssumption, SMTT(40)
           DEF HoldsToken, RefreshOK, Refresh, RegistryAssumption
      <4> QED BY <2>2, <4>3
    <3> QED BY <3>1, <3>2 DEF Materialized
  <2>4. Expired(lifecycle[h]) => lifecycle[h].revision < MaxRevision
    <3>1. Expired(lifecycle[h]) => seen.revision = lifecycle[h].revision + 1
      BY <1>4, TransitionedFields DEF Materialized, RowOK
    <3> QED BY <1>4, <2>3, <3>1, RegistryAssumption, SMTT(40)
               DEF RowOK, LifecycleRow, RegistryAssumption
  <2>5. RowOK(seen) /\ (seen.state = "absent" <=> lifecycle[h].state = "absent")
    BY <1>4, <2>4, MaterializedOK
  <2>6. RowOK(row) /\ (row.state = "absent" <=> lifecycle[h].state = "absent")
    <3> HIDE DEF seen
    <3> QED BY <1>5, <2>2, <2>5, RefreshFailedOK
  <2>7. LifecycleOK'
    <3> HIDE DEF row
    <3> QED BY <1>0, <1>3, <1>6, <2>2, <2>6, LifecycleSet
  <2> QED BY <1>1, <2>1, <2>7, TypeInvPartsNext
<1>10. CASE RevokeIdentityConflict(c)
  <2>1. StoreOK'
    BY <1>0, <1>10 DEF RevokeIdentityConflict, StoreOK, AdvanceLifecycleClock
  <2>2. /\ CanTransition(lifecycle[h], "revoked")
        /\ lifecycle' = [lifecycle EXCEPT ![h] = Transitioned(lifecycle[h], "revoked")]
    BY <1>10 DEF RevokeIdentityConflict, h
  <2>3. /\ RowOK(Transitioned(lifecycle[h], "revoked"))
        /\ Transitioned(lifecycle[h], "revoked").state = "revoked"
    BY <1>4, <2>2, TransitionedOK, TransitionedFields
       DEF CanTransition, RowOK, States
  <2>4. LifecycleOK'
    BY <1>0, <1>3, <1>6, <2>2, <2>3, LifecycleSet DEF CanTransition
  <2> QED BY <1>1, <2>1, <2>4, TypeInvPartsNext
<1> QED BY <1>7, <1>8, <1>9, <1>10

(* One step keeps the type invariant.                                      *)
LEMMA NextTypeInv == TypeInv /\ [Next]_vars => TypeInv'
<1> SUFFICES ASSUME TypeInv, [Next]_vars PROVE TypeInv'
  OBVIOUS
<1>1. CASE \/ Tick \/ SetBack
           \/ \E m \in Measurements : DropMeasurement(m)
           \/ \E h \in Hotkeys : WorkerStep(h)
  BY <1>1, WorkerStepTypeInv
<1>2. ASSUME NEW c \in Clients, ClientStep(c) PROVE TypeInv'
  BY <1>2, ReadTypeInv, CollectTypeInv, CommitTypeInv DEF ClientStep
<1>3. CASE UNCHANGED vars
  BY <1>3 DEF vars, TypeInv, TypeOK, ClientsOK, EvidenceDated
<1> QED BY <1>1, <1>2, <1>3 DEF Next

(* Every row stays well formed, an enrolled worker always has a lifecycle, *)
(* and evidence and expiry come and go together, for any number of workers *)
(* and clients.                                                            *)
THEOREM TypeCorrect == Spec => []TypeInv
  BY InitTypeInv, NextTypeInv, PTL DEF Spec

(* The type invariant of the tables is part of it: no row written by any   *)
(* method of RegistryStore leaves the schema.                              *)
THEOREM TypeOKHolds == Spec => []TypeOK
<1>1. TypeInv => TypeOK
  BY DEF TypeInv
<1> QED BY <1>1, TypeCorrect, PTL
-----------------------------------------------------------------------------
(* One chip, one worker.                                                   *)

(* A live verdict is never dated after the registry's clock, and two that  *)
(* name one chip are at least a TTL apart.  OneChipOneWorker alone is not  *)
(* inductive: it does not say that the registry's clock passes the end of  *)
(* one verdict before the other begins.                                    *)
VerdictsSpaced ==
    /\ \A h \in Hotkeys : attestations[h].status = "VERIFIED" =>
           attestations[h].at \in Times /\ attestations[h].at <= last_seen
    /\ \A h, k \in Hotkeys :
           /\ h # k
           /\ attestations[h].status = "VERIFIED"
           /\ attestations[k].status = "VERIFIED"
           /\ attestations[h].chip = attestations[k].chip
           => \/ attestations[h].at + TTL <= attestations[k].at
              \/ attestations[k].at + TTL <= attestations[h].at

(* What a step may do to the verdict rows.                                 *)
VerdictsKept == attestations' = attestations

VerdictDropped == \E h \in Hotkeys, row \in VerdictRow :
    row.status # "VERIFIED" /\ attestations' = [attestations EXCEPT ![h] = row]

VerdictAdded == \E h \in Hotkeys, chip \in Chips :
    /\ ChipRotationOwners(chip, h) = {}
    /\ last_seen' = wall
    /\ attestations' = [attestations EXCEPT ![h] =
           [status |-> "VERIFIED", chip |-> chip, at |-> wall]]

(* The registry's clock does not run backwards, and a step adds at most    *)
(* one verdict, for a chip nobody else holds at that time.                 *)
LEMMA VerdictStep ==
    ASSUME TypeInv, [Next]_vars
    PROVE  /\ last_seen' \in Times /\ last_seen' >= last_seen
           /\ VerdictsKept \/ VerdictDropped \/ VerdictAdded
<1>0. StoreOK /\ RefreshOK
  BY TypeInvParts
<1>t. wall \in Times /\ last_seen \in Times /\ last_seen >= last_seen
  BY <1>0, SMTT(40) DEF StoreOK, Times
<1>n. /\ NoVerdict \in VerdictRow /\ NoVerdict.status # "VERIFIED"
      /\ [status |-> "FAILED", chip |-> None, at |-> wall] \in VerdictRow
      /\ [status |-> "FAILED", chip |-> None, at |-> wall].status # "VERIFIED"
  BY <1>t DEF NoVerdict, VerdictRow
<1>1. CASE \/ Tick \/ SetBack \/ \E m \in Measurements : DropMeasurement(m)
           \/ UNCHANGED vars
  BY <1>1, <1>t DEF Tick, SetBack, DropMeasurement, vars, VerdictsKept
<1>2. ASSUME NEW h \in Hotkeys, WorkerStep(h)
      PROVE  /\ last_seen' \in Times /\ last_seen' >= last_seen
             /\ VerdictsKept \/ VerdictDropped
  <2>1. ASSUME NEW endpoint \in Endpoints, NEW nonce \in Nonces,
               Enroll(h, endpoint, nonce)
        PROVE  /\ last_seen' \in Times /\ last_seen' >= last_seen
               /\ VerdictsKept \/ VerdictDropped
    BY <2>1, <1>t, <1>n
       DEF Enroll, AdvanceLifecycleClock, VerdictsKept, VerdictDropped
  <2>2. CASE OperatorReenroll(h) \/ Retire(h) \/ Remove(h) \/ LifecycleSnapshot(h)
    BY <2>2, <1>t DEF OperatorReenroll, Retire, Remove, RetireLifecycle,
                      LifecycleSnapshot, AdvanceLifecycleClock, VerdictsKept
  <2>3. CASE ClearVerdict(h)
    BY <2>3, <1>t, <1>n DEF ClearVerdict, VerdictDropped
  <2> QED BY <1>2, <2>1, <2>2, <2>3 DEF WorkerStep
<1>3. ASSUME NEW c \in Clients, ClientStep(c)
      PROVE  /\ last_seen' \in Times /\ last_seen' >= last_seen
             /\ VerdictsKept \/ VerdictDropped \/ VerdictAdded
  <2>1. CASE \/ \E h \in Hotkeys : ProbeDue(c, h) \/ ApplyLifecyclePolicy(c, h)
             \/ ProbeEndpoint(c) \/ ListEnrollment(c) \/ ListDue(c) \/ ReadToken(c)
    BY <2>1, <1>t
       DEF ProbeDue, ApplyLifecyclePolicy, ProbeEndpoint, ListEnrollment,
           ListDue, ReadToken, DueRefreshes, AdvanceLifecycleClock,
           VerdictsKept
  <2>2. CASE \/ Collect(c) \/ RequireCurrentPolicy(c) \/ AdmitUniqueChip(c)
             \/ RecordRefreshFailure(c) \/ RevokeIdentityConflict(c) \/ GiveUp(c)
    BY <2>2, <1>t
       DEF Collect, RequireCurrentPolicy, AdmitUniqueChip,
           RecordRefreshFailure, RevokeIdentityConflict, GiveUp,
           AdvanceLifecycleClock, VerdictsKept
  <2>3. CASE RecordProbeFailure(c)
    <3>1. refresh[c].hotkey \in Hotkeys
      BY <1>0, <2>3 DEF RecordProbeFailure, RefreshOK, ClientsOK
    <3> QED BY <2>3, <3>1, <1>t, <1>n
               DEF RecordProbeFailure, AdvanceLifecycleClock, VerdictDropped
  <2>4. CASE RecordVerdict(c)
    <3> DEFINE h == refresh[c].hotkey
               chip == ChipAt[refresh[c].endpoint]
    <3>1. h \in Hotkeys /\ refresh[c].endpoint \in Endpoints
      BY <1>0, <2>4 DEF RecordVerdict, RefreshOK, ClientsOK
    <3>2. chip \in Chips
      BY <3>1, RegistryAssumption DEF RegistryAssumption
    <3>3. \/ ChipRotationOwners(chip, h) = {} /\ RecordVerified(c, h, lifecycle[h])
          \/ RecordFailed(c, h, lifecycle[h])
      BY <2>4 DEF RecordVerdict
    <3> HIDE DEF h, chip
    <3>4. CASE RecordFailed(c, h, lifecycle[h])
      BY <3>1, <3>4, <1>t, <1>n
         DEF RecordFailed, AdvanceLifecycleClock, VerdictDropped
    <3>5. CASE ChipRotationOwners(chip, h) = {} /\ RecordVerified(c, h, lifecycle[h])
      BY <3>1, <3>2, <3>5, <1>t
         DEF RecordVerified, AdvanceLifecycleClock, VerdictAdded, chip
    <3> QED BY <3>3, <3>4, <3>5
  <2> QED BY <1>3, <2>1, <2>2, <2>3, <2>4 DEF ClientStep
<1> QED BY <1>1, <1>2, <1>3 DEF Next

(* A step keeps the verdicts of one chip apart.                            *)
LEMMA VerdictsStaySpaced ==
    ASSUME TypeInv, VerdictsSpaced, [Next]_vars
    PROVE  VerdictsSpaced'
<1>0. StoreOK
  BY TypeInvParts
<1>1. last_seen \in Int /\ last_seen' \in Int /\ last_seen' >= last_seen
  BY <1>0, VerdictStep, SMTT(40) DEF StoreOK, Times
<1>2. CASE VerdictsKept
  BY <1>1, <1>2, SMTT(40) DEF VerdictsSpaced, VerdictsKept, Times
<1>3. CASE VerdictDropped
  <2>1. PICK h \in Hotkeys, row \in VerdictRow :
            row.status # "VERIFIED" /\ attestations' = [attestations EXCEPT ![h] = row]
    BY <1>3 DEF VerdictDropped
  <2>2. \A k \in Hotkeys : attestations'[k].status = "VERIFIED" =>
            attestations'[k] = attestations[k]
    BY <1>0, <2>1 DEF StoreOK
  <2> QED BY <1>1, <2>2, SMTT(40) DEF VerdictsSpaced, Times
<1>4. CASE VerdictAdded
  <2>1. PICK h \in Hotkeys, chip \in Chips :
            /\ ChipRotationOwners(chip, h) = {}
            /\ last_seen' = wall
            /\ attestations' = [attestations EXCEPT ![h] =
                   [status |-> "VERIFIED", chip |-> chip, at |-> wall]]
    BY <1>4 DEF VerdictAdded
  <2>2. /\ attestations'[h].chip = chip /\ attestations'[h].at = wall
        /\ \A k \in Hotkeys \ {h} : attestations'[k] = attestations[k]
    BY <1>0, <2>1 DEF StoreOK
  <2>3. \A k \in Hotkeys \ {h} :
            attestations[k].status = "VERIFIED" /\ attestations[k].chip = chip =>
                attestations[k].at + TTL <= wall
    <3> SUFFICES ASSUME NEW k \in Hotkeys \ {h},
                        attestations[k].status = "VERIFIED",
                        attestations[k].chip = chip
                 PROVE  attestations[k].at + TTL <= wall
      OBVIOUS
    <3>1. ~ (attestations[k].at > wall - TTL)
      BY <2>1 DEF ChipRotationOwners, Effective
    <3>2. attestations[k].at \in Int /\ wall \in Int /\ TTL \in Int
      BY <1>0, RegistryAssumption, SMTT(40)
         DEF VerdictsSpaced, StoreOK, Times, RegistryAssumption
    <3> QED BY <3>1, <3>2, SMTT(40)
  <2>4. wall \in Times
    BY <1>0 DEF StoreOK
  <2>5. \A k \in Hotkeys : attestations'[k].status = "VERIFIED" =>
            attestations'[k].at \in Times /\ attestations'[k].at <= last_seen'
    BY <1>1, <2>1, <2>2, <2>4, SMTT(40) DEF VerdictsSpaced, Times
  <2>6. \A k, l \in Hotkeys :
            /\ k # l
            /\ attestations'[k].status = "VERIFIED"
            /\ attestations'[l].status = "VERIFIED"
            /\ attestations'[k].chip = attestations'[l].chip
            => \/ attestations'[k].at + TTL <= attestations'[l].at
               \/ attestations'[l].at + TTL <= attestations'[k].at
    BY <2>2, <2>3, ZenonT(60) DEF VerdictsSpaced
  <2> QED BY <2>5, <2>6 DEF VerdictsSpaced
<1> QED BY <1>2, <1>3, <1>4, VerdictStep

(* At most one worker holds a live binding to a chip, however many probers *)
(* and runtimes race and however the wall clock is stepped.                *)
THEOREM ChipHeldOnce == Spec => []OneChipOneWorker
<1>1. Init => VerdictsSpaced
  BY SMTT(40) DEF Init, VerdictsSpaced, NoVerdict
<1>2. TypeInv /\ VerdictsSpaced /\ [Next]_vars => VerdictsSpaced'
  BY VerdictsStaySpaced
<1>3. TypeInv /\ VerdictsSpaced => OneChipOneWorker
  <2> SUFFICES ASSUME TypeInv, VerdictsSpaced, NEW h \in Hotkeys, NEW k \in Hotkeys,
                      h # k, attestations[h].chip = attestations[k].chip,
                      Effective(attestations[h], last_seen),
                      Effective(attestations[k], last_seen)
               PROVE  FALSE
    BY DEF OneChipOneWorker
  <2>1. /\ attestations[h].at \in Int /\ attestations[k].at \in Int
        /\ last_seen \in Int /\ TTL \in Int
    BY RegistryAssumption, SMTT(40)
       DEF VerdictsSpaced, Effective, TypeInv, TypeOK, Times,
           RegistryAssumption
  <2>2. /\ attestations[h].at > last_seen - TTL /\ attestations[k].at > last_seen - TTL
        /\ attestations[h].at <= last_seen /\ attestations[k].at <= last_seen
    BY DEF Effective, VerdictsSpaced
  <2>3. \/ attestations[h].at + TTL <= attestations[k].at
        \/ attestations[k].at + TTL <= attestations[h].at
    BY DEF Effective, VerdictsSpaced
  <2> QED BY <2>1, <2>2, <2>3, SMTT(40)
<1> QED BY <1>1, <1>2, <1>3, TypeCorrect, PTL DEF Spec
-----------------------------------------------------------------------------
(* The token a client commits against.                                     *)

(* A row that changed has a higher (generation, revision), and an enrolled *)
(* worker's row never becomes absent.                                      *)
Advanced(row, new) ==
    \/ new = row
    \/ /\ row.state # "absent"
       /\ \/ new.generation > row.generation
          \/ /\ new.generation = row.generation
             /\ new.revision > row.revision

(* A transition raises the revision and keeps the generation.              *)
LEMMA TransitionedAdvances ==
    ASSUME NEW row \in LifecycleRow, row.state # "absent", NEW target
    PROVE  Advanced(row, Transitioned(row, target))
<1>1. Transitioned(row, target).revision > row.revision
  BY TransitionedFields, SMTT(40) DEF LifecycleRow
<1> QED BY <1>1, TransitionedFields DEF Advanced

(* Materializing an expiry advances the token, or leaves the row alone.    *)
LEMMA MaterializedAdvances ==
    ASSUME NEW row \in LifecycleRow
    PROVE  Advanced(row, Materialized(row))
  BY TransitionedAdvances DEF Materialized, Expired, Advanced

(* Re-enrolling raises the generation.                                     *)
LEMMA ReenrolledAdvances ==
    ASSUME NEW row \in LifecycleRow, row.state # "absent"
    PROVE  Advanced(row, Reenrolled(row))
<1>1. Reenrolled(row).generation = row.generation + 1
  BY DEF Reenrolled, NoLifecycle
<1> QED BY <1>1, SMTT(40) DEF Advanced, LifecycleRow

(* Retiring raises the revision once or twice.                             *)
LEMMA RetiringAdvances ==
    ASSUME NEW row \in LifecycleRow, row.state # "absent"
    PROVE  Advanced(row, Retiring(row)) /\ Advanced(row, Retired(row))
<1>1. Advanced(row, Retiring(row))
  BY TransitionedAdvances DEF Retiring, Advanced
<1>2. CASE row.state \in Terminal
  BY <1>1, <1>2 DEF Retired, Advanced
<1>3. CASE row.state \notin Terminal
  <2>1. /\ Retired(row).revision > row.revision
        /\ Retired(row).generation = row.generation
    BY <1>3, SMTT(40) DEF Retired, Retiring, Transitioned, LifecycleRow
  <2> QED BY <1>1, <2>1 DEF Advanced
<1> QED BY <1>2, <1>3

(* A counted failure raises the revision.                                  *)
LEMMA RefreshFailedAdvances ==
    ASSUME NEW row \in LifecycleRow
    PROVE  Advanced(row, RefreshFailed(row))
<1>1. CASE row.state \notin NetworkEligible
  BY <1>1 DEF RefreshFailed, Advanced
<1>2. CASE row.state \in NetworkEligible
  <2>1. /\ RefreshFailed(row).revision = row.revision + 1
        /\ RefreshFailed(row).generation = row.generation
    BY <1>2 DEF RefreshFailed, Transitioned, LifecycleRow
  <2>2. RefreshFailed(row).revision > row.revision
    BY <2>1, SMTT(40) DEF LifecycleRow
  <2> QED BY <1>2, <2>1, <2>2 DEF Advanced, NetworkEligible
<1> QED BY <1>1, <1>2

(* Two advances in one transaction are an advance.                         *)
LEMMA AdvancedTwice ==
    ASSUME NEW row \in LifecycleRow, NEW mid \in LifecycleRow, NEW new \in LifecycleRow,
           Advanced(row, mid), Advanced(mid, new)
    PROVE  Advanced(row, new)
  BY SMTT(40) DEF Advanced, LifecycleRow

(* Replacing one row by an advanced one.                                   *)
LEMMA OneRowAdvances ==
    ASSUME NEW h \in Hotkeys, Advanced(lifecycle[h], lifecycle'[h]),
           \A k \in Hotkeys \ {h} : lifecycle'[k] = lifecycle[k]
    PROVE  \A k \in Hotkeys : Advanced(lifecycle[k], lifecycle'[k])
  BY DEF Advanced

(* A worker that never enrolled has no generation.                         *)
NeverEnrolled == \A h \in Hotkeys :
    lifecycle[h].state = "absent" => lifecycle[h] = NoLifecycle

FirstEnrollment(h) ==
    /\ lifecycle[h].state = "absent"
    /\ lifecycle' = [lifecycle EXCEPT ![h] = Reenrolled(NoLifecycle)]

(* The steps of workers and operators advance what they change.            *)
LEMMA WorkerStepAdvances ==
    ASSUME TypeInv, NEW h \in Hotkeys, WorkerStep(h)
    PROVE  \/ FirstEnrollment(h)
           \/ \A k \in Hotkeys : Advanced(lifecycle[k], lifecycle'[k])
<1>0. StoreOK /\ LifecycleOK
  BY TypeInvParts
<1>1. lifecycle[h] \in LifecycleRow
  BY <1>0 DEF LifecycleOK
<1>2. ASSUME NEW endpoint \in Endpoints, NEW nonce \in Nonces, Enroll(h, endpoint, nonce)
      PROVE  \/ FirstEnrollment(h)
             \/ \A k \in Hotkeys : Advanced(lifecycle[k], lifecycle'[k])
  <2>1. CASE UNCHANGED lifecycle
    BY <2>1 DEF Advanced
  <2>2. CASE enrollments[h] = None
    BY <1>0, <1>2, <2>1, <2>2, RegistryAssumption
       DEF Enroll, FirstEnrollment, LifecycleOK, RegistryAssumption
  <2>3. CASE /\ enrollments[h] # None
             /\ lifecycle' = [lifecycle EXCEPT ![h] = Reenrolled(@)]
    <3>1. lifecycle[h].state # "absent"
      BY <1>0, <2>3 DEF LifecycleOK
    <3>2. Advanced(lifecycle[h], Reenrolled(lifecycle[h]))
      BY <1>1, <3>1, ReenrolledAdvances
    <3> QED BY <1>0, <2>3, <3>2, OneRowAdvances DEF LifecycleOK
  <2> QED BY <1>2, <2>1, <2>2, <2>3 DEF Enroll
<1>3. CASE OperatorReenroll(h)
  <2>1. /\ lifecycle[h].state # "absent"
        /\ lifecycle' = [lifecycle EXCEPT ![h] = Reenrolled(lifecycle[h])]
    BY <1>3 DEF OperatorReenroll
  <2>2. Advanced(lifecycle[h], Reenrolled(lifecycle[h]))
    BY <1>1, <2>1, ReenrolledAdvances
  <2> QED BY <1>0, <2>1, <2>2, OneRowAdvances DEF LifecycleOK
<1>4. CASE Retire(h) \/ Remove(h)
  BY <1>0, <1>1, <1>4, RetiringAdvances, OneRowAdvances, SMTT(40)
     DEF LifecycleOK, Retire, Remove, RetireLifecycle
<1>5. CASE ClearVerdict(h)
  BY <1>5 DEF ClearVerdict, Advanced
<1>6. CASE LifecycleSnapshot(h)
  <2>1. lifecycle' = [lifecycle EXCEPT ![h] = Materialized(lifecycle[h])]
    BY <1>6 DEF LifecycleSnapshot
  <2>2. Advanced(lifecycle[h], Materialized(lifecycle[h]))
    BY <1>1, MaterializedAdvances
  <2> QED BY <1>0, <2>1, <2>2, OneRowAdvances DEF LifecycleOK
<1> QED BY <1>2, <1>3, <1>4, <1>5, <1>6 DEF WorkerStep

(* So do the steps of probers and runtimes.                                *)
LEMMA ClientStepAdvances ==
    ASSUME TypeInv, NEW c \in Clients, ClientStep(c)
    PROVE  \A k \in Hotkeys : Advanced(lifecycle[k], lifecycle'[k])
<1> DEFINE h == refresh[c].hotkey
<1>0. LifecycleOK /\ RefreshOK
  BY TypeInvParts
<1>1. \A k \in Hotkeys : lifecycle[k] \in LifecycleRow
  BY <1>0 DEF LifecycleOK
<1>2. CASE UNCHANGED lifecycle
  BY <1>2 DEF Advanced
<1>3. CASE \E k \in Hotkeys : DueRefreshes(k)
  BY <1>1, <1>3, MaterializedAdvances DEF DueRefreshes
<1>4. ASSUME NEW k \in Hotkeys, ApplyLifecyclePolicy(c, k)
      PROVE  \A l \in Hotkeys : Advanced(lifecycle[l], lifecycle'[l])
  <2> SUFFICES ASSUME NEW l \in Hotkeys PROVE Advanced(lifecycle[l], lifecycle'[l])
    OBVIOUS
  <2>1. \/ lifecycle'[l] = lifecycle[l]
        \/ /\ lifecycle[l].state \in NetworkEligible
           /\ lifecycle'[l] = Transitioned(lifecycle[l], "revoked")
    BY <1>4 DEF ApplyLifecyclePolicy
  <2>2. CASE lifecycle[l].state \in NetworkEligible
    BY <1>1, <2>1, <2>2, TransitionedAdvances, SMTT(40)
       DEF Advanced, NetworkEligible
  <2> QED BY <2>1, <2>2 DEF Advanced
<1>5. CASE ReadToken(c)
  <2>1. h \in Hotkeys /\ lifecycle' = [lifecycle EXCEPT ![h] = Materialized(@)]
    BY <1>0, <1>5 DEF ReadToken, RefreshOK, ClientsOK
  <2> QED BY <1>0, <1>1, <2>1, MaterializedAdvances, OneRowAdvances
             DEF LifecycleOK
<1>6. CASE RecordVerdict(c)
  <2>0. refresh[c].phase = "cleared"
    BY <1>6 DEF RecordVerdict
  <2>1. h \in Hotkeys
    BY <1>0, <2>0 DEF RefreshOK, ClientsOK
  <2>2. RecordVerified(c, h, lifecycle[h]) \/ RecordFailed(c, h, lifecycle[h])
    BY <1>6 DEF RecordVerdict
  <2> HIDE DEF h
  <2>3. CASE RecordFailed(c, h, lifecycle[h])
    <3>1. CASE /\ lifecycle[h].state # "absent"
               /\ lifecycle' = [lifecycle EXCEPT ![h] =
                                    Transitioned(lifecycle[h], "failed")]
      <4>1. Advanced(lifecycle[h], Transitioned(lifecycle[h], "failed"))
        BY <1>1, <2>1, <3>1, TransitionedAdvances
      <4> QED BY <1>0, <2>1, <3>1, <4>1, OneRowAdvances DEF LifecycleOK
    <3> QED BY <1>2, <2>3, <3>1 DEF RecordFailed, CanTransition
  <2>4. CASE RecordVerified(c, h, lifecycle[h])
    <3>1. /\ lifecycle'[h].revision = lifecycle[h].revision + 1
          /\ lifecycle'[h].generation = lifecycle[h].generation
          /\ lifecycle[h].state # "absent"
          /\ \A k \in Hotkeys \ {h} : lifecycle'[k] = lifecycle[k]
      BY <1>0, <1>1, <2>1, <2>4
         DEF RecordVerified, Transitioned, LifecycleRow, CanTransition, LifecycleOK
    <3>2. lifecycle[h].revision \in Int
      BY <1>1, <2>1, SMTT(40) DEF LifecycleRow
    <3> QED BY <2>1, <3>1, <3>2, SMTT(40) DEF Advanced
  <2> QED BY <2>2, <2>3, <2>4
<1>7. CASE RecordProbeFailure(c)
  <2>1. /\ h \in Hotkeys
        /\ lifecycle' = [lifecycle EXCEPT ![h] = RefreshFailed(lifecycle[h])]
    BY <1>0, <1>7 DEF RecordProbeFailure, RefreshOK, ClientsOK
  <2>2. lifecycle[h] \in LifecycleRow
    BY <1>0, <2>1 DEF LifecycleOK
  <2>3. Advanced(lifecycle[h], RefreshFailed(lifecycle[h]))
    BY <2>2, RefreshFailedAdvances
  <2>4. /\ lifecycle'[h] = RefreshFailed(lifecycle[h])
        /\ \A k \in Hotkeys \ {h} : lifecycle'[k] = lifecycle[k]
    BY <1>0, <2>1 DEF LifecycleOK
  <2> QED BY <2>1, <2>3, <2>4, OneRowAdvances
<1>8. CASE RecordRefreshFailure(c)
  <2> DEFINE seen == Materialized(lifecycle[h])
  <2>1. /\ h \in Hotkeys
        /\ \/ lifecycle' = [lifecycle EXCEPT ![h] = seen]
           \/ lifecycle' = [lifecycle EXCEPT ![h] = RefreshFailed(seen)]
    <3>1. h \in Hotkeys
      BY <1>0, <1>8 DEF RecordRefreshFailure, RefreshOK, ClientsOK
    <3>2. lifecycle' = [lifecycle EXCEPT ![h] =
              IF HoldsToken(c, seen) THEN RefreshFailed(seen) ELSE seen]
      BY <1>8 DEF RecordRefreshFailure
    <3> HIDE DEF h, seen
    <3>3. CASE HoldsToken(c, seen)
      BY <3>1, <3>2, <3>3
    <3>4. CASE ~HoldsToken(c, seen)
      BY <3>1, <3>2, <3>4
    <3> QED BY <3>3, <3>4
  <2> HIDE DEF h
  <2>2. LifecycleOK'
    BY <1>8, CommitTypeInv, TypeInvPartsNext
  <2>3. Advanced(lifecycle[h], seen)
    BY <1>1, <2>1, MaterializedAdvances
  <2>4. CASE lifecycle' = [lifecycle EXCEPT ![h] = seen]
    <3> HIDE DEF seen
    <3> QED BY <1>0, <2>1, <2>3, <2>4, OneRowAdvances DEF LifecycleOK
  <2>5. CASE lifecycle' = [lifecycle EXCEPT ![h] = RefreshFailed(seen)]
    <3>1. /\ lifecycle[h] \in LifecycleRow
          /\ seen.generation = lifecycle[h].generation
          /\ seen.revision \in {lifecycle[h].revision, lifecycle[h].revision + 1}
          /\ RefreshFailed(seen).generation = seen.generation
          /\ RefreshFailed(seen) = seen \/ RefreshFailed(seen).revision = seen.revision + 1
          /\ seen = lifecycle[h] \/ lifecycle[h].state = "attested"
          /\ lifecycle[h].state = "absent" => RefreshFailed(seen) = lifecycle[h]
      BY <1>1, <2>1, SMTT(40)
         DEF Materialized, Expired, RefreshFailed, Transitioned, LifecycleRow,
             NetworkEligible
    <3>2. Advanced(lifecycle[h], RefreshFailed(seen))
      <4> HIDE DEF seen
      <4>1. lifecycle[h].revision \in Int /\ seen.revision \in Int
        BY <3>1, SMTT(40) DEF LifecycleRow
      <4> QED BY <2>3, <3>1, <4>1, SMTT(40) DEF Advanced
    <3> HIDE DEF seen
    <3> QED BY <1>0, <2>1, <2>5, <3>2, OneRowAdvances DEF LifecycleOK
  <2> QED BY <2>1, <2>4, <2>5
<1>9. CASE RevokeIdentityConflict(c)
  <2>1. /\ h \in Hotkeys /\ lifecycle[h].state # "absent"
        /\ lifecycle' = [lifecycle EXCEPT ![h] = Transitioned(lifecycle[h], "revoked")]
    BY <1>0, <1>9
       DEF RevokeIdentityConflict, RefreshOK, ClientsOK, CanTransition
  <2>2. lifecycle[h] \in LifecycleRow
    BY <1>0, <2>1 DEF LifecycleOK
  <2>3. Advanced(lifecycle[h], Transitioned(lifecycle[h], "revoked"))
    BY <2>1, <2>2, TransitionedAdvances
  <2>4. /\ lifecycle'[h] = Transitioned(lifecycle[h], "revoked")
        /\ \A k \in Hotkeys \ {h} : lifecycle'[k] = lifecycle[k]
    BY <1>0, <2>1 DEF LifecycleOK
  <2> QED BY <2>1, <2>3, <2>4, OneRowAdvances
<1> HIDE DEF h
<1>10. CASE \/ ProbeEndpoint(c) \/ ListEnrollment(c) \/ Collect(c)
            \/ RequireCurrentPolicy(c) \/ AdmitUniqueChip(c) \/ GiveUp(c)
  <2>1. UNCHANGED lifecycle
    <3>1. Collect(c) => UNCHANGED lifecycle
      BY DEF Collect
    <3>2. AdmitUniqueChip(c) => UNCHANGED lifecycle
      BY DEF AdmitUniqueChip
    <3>3. RequireCurrentPolicy(c) => UNCHANGED lifecycle
      BY DEF RequireCurrentPolicy
    <3> QED BY <1>10, <3>1, <3>2, <3>3 DEF ProbeEndpoint, ListEnrollment, GiveUp
  <2> QED BY <1>2, <2>1
<1>11. CASE ListDue(c) \/ \E k \in Hotkeys : ProbeDue(c, k)
  <2>1. ListDue(c) => DueRefreshes(refresh[c].hotkey) /\ refresh[c].hotkey \in Hotkeys
    BY <1>0 DEF ListDue, RefreshOK, ClientsOK
  <2>2. \A k \in Hotkeys : ProbeDue(c, k) => DueRefreshes(k)
    BY DEF ProbeDue
  <2> QED BY <1>3, <1>11, <2>1, <2>2
<1> QED BY <1>4, <1>5, <1>6, <1>7, <1>8, <1>9, <1>10, <1>11 DEF ClientStep

(* Every change of a lifecycle moves its token up, so a commit that finds  *)
(* the token it read finds the row it read.                                *)
THEOREM TokensNeverRepeat == Spec => TokenAdvances
<1> DEFINE Moves == \A h \in Hotkeys : lifecycle'[h] # lifecycle[h] =>
               \/ lifecycle'[h].generation > lifecycle[h].generation
               \/ /\ lifecycle'[h].generation = lifecycle[h].generation
                  /\ lifecycle'[h].revision > lifecycle[h].revision
<1>1. Init => NeverEnrolled
  BY DEF Init, NeverEnrolled
<1>2. ASSUME TypeInv, NeverEnrolled, [Next]_vars
      PROVE  NeverEnrolled' /\ Moves
  <2>0. LifecycleOK /\ LifecycleOK'
    BY <1>2, NextTypeInv, TypeInvParts, TypeInvPartsNext
  <2>1. CASE \A k \in Hotkeys : Advanced(lifecycle[k], lifecycle'[k])
    <3>1. Moves
      BY <2>1 DEF Advanced
    <3>2. \A k \in Hotkeys : enrollments[k] # None => enrollments'[k] # None
      <4>1. ASSUME NEW h \in Hotkeys, WorkerStep(h)
            PROVE  \A k \in Hotkeys : enrollments[k] # None => enrollments'[k] # None
        <5>1. ASSUME NEW endpoint \in Endpoints, NEW nonce \in Nonces,
                     Enroll(h, endpoint, nonce)
              PROVE  \A k \in Hotkeys : enrollments[k] # None => enrollments'[k] # None
          <6>0. endpoint # None
            BY RegistryAssumption DEF RegistryAssumption
          <6>1. enrollments' = [enrollments EXCEPT ![h] = endpoint] /\ endpoint # None
            BY <5>1, <6>0 DEF Enroll
          <6> QED BY <1>2, <6>1 DEF TypeInv, TypeOK
        <5>2. CASE \/ OperatorReenroll(h) \/ Retire(h) \/ Remove(h) \/ ClearVerdict(h)
                   \/ LifecycleSnapshot(h)
          BY <5>2
             DEF OperatorReenroll, Retire, Remove, ClearVerdict,
                 LifecycleSnapshot
        <5> QED BY <4>1, <5>1, <5>2 DEF WorkerStep
      <4>2. ASSUME NEW c \in Clients, ClientStep(c) PROVE UNCHANGED enrollments
        <5>1. CASE \E h \in Hotkeys : ProbeDue(c, h) \/ ApplyLifecyclePolicy(c, h)
          BY <5>1 DEF ProbeDue, ApplyLifecyclePolicy
        <5>2. CASE ProbeEndpoint(c) \/ ListEnrollment(c) \/ ListDue(c) \/ ReadToken(c)
          BY <5>2 DEF ProbeEndpoint, ListEnrollment, ListDue, ReadToken
        <5>4. CASE Collect(c) \/ RequireCurrentPolicy(c)
          BY <5>4 DEF Collect, RequireCurrentPolicy
        <5>5. CASE AdmitUniqueChip(c) \/ RecordVerdict(c) \/ RecordProbeFailure(c)
          BY <5>5 DEF AdmitUniqueChip, RecordVerdict, RecordProbeFailure
        <5>3. CASE RecordRefreshFailure(c) \/ RevokeIdentityConflict(c) \/ GiveUp(c)
          BY <5>3 DEF RecordRefreshFailure, RevokeIdentityConflict, GiveUp
        <5> QED BY <4>2, <5>1, <5>2, <5>3, <5>4, <5>5 DEF ClientStep
      <4> QED BY <1>2, <4>1, <4>2 DEF Next, Tick, SetBack, DropMeasurement, vars
    <3>3. \A k \in Hotkeys : lifecycle'[k].state = "absent" => lifecycle[k].state = "absent"
      BY <2>0, <3>2 DEF LifecycleOK
    <3>4. NeverEnrolled'
      BY <1>2, <2>1, <3>3 DEF NeverEnrolled, Advanced
    <3> QED BY <3>1, <3>4
  <2>2. ASSUME NEW h \in Hotkeys, FirstEnrollment(h)
        PROVE  NeverEnrolled' /\ Moves
    <3>1. lifecycle[h] = NoLifecycle /\ NoLifecycle.generation = 0
      BY <1>2, <2>2 DEF NeverEnrolled, FirstEnrollment, NoLifecycle
    <3>2. /\ Reenrolled(NoLifecycle).state = "pending"
          /\ Reenrolled(NoLifecycle).generation = 1
      BY SMTT(40) DEF Reenrolled, NoLifecycle
    <3>3. /\ lifecycle'[h] = Reenrolled(NoLifecycle)
          /\ \A k \in Hotkeys \ {h} : lifecycle'[k] = lifecycle[k]
      BY <2>0, <2>2 DEF FirstEnrollment, LifecycleOK
    <3> QED BY <1>2, <3>1, <3>2, <3>3, SMTT(40) DEF NeverEnrolled
  <2> HIDE DEF Moves
  <2>3. CASE \/ Tick \/ SetBack \/ UNCHANGED vars
             \/ \E m \in Measurements : DropMeasurement(m)
    BY <2>1, <2>3 DEF Tick, SetBack, DropMeasurement, vars, Advanced
  <2> QED BY <1>2, <2>1, <2>2, <2>3, WorkerStepAdvances, ClientStepAdvances
             DEF Next
<1>3. TypeInv /\ NeverEnrolled /\ [Next]_vars => NeverEnrolled'
  BY <1>2
<1>4. TypeInv /\ NeverEnrolled /\ [Next]_vars => [Moves]_vars
  BY <1>2
<1> QED BY <1>1, <1>3, <1>4, TypeCorrect, PTL DEF Spec, TokenAdvances
-----------------------------------------------------------------------------
(* What a refresh may do to a worker.                                      *)

(* What a refresh, an expiry or a policy makes of a row: nothing that      *)
(* stopped runs again, nothing retires or takes up capacity that did not,  *)
(* and evidence is inherited.                                              *)
Kept(row, new) ==
    /\ new.state \in NetworkEligible =>
           /\ row.state \in NetworkEligible
           /\ row.retry_count < MaxFailures => new.retry_count < MaxFailures
    /\ new.state = "attested" =>
           row.state = "attested" /\ new.evidence = row.evidence
    /\ new.state = "retired" => row.state = "retired"
    /\ new.state \in CapacityConsuming => row.state \in CapacityConsuming

(* A transition out of the refresh set, or to stale within it.             *)
LEMMA TransitionedKept ==
    ASSUME NEW row \in LifecycleRow, NEW target,
           \/ target = "failed"
           \/ target \in {"stale", "revoked"} /\ row.state \in NetworkEligible
    PROVE  Kept(row, Transitioned(row, target))
<1>1. /\ Transitioned(row, target).state = target
      /\ Transitioned(row, target).retry_count = row.retry_count
  BY DEF Transitioned, LifecycleRow
<1> QED BY <1>1 DEF Kept, NetworkEligible, CapacityConsuming

(* Expiry.                                                                 *)
LEMMA MaterializedKept ==
    ASSUME NEW row \in LifecycleRow
    PROVE  Kept(row, Materialized(row))
<1>1. CASE Expired(row)
  <2>1. row.state \in NetworkEligible
    BY <1>1 DEF Expired, NetworkEligible
  <2> QED BY <1>1, <2>1, TransitionedKept DEF Materialized
<1>2. CASE ~Expired(row)
  BY <1>2 DEF Materialized, Kept
<1> QED BY <1>1, <1>2

(* One more failure.                                                       *)
LEMMA RefreshFailedKept ==
    ASSUME NEW row \in LifecycleRow
    PROVE  Kept(row, RefreshFailed(row))
<1> DEFINE attempt == IF row.retry_count + 1 < MaxFailures
                      THEN row.retry_count + 1 ELSE MaxFailures
           target == IF row.state = "attested" /\ wall < row.expires_at
                     THEN "attested"
                     ELSE IF row.state = "pending" THEN "pending" ELSE "stale"
           failed == Transitioned(row, "failed")
           again == Transitioned(row, target)
           counted == [again EXCEPT !.retry_count = attempt]
<1>1. CASE row.state \notin NetworkEligible
  BY <1>1 DEF RefreshFailed, Kept
<1>2. CASE row.state \in NetworkEligible /\ attempt = MaxFailures
  <2>1. RefreshFailed(row) = [failed EXCEPT !.retry_count = attempt]
    BY <1>2 DEF RefreshFailed
  <2>2. RefreshFailed(row).state = "failed"
    BY <2>1 DEF Transitioned, LifecycleRow
  <2> QED BY <2>2 DEF Kept, NetworkEligible, CapacityConsuming
<1>3. CASE row.state \in NetworkEligible /\ attempt # MaxFailures
  <2>1. RefreshFailed(row) = [again EXCEPT !.retry_count = attempt,
                                           !.next_retry_at = wall + RetryDelay]
    BY <1>3 DEF RefreshFailed
  <2>2. attempt < MaxFailures
    BY <1>3 DEF LifecycleRow
  <2> HIDE DEF attempt, target
  <2>3. /\ RefreshFailed(row).state = target
        /\ RefreshFailed(row).evidence = row.evidence
        /\ RefreshFailed(row).retry_count = attempt
    BY <2>1 DEF Transitioned, LifecycleRow
  <2>4. target = "attested" => row.state = "attested"
    BY DEF target
  <2>5. target \in NetworkEligible
    BY DEF target, NetworkEligible
  <2> QED BY <1>3, <2>2, <2>3, <2>4, <2>5 DEF Kept, NetworkEligible, CapacityConsuming
<1> QED BY <1>1, <1>2, <1>3

(* Expiry and a failure in one transaction.                                *)
LEMMA KeptTwice ==
    ASSUME NEW row, NEW mid, NEW new, Kept(row, mid), Kept(mid, new)
    PROVE  Kept(row, new)
  BY DEF Kept

(* Client c commits against the token it read.                             *)
Commits(c, h) ==
    /\ h = refresh[c].hotkey /\ HoldsToken(c, lifecycle[h])
    /\ refresh[c].phase \in {"collected", "cleared"}

(* What a step of client c does to a worker: a late result keeps it as it  *)
(* was or stops it, and only a commit against the token attests it.        *)
Refreshed(c, h) ==
    \/ /\ Kept(lifecycle[h], lifecycle'[h])
       /\ attestations'[h].status = "VERIFIED" =>
              attestations[h].status = "VERIFIED"
    \/ /\ Commits(c, h) /\ refresh[c].phase = "cleared"
       /\ lifecycle[h].state \in NetworkEligible
       /\ lifecycle'[h].state = "attested"
       /\ lifecycle'[h].evidence = refresh[c].endpoint
       /\ lifecycle'[h].retry_count = 0
    \/ /\ Commits(c, h)
       /\ lifecycle'[h].state = "revoked"
       /\ UNCHANGED attestations

(* Steps that leave the workers alone.                                     *)
LEMMA NothingRefreshed ==
    ASSUME UNCHANGED <<lifecycle, attestations>>, NEW c, NEW h
    PROVE  Refreshed(c, h)
  BY DEF Refreshed, Kept

(* One row is kept, the others are the same.                               *)
LEMMA OneRowRefreshed ==
    ASSUME LifecycleOK, NEW h \in Hotkeys, NEW row, Kept(lifecycle[h], row),
           lifecycle' = [lifecycle EXCEPT ![h] = row],
           \A k \in Hotkeys : attestations'[k].status = "VERIFIED" =>
               attestations[k].status = "VERIFIED",
           NEW c, NEW k \in Hotkeys
    PROVE  Refreshed(c, k)
<1>1. lifecycle'[h] = row /\ (k # h => lifecycle'[k] = lifecycle[k])
  BY DEF LifecycleOK
<1>2. Kept(lifecycle[k], lifecycle'[k])
  BY <1>1 DEF Kept
<1> QED BY <1>2 DEF Refreshed

LEMMA RecordVerdictRefreshes ==
    ASSUME TypeInv, NEW c \in Clients, RecordVerdict(c), NEW k \in Hotkeys
    PROVE  Refreshed(c, k)
<1> DEFINE h == refresh[c].hotkey
<1>0. StoreOK /\ LifecycleOK /\ RefreshOK
  BY TypeInvParts
<1>1. refresh[c].phase = "cleared"
  BY DEF RecordVerdict
<1>2. h \in Hotkeys
  BY <1>0, <1>1 DEF RefreshOK, ClientsOK
<1>3. RecordVerified(c, h, lifecycle[h]) \/ RecordFailed(c, h, lifecycle[h])
  BY DEF RecordVerdict
<1>4. lifecycle[h] \in LifecycleRow
  BY <1>0, <1>2 DEF LifecycleOK
<1>h. h = refresh[c].hotkey
  OBVIOUS
<1> HIDE DEF h
<1>5. CASE RecordFailed(c, h, lifecycle[h])
  <2>1. \A l \in Hotkeys : attestations'[l].status = "VERIFIED" =>
            attestations[l].status = "VERIFIED"
    BY <1>0, <1>2, <1>5 DEF RecordFailed, StoreOK
  <2>2. CASE UNCHANGED lifecycle
    BY <2>1, <2>2 DEF Refreshed, Kept
  <2>3. CASE lifecycle' = [lifecycle EXCEPT ![h] = Transitioned(lifecycle[h], "failed")]
    <3>1. Kept(lifecycle[h], Transitioned(lifecycle[h], "failed"))
      BY <1>4, TransitionedKept
    <3> QED BY <1>0, <1>2, <2>1, <2>3, <3>1, OneRowRefreshed
  <2> QED BY <1>5, <2>2, <2>3 DEF RecordFailed
<1>6. CASE RecordVerified(c, h, lifecycle[h])
  <2> DEFINE a == Transitioned(lifecycle[h], "attested")
             b == [a EXCEPT !.evidence = refresh[c].endpoint,
                            !.expires_at = refresh[c].verified_at + TTL,
                            !.measurement = refresh[c].measurement,
                            !.retry_count = 0]
  <2>1. /\ lifecycle' = [lifecycle EXCEPT ![h] = b]
        /\ HoldsToken(c, lifecycle[h]) /\ CanTransition(lifecycle[h], "attested")
        /\ \A l \in Hotkeys \ {h} : attestations'[l] = attestations[l]
    <3>1. /\ lifecycle' = [lifecycle EXCEPT ![h] = b]
          /\ HoldsToken(c, lifecycle[h]) /\ CanTransition(lifecycle[h], "attested")
      BY <1>6 DEF RecordVerified
    <3>2. \A l \in Hotkeys \ {h} : attestations'[l] = attestations[l]
      BY <1>0, <1>6 DEF RecordVerified, StoreOK
    <3> QED BY <3>1, <3>2
  <2>2. /\ b.state = "attested" /\ b.evidence = refresh[c].endpoint
        /\ b.retry_count = 0
    <3>1. b.state = a.state /\ b.evidence = refresh[c].endpoint /\ b.retry_count = 0
      BY <1>4 DEF Transitioned, LifecycleRow
    <3>2. a.state = "attested"
      BY <1>4, TransitionedFields
    <3> QED BY <3>1, <3>2
  <2> HIDE DEF b
  <2>3. lifecycle'[h] = b /\ \A l \in Hotkeys \ {h} : lifecycle'[l] = lifecycle[l]
    BY <1>0, <1>2, <2>1 DEF LifecycleOK
  <2>4. lifecycle[h].state \in NetworkEligible
    <3>1. /\ lifecycle[h].state \in States \cup {"absent"}
          /\ lifecycle[h].state # "absent"
          /\ "attested" \in AllowedTransitions[lifecycle[h].state]
      BY <1>4, <2>1 DEF LifecycleRow, CanTransition
    <3> QED BY <3>1, SMTT(40) DEF AllowedTransitions, NetworkEligible, States
  <2>5. CASE k = h
    BY <1>1, <1>h, <2>1, <2>2, <2>3, <2>4, <2>5 DEF Refreshed, Commits
  <2>6. CASE k # h
    BY <2>1, <2>3, <2>6 DEF Refreshed, Kept
  <2> QED BY <2>5, <2>6
<1> QED BY <1>3, <1>5, <1>6

(* Every step of a prober or a runtime.                                    *)
LEMMA ClientRefreshes ==
    ASSUME TypeInv, NEW c \in Clients, ClientStep(c), NEW k \in Hotkeys
    PROVE  Refreshed(c, k)
<1> DEFINE h == refresh[c].hotkey
<1>0. StoreOK /\ LifecycleOK /\ RefreshOK
  BY TypeInvParts
<1>1. \A l \in Hotkeys : lifecycle[l] \in LifecycleRow
  BY <1>0 DEF LifecycleOK
<1>2. CASE \/ ProbeEndpoint(c) \/ ListEnrollment(c) \/ Collect(c)
           \/ RequireCurrentPolicy(c) \/ AdmitUniqueChip(c) \/ GiveUp(c)
  <2>1. UNCHANGED <<lifecycle, attestations>>
    <3>1. Collect(c) => UNCHANGED <<lifecycle, attestations>>
      BY DEF Collect
    <3>2. AdmitUniqueChip(c) => UNCHANGED <<lifecycle, attestations>>
      BY DEF AdmitUniqueChip
    <3>3. RequireCurrentPolicy(c) => UNCHANGED <<lifecycle, attestations>>
      BY DEF RequireCurrentPolicy
    <3> QED BY <1>2, <3>1, <3>2, <3>3 DEF ProbeEndpoint, ListEnrollment, GiveUp
  <2> QED BY <2>1, NothingRefreshed
<1>3. CASE ListDue(c) \/ \E l \in Hotkeys : ProbeDue(c, l)
  <2>1. /\ lifecycle'[k] = Materialized(lifecycle[k])
        /\ UNCHANGED attestations
    BY <1>3 DEF ListDue, ProbeDue, DueRefreshes
  <2> QED BY <1>1, <2>1, MaterializedKept DEF Refreshed
<1>4. ASSUME NEW l \in Hotkeys, ApplyLifecyclePolicy(c, l)
      PROVE  Refreshed(c, k)
  <2>1. /\ UNCHANGED attestations
        /\ \/ lifecycle'[k] = lifecycle[k]
           \/ /\ lifecycle[k].state \in NetworkEligible
              /\ lifecycle'[k] = Transitioned(lifecycle[k], "revoked")
    BY <1>4 DEF ApplyLifecyclePolicy
  <2>2. Kept(lifecycle[k], lifecycle'[k])
    <3>1. CASE lifecycle'[k] = lifecycle[k]
      BY <3>1 DEF Kept
    <3>2. CASE /\ lifecycle[k].state \in NetworkEligible
               /\ lifecycle'[k] = Transitioned(lifecycle[k], "revoked")
      BY <1>1, <3>2, TransitionedKept
    <3> QED BY <2>1, <3>1, <3>2
  <2> QED BY <2>1, <2>2 DEF Refreshed
<1>5. CASE ReadToken(c)
  <2>1. /\ h \in Hotkeys /\ UNCHANGED attestations
        /\ lifecycle' = [lifecycle EXCEPT ![h] = Materialized(lifecycle[h])]
    BY <1>0, <1>5 DEF ReadToken, RefreshOK, ClientsOK
  <2>2. Kept(lifecycle[h], Materialized(lifecycle[h]))
    BY <1>1, <2>1, MaterializedKept
  <2> HIDE DEF h
  <2>3. \A l \in Hotkeys : attestations'[l].status = "VERIFIED" =>
            attestations[l].status = "VERIFIED"
    BY <2>1
  <2> QED BY <1>0, <2>1, <2>2, <2>3, OneRowRefreshed
<1>6. CASE RecordVerdict(c)
  BY <1>6, RecordVerdictRefreshes
<1>7. CASE RecordProbeFailure(c)
  <2>1. /\ h \in Hotkeys
        /\ lifecycle' = [lifecycle EXCEPT ![h] = RefreshFailed(lifecycle[h])]
        /\ attestations' = [attestations EXCEPT ![h] =
               [status |-> "FAILED", chip |-> None, at |-> wall]]
    BY <1>0, <1>7 DEF RecordProbeFailure, RefreshOK, ClientsOK
  <2>2. Kept(lifecycle[h], RefreshFailed(lifecycle[h]))
    BY <1>1, <2>1, RefreshFailedKept
  <2> HIDE DEF h
  <2>3. \A l \in Hotkeys : attestations'[l].status = "VERIFIED" =>
            attestations[l].status = "VERIFIED"
    BY <1>0, <2>1 DEF StoreOK
  <2> QED BY <1>0, <2>1, <2>2, <2>3, OneRowRefreshed
<1>8. CASE RecordRefreshFailure(c)
  <2> DEFINE seen == Materialized(lifecycle[h])
             row == IF HoldsToken(c, seen) THEN RefreshFailed(seen) ELSE seen
  <2>1. /\ h \in Hotkeys /\ UNCHANGED attestations
        /\ lifecycle' = [lifecycle EXCEPT ![h] = row]
    BY <1>0, <1>8 DEF RecordRefreshFailure, RefreshOK, ClientsOK
  <2>2. Kept(lifecycle[h], seen)
    BY <1>1, <2>1, MaterializedKept
  <2>3. seen \in LifecycleRow
    <3>1. lifecycle[h] \in LifecycleRow /\ EvidenceDated(lifecycle[h])
      BY <1>0, <2>1 DEF LifecycleOK
    <3>2. row.revision <= MaxRevision
      BY <1>8 DEF RecordRefreshFailure
    <3>3. Expired(lifecycle[h]) => lifecycle[h].revision < MaxRevision
      <4>1. RefreshFailed(seen).revision \in {seen.revision, seen.revision + 1}
        BY <3>1 DEF RefreshFailed, Transitioned, Materialized, LifecycleRow
      <4>2. /\ Expired(lifecycle[h]) => seen.revision = lifecycle[h].revision + 1
            /\ lifecycle[h].revision \in Int /\ MaxRevision \in Int
        BY <3>1, RegistryAssumption, SMTT(40)
           DEF Materialized, Transitioned, LifecycleRow, RegistryAssumption
      <4> HIDE DEF seen
      <4> QED BY <3>2, <4>1, <4>2, SMTT(40)
    <3> QED BY <3>1, <3>3, MaterializedOK DEF RowOK
  <2> HIDE DEF h, seen
  <2>4. Kept(lifecycle[h], row)
    BY <2>2, <2>3, RefreshFailedKept, KeptTwice
  <2> HIDE DEF row
  <2>5. \A l \in Hotkeys : attestations'[l].status = "VERIFIED" =>
            attestations[l].status = "VERIFIED"
    BY <2>1
  <2> QED BY <1>0, <2>1, <2>4, <2>5, OneRowRefreshed
<1>9. CASE RevokeIdentityConflict(c)
  <2>1. /\ h \in Hotkeys /\ Commits(c, h) /\ UNCHANGED attestations
        /\ lifecycle' = [lifecycle EXCEPT ![h] = Transitioned(lifecycle[h], "revoked")]
    <3>1. refresh[c].phase \in {"collected", "cleared"}
      BY <1>9 DEF RevokeIdentityConflict
    <3>2. h \in Hotkeys
      BY <1>0, <3>1 DEF RefreshOK, ClientsOK
    <3> QED BY <1>9, <3>1, <3>2 DEF RevokeIdentityConflict, Commits
  <2>2. Transitioned(lifecycle[h], "revoked").state = "revoked"
    BY <1>1, <2>1, TransitionedFields
  <2> HIDE DEF h
  <2>3. /\ lifecycle'[h] = Transitioned(lifecycle[h], "revoked")
        /\ k # h => lifecycle'[k] = lifecycle[k]
    BY <1>0, <2>1 DEF LifecycleOK
  <2>4. CASE k = h
    BY <2>1, <2>2, <2>3, <2>4 DEF Refreshed
  <2>5. CASE k # h
    BY <2>1, <2>3, <2>5 DEF Refreshed, Kept
  <2> QED BY <2>4, <2>5
<1> QED BY <1>2, <1>3, <1>4, <1>5, <1>6, <1>7, <1>8, <1>9 DEF ClientStep
-----------------------------------------------------------------------------
(* What workers and operators may do to a worker.                          *)

(* A new generation: of a new worker, by a worker that may re-enroll, or   *)
(* by the operator.                                                        *)
Restarted(h) ==
    /\ lifecycle'[h].state = "pending" /\ lifecycle'[h].retry_count = 0
    /\ \/ lifecycle[h].state = "absent"
       \/ /\ lifecycle'[h].generation > lifecycle[h].generation
          /\ \/ Reenrollable(lifecycle[h])
             \/ "reenroll" \in Operator /\ UNCHANGED enrollments

(* On its way out by the operator, or out by a removal under way.          *)
Stopped(h) ==
    /\ lifecycle'[h].state \in Terminal \cup {"retiring"}
    /\ \/ "retire" \in Operator
       \/ lifecycle'[h].state \in Terminal /\ h \in removing'

(* No step of a worker or an operator adds a verdict, and one that ends a  *)
(* removal takes the verdict away.                                         *)
VerdictsShrink ==
    \A k \in Hotkeys :
        /\ attestations'[k].status = "VERIFIED" => attestations[k].status = "VERIFIED"
        /\ k \in removing \ removing' => attestations'[k].status # "VERIFIED"

(* A retired row is terminal, a retiring one on its way.                   *)
LEMMA RetiringStates ==
    ASSUME NEW row \in LifecycleRow
    PROVE  /\ Retiring(row).state \in Terminal \cup {"retiring"}
           /\ Retired(row).state \in Terminal
<1>1. Retiring(row).state \in Terminal \cup {"retiring"}
  BY TransitionedFields DEF Retiring, Terminal
<1>2. Transitioned(Retiring(row), "retired").state = "retired"
  BY DEF Transitioned, Retiring, LifecycleRow
<1> QED BY <1>1, <1>2 DEF Retired, Terminal

LEMMA WorkerRefreshes ==
    ASSUME TypeInv, NEW h \in Hotkeys, WorkerStep(h)
    PROVE  /\ \A k \in Hotkeys \ {h} : lifecycle'[k] = lifecycle[k]
           /\ Kept(lifecycle[h], lifecycle'[h]) \/ Restarted(h) \/ Stopped(h)
           /\ VerdictsShrink
<1>0. StoreOK /\ LifecycleOK
  BY TypeInvParts
<1>1. lifecycle[h] \in LifecycleRow /\ lifecycle \in [Hotkeys -> LifecycleRow]
  BY <1>0 DEF LifecycleOK
<1>2. Kept(lifecycle[h], lifecycle[h])
  BY DEF Kept
<1>3. \A row : /\ Reenrolled(row).state = "pending"
               /\ Reenrolled(row).retry_count = 0
               /\ Reenrolled(row).generation = row.generation + 1
  BY DEF Reenrolled, NoLifecycle
<1>4. ASSUME NEW endpoint \in Endpoints, NEW nonce \in Nonces, Enroll(h, endpoint, nonce)
      PROVE  /\ \A k \in Hotkeys \ {h} : lifecycle'[k] = lifecycle[k]
             /\ Kept(lifecycle[h], lifecycle'[h]) \/ Restarted(h)
             /\ VerdictsShrink
  <2>1. VerdictsShrink
    <3>1. UNCHANGED removing
      BY <1>4 DEF Enroll
    <3>2. UNCHANGED attestations \/ attestations' = [attestations EXCEPT ![h] = NoVerdict]
      BY <1>4 DEF Enroll
    <3> QED BY <1>0, <3>1, <3>2, SMTT(40)
               DEF VerdictsShrink, NoVerdict, StoreOK
  <2>2. CASE UNCHANGED lifecycle
    BY <1>2, <2>1, <2>2
  <2>3. CASE /\ enrollments[h] = None
             /\ lifecycle' = [lifecycle EXCEPT ![h] = Reenrolled(NoLifecycle)]
    <3>1. lifecycle[h].state = "absent"
      BY <1>0, <2>3 DEF LifecycleOK
    <3> QED BY <1>1, <1>3, <2>1, <2>3, <3>1 DEF Restarted
  <2>4. CASE /\ Reenrollable(lifecycle[h])
             /\ lifecycle' = [lifecycle EXCEPT ![h] = Reenrolled(lifecycle[h])]
    <3>1. lifecycle'[h] = Reenrolled(lifecycle[h])
      BY <1>1, <2>4
    <3>2. lifecycle'[h].generation > lifecycle[h].generation
      BY <1>1, <1>3, <3>1, SMTT(40) DEF LifecycleRow
    <3>3. Restarted(h)
      BY <1>3, <2>4, <3>1, <3>2 DEF Restarted
    <3> QED BY <1>1, <2>1, <2>4, <3>3
  <2> QED BY <1>4, <2>2, <2>3, <2>4 DEF Enroll
<1>5. CASE OperatorReenroll(h)
  <2>1. /\ "reenroll" \in Operator /\ UNCHANGED <<enrollments, attestations, removing>>
        /\ lifecycle' = [lifecycle EXCEPT ![h] = Reenrolled(lifecycle[h])]
    BY <1>5 DEF OperatorReenroll
  <2>2. lifecycle'[h] = Reenrolled(lifecycle[h])
    BY <1>1, <2>1
  <2>3. lifecycle'[h].generation > lifecycle[h].generation
    BY <1>1, <1>3, <2>2, SMTT(40) DEF LifecycleRow
  <2>4. Restarted(h)
    BY <1>3, <2>1, <2>2, <2>3 DEF Restarted
  <2>5. VerdictsShrink
    BY <2>1 DEF VerdictsShrink
  <2> QED BY <1>1, <2>1, <2>4, <2>5
<1>6. CASE Retire(h) \/ Remove(h)
  <2>1. /\ UNCHANGED attestations
        /\ \E row \in {Retiring(lifecycle[h]), Retired(lifecycle[h])} :
               lifecycle' = [lifecycle EXCEPT ![h] = row]
        /\ \/ "retire" \in Operator /\ UNCHANGED removing
           \/ /\ lifecycle' = [lifecycle EXCEPT ![h] = Retired(lifecycle[h])]
              /\ removing' = removing \cup {h}
    BY <1>6 DEF Retire, Remove, RetireLifecycle
  <2>2. Stopped(h)
    BY <1>1, <2>1, RetiringStates DEF Stopped
  <2>3. VerdictsShrink
    BY <2>1 DEF VerdictsShrink
  <2>4. \A k \in Hotkeys \ {h} : lifecycle'[k] = lifecycle[k]
    BY <1>1, <2>1
  <2> QED BY <2>2, <2>3, <2>4
<1>7. CASE ClearVerdict(h)
  <2>1. VerdictsShrink
    BY <1>0, <1>7 DEF ClearVerdict, VerdictsShrink, NoVerdict, StoreOK
  <2> QED BY <1>2, <1>7, <2>1 DEF ClearVerdict
<1>8. CASE LifecycleSnapshot(h)
  <2>1. /\ lifecycle' = [lifecycle EXCEPT ![h] = Materialized(lifecycle[h])]
        /\ UNCHANGED <<attestations, removing>>
    BY <1>8 DEF LifecycleSnapshot
  <2>2. Kept(lifecycle[h], Materialized(lifecycle[h]))
    BY <1>1, MaterializedKept
  <2>3. lifecycle'[h] = Materialized(lifecycle[h])
    BY <1>1, <2>1
  <2>4. VerdictsShrink
    BY <2>1 DEF VerdictsShrink
  <2> QED BY <1>1, <2>1, <2>2, <2>3, <2>4
<1> QED BY <1>4, <1>5, <1>6, <1>7, <1>8 DEF WorkerStep

(* The steps of nobody in particular.                                      *)
LEMMA OtherSteps ==
    ASSUME \/ Tick \/ SetBack \/ UNCHANGED vars
           \/ \E m \in Measurements : DropMeasurement(m)
    PROVE  UNCHANGED <<enrollments, lifecycle, attestations, governed, removing, refresh>>
  BY DEF Tick, SetBack, DropMeasurement, vars

(* Clients leave the enrollments and the removals alone.                   *)
LEMMA ClientLeaves ==
    ASSUME NEW c \in Clients, ClientStep(c)
    PROVE  UNCHANGED <<enrollments, governed, removing>>
<1>1. CASE \E h \in Hotkeys : ProbeDue(c, h) \/ ApplyLifecyclePolicy(c, h)
  BY <1>1 DEF ProbeDue, ApplyLifecyclePolicy
<1>2. CASE ProbeEndpoint(c) \/ ListEnrollment(c) \/ ListDue(c) \/ ReadToken(c)
  BY <1>2 DEF ProbeEndpoint, ListEnrollment, ListDue, ReadToken
<1>3. CASE Collect(c) \/ RequireCurrentPolicy(c)
  BY <1>3 DEF Collect, RequireCurrentPolicy
<1>4. CASE AdmitUniqueChip(c) \/ RecordVerdict(c) \/ RecordProbeFailure(c)
  BY <1>4 DEF AdmitUniqueChip, RecordVerdict, RecordProbeFailure
<1>5. CASE RecordRefreshFailure(c) \/ RevokeIdentityConflict(c) \/ GiveUp(c)
  BY <1>5 DEF RecordRefreshFailure, RevokeIdentityConflict, GiveUp
<1> QED BY <1>1, <1>2, <1>3, <1>4, <1>5 DEF ClientStep
-----------------------------------------------------------------------------
(* Retries, recovery and the board.                                        *)

(* Failures add up, whichever clients report them and in whatever order: a *)
(* worker in the refresh set has attempts left.                            *)
THEOREM FailuresAddUp == Spec => []RetriesLeft
<1>1. Init => RetriesLeft
  BY SMTT(40) DEF Init, RetriesLeft, NoLifecycle, NetworkEligible
<1>2. ASSUME TypeInv, RetriesLeft, [Next]_vars
      PROVE  RetriesLeft'
  <2>1. ASSUME NEW h \in Hotkeys, WorkerStep(h) PROVE RetriesLeft'
    <3>1. MaxFailures > 0
      BY RegistryAssumption, SMTT(40) DEF RegistryAssumption
    <3> QED BY <1>2, <2>1, <3>1, WorkerRefreshes DEF RetriesLeft, Kept, Restarted,
               Stopped, Terminal, NetworkEligible
  <2>2. ASSUME NEW c \in Clients, ClientStep(c) PROVE RetriesLeft'
    <3> SUFFICES ASSUME NEW h \in Hotkeys, lifecycle'[h].state \in NetworkEligible
                 PROVE  lifecycle'[h].retry_count < MaxFailures
      BY DEF RetriesLeft
    <3>1. Refreshed(c, h)
      BY <1>2, <2>2, ClientRefreshes
    <3>2. MaxFailures > 0
      BY RegistryAssumption, SMTT(40) DEF RegistryAssumption
    <3> QED BY <1>2, <3>1, <3>2 DEF Refreshed, Kept, RetriesLeft, NetworkEligible
  <2>3. CASE \/ Tick \/ SetBack \/ UNCHANGED vars
             \/ \E m \in Measurements : DropMeasurement(m)
    BY <1>2, <2>3, OtherSteps DEF RetriesLeft
  <2> QED BY <1>2, <2>1, <2>2, <2>3 DEF Next
<1> QED BY <1>1, <1>2, TypeCorrect, PTL DEF Spec

(* No late result brings a stopped worker back: a failed one comes back    *)
(* with a new generation only, and a retired or revoked one only by the    *)
(* operator's hand.                                                        *)
THEOREM StoppedStaysStopped == Spec => NoSelfRecovery
<1> DEFINE Recovers ==
        \A h \in Hotkeys :
            /\ lifecycle[h].state \in States \ NetworkEligible
            /\ lifecycle'[h].state \in NetworkEligible
            => /\ lifecycle'[h].generation > lifecycle[h].generation
               /\ lifecycle[h].state # "failed" =>
                      enrollments' = enrollments /\ "reenroll" \in Operator
<1>1. ASSUME TypeInv, [Next]_vars
      PROVE  Recovers
  <2> SUFFICES ASSUME NEW h \in Hotkeys,
                      lifecycle[h].state \in States \ NetworkEligible,
                      lifecycle'[h].state \in NetworkEligible
               PROVE  /\ lifecycle'[h].generation > lifecycle[h].generation
                      /\ lifecycle[h].state # "failed" =>
                             enrollments' = enrollments /\ "reenroll" \in Operator
    OBVIOUS
  <2>1. ASSUME NEW k \in Hotkeys, WorkerStep(k) PROVE Restarted(h)
    BY <1>1, <2>1, WorkerRefreshes DEF Kept, Stopped, Terminal, NetworkEligible
  <2>2. ASSUME NEW c \in Clients, ClientStep(c) PROVE FALSE
    <3>1. Refreshed(c, h)
      BY <1>1, <2>2, ClientRefreshes
    <3> QED BY <3>1 DEF Refreshed, Kept, NetworkEligible
  <2>3. Restarted(h)
    BY <1>1, <2>1, <2>2, OtherSteps DEF Next
  <2> QED BY <2>3 DEF Restarted, Reenrollable, States, Terminal, NetworkEligible
<1>2. TypeInv /\ [Next]_vars => [Recovers]_vars
  BY <1>1
<1> QED BY <1>2, TypeCorrect, PTL DEF Spec, NoSelfRecovery

(* A worker that reconcile has removed stays off the board, whatever       *)
(* probes are in flight.  lifecycle retire, which leaves the verdict row   *)
(* alone, is not used.                                                     *)
THEOREM RemovedStaysOff ==
    ASSUME "retire" \notin Operator
    PROVE  Spec => []RemovedOffBoard
<1>1. Init => RemovedOffBoard
  BY SMTT(40) DEF Init, RemovedOffBoard, NoLifecycle
<1>2. ASSUME TypeInv, RemovedOffBoard, [Next]_vars
      PROVE  RemovedOffBoard'
  <2> SUFFICES ASSUME NEW h \in Hotkeys, lifecycle'[h].state = "retired",
                      h \notin removing'
               PROVE  attestations'[h].status # "VERIFIED"
    BY DEF RemovedOffBoard
  <2>1. ASSUME NEW k \in Hotkeys, WorkerStep(k)
        PROVE  attestations'[h].status # "VERIFIED"
    <3>1. lifecycle[h].state = "retired"
      BY <1>2, <2>1, WorkerRefreshes DEF Kept, Restarted, Stopped
    <3>2. VerdictsShrink
      BY <1>2, <2>1, WorkerRefreshes
    <3> QED BY <1>2, <3>1, <3>2 DEF RemovedOffBoard, VerdictsShrink
  <2>2. ASSUME NEW c \in Clients, ClientStep(c)
        PROVE  attestations'[h].status # "VERIFIED"
    <3>1. Refreshed(c, h)
      BY <1>2, <2>2, ClientRefreshes
    <3>2. UNCHANGED removing
      BY <2>2, ClientLeaves
    <3> QED BY <1>2, <3>1, <3>2 DEF Refreshed, Kept, RemovedOffBoard
  <2>3. CASE \/ Tick \/ SetBack \/ UNCHANGED vars
             \/ \E m \in Measurements : DropMeasurement(m)
    BY <1>2, <2>3, OtherSteps DEF RemovedOffBoard
  <2> QED BY <1>2, <2>1, <2>2, <2>3 DEF Next
<1> QED BY <1>1, <1>2, TypeCorrect, PTL DEF Spec
-----------------------------------------------------------------------------
(* What a token stands for.                                                *)

(* The phases in which a client has read the token it will commit with.    *)
HasToken(c) ==
    \/ refresh[c].phase \in {"collecting", "collected", "cleared"}
    \/ refresh[c].phase = "due" /\ c \in Probers

(* Token (g, r) was the row's at some time, when the row was in the        *)
(* refresh set: it is not ahead of the row, and if it is still the row's,  *)
(* the row has not changed since.                                          *)
TokenFits(g, r, row) ==
    /\ \/ g < row.generation
       \/ g = row.generation /\ r <= row.revision
    /\ g = row.generation /\ r = row.revision => row.state \in NetworkEligible

TokensCurrent ==
    \A c \in Clients :
        /\ HasToken(c) => TokenFits(refresh[c].generation, refresh[c].revision,
                                    lifecycle[refresh[c].hotkey])
        /\ refresh[c].phase \in {"started", "listed"} => c \in Runtimes

(* A row that moves on leaves every token behind.                          *)
LEMMA TokenFitsOn ==
    ASSUME NEW g \in Int, NEW r \in Int, NEW row \in LifecycleRow,
           NEW new \in LifecycleRow, TokenFits(g, r, row), Advanced(row, new)
    PROVE  TokenFits(g, r, new)
<1>1. /\ row.generation \in Int /\ row.revision \in Int
      /\ new.generation \in Int /\ new.revision \in Int
  BY SMTT(40) DEF LifecycleRow
<1> QED BY <1>1, SMTT(40) DEF TokenFits, Advanced

(* Every step advances the rows of the enrolled workers.                   *)
LEMMA EnrolledAdvance ==
    ASSUME TypeInv, [Next]_vars, NEW k \in Hotkeys, enrollments[k] # None
    PROVE  /\ Advanced(lifecycle[k], lifecycle'[k])
           /\ lifecycle[k] \in LifecycleRow /\ lifecycle'[k] \in LifecycleRow
<1>0. LifecycleOK /\ LifecycleOK'
  BY NextTypeInv, TypeInvParts, TypeInvPartsNext
<1>1. /\ lifecycle[k] \in LifecycleRow /\ lifecycle'[k] \in LifecycleRow
      /\ lifecycle[k].state # "absent"
  BY <1>0 DEF LifecycleOK
<1>2. ASSUME NEW h \in Hotkeys, WorkerStep(h)
      PROVE  Advanced(lifecycle[k], lifecycle'[k])
  <2>1. CASE FirstEnrollment(h)
    <3>1. h # k /\ lifecycle' = [lifecycle EXCEPT ![h] = Reenrolled(NoLifecycle)]
      BY <1>1, <2>1 DEF FirstEnrollment
    <3>2. lifecycle'[k] = lifecycle[k]
      BY <1>0, <3>1 DEF LifecycleOK
    <3> QED BY <3>2 DEF Advanced
  <2> QED BY <1>2, <2>1, WorkerStepAdvances
<1>3. ASSUME NEW c \in Clients, ClientStep(c)
      PROVE  Advanced(lifecycle[k], lifecycle'[k])
  BY <1>3, ClientStepAdvances
<1>4. CASE \/ Tick \/ SetBack \/ UNCHANGED vars
           \/ \E m \in Measurements : DropMeasurement(m)
  <2>1. UNCHANGED lifecycle
    BY <1>4, OtherSteps
  <2>2. lifecycle'[k] = lifecycle[k]
    BY <2>1
  <2> QED BY <1>1, <2>2 DEF Advanced
<1> QED BY <1>1, <1>2, <1>3, <1>4 DEF Next

(* A client that did nothing holds a token that still fits.                *)
LEMMA TokenKept ==
    ASSUME TypeInv, [Next]_vars, NEW c \in Clients, HasToken(c),
           TokenFits(refresh[c].generation, refresh[c].revision,
                     lifecycle[refresh[c].hotkey]),
           refresh'[c].hotkey = refresh[c].hotkey,
           refresh'[c].generation = refresh[c].generation,
           refresh'[c].revision = refresh[c].revision
    PROVE  TokenFits(refresh'[c].generation, refresh'[c].revision,
                     lifecycle'[refresh'[c].hotkey])
<1> DEFINE h == refresh[c].hotkey
           g == refresh[c].generation
           r == refresh[c].revision
<1>0. RefreshOK
  BY TypeInvParts
<1>1. h \in Hotkeys /\ enrollments[h] # None
  BY <1>0 DEF HasToken, RefreshOK, ClientsOK
<1>2. g \in Int /\ r \in Int
  BY <1>0, SMTT(40) DEF RefreshOK, Refresh
<1>3. /\ Advanced(lifecycle[h], lifecycle'[h])
      /\ lifecycle[h] \in LifecycleRow /\ lifecycle'[h] \in LifecycleRow
  BY <1>1, EnrolledAdvance
<1>4. TokenFits(g, r, lifecycle[h])
  OBVIOUS
<1>5. TokenFits(g, r, lifecycle'[h])
  <2> HIDE DEF h, g, r
  <2> QED BY <1>2, <1>3, <1>4, TokenFitsOn
<1> QED BY <1>5

(* What a step of client c does to the token it holds: it has none, or the *)
(* one it had, or it has just read it off a row of the refresh set.        *)
TokenStep(c) ==
    \/ ~HasToken(c)'
    \/ /\ HasToken(c)
       /\ refresh'[c].hotkey = refresh[c].hotkey
       /\ refresh'[c].generation = refresh[c].generation
       /\ refresh'[c].revision = refresh[c].revision
    \/ /\ refresh'[c].generation = lifecycle'[refresh'[c].hotkey].generation
       /\ refresh'[c].revision = lifecycle'[refresh'[c].hotkey].revision
       /\ lifecycle'[refresh'[c].hotkey].state \in NetworkEligible

(* And to the endpoint it collects evidence from: it has none, or the one  *)
(* it had, or it has just read it off the enrollment.  The runtime reads   *)
(* the endpoint before the token, so nothing is said of it.                *)
Holding == {"collecting", "collected", "cleared"}

EndpointStep(c) ==
    \/ c \in Runtimes
    \/ refresh'[c].phase \notin Holding
    \/ /\ refresh[c].phase \in Holding
       /\ refresh'[c].hotkey = refresh[c].hotkey
       /\ refresh'[c].generation = refresh[c].generation
       /\ refresh'[c].endpoint = refresh[c].endpoint
    \/ refresh'[c].endpoint = enrollments'[refresh'[c].hotkey]

LEMMA ClientTokens ==
    ASSUME TypeInv, TokensCurrent, NEW c \in Clients, ClientStep(c)
    PROVE  /\ \A d \in Clients \ {c} : refresh'[d] = refresh[d]
           /\ TokenStep(c) /\ EndpointStep(c)
           /\ refresh'[c].phase \in {"started", "listed"} => c \in Runtimes
<1>0. refresh \in [Clients -> Refresh]
  BY DEF TypeInv, TypeOK
<1>1. refresh[c] \in Refresh
  BY <1>0
<1>2. CASE refresh' = [refresh EXCEPT ![c] = Idle]
  <2>1. refresh'[c] = Idle /\ \A d \in Clients \ {c} : refresh'[d] = refresh[d]
    BY <1>0, <1>2
  <2>2. refresh'[c].phase = "idle"
    BY <2>1, SMTT(40) DEF Idle
  <2> QED BY <2>1, <2>2 DEF TokenStep, HasToken, EndpointStep, Holding
<1>3. ASSUME NEW h \in Hotkeys, ProbeDue(c, h)
      PROVE  /\ \A d \in Clients \ {c} : refresh'[d] = refresh[d]
             /\ TokenStep(c) /\ EndpointStep(c)
             /\ refresh'[c].phase = "due"
  <2> DEFINE new == [Idle EXCEPT !.phase = "due", !.hotkey = h, !.policy = allowed,
                        !.generation = lifecycle'[h].generation,
                        !.revision = lifecycle'[h].revision]
  <2>1. refresh' = [refresh EXCEPT ![c] = new] /\ lifecycle'[h].state \in NetworkEligible
    BY <1>3 DEF ProbeDue, DueRefreshes, Due
  <2>2. /\ new.phase = "due" /\ new.hotkey = h
        /\ new.generation = lifecycle'[h].generation
        /\ new.revision = lifecycle'[h].revision
    BY DEF Idle
  <2> HIDE DEF new
  <2>3. refresh'[c] = new /\ \A d \in Clients \ {c} : refresh'[d] = refresh[d]
    BY <1>0, <2>1
  <2>4. TokenStep(c)
    BY <2>1, <2>2, <2>3 DEF TokenStep
  <2>5. EndpointStep(c) /\ refresh'[c].phase = "due"
    BY <2>2, <2>3 DEF EndpointStep, Holding
  <2> QED BY <2>3, <2>4, <2>5
<1>4. ASSUME NEW h \in Hotkeys, ApplyLifecyclePolicy(c, h)
      PROVE  /\ \A d \in Clients \ {c} : refresh'[d] = refresh[d]
             /\ TokenStep(c) /\ EndpointStep(c) /\ c \in Runtimes
  <2> DEFINE new == [Idle EXCEPT !.phase = "started", !.hotkey = h, !.policy = allowed]
  <2>1. refresh' = [refresh EXCEPT ![c] = new] /\ c \in Runtimes
    BY <1>4 DEF ApplyLifecyclePolicy
  <2>2. new.phase = "started"
    BY DEF Idle
  <2> HIDE DEF new
  <2>3. refresh'[c] = new /\ \A d \in Clients \ {c} : refresh'[d] = refresh[d]
    BY <1>0, <2>1
  <2> QED BY <2>1, <2>2, <2>3 DEF TokenStep, HasToken, EndpointStep, Holding
<1>5. CASE ProbeEndpoint(c)
  <2> DEFINE e == enrollments[refresh[c].hotkey]
             a == [refresh[c] EXCEPT !.phase = "collecting"]
             new == [a EXCEPT !.endpoint = e]
  <2>a. refresh' = [refresh EXCEPT ![c].phase = "collecting", ![c].endpoint = e]
    BY <1>5 DEF ProbeEndpoint
  <2>1. refresh' = [refresh EXCEPT ![c] = new] /\ HasToken(c)
    <3> HIDE DEF e
    <3>1. refresh' = [refresh EXCEPT ![c] = new]
      BY <1>0, <2>a
    <3>2. HasToken(c)
      BY <1>5 DEF ProbeEndpoint, HasToken
    <3> QED BY <3>1, <3>2
  <2> HIDE DEF e
  <2>2. /\ new.phase = "collecting" /\ new.hotkey = refresh[c].hotkey
        /\ new.endpoint = e
        /\ new.generation = refresh[c].generation
        /\ new.revision = refresh[c].revision
    BY <1>1 DEF Refresh
  <2> HIDE DEF new
  <2>3. refresh'[c] = new /\ \A d \in Clients \ {c} : refresh'[d] = refresh[d]
    BY <1>0, <2>1
  <2>4. TokenStep(c) /\ refresh'[c].phase = "collecting"
    BY <2>1, <2>2, <2>3 DEF TokenStep
  <2>5. refresh'[c].endpoint = enrollments'[refresh'[c].hotkey]
    <3>1. UNCHANGED enrollments
      BY <1>5 DEF ProbeEndpoint
    <3> QED BY <2>2, <2>3, <3>1 DEF e
  <2> QED BY <2>3, <2>4, <2>5 DEF EndpointStep
<1>6. CASE ListEnrollment(c)
  <2> DEFINE e == enrollments[refresh[c].hotkey]
             a == [refresh[c] EXCEPT !.phase = "listed"]
             new == [a EXCEPT !.endpoint = e]
  <2>a. refresh' = [refresh EXCEPT ![c].phase = "listed", ![c].endpoint = e]
    BY <1>6 DEF ListEnrollment
  <2>1. refresh' = [refresh EXCEPT ![c] = new] /\ c \in Runtimes
    <3> HIDE DEF e
    <3>1. refresh' = [refresh EXCEPT ![c] = new]
      BY <1>0, <2>a
    <3>2. c \in Runtimes
      BY <1>6 DEF ListEnrollment, TokensCurrent
    <3> QED BY <3>1, <3>2
  <2> HIDE DEF e
  <2>2. new.phase = "listed"
    BY <1>1 DEF Refresh
  <2> HIDE DEF new
  <2>3. refresh'[c] = new /\ \A d \in Clients \ {c} : refresh'[d] = refresh[d]
    BY <1>0, <2>1
  <2> QED BY <2>1, <2>2, <2>3 DEF TokenStep, HasToken, EndpointStep, Holding
<1>7. CASE ListDue(c)
  <2> DEFINE new == [refresh[c] EXCEPT !.phase = "due"]
  <2>1. refresh' = [refresh EXCEPT ![c] = new] /\ c \in Runtimes
    BY <1>0, <1>7 DEF ListDue, TokensCurrent
  <2>2. new.phase = "due" /\ c \notin Probers
    BY <1>1, <2>1, RegistryAssumption DEF Refresh, RegistryAssumption
  <2> HIDE DEF new
  <2>3. refresh'[c] = new /\ \A d \in Clients \ {c} : refresh'[d] = refresh[d]
    BY <1>0, <2>1
  <2> QED BY <2>1, <2>2, <2>3 DEF TokenStep, HasToken, EndpointStep, Holding
<1>8. CASE ReadToken(c)
  <2> DEFINE h == refresh[c].hotkey
             p == IF lifecycle'[h].state \in NetworkEligible
                  THEN "collecting" ELSE "unreachable"
             a == [refresh[c] EXCEPT !.phase = p]
             b == [a EXCEPT !.generation = lifecycle'[h].generation]
             new == [b EXCEPT !.revision = lifecycle'[h].revision]
  <2>1. refresh' = [refresh EXCEPT ![c] = new]
    <3>1. refresh' = [refresh EXCEPT ![c].phase = p,
                                     ![c].generation = lifecycle'[h].generation,
                                     ![c].revision = lifecycle'[h].revision]
      BY <1>8 DEF ReadToken
    <3> HIDE DEF p, h
    <3> QED BY <1>0, <3>1
  <2> HIDE DEF p
  <2>2. /\ new.phase = p /\ new.hotkey = h
        /\ new.generation = lifecycle'[h].generation
        /\ new.revision = lifecycle'[h].revision
    BY <1>1 DEF Refresh
  <2> HIDE DEF new
  <2>3. refresh'[c] = new /\ \A d \in Clients \ {c} : refresh'[d] = refresh[d]
    BY <1>0, <2>1
  <2>r. c \in Runtimes /\ EndpointStep(c)
    BY <1>8 DEF ReadToken, EndpointStep
  <2>4. CASE lifecycle'[h].state \in NetworkEligible
    <3>1. p = "collecting"
      BY <2>4 DEF p
    <3> QED BY <2>r, <2>2, <2>3, <2>4, <3>1 DEF TokenStep
  <2>5. CASE lifecycle'[h].state \notin NetworkEligible
    <3>1. p = "unreachable"
      BY <2>5 DEF p
    <3> QED BY <2>r, <2>2, <2>3, <3>1 DEF TokenStep, HasToken
  <2> QED BY <2>4, <2>5
<1>9. ASSUME NEW new, refresh' = [refresh EXCEPT ![c] = new],
             new.phase \in {"collected", "cleared", "unreachable"},
             new.phase # "unreachable" => refresh[c].phase \in Holding,
             new.hotkey = refresh[c].hotkey,
             new.generation = refresh[c].generation,
             new.revision = refresh[c].revision,
             new.endpoint = refresh[c].endpoint
      PROVE  /\ \A d \in Clients \ {c} : refresh'[d] = refresh[d]
             /\ TokenStep(c) /\ EndpointStep(c)
             /\ refresh'[c].phase \notin {"started", "listed"}
  <2>1. refresh'[c] = new /\ \A d \in Clients \ {c} : refresh'[d] = refresh[d]
    BY <1>0, <1>9
  <2> QED BY <1>9, <2>1 DEF TokenStep, HasToken, EndpointStep, Holding
<1>10. CASE Collect(c)
  <2>1. refresh[c].phase \in Holding
    BY <1>10 DEF Collect, Holding
  <2>2. ASSUME NEW m \in refresh[c].policy,
               refresh' = [refresh EXCEPT ![c].phase = "collected",
                                          ![c].measurement = m,
                                          ![c].verified_at = wall]
        PROVE  /\ \A d \in Clients \ {c} : refresh'[d] = refresh[d]
               /\ TokenStep(c) /\ EndpointStep(c)
               /\ refresh'[c].phase \notin {"started", "listed"}
    <3> DEFINE a == [refresh[c] EXCEPT !.phase = "collected"]
               b == [a EXCEPT !.measurement = m]
               new == [b EXCEPT !.verified_at = wall]
    <3>1. refresh' = [refresh EXCEPT ![c] = new]
      BY <1>0, <2>2
    <3>2. /\ new.phase = "collected" /\ new.hotkey = refresh[c].hotkey
          /\ new.generation = refresh[c].generation
          /\ new.revision = refresh[c].revision
          /\ new.endpoint = refresh[c].endpoint
      BY <1>1 DEF Refresh
    <3> HIDE DEF new
    <3>3. new.phase \in {"collected", "cleared", "unreachable"}
      BY <3>2
    <3> QED BY <1>9, <2>1, <3>1, <3>2, <3>3
  <2>3. ASSUME NEW p \in {"collected", "unreachable"},
               refresh' = [refresh EXCEPT ![c].phase = p]
        PROVE  /\ \A d \in Clients \ {c} : refresh'[d] = refresh[d]
               /\ TokenStep(c) /\ EndpointStep(c)
               /\ refresh'[c].phase \notin {"started", "listed"}
    <3> DEFINE new == [refresh[c] EXCEPT !.phase = p]
    <3>1. refresh' = [refresh EXCEPT ![c] = new]
      BY <1>0, <2>3
    <3>2. /\ new.phase = p /\ new.hotkey = refresh[c].hotkey
          /\ new.generation = refresh[c].generation
          /\ new.revision = refresh[c].revision
          /\ new.endpoint = refresh[c].endpoint
      BY <1>1 DEF Refresh
    <3> HIDE DEF new
    <3>3. new.phase \in {"collected", "cleared", "unreachable"}
      BY <2>3, <3>2
    <3> QED BY <1>9, <2>1, <3>1, <3>2, <3>3
  <2> QED BY <1>10, <2>2, <2>3 DEF Collect
<1>11. CASE RequireCurrentPolicy(c)
  <2> DEFINE p == IF refresh[c].policy = allowed THEN "cleared" ELSE "unreachable"
             new == [refresh[c] EXCEPT !.phase = p]
  <2>1. refresh' = [refresh EXCEPT ![c] = new] /\ refresh[c].phase \in Holding
    BY <1>0, <1>11 DEF RequireCurrentPolicy, Holding
  <2>2. p \in {"cleared", "unreachable"}
    OBVIOUS
  <2> HIDE DEF p
  <2>3. /\ new.phase = p /\ new.hotkey = refresh[c].hotkey
        /\ new.generation = refresh[c].generation
        /\ new.revision = refresh[c].revision
        /\ new.endpoint = refresh[c].endpoint
    BY <1>1 DEF Refresh
  <2> HIDE DEF new
  <2>4. new.phase \in {"collected", "cleared", "unreachable"}
    BY <2>2, <2>3
  <2> QED BY <1>9, <2>1, <2>3, <2>4
<1>12. CASE AdmitUniqueChip(c)
  <2> DEFINE new == [refresh[c] EXCEPT !.phase = "cleared"]
  <2>1. /\ refresh[c].phase \in Holding
        /\ \/ refresh' = [refresh EXCEPT ![c] = new]
           \/ refresh' = [refresh EXCEPT ![c] = Idle]
    <3>1. refresh[c].phase \in Holding
      BY <1>12 DEF AdmitUniqueChip, Holding
    <3>2. \/ refresh' = [refresh EXCEPT ![c] = new]
          \/ refresh' = [refresh EXCEPT ![c] = Idle]
      BY <1>12 DEF AdmitUniqueChip
    <3> QED BY <3>1, <3>2
  <2>2. /\ new.phase = "cleared" /\ new.hotkey = refresh[c].hotkey
        /\ new.generation = refresh[c].generation
        /\ new.revision = refresh[c].revision
        /\ new.endpoint = refresh[c].endpoint
    BY <1>1 DEF Refresh
  <2> HIDE DEF new
  <2> QED BY <1>2, <1>9, <2>1, <2>2
<1>13. CASE \/ RecordVerdict(c) \/ RecordProbeFailure(c) \/ RecordRefreshFailure(c)
            \/ RevokeIdentityConflict(c) \/ GiveUp(c)
  <2>1. refresh' = [refresh EXCEPT ![c] = Idle]
    BY <1>13
       DEF RecordVerdict, RecordProbeFailure, RecordRefreshFailure,
           RevokeIdentityConflict, GiveUp
  <2> QED BY <1>2, <2>1
<1>14. ASSUME NEW h \in Hotkeys, ProbeDue(c, h) \/ ApplyLifecyclePolicy(c, h)
       PROVE  /\ \A d \in Clients \ {c} : refresh'[d] = refresh[d]
              /\ TokenStep(c) /\ EndpointStep(c)
              /\ refresh'[c].phase \in {"started", "listed"} => c \in Runtimes
  BY <1>3, <1>4, <1>14
<1> QED BY <1>5, <1>6, <1>7, <1>8, <1>10, <1>11, <1>12, <1>13, <1>14
           DEF ClientStep

(* A client that still holds the token of its worker holds a worker of the *)
(* refresh set, unchanged since it was read.                               *)
THEOREM TokensStayCurrent == Spec => []TokensCurrent
<1>1. Init => TokensCurrent
  BY SMTT(40) DEF Init, TokensCurrent, HasToken, Idle
<1>2. ASSUME TypeInv, TokensCurrent, [Next]_vars
      PROVE  TokensCurrent'
  <2>1. ASSUME NEW c \in Clients, refresh'[c] = refresh[c]
        PROVE  /\ HasToken(c)' => TokenFits(refresh'[c].generation, refresh'[c].revision,
                                            lifecycle'[refresh'[c].hotkey])
               /\ refresh'[c].phase \in {"started", "listed"} => c \in Runtimes
    <3>1. HasToken(c)' <=> HasToken(c)
      BY <2>1 DEF HasToken
    <3>2. HasToken(c) => TokenFits(refresh[c].generation, refresh[c].revision,
                                   lifecycle[refresh[c].hotkey])
      BY <1>2 DEF TokensCurrent
    <3>3. HasToken(c) => TokenFits(refresh'[c].generation, refresh'[c].revision,
                                   lifecycle'[refresh'[c].hotkey])
      BY <1>2, <2>1, <3>2, TokenKept
    <3> QED BY <1>2, <2>1, <3>1, <3>3 DEF TokensCurrent
  <2>2. ASSUME NEW c \in Clients, ClientStep(c) PROVE TokensCurrent'
    <3>1. /\ \A d \in Clients \ {c} : refresh'[d] = refresh[d]
          /\ TokenStep(c)
          /\ refresh'[c].phase \in {"started", "listed"} => c \in Runtimes
      BY <1>2, <2>2, ClientTokens
    <3>2. HasToken(c)' => TokenFits(refresh'[c].generation, refresh'[c].revision,
                                    lifecycle'[refresh'[c].hotkey])
      <4>1. ASSUME /\ HasToken(c)
                   /\ refresh'[c].hotkey = refresh[c].hotkey
                   /\ refresh'[c].generation = refresh[c].generation
                   /\ refresh'[c].revision = refresh[c].revision
            PROVE  TokenFits(refresh'[c].generation, refresh'[c].revision,
                             lifecycle'[refresh'[c].hotkey])
        <5>1. TokenFits(refresh[c].generation, refresh[c].revision,
                        lifecycle[refresh[c].hotkey])
          BY <1>2, <4>1 DEF TokensCurrent
        <5> QED BY <1>2, <4>1, <5>1, TokenKept
      <4>2. ASSUME /\ refresh'[c].generation = lifecycle'[refresh'[c].hotkey].generation
                   /\ refresh'[c].revision = lifecycle'[refresh'[c].hotkey].revision
                   /\ lifecycle'[refresh'[c].hotkey].state \in NetworkEligible
                   /\ HasToken(c)'
            PROVE  TokenFits(refresh'[c].generation, refresh'[c].revision,
                             lifecycle'[refresh'[c].hotkey])
        <5>1. refresh'[c].revision \in Int
          BY <1>2, NextTypeInv, SMTT(40) DEF TypeInv, TypeOK, Refresh
        <5> QED BY <4>2, <5>1, SMTT(40) DEF TokenFits
      <4> QED BY <3>1, <4>1, <4>2 DEF TokenStep
    <3>3. ASSUME NEW d \in Clients
          PROVE  /\ HasToken(d)' => TokenFits(refresh'[d].generation, refresh'[d].revision,
                                              lifecycle'[refresh'[d].hotkey])
                 /\ refresh'[d].phase \in {"started", "listed"} => d \in Runtimes
      BY <2>1, <3>1, <3>2
    <3> QED BY <3>3 DEF TokensCurrent
  <2>3. CASE UNCHANGED refresh
    BY <2>1, <2>3 DEF TokensCurrent
  <2>4. ASSUME NEW h \in Hotkeys, WorkerStep(h) PROVE UNCHANGED refresh
    BY <2>4
       DEF WorkerStep, Enroll, OperatorReenroll, Retire, Remove, ClearVerdict,
           LifecycleSnapshot
  <2> QED BY <1>2, <2>2, <2>3, <2>4, OtherSteps DEF Next
<1> QED BY <1>1, <1>2, TypeCorrect, PTL DEF Spec

(* An endpoint changes only with a new generation.                         *)
LEMMA EndpointMoves ==
    ASSUME TypeInv, [Next]_vars, NEW k \in Hotkeys,
           enrollments'[k] # enrollments[k]
    PROVE  /\ lifecycle'[k].state = "pending"
           /\ \/ enrollments[k] = None
              \/ lifecycle'[k].generation > lifecycle[k].generation
<1>0. StoreOK /\ LifecycleOK
  BY TypeInvParts
<1>1. ASSUME NEW c \in Clients, ClientStep(c) PROVE FALSE
  BY <1>1, ClientLeaves
<1>2. CASE \/ Tick \/ SetBack \/ UNCHANGED vars
           \/ \E m \in Measurements : DropMeasurement(m)
  BY <1>2, OtherSteps
<1>3. ASSUME NEW h \in Hotkeys, NEW endpoint \in Endpoints, NEW nonce \in Nonces,
             Enroll(h, endpoint, nonce)
      PROVE  /\ lifecycle'[k].state = "pending"
             /\ \/ enrollments[k] = None
                \/ lifecycle'[k].generation > lifecycle[k].generation
  <2>1. enrollments' = [enrollments EXCEPT ![h] = endpoint]
    BY <1>3 DEF Enroll
  <2>2. h = k /\ enrollments[k] # endpoint
    BY <1>0, <2>1 DEF StoreOK
  <2>3. \A row : Reenrolled(row).state = "pending" /\ Reenrolled(row).generation = row.generation + 1
    BY DEF Reenrolled, NoLifecycle
  <2>4. CASE /\ enrollments[h] = None
             /\ lifecycle' = [lifecycle EXCEPT ![h] = Reenrolled(NoLifecycle)]
    BY <1>0, <2>2, <2>3, <2>4 DEF LifecycleOK
  <2>5. CASE lifecycle' = [lifecycle EXCEPT ![h] = Reenrolled(lifecycle[h])]
    <3>1. lifecycle'[k] = Reenrolled(lifecycle[k])
      BY <1>0, <2>2, <2>5 DEF LifecycleOK
    <3>2. lifecycle[k].generation \in Int
      BY <1>0, SMTT(40) DEF LifecycleOK, LifecycleRow
    <3> QED BY <2>3, <3>1, <3>2, SMTT(40)
  <2> QED BY <1>3, <2>2, <2>4, <2>5 DEF Enroll
<1>4. ASSUME NEW h \in Hotkeys,
             \/ OperatorReenroll(h) \/ Retire(h) \/ Remove(h) \/ ClearVerdict(h)
             \/ LifecycleSnapshot(h)
      PROVE  FALSE
  BY <1>4 DEF OperatorReenroll, Retire, Remove, ClearVerdict, LifecycleSnapshot
<1> QED BY <1>1, <1>2, <1>3, <1>4 DEF Next, WorkerStep

(* The endpoint a client collects evidence from is the one enrolled in the *)
(* generation of its token.                                                *)
EndpointFits(c) ==
    refresh[c].generation = lifecycle[refresh[c].hotkey].generation =>
        refresh[c].endpoint = enrollments[refresh[c].hotkey]

EvidenceInv ==
    /\ EvidenceFromCurrentEndpoint
    /\ \A c \in Clients : refresh[c].phase \in Holding => EndpointFits(c)

LEMMA EndpointKept ==
    ASSUME TypeInv, TokensCurrent, [Next]_vars, NEW c \in Clients,
           refresh[c].phase \in Holding, EndpointFits(c),
           refresh'[c].hotkey = refresh[c].hotkey,
           refresh'[c].generation = refresh[c].generation,
           refresh'[c].endpoint = refresh[c].endpoint
    PROVE  EndpointFits(c)'
<1> DEFINE h == refresh[c].hotkey
           g == refresh[c].generation
<1>0. RefreshOK
  BY TypeInvParts
<1>1. h \in Hotkeys /\ enrollments[h] # None /\ HasToken(c)
  BY <1>0 DEF HasToken, Holding, RefreshOK, ClientsOK
<1>2. g \in Int /\ refresh[c].revision \in Int
  BY <1>0, SMTT(40) DEF RefreshOK, Refresh
<1>3. /\ Advanced(lifecycle[h], lifecycle'[h])
      /\ lifecycle[h] \in LifecycleRow /\ lifecycle'[h] \in LifecycleRow
  BY <1>1, EnrolledAdvance
<1>4. TokenFits(g, refresh[c].revision, lifecycle[h])
  BY <1>1 DEF TokensCurrent
<1>5. SUFFICES ASSUME g = lifecycle'[h].generation
               PROVE  refresh[c].endpoint = enrollments'[h]
  BY DEF EndpointFits
<1> HIDE DEF g, h
<1>6. g = lifecycle[h].generation /\ ~(lifecycle'[h].generation > lifecycle[h].generation)
  BY <1>2, <1>3, <1>4, <1>5, SMTT(40) DEF TokenFits, Advanced, LifecycleRow
<1>7. enrollments'[h] = enrollments[h]
  BY <1>1, <1>6, EndpointMoves
<1> QED BY <1>6, <1>7 DEF EndpointFits, g, h

(* With the prober alone, an attested worker rests on evidence from the    *)
(* endpoint it is enrolled at.  The runtime lists endpoints before it      *)
(* reads the token, and breaks this.                                       *)
THEOREM ProbersReadTheEndpointLast ==
    ASSUME Runtimes = {} PROVE Spec => []EvidenceFromCurrentEndpoint
<1>1. Init => EvidenceInv
  BY SMTT(40)
     DEF Init, EvidenceInv, EvidenceFromCurrentEndpoint, Idle, NoLifecycle,
         Holding
<1>2. ASSUME TypeInv, TokensCurrent, EvidenceInv, [Next]_vars
      PROVE  EvidenceInv'
  <2>0. LifecycleOK
    BY <1>2, TypeInvParts
  <2>1. ASSUME NEW k \in Hotkeys, lifecycle'[k].state = "attested"
        PROVE  lifecycle'[k].evidence = enrollments'[k]
    <3>1. enrollments'[k] = enrollments[k]
      BY <1>2, <2>1, EndpointMoves
    <3>2. lifecycle[k].state = "attested" => lifecycle[k].evidence = enrollments[k]
      BY <1>2 DEF EvidenceInv, EvidenceFromCurrentEndpoint
    <3>3. CASE Kept(lifecycle[k], lifecycle'[k])
      BY <2>1, <3>1, <3>2, <3>3 DEF Kept
    <3>4. ASSUME NEW h \in Hotkeys, WorkerStep(h)
          PROVE  Kept(lifecycle[k], lifecycle'[k])
      <4>1. CASE k # h
        <5>1. lifecycle'[k] = lifecycle[k]
          BY <1>2, <3>4, <4>1, WorkerRefreshes
        <5> QED BY <5>1 DEF Kept
      <4>2. CASE k = h
        <5>1. Kept(lifecycle[h], lifecycle'[h]) \/ Restarted(h) \/ Stopped(h)
          BY <1>2, <3>4, WorkerRefreshes
        <5> QED BY <2>1, <4>2, <5>1 DEF Restarted, Stopped, Terminal
      <4> QED BY <4>1, <4>2
    <3>5. ASSUME NEW c \in Clients, ClientStep(c), ~Kept(lifecycle[k], lifecycle'[k])
          PROVE  lifecycle'[k].evidence = enrollments'[k]
      <4>1. Refreshed(c, k)
        BY <1>2, <3>5, ClientRefreshes
      <4>2. /\ k = refresh[c].hotkey /\ refresh[c].phase = "cleared"
            /\ refresh[c].generation = lifecycle[k].generation
            /\ lifecycle'[k].evidence = refresh[c].endpoint
        BY <2>1, <3>5, <4>1 DEF Refreshed, Commits, HoldsToken
      <4>3. refresh[c].phase \in Holding
        BY <4>2 DEF Holding
      <4> QED BY <1>2, <3>1, <4>2, <4>3 DEF EvidenceInv, EndpointFits
    <3>6. CASE UNCHANGED lifecycle
      BY <3>3, <3>6 DEF Kept
    <3> QED BY <1>2, <3>3, <3>4, <3>5, <3>6, OtherSteps DEF Next
  <2>2. ASSUME NEW c \in Clients, refresh'[c].phase \in Holding,
               refresh[c].phase \in Holding,
               refresh'[c].hotkey = refresh[c].hotkey,
               refresh'[c].generation = refresh[c].generation,
               refresh'[c].endpoint = refresh[c].endpoint
        PROVE  EndpointFits(c)'
    BY <1>2, <2>2, EndpointKept DEF EvidenceInv
  <2>3. ASSUME NEW c \in Clients, refresh'[c] = refresh[c], refresh'[c].phase \in Holding
        PROVE  EndpointFits(c)'
    BY <2>2, <2>3
  <2>4. ASSUME NEW c \in Clients, refresh'[c].phase \in Holding
        PROVE  EndpointFits(c)'
    <3>1. ASSUME NEW d \in Clients, ClientStep(d)
          PROVE  EndpointFits(c)'
      <4>1. /\ \A e \in Clients \ {d} : refresh'[e] = refresh[e]
            /\ EndpointStep(d)
        BY <1>2, <3>1, ClientTokens
      <4>2. CASE c # d
        BY <2>3, <2>4, <4>1, <4>2
      <4>3. CASE c = d
        <5>1. CASE refresh'[c].endpoint = enrollments'[refresh'[c].hotkey]
          BY <5>1 DEF EndpointFits
        <5> QED BY <2>2, <2>4, <4>1, <4>3, <5>1 DEF EndpointStep
      <4> QED BY <4>2, <4>3
    <3>2. CASE UNCHANGED refresh
      BY <2>3, <2>4, <3>2
    <3>3. ASSUME NEW h \in Hotkeys, WorkerStep(h) PROVE UNCHANGED refresh
      BY <3>3
         DEF WorkerStep, Enroll, OperatorReenroll, Retire, Remove,
             ClearVerdict, LifecycleSnapshot
    <3> QED BY <1>2, <3>1, <3>2, <3>3, OtherSteps DEF Next
  <2>5. EvidenceFromCurrentEndpoint'
    BY <2>1 DEF EvidenceFromCurrentEndpoint
  <2> QED BY <2>4, <2>5 DEF EvidenceInv
<1>3. EvidenceInv => EvidenceFromCurrentEndpoint
  BY DEF EvidenceInv
<1> QED BY <1>1, <1>2, <1>3, TypeCorrect, TokensStayCurrent, PTL DEF Spec
-----------------------------------------------------------------------------
(* The caps.                                                               *)

LiveSet == {h \in Hotkeys : Live(h)}

(* The endpoints the live workers of coldkey q hold.                       *)
HeldBy(q) == {enrollments[k] : k \in {k \in LiveSet : Coldkey[k] = q}}

CapsInv ==
    governed =>
        /\ Cardinality(LiveSet) <= MaxTotal
        /\ \A h, k \in LiveSet : h # k => enrollments[h] # enrollments[k]
        /\ \A q \in Coldkeys : Cardinality(HeldBy(q)) <= MaxPerColdkey

(* The library's facts about finite sets. They are instantiated here, not  *)
(* extended, since only the counting below needs them.                     *)
FS == INSTANCE FiniteSetTheorems

(* The instance's notions are the ones the modules count with.             *)
LEMMA SameNotions ==
    /\ \A S : FS!IsFiniteSet(S) <=> IsFiniteSet(S)
    /\ \A S : FS!Cardinality(S) = Cardinality(S)
<1>1. \A S : FS!IsFiniteSet(S) <=> IsFiniteSet(S)
  BY DEF FS!IsFiniteSet, IsFiniteSet
<1>2. \A S : FS!Cardinality(S) = Cardinality(S)
  BY DEF FS!Cardinality, Cardinality
<1> QED BY <1>1, <1>2

(* The empty set has no element and a finite set a natural number of them. *)
LEMMA SizeType ==
    /\ Cardinality({}) = 0
    /\ \A S : IsFiniteSet(S) =>
          Cardinality(S) \in Nat /\ (Cardinality(S) = 0 <=> S = {})
<1>1. /\ FS!Cardinality({}) = 0
      /\ \A S : FS!IsFiniteSet(S) => (FS!Cardinality(S) = 0 <=> S = {})
  BY FS!FS_EmptySet
<1>2. \A S : FS!IsFiniteSet(S) => FS!Cardinality(S) \in Nat
  BY FS!FS_CardinalityType
<1> QED BY <1>1, <1>2, SameNotions

(* A part of a finite set is finite and no larger; if as large, the whole. *)
LEMMA SubsetSize ==
    ASSUME NEW S, IsFiniteSet(S), NEW T \in SUBSET S
    PROVE  /\ IsFiniteSet(T)
           /\ Cardinality(T) <= Cardinality(S)
           /\ Cardinality(S) = Cardinality(T) => S = T
BY FS!FS_Subset, SameNotions

(* One element more makes a finite set larger by at most one.              *)
LEMMA AddedSize ==
    ASSUME NEW S, NEW x, IsFiniteSet(S)
    PROVE  /\ IsFiniteSet(S \cup {x})
           /\ Cardinality(S \cup {x}) =
                IF x \in S THEN Cardinality(S) ELSE Cardinality(S) + 1
BY FS!FS_AddElement, SameNotions

(* A function takes finitely many values on a finite set.                  *)
LEMMA ImageFinite ==
    ASSUME NEW S, IsFiniteSet(S), NEW f
    PROVE  IsFiniteSet({f[k] : k \in S})
<1> DEFINE T == {f[k] : k \in S}
           g == [k \in S |-> f[k]]
<1>1. g \in [S -> T] /\ \A t \in T : \E k \in S : g[k] = t
  OBVIOUS
<1> HIDE DEF T, g
<1>2. g \in FS!Surjection(S, T)
  BY <1>1 DEF FS!Surjection
<1>3. IsFiniteSet(T)
  BY <1>2, FS!FS_Surjection, SameNotions
<1> QED BY <1>3 DEF T

(* A step that makes no worker live and moves no endpoint keeps the caps.  *)
LEMMA CapsShrink ==
    ASSUME IsFiniteSet(Hotkeys), CapsInv, UNCHANGED <<enrollments, governed>>,
           \A k \in Hotkeys : Live(k)' => Live(k)
    PROVE  CapsInv'
<1>1. LiveSet \subseteq Hotkeys /\ LiveSet' \subseteq LiveSet
  BY DEF LiveSet
<1>2. IsFiniteSet(LiveSet)
  BY <1>1, SubsetSize
<1>3. /\ IsFiniteSet(LiveSet') /\ Cardinality(LiveSet') <= Cardinality(LiveSet)
      /\ Cardinality(LiveSet) \in Nat /\ Cardinality(LiveSet') \in Nat
  BY <1>1, <1>2, SubsetSize, SizeType
<1>4. ASSUME NEW q \in Coldkeys
      PROVE  /\ Cardinality(HeldBy(q)') <= Cardinality(HeldBy(q))
             /\ Cardinality(HeldBy(q)) \in Nat /\ Cardinality(HeldBy(q)') \in Nat
  <2> DEFINE own == {k \in LiveSet : Coldkey[k] = q}
  <2>1. IsFiniteSet(own)
    BY <1>2, SubsetSize
  <2>2. IsFiniteSet(HeldBy(q))
    <3> HIDE DEF own
    <3>1. IsFiniteSet({enrollments[k] : k \in own})
      BY <2>1, ImageFinite
    <3> QED BY <3>1 DEF HeldBy, own
  <2>3. HeldBy(q)' \subseteq HeldBy(q)
    BY <1>1 DEF HeldBy
  <2> QED BY <2>2, <2>3, SubsetSize, SizeType
<1>5. MaxTotal \in Nat /\ MaxPerColdkey \in Nat
  BY RegistryAssumption DEF RegistryAssumption
<1>6. CASE ~governed
  BY <1>6 DEF CapsInv
<1>7. CASE governed
  <2>1. Cardinality(LiveSet') <= MaxTotal
    BY <1>3, <1>5, <1>7, SMTT(40) DEF CapsInv
  <2>2. \A h, k \in LiveSet' : h # k => enrollments'[h] # enrollments'[k]
    BY <1>1, <1>7 DEF CapsInv
  <2>3. \A q \in Coldkeys : Cardinality(HeldBy(q)') <= MaxPerColdkey
    BY <1>4, <1>5, <1>7, SMTT(40) DEF CapsInv
  <2> QED BY <2>1, <2>2, <2>3 DEF CapsInv
<1> QED BY <1>6, <1>7

(* An enrollment that passes the checks keeps them, too.                   *)
LEMMA CapsEnroll ==
    ASSUME IsFiniteSet(Hotkeys), TypeInv, CapsInv, NEW h \in Hotkeys,
           NEW endpoint \in Endpoints, NEW nonce \in Nonces, Enroll(h, endpoint, nonce)
    PROVE  CapsInv'
<1> DEFINE others == {k \in Hotkeys \ {h} : Live(k)}
           mine == {k \in others : Coldkey[k] = Coldkey[h]}
           held == {enrollments[k] : k \in mine}
<1>0. StoreOK /\ LifecycleOK
  BY TypeInvParts
<1>1. /\ governed => EnforceEnrollmentCaps(h, endpoint)
      /\ enrollments' = [enrollments EXCEPT ![h] = endpoint]
      /\ UNCHANGED governed
  BY DEF Enroll, settings
<1>2. \A k \in Hotkeys \ {h} : lifecycle'[k] = lifecycle[k] /\ enrollments'[k] = enrollments[k]
  <2>1. WorkerStep(h)
    BY DEF WorkerStep
  <2>2. \A k \in Hotkeys \ {h} : lifecycle'[k] = lifecycle[k]
    BY <2>1, WorkerRefreshes
  <2> QED BY <1>0, <1>1, <2>2 DEF StoreOK
<1>3. enrollments'[h] = endpoint
  BY <1>0, <1>1 DEF StoreOK
<1>4. \A k \in Hotkeys \ {h} : Live(k)' <=> Live(k)
  BY <1>2 DEF Live
<1>5. SUFFICES ASSUME governed PROVE CapsInv'
  BY <1>1 DEF CapsInv
<1>6. /\ \A k \in others : enrollments[k] # endpoint
      /\ endpoint \in held \/ Cardinality(held) < MaxPerColdkey
      /\ Cardinality(others) < MaxTotal
  BY <1>1, <1>5 DEF EnforceEnrollmentCaps
<1>7. Cardinality(held) < MaxPerColdkey
  BY <1>6
<1>8. others \subseteq LiveSet /\ LiveSet' \subseteq others \cup {h} /\ others \subseteq Hotkeys
  BY <1>4 DEF LiveSet
<1>9. IsFiniteSet(others) /\ h \notin others
  BY <1>8, SubsetSize
<1>10. MaxTotal \in Nat /\ MaxPerColdkey \in Nat
  BY RegistryAssumption DEF RegistryAssumption
<1>11. Cardinality(LiveSet') <= MaxTotal
  <2> HIDE DEF others
  <2>1. /\ IsFiniteSet(others \cup {h})
        /\ Cardinality(others \cup {h}) = Cardinality(others) + 1
        /\ Cardinality(others) \in Nat
    BY <1>9, AddedSize, SizeType
  <2>2. /\ Cardinality(LiveSet') <= Cardinality(others \cup {h})
        /\ Cardinality(LiveSet') \in Nat
    BY <1>8, <2>1, SubsetSize, SizeType
  <2> QED BY <1>6, <1>10, <2>1, <2>2, SMTT(40)
<1>12. ASSUME NEW j \in LiveSet', NEW k \in LiveSet', j # k
       PROVE  enrollments'[j] # enrollments'[k]
  <2>1. CASE j = h \/ k = h
    BY <1>2, <1>3, <1>6, <1>8, <1>12, <2>1
  <2>2. CASE j # h /\ k # h
    BY <1>2, <1>5, <1>8, <1>12, <2>2 DEF CapsInv
  <2> QED BY <2>1, <2>2
<1>13. ASSUME NEW q \in Coldkeys
       PROVE  Cardinality(HeldBy(q)') <= MaxPerColdkey
  <2> DEFINE own == {k \in LiveSet : Coldkey[k] = q}
  <2>1. CASE q = Coldkey[h]
    <3>1. HeldBy(q)' \subseteq held \cup {endpoint}
      BY <1>2, <1>3, <1>8, <2>1 DEF HeldBy
    <3>2. IsFiniteSet(held)
      <4>1. IsFiniteSet(mine)
        BY <1>9, SubsetSize
      <4> HIDE DEF mine
      <4> QED BY <4>1, ImageFinite
    <3> HIDE DEF held
    <3>3. /\ IsFiniteSet(held \cup {endpoint}) /\ Cardinality(held) \in Nat
          /\ Cardinality(held \cup {endpoint}) <= Cardinality(held) + 1
          /\ Cardinality(held \cup {endpoint}) \in Nat
      <4>1. IsFiniteSet(held \cup {endpoint}) /\ Cardinality(held) \in Nat
        BY <3>2, AddedSize, SizeType
      <4>2. Cardinality(held \cup {endpoint}) \in Nat
        BY <4>1, SizeType
      <4>3. Cardinality(held \cup {endpoint})
              = IF endpoint \in held THEN Cardinality(held) ELSE Cardinality(held) + 1
        BY <3>2, AddedSize
      <4> QED BY <4>1, <4>2, <4>3, SMTT(40)
    <3>4. /\ Cardinality(HeldBy(q)') <= Cardinality(held \cup {endpoint})
          /\ Cardinality(HeldBy(q)') \in Nat
      BY <3>1, <3>3, SubsetSize, SizeType
    <3> QED BY <1>7, <1>10, <3>3, <3>4, SMTT(40)
  <2>2. CASE q # Coldkey[h]
    <3>1. HeldBy(q)' \subseteq HeldBy(q)
      BY <1>2, <1>8, <2>2 DEF HeldBy
    <3>2. IsFiniteSet(own)
      <4>1. IsFiniteSet(LiveSet)
        BY SubsetSize DEF LiveSet
      <4> QED BY <4>1, SubsetSize
    <3>3. IsFiniteSet(HeldBy(q))
      <4> HIDE DEF own
      <4>1. IsFiniteSet({enrollments[k] : k \in own})
        BY <3>2, ImageFinite
      <4> QED BY <4>1 DEF HeldBy, own
    <3>4. /\ Cardinality(HeldBy(q)') <= Cardinality(HeldBy(q))
          /\ Cardinality(HeldBy(q)) \in Nat /\ Cardinality(HeldBy(q)') \in Nat
      BY <3>1, <3>3, SubsetSize, SizeType
    <3> QED BY <1>5, <1>10, <3>4, SMTT(40) DEF CapsInv
  <2> QED BY <2>1, <2>2
<1> QED BY <1>11, <1>12, <1>13 DEF CapsInv

(* However refreshes, failures, removals and moves interleave, the workers *)
(* that consume capacity stay within the caps, as long as the operator     *)
(* does not put a stopped worker back by hand.                             *)
THEOREM CapsStayHeld ==
    ASSUME IsFiniteSet(Hotkeys), Operator \subseteq {"remove"}
    PROVE  Spec => []CapsHold
<1>1. Init => CapsInv
  <2> SUFFICES ASSUME Init PROVE CapsInv
    OBVIOUS
  <2>1. LiveSet = {}
    BY DEF Init, LiveSet, Live
  <2>2. \A q \in Coldkeys : HeldBy(q) = {}
    BY <2>1 DEF HeldBy
  <2>3. 0 <= MaxTotal /\ 0 <= MaxPerColdkey
    BY RegistryAssumption, SMTT(40) DEF RegistryAssumption
  <2> QED BY <2>1, <2>2, <2>3, SizeType DEF CapsInv
<1>2. ASSUME TypeInv, TokensCurrent, CapsInv, [Next]_vars
      PROVE  CapsInv'
  <2>0. StoreOK /\ LifecycleOK /\ RefreshOK
    BY <1>2, TypeInvParts
  <2>1. ASSUME NEW c \in Clients, ClientStep(c) PROVE CapsInv'
    <3>1. UNCHANGED <<enrollments, governed>>
      BY <2>1, ClientLeaves
    <3>2. ASSUME NEW k \in Hotkeys, lifecycle'[k].state \in CapacityConsuming
          PROVE  lifecycle[k].state \in CapacityConsuming
      <4>1. Refreshed(c, k)
        BY <1>2, <2>1, ClientRefreshes
      <4>2. CASE Commits(c, k)
        <5>1. /\ k = refresh[c].hotkey /\ HasToken(c)
              /\ refresh[c].generation = lifecycle[k].generation
              /\ refresh[c].revision = lifecycle[k].revision
          BY <4>2 DEF Commits, HasToken, HoldsToken
        <5>2. TokenFits(refresh[c].generation, refresh[c].revision, lifecycle[k])
          BY <1>2, <5>1 DEF TokensCurrent
        <5>3. lifecycle[k].state \in NetworkEligible
          BY <5>1, <5>2 DEF TokenFits
        <5> QED BY <5>3 DEF CapacityConsuming
      <4>3. CASE Kept(lifecycle[k], lifecycle'[k])
        BY <3>2, <4>3 DEF Kept
      <4> QED BY <4>1, <4>2, <4>3 DEF Refreshed
    <3>3. \A k \in Hotkeys : Live(k)' => Live(k)
      BY <3>1, <3>2 DEF Live
    <3> QED BY <1>2, <3>1, <3>3, CapsShrink
  <2>2. ASSUME NEW h \in Hotkeys, WorkerStep(h) PROVE CapsInv'
    <3>1. ASSUME NEW endpoint \in Endpoints, NEW nonce \in Nonces,
                 Enroll(h, endpoint, nonce)
          PROVE  CapsInv'
      BY <1>2, <3>1, CapsEnroll
    <3>2. ASSUME UNCHANGED <<enrollments, governed>>,
                 lifecycle'[h].state \in CapacityConsuming =>
                     lifecycle[h].state \in CapacityConsuming
          PROVE  CapsInv'
      <4>1. \A k \in Hotkeys \ {h} : lifecycle'[k] = lifecycle[k]
        BY <1>2, <2>2, WorkerRefreshes
      <4>2. \A k \in Hotkeys : Live(k)' => Live(k)
        BY <3>2, <4>1 DEF Live
      <4> QED BY <1>2, <3>2, <4>2, CapsShrink
    <3>3. CASE Remove(h)
      <4>1. /\ UNCHANGED <<enrollments, governed>>
            /\ lifecycle' = [lifecycle EXCEPT ![h] = Retired(lifecycle[h])]
        BY <3>3 DEF Remove, RetireLifecycle, settings
      <4>2. lifecycle'[h] = Retired(lifecycle[h]) /\ lifecycle[h] \in LifecycleRow
        BY <2>0, <4>1 DEF LifecycleOK
      <4>3. \/ lifecycle'[h] = lifecycle[h]
            \/ lifecycle'[h].state = "retired"
        <5>1. Retired(lifecycle[h]) # lifecycle[h] => Retired(lifecycle[h]).state = "retired"
          BY <4>2 DEF Retired, Retiring, Transitioned, LifecycleRow
        <5> QED BY <4>2, <5>1
      <4>4. "retired" \notin CapacityConsuming
        BY DEF CapacityConsuming, NetworkEligible
      <4> QED BY <3>2, <4>1, <4>3, <4>4
    <3>4. CASE ClearVerdict(h)
      BY <3>2, <3>4 DEF ClearVerdict, settings
    <3>5. CASE LifecycleSnapshot(h)
      <4>1. UNCHANGED <<enrollments, governed>>
        BY <3>5 DEF LifecycleSnapshot, settings
      <4>2. lifecycle'[h] = Materialized(lifecycle[h]) /\ lifecycle[h] \in LifecycleRow
        BY <2>0, <3>5 DEF LifecycleOK, LifecycleSnapshot
      <4>3. Kept(lifecycle[h], lifecycle'[h])
        BY <4>2, MaterializedKept
      <4> QED BY <3>2, <4>1, <4>3 DEF Kept
    <3>6. ~Retire(h) /\ ~OperatorReenroll(h)
      BY DEF Retire, OperatorReenroll
    <3> QED BY <2>2, <3>1, <3>3, <3>4, <3>5, <3>6 DEF WorkerStep
  <2>3. CASE \/ Tick \/ SetBack \/ UNCHANGED vars
             \/ \E m \in Measurements : DropMeasurement(m)
    <3>1. UNCHANGED <<enrollments, governed, lifecycle>>
      BY <2>3, OtherSteps
    <3>2. \A k \in Hotkeys : Live(k)' => Live(k)
      BY <3>1 DEF Live
    <3> QED BY <1>2, <3>1, <3>2, CapsShrink
  <2> QED BY <1>2, <2>1, <2>2, <2>3 DEF Next
<1>3. CapsInv => CapsHold
  <2> SUFFICES ASSUME CapsInv, governed PROVE CapsHold
    BY DEF CapsHold
  <2>1. \A h \in Hotkeys : Coldkey[h] \in Coldkeys
    BY RegistryAssumption DEF RegistryAssumption
  <2> QED BY <2>1 DEF CapsInv, CapsHold, LiveSet, HeldBy
<1> QED BY <1>1, <1>2, <1>3, TypeCorrect, TokensStayCurrent, PTL DEF Spec
-----------------------------------------------------------------------------
(* The enrollment service in front of the registry.                        *)

(* The part of the types the proofs rest on, and the order of the marks: a *)
(* process has on disk what it goes by, and goes by what it has decided by.*)
MarksOK ==
    /\ policy \in Versions /\ snapshot \in Snapshots
    /\ state_file \in [Services -> Nat] /\ highest \in [Services -> Nat]
    /\ used \in [Services -> Nat]
    /\ high_water \in Snapshots \cup {None}
    /\ completed \subseteq Requests
    /\ overcharged \in [Requests -> Nat]
    /\ \A s \in Services : /\ used[s] <= highest[s] /\ highest[s] <= state_file[s]
                           /\ state_file[s] <= Damaged

(* A request in hand is decided by the newest version its process has gone *)
(* by; an admitted one rests on a snapshot at or below the mark.           *)
CallOK(s) ==
    /\ calls[s].phase # "idle" =>
           calls[s].request \in Requests /\ calls[s].version = used[s]
    /\ calls[s].phase = "admitted" =>
           /\ Coldkey[calls[s].request.hotkey] \in ApprovedBy[calls[s].version]
           /\ calls[s].basis \in Snapshots /\ high_water \in Snapshots
           /\ calls[s].request.hotkey \in calls[s].basis.hotkeys
           /\ \/ calls[s].basis = high_water
              \/ calls[s].basis.block < high_water.block

CallsOK == calls \in [Services -> Call] /\ \A s \in Services : CallOK(s)

(* The processes that may still charge a request after it was completed.   *)
InHand(r) == {s \in Services : calls[s].phase = "new" /\ calls[s].request = r}

(* A completed request has one process fewer to charge it than there are;  *)
(* every charge takes one of those that had it in hand.                    *)
Budget ==
    \A r \in Requests :
        /\ r \notin completed => overcharged[r] = 0
        /\ r \in completed =>
               overcharged[r] + Cardinality(InHand(r)) < Cardinality(Services)

IInv == MarksOK /\ CallsOK /\ Budget
-----------------------------------------------------------------------------
(* Sets of processes are finite.                                           *)
LEMMA Sizes ==
    ASSUME NEW S, S \subseteq Services, NEW T, T \subseteq S
    PROVE  /\ Cardinality(S) \in Nat /\ Cardinality(T) \in Nat
           /\ Cardinality(Services) \in Nat \ {0}
           /\ Cardinality(T) <= Cardinality(S)
           /\ \A s \in S \ T : Cardinality(T) < Cardinality(S)
<1>1. IsFiniteSet(Services) /\ Services # {}
    BY ServiceAssumption DEF ServiceAssumption
<1>2. IsFiniteSet(S)
    BY <1>1, SubsetSize
<1>3. IsFiniteSet(T) /\ Cardinality(T) <= Cardinality(S)
      /\ (Cardinality(T) = Cardinality(S) => S = T)
    BY <1>2, SubsetSize
<1>4. /\ Cardinality(S) \in Nat /\ Cardinality(T) \in Nat
      /\ Cardinality(Services) \in Nat
    BY <1>1, <1>2, <1>3, SizeType
<1>5. Cardinality(Services) # 0
    BY <1>1, SizeType
<1> QED BY <1>3, <1>4, <1>5, SMTT(40)

(* A step that charges nothing and gives no process a completed request.   *)
LEMMA BudgetKept ==
    ASSUME IInv, UNCHANGED <<completed, overcharged>>,
           \A r \in completed : InHand(r)' \subseteq InHand(r)
    PROVE  Budget'
<1> SUFFICES ASSUME NEW r \in Requests, r \in completed
             PROVE  overcharged[r] + Cardinality(InHand(r)') < Cardinality(Services)
    BY DEF IInv, Budget
<1>1. InHand(r) \subseteq Services
    BY DEF InHand
<1> QED BY <1>1, Sizes, SMTT(40) DEF IInv, Budget, MarksOK

LEMMA InitInv == ServiceInit => IInv
<1> SUFFICES ASSUME ServiceStart PROVE IInv
    BY DEF ServiceInit
<1> USE ServiceAssumption DEF ServiceAssumption, ServiceStart
<1>1. MarksOK
    BY SMTT(40) DEF MarksOK
<1>2. NoCall \in Call
    BY DEF NoCall, Call, CallPhases
<1>3. CallsOK
    BY <1>2 DEF CallsOK, CallOK, NoCall
<1>4. Budget
    BY DEF Budget
<1> QED BY <1>1, <1>3, <1>4 DEF IInv

(* The end of a call: the process is idle and charges nothing more.        *)
LEMMA AnsweredInv ==
    ASSUME IInv, NEW s \in Services, Answered(s)
    PROVE  /\ calls' \in [Services -> Call]
           /\ calls'[s] = NoCall
           /\ \A t \in Services : t # s => calls'[t] = calls[t]
           /\ \A r \in Requests : InHand(r)' = InHand(r) \ {s}
<1>1. NoCall \in Call
    BY DEF NoCall, Call, CallPhases
<1>2. /\ calls' \in [Services -> Call]
      /\ calls'[s] = NoCall
      /\ \A t \in Services : t # s => calls'[t] = calls[t]
    BY <1>1 DEF IInv, CallsOK, Answered
<1>3. ASSUME NEW r \in Requests
      PROVE  InHand(r)' = InHand(r) \ {s}
    BY <1>2, SMTT(40) DEF InHand, NoCall
<1> QED BY <1>2, <1>3

(* A call moves on to another phase.                                       *)
LEMMA GotoInv ==
    ASSUME IInv, NEW s \in Services, NEW phase \in CallPhases, Goto(s, phase)
    PROVE  /\ calls' \in [Services -> Call]
           /\ calls'[s].phase = phase /\ calls'[s].request = calls[s].request
           /\ calls'[s].version = calls[s].version
           /\ calls'[s].basis = calls[s].basis
           /\ \A t \in Services : t # s => calls'[t] = calls[t]
<1> DEFINE row == [calls[s] EXCEPT !.phase = phase]
<1>1. /\ row \in Call /\ row.phase = phase /\ row.request = calls[s].request
      /\ row.version = calls[s].version /\ row.basis = calls[s].basis
    BY DEF IInv, CallsOK, Call
<1>2. calls' = [calls EXCEPT ![s] = row]
    BY DEF Goto
<1> HIDE DEF row
<1> QED BY <1>1, <1>2 DEF IInv, CallsOK

(* What a call rests on is kept when the mark only moves up.               *)
LEMMA MarkAdvances ==
    ASSUME IInv, NEW t \in Services, calls'[t] = calls[t], used'[t] = used[t],
           high_water' = high_water \/ LoadSnapshot
    PROVE  CallOK(t)'
<1> USE ServiceAssumption DEF ServiceAssumption
<1>1. CallOK(t)
    BY DEF IInv, CallsOK
<1>2. CASE high_water' = high_water
    BY <1>1, <1>2 DEF CallOK
<1>3. CASE LoadSnapshot
  <2>1. high_water' = snapshot /\ snapshot \in Snapshots
        /\ snapshot.block \in Nat
      BY <1>3 DEF LoadSnapshot, IInv, MarksOK
  <2>2. CASE calls[t].phase = "admitted"
    <3>1. /\ high_water \in Snapshots /\ high_water.block \in Nat
          /\ calls[t].basis \in Snapshots /\ calls[t].basis.block \in Nat
          /\ \/ calls[t].basis = high_water
             \/ calls[t].basis.block < high_water.block
        BY <1>1, <2>2 DEF CallOK
    <3>2. high_water # None
        BY <3>1
    <3>3. snapshot = high_water \/ snapshot.block > high_water.block
        BY <1>3, <3>2 DEF LoadSnapshot, SnapshotCurrent
    <3>4. calls[t].basis = high_water' \/ calls[t].basis.block < high_water'.block
        BY <2>1, <3>1, <3>3, SMTT(40)
    <3> QED BY <1>1, <2>1, <2>2, <3>4 DEF CallOK
  <2>3. CASE calls[t].phase # "admitted"
      BY <1>1, <2>3 DEF CallOK
  <2> QED BY <2>2, <2>3
<1> QED BY <1>2, <1>3

LEMMA OthersKept ==
    ASSUME IInv, NEW s \in Services, calls' \in [Services -> Call],
           \A t \in Services : t # s => calls'[t] = calls[t],
           \A t \in Services : t # s => used'[t] = used[t],
           high_water' = high_water \/ LoadSnapshot, CallOK(s)'
    PROVE  CallsOK'
BY MarkAdvances DEF CallsOK

(* The marks stay in order when only the snapshot's moves.                 *)
LEMMA MarksKept ==
    ASSUME IInv, UNCHANGED <<policy, snapshot, state_file, highest, used,
                             completed, overcharged>>,
           high_water' = high_water \/ LoadSnapshot
    PROVE  MarksOK'
BY DEF IInv, MarksOK, LoadSnapshot
-----------------------------------------------------------------------------
(* A request that ends without a charge and leaves the marks in order.     *)
LEMMA EndedInv ==
    ASSUME IInv, NEW s \in Services, Answered(s),
           UNCHANGED <<policy, snapshot, state_file, highest, used, completed,
                       overcharged>>,
           high_water' = high_water \/ LoadSnapshot
    PROVE  IInv'
<1>1. CallOK(s)'
    BY AnsweredInv, SMTT(40) DEF CallOK, NoCall
<1>2. CallsOK'
    BY <1>1, AnsweredInv, OthersKept
<1>3. \A r \in completed : InHand(r)' \subseteq InHand(r)
    BY AnsweredInv DEF IInv, MarksOK
<1> QED BY <1>2, <1>3, BudgetKept, MarksKept DEF IInv

(* A request that goes on without a charge.                                *)
LEMMA ProceedsInv ==
    ASSUME IInv, NEW s \in Services,
           NEW phase \in {"new", "charged", "registered"}, Goto(s, phase),
           calls[s].phase # "idle",
           phase = "new" => calls[s].request \notin completed,
           UNCHANGED <<policy, snapshot, state_file, highest, used, completed,
                       overcharged>>,
           high_water' = high_water \/ LoadSnapshot
    PROVE  IInv'
<1>1. phase \in CallPhases
    BY DEF CallPhases
<1>2. CallOK(s)'
    BY <1>1, GotoInv DEF CallOK, IInv, CallsOK
<1>3. CallsOK'
    BY <1>1, <1>2, GotoInv, OthersKept
<1>4. ASSUME NEW r \in completed
      PROVE  InHand(r)' \subseteq InHand(r)
    BY <1>1, GotoInv, SMTT(40) DEF InHand
<1> QED BY <1>3, <1>4, BudgetKept, MarksKept DEF IInv

LEMMA ReceiveInv ==
    ASSUME IInv, NEW s \in Services, NEW r \in Requests, Receive(s, r)
    PROVE  IInv'
<1> USE ServiceAssumption DEF ServiceAssumption
<1> DEFINE a == [NoCall EXCEPT !.phase = "received"]
           b == [a EXCEPT !.request = r]
           row == [b EXCEPT !.version = policy]
<1>1. /\ policy \in Versions /\ policy \in Nat
      /\ used[s] \in Nat /\ highest[s] \in Nat /\ state_file[s] \in Nat
      /\ used[s] <= highest[s] /\ highest[s] <= state_file[s]
      /\ policy >= highest[s]
    BY DEF IInv, MarksOK, Receive
<1>2. a \in Call /\ a.phase = "received"
    BY DEF NoCall, Call, CallPhases
<1>3. b \in Call /\ b.phase = "received" /\ b.request = r
  <2> HIDE DEF a
  <2> QED BY <1>2 DEF Call
<1>4. row \in Call /\ row.phase = "received" /\ row.request = r
      /\ row.version = policy
  <2> HIDE DEF b
  <2> QED BY <1>1, <1>3 DEF Call
<1>5. calls' = [calls EXCEPT ![s] = row]
    BY DEF Receive
<1> HIDE DEF row
<1>6. /\ calls' \in [Services -> Call] /\ calls'[s] = row
      /\ \A t \in Services : t # s => calls'[t] = calls[t]
    BY <1>4, <1>5 DEF IInv, CallsOK
<1>7. /\ used'[s] = policy /\ highest'[s] = policy
      /\ policy <= state_file'[s] /\ state_file'[s] \in Nat
      /\ \A t \in Services \ {s} : /\ used'[t] = used[t]
                                   /\ highest'[t] = highest[t]
                                   /\ state_file'[t] = state_file[t]
  <2>1. /\ used \in [Services -> Nat] /\ highest \in [Services -> Nat]
        /\ state_file \in [Services -> Nat]
      BY DEF IInv, MarksOK
  <2>2. used'[s] = policy
    <3>1. used'[s] = IF policy > used[s] THEN policy ELSE used[s]
        BY <2>1 DEF Receive
    <3> QED BY <1>1, <3>1, SMTT(40)
  <2>3. policy <= state_file'[s] /\ state_file'[s] \in Nat
    <3>1. state_file'[s] = IF policy > highest[s] THEN policy ELSE state_file[s]
        BY <2>1 DEF Receive
    <3> QED BY <1>1, <3>1, SMTT(40)
  <2> QED BY <2>1, <2>2, <2>3 DEF Receive
<1>8. MarksOK'
  <2>1. /\ used' \in [Services -> Nat] /\ highest' \in [Services -> Nat]
        /\ state_file' \in [Services -> Nat]
      BY <1>1 DEF IInv, MarksOK, Receive
  <2>2. /\ used'[s] <= highest'[s] /\ highest'[s] <= state_file'[s]
        /\ state_file'[s] <= Damaged
    <3>1. policy < Damaged /\ Damaged \in Nat /\ state_file[s] <= Damaged
        BY DEF IInv, MarksOK
    <3>2. state_file'[s] \in {policy, state_file[s]}
        BY DEF IInv, MarksOK, Receive
    <3> QED BY <1>1, <1>7, <3>1, <3>2, SMTT(40)
  <2> QED BY <1>1, <1>7, <2>1, <2>2 DEF IInv, MarksOK, Receive
<1>9. CallOK(s)'
    BY <1>4, <1>6, <1>7 DEF CallOK
<1>10. CallsOK'
    BY <1>6, <1>7, <1>9, OthersKept DEF Receive
<1>11. ASSUME NEW q \in completed
       PROVE  InHand(q)' \subseteq InHand(q)
    BY <1>4, <1>6 DEF InHand
<1> QED BY <1>8, <1>10, <1>11, BudgetKept DEF IInv, Receive

LEMMA CompletedCheckInv ==
    ASSUME IInv, NEW s \in Services, IsCompletedEnrollment(s)
    PROVE  IInv'
<1>1. CASE calls[s].request \in completed
    BY <1>1, EndedInv DEF IsCompletedEnrollment
<1>2. CASE calls[s].request \notin completed
  <2>1. Goto(s, "new") /\ calls[s].phase # "idle"
      BY <1>2 DEF IsCompletedEnrollment
  <2> QED BY <1>2, <2>1, ProceedsInv DEF IsCompletedEnrollment
<1> QED BY <1>1, <1>2

(* The charge for a completed request takes its process out of hand.       *)
LEMMA ChargeInv ==
    ASSUME IInv, NEW s \in Services, CheckAndRecordHotkeyAttempt(s)
    PROVE  IInv'
<1> DEFINE r == calls[s].request
           kept == SelectSeq(attempts[r.hotkey], LAMBDA t : t >= wall - Window)
           allow == Len(kept) < AttemptLimit
           charge == IF /\ allow /\ r \in completed
                        /\ enrollments[r.hotkey] = r.endpoint
                     THEN overcharged[r] + 1 ELSE overcharged[r]
<1>1. /\ calls[s].phase = "new" /\ r \in Requests /\ calls[s].version = used[s]
      /\ overcharged \in [Requests -> Nat]
    BY DEF IInv, CallsOK, CallOK, MarksOK, CheckAndRecordHotkeyAttempt
<1>2. /\ IF allow THEN Goto(s, "charged") ELSE Answered(s)
      /\ overcharged' = [overcharged EXCEPT ![r] = charge]
      /\ UNCHANGED <<policy, snapshot, state_file, highest, used, completed,
                     high_water>>
    BY <1>1 DEF CheckAndRecordHotkeyAttempt
<1> HIDE DEF allow
<1>3. /\ calls' \in [Services -> Call]
      /\ \A t \in Services : t # s => calls'[t] = calls[t]
      /\ calls'[s] = NoCall
         \/ /\ calls'[s].phase = "charged" /\ calls'[s].request = r
            /\ calls'[s].version = calls[s].version
  <2>1. CASE allow
      BY <1>2, <2>1, GotoInv DEF CallPhases
  <2>2. CASE ~allow
      BY <1>2, <2>2, AnsweredInv
  <2> QED BY <2>1, <2>2
<1> HIDE DEF r
<1>4. CallOK(s)'
    BY <1>1, <1>2, <1>3, SMTT(40) DEF CallOK, NoCall
<1>5. CallsOK'
    BY <1>2, <1>3, <1>4, OthersKept
<1>6. /\ charge \in Nat /\ (r \notin completed => charge = overcharged[r])
      /\ charge <= overcharged[r] + 1
    BY <1>1, SMTT(40)
<1> HIDE DEF charge
<1>7. /\ overcharged' \in [Requests -> Nat] /\ overcharged'[r] = charge
      /\ \A q \in Requests \ {r} : overcharged'[q] = overcharged[q]
    BY <1>1, <1>2, <1>6
<1>8. MarksOK'
    BY <1>2, <1>7 DEF IInv, MarksOK
<1>9. Budget'
  <2> SUFFICES ASSUME NEW q \in Requests
               PROVE  /\ q \notin completed => overcharged'[q] = 0
                      /\ q \in completed =>
                             overcharged'[q] + Cardinality(InHand(q)')
                                 < Cardinality(Services)
      BY <1>2 DEF Budget
  <2>1. q \notin completed => overcharged'[q] = 0
      BY <1>1, <1>6, <1>7 DEF IInv, Budget
  <2>2. InHand(q)' \subseteq InHand(q) /\ InHand(q) \subseteq Services
      BY <1>3, SMTT(40) DEF InHand, NoCall
  <2>3. /\ Cardinality(InHand(q)) \in Nat /\ Cardinality(InHand(q)') \in Nat
        /\ Cardinality(Services) \in Nat
        /\ Cardinality(InHand(q)') <= Cardinality(InHand(q))
        /\ \A t \in InHand(q) \ InHand(q)' :
               Cardinality(InHand(q)') < Cardinality(InHand(q))
      BY <2>2, Sizes
  <2>4. q = r => s \in InHand(q) \ InHand(q)'
      BY <1>1, <1>3, SMTT(40) DEF InHand, NoCall, r
  <2>5. /\ overcharged[q] \in Nat
        /\ q \in completed => overcharged[q] + Cardinality(InHand(q))
                                 < Cardinality(Services)
      BY <1>1 DEF IInv, Budget
  <2>6. CASE q = r
    <3>1. /\ overcharged'[q] \in Nat /\ overcharged'[q] <= overcharged[q] + 1
          /\ Cardinality(InHand(q)') < Cardinality(InHand(q))
        BY <1>6, <1>7, <2>3, <2>4, <2>6
    <3> QED BY <2>1, <2>3, <2>5, <3>1, SMTT(40)
  <2>7. CASE q # r
    <3>1. overcharged'[q] = overcharged[q]
        BY <1>7, <2>7
    <3> QED BY <2>1, <2>3, <2>5, <3>1, SMTT(40)
  <2> QED BY <2>6, <2>7
<1> QED BY <1>5, <1>8, <1>9 DEF IInv

LEMMA RegisteredInv ==
    ASSUME IInv, NEW s \in Services, IsRegistered(s)
    PROVE  IInv'
<1>1. CASE calls[s].request.hotkey \in snapshot.hotkeys
  <2>1. Goto(s, "registered") /\ calls[s].phase # "idle"
      BY <1>1 DEF IsRegistered
  <2> QED BY <2>1, ProceedsInv DEF IsRegistered
<1>2. CASE calls[s].request.hotkey \notin snapshot.hotkeys
    BY <1>2, EndedInv DEF IsRegistered
<1> QED BY <1>1, <1>2

LEMMA ResolveInv ==
    ASSUME IInv, NEW s \in Services, ResolveColdkey(s)
    PROVE  IInv'
<1> DEFINE h == calls[s].request.hotkey
           a == [calls[s] EXCEPT !.phase = "admitted"]
           row == [a EXCEPT !.basis = snapshot]
<1>1. CASE h \in snapshot.hotkeys /\ Coldkey[h] \in ApprovedBy[calls[s].version]
  <2>1. /\ calls \in [Services -> Call] /\ calls[s].request \in Requests
        /\ calls[s].version = used[s] /\ snapshot \in Snapshots
      BY DEF IInv, CallsOK, CallOK, MarksOK, ResolveColdkey
  <2>2. /\ a \in Call /\ a.phase = "admitted" /\ a.request = calls[s].request
        /\ a.version = calls[s].version
      BY <2>1 DEF Call, CallPhases
  <2>3. /\ row \in Call /\ row.phase = "admitted" /\ row.basis = snapshot
        /\ row.request = calls[s].request /\ row.version = calls[s].version
    <3> HIDE DEF a
    <3> QED BY <2>1, <2>2 DEF Call
  <2>4. calls' = [calls EXCEPT ![s] = row]
      BY <1>1, <2>1 DEF ResolveColdkey
  <2> HIDE DEF row
  <2>5. /\ calls' \in [Services -> Call] /\ calls'[s] = row
        /\ \A t \in Services : t # s => calls'[t] = calls[t]
      BY <2>1, <2>3, <2>4
  <2>6. /\ LoadSnapshot /\ high_water' = snapshot
        /\ UNCHANGED <<policy, snapshot, state_file, highest, used, completed,
                       overcharged>>
      BY DEF ResolveColdkey, LoadSnapshot
  <2>7. CallOK(s)'
      BY <1>1, <2>1, <2>3, <2>5, <2>6 DEF CallOK
  <2>8. CallsOK'
      BY <2>5, <2>6, <2>7, OthersKept
  <2>9. ASSUME NEW q \in completed
        PROVE  InHand(q)' \subseteq InHand(q)
      BY <2>3, <2>5 DEF InHand
  <2> QED BY <2>6, <2>8, <2>9, BudgetKept, MarksKept DEF IInv
<1>2. CASE ~(h \in snapshot.hotkeys /\ Coldkey[h] \in ApprovedBy[calls[s].version])
    BY <1>2, EndedInv DEF ResolveColdkey
<1> QED BY <1>1, <1>2

(* The process that completes a request is none of those that may charge   *)
(* it afterwards.                                                          *)
LEMMA AdmitInv ==
    ASSUME IInv, NEW s \in Services, Admit(s)
    PROVE  IInv'
<1> DEFINE r == calls[s].request
<1>1. /\ calls[s].phase = "admitted" /\ r \in Requests /\ Answered(s)
      /\ completed' = completed \cup {r}
      /\ UNCHANGED <<policy, snapshot, state_file, highest, used, high_water,
                     overcharged>>
    BY DEF IInv, CallsOK, CallOK, Admit
<1>2. CallOK(s)'
    BY <1>1, AnsweredInv, SMTT(40) DEF CallOK, NoCall
<1>3. CallsOK'
    BY <1>1, <1>2, AnsweredInv, OthersKept
<1>4. MarksOK'
    BY <1>1 DEF IInv, MarksOK
<1>5. Budget'
  <2> SUFFICES ASSUME NEW q \in Requests
               PROVE  /\ q \notin completed' => overcharged[q] = 0
                      /\ q \in completed' =>
                             overcharged[q] + Cardinality(InHand(q)')
                                 < Cardinality(Services)
      BY <1>1 DEF Budget
  <2>1. /\ InHand(q)' \subseteq InHand(q) /\ InHand(q) \subseteq Services
        /\ InHand(q)' \subseteq Services /\ s \in Services \ InHand(q)'
      BY <1>1, AnsweredInv DEF InHand
  <2>2. /\ Cardinality(InHand(q)) \in Nat /\ Cardinality(InHand(q)') \in Nat
        /\ Cardinality(InHand(q)') <= Cardinality(InHand(q))
      BY <2>1, Sizes
  <2>3. Cardinality(Services) \in Nat /\ Cardinality(InHand(q)') < Cardinality(Services)
      BY <2>1, Sizes
  <2>4. /\ overcharged[q] \in Nat
        /\ q \notin completed => overcharged[q] = 0
        /\ q \in completed => overcharged[q] + Cardinality(InHand(q))
                                 < Cardinality(Services)
      BY DEF IInv, MarksOK, Budget
  <2>5. overcharged[q] + Cardinality(InHand(q)') < Cardinality(Services)
      BY <2>2, <2>3, <2>4, SMTT(40)
  <2> QED BY <1>1, <2>4, <2>5
<1> QED BY <1>3, <1>4, <1>5 DEF IInv

(* A restart goes by what is on disk, which is no lower than memory.       *)
LEMMA RestartInv ==
    ASSUME IInv, NEW s \in Services, Restart(s)
    PROVE  IInv'
<1>1. /\ Answered(s)
      /\ UNCHANGED <<policy, snapshot, state_file, used, completed, high_water,
                     overcharged>>
    BY DEF Restart, Answered
<1>2. CallOK(s)'
    BY <1>1, AnsweredInv, SMTT(40) DEF CallOK, NoCall
<1>3. CallsOK'
    BY <1>1, <1>2, AnsweredInv, OthersKept
<1>4. MarksOK'
  <2>1. /\ highest' \in [Services -> Nat] /\ highest'[s] = state_file[s]
        /\ \A t \in Services \ {s} : highest'[t] = highest[t]
      BY DEF IInv, MarksOK, Restart
  <2>2. used[s] \in Nat /\ highest[s] \in Nat /\ state_file[s] \in Nat
        /\ used[s] <= highest[s] /\ highest[s] <= state_file[s]
      BY DEF IInv, MarksOK
  <2>3. used[s] <= highest'[s] /\ highest'[s] <= state_file[s]
      BY <2>1, <2>2, SMTT(40)
  <2> QED BY <1>1, <2>1, <2>3 DEF IInv, MarksOK
<1>5. \A r \in completed : InHand(r)' \subseteq InHand(r)
    BY <1>1, AnsweredInv DEF IInv, MarksOK
<1> QED BY <1>1, <1>3, <1>4, <1>5, BudgetKept DEF IInv

(* A state file that is written, or damaged, goes no lower than memory.    *)
LEMMA StateFileInv ==
    ASSUME IInv, NEW s \in Services, PersistFails(s) \/ DamageStateFile(s)
    PROVE  IInv'
<1> USE ServiceAssumption DEF ServiceAssumption
<1>1. PICK n \in Nat : /\ state_file' = [state_file EXCEPT ![s] = n]
                       /\ highest[s] <= n /\ n <= Damaged
  <2>1. CASE PersistFails(s)
    <3>1. /\ policy \in Nat /\ policy < Damaged
          /\ highest[s] \in Nat /\ policy > highest[s]
        BY <2>1 DEF PersistFails, IInv, MarksOK
    <3>2. highest[s] <= policy /\ policy <= Damaged
        BY <3>1, SMTT(40)
    <3> QED BY <2>1, <3>1, <3>2 DEF PersistFails
  <2>2. CASE DamageStateFile(s)
    <3>1. /\ highest[s] \in Nat /\ state_file[s] \in Nat
          /\ highest[s] <= state_file[s] /\ state_file[s] <= Damaged
        BY DEF IInv, MarksOK
    <3>2. highest[s] <= Damaged /\ Damaged <= Damaged
        BY <3>1, SMTT(40)
    <3> QED BY <2>2, <3>2 DEF DamageStateFile
  <2> QED BY <2>1, <2>2
<1>2. UNCHANGED <<policy, snapshot, highest, used, completed, high_water,
                  overcharged, calls>>
    BY DEF PersistFails, DamageStateFile
<1>3. MarksOK'
  <2>1. /\ state_file' \in [Services -> Nat]
        /\ highest[s] <= state_file'[s] /\ state_file'[s] <= Damaged
        /\ \A t \in Services \ {s} : state_file'[t] = state_file[t]
      BY <1>1 DEF IInv, MarksOK
  <2> QED BY <1>2, <2>1 DEF IInv, MarksOK
<1>4. CallsOK'
    BY <1>2 DEF IInv, CallsOK, CallOK
<1>5. \A r \in completed : InHand(r)' \subseteq InHand(r)
    BY <1>2 DEF InHand
<1> QED BY <1>2, <1>3, <1>4, <1>5, BudgetKept DEF IInv

(* Files are rotated, or the mark advances with no call moving.            *)
LEMMA FilesInv ==
    ASSUME IInv, policy' \in Versions, snapshot' \in Snapshots,
           UNCHANGED <<state_file, highest, used, completed, overcharged, calls>>,
           high_water' = high_water \/ LoadSnapshot
    PROVE  IInv'
<1>1. MarksOK'
    BY DEF IInv, MarksOK, LoadSnapshot
<1>2. CallsOK'
  <2>1. CASE high_water' = high_water
      BY <2>1 DEF IInv, CallsOK, CallOK
  <2>2. CASE LoadSnapshot
    <3> SUFFICES ASSUME NEW s \in Services PROVE CallOK(s)'
        BY DEF IInv, CallsOK
    <3> QED BY <2>2, MarkAdvances DEF IInv, CallsOK
  <2> QED BY <2>1, <2>2
<1>3. \A r \in completed : InHand(r)' \subseteq InHand(r)
    BY DEF InHand
<1> QED BY <1>1, <1>2, <1>3, BudgetKept DEF IInv

LEMMA NextInv == IInv /\ [ServiceNext]_<<vars, service>> => IInv'
<1> SUFFICES ASSUME IInv, [ServiceNext]_<<vars, service>> PROVE IInv'
    OBVIOUS
<1>1. policy \in Versions /\ snapshot \in Snapshots
    BY DEF IInv, MarksOK
<1>2. CASE UNCHANGED service
    BY <1>1, <1>2, FilesInv DEF service
<1>3. CASE OperatorStep
    BY <1>1, <1>3, FilesInv DEF OperatorStep, RotatePolicy, RotateSnapshot, Reconcile
<1>4. ASSUME NEW s \in Services, ServiceStep(s)
      PROVE  IInv'
  <2>1. CASE Reject(s)
      BY <2>1, EndedInv DEF Reject
  <2> QED BY <1>4, <2>1, ReceiveInv, CompletedCheckInv, ChargeInv, RegisteredInv,
             ResolveInv, AdmitInv, RestartInv, StateFileInv DEF ServiceStep
<1> QED BY <1>2, <1>3, <1>4 DEF ServiceNext, RegistryStep, service
-----------------------------------------------------------------------------
LEMMA InvHolds == ServiceSpec => []IInv
BY InitInv, NextInv, PTL DEF ServiceSpec

(* A worker is admitted by the newest policy its service has ever decided  *)
(* by and by a registration snapshot that was the newest relied on, through*)
(* restarts, failed writes, damage and old copies put back.                *)
THEOREM AdmissionIsCurrent == ServiceSpec => []AdmittedByNewest
<1>1. IInv => AdmittedByNewest
    BY DEF IInv, CallsOK, CallOK, AdmittedByNewest
<1> QED BY <1>1, InvHolds, PTL

(* However often a completed request for the worker's present endpoint is  *)
(* sent again, to any process, it is charged fewer times than there are    *)
(* processes (is_completed_enrollment).                                    *)
THEOREM RepeatsAreCheap == ServiceSpec => []LostAnswersCheap
<1>1. ASSUME IInv PROVE LostAnswersCheap
  <2> SUFFICES ASSUME NEW r \in Requests
               PROVE  overcharged[r] < Cardinality(Services)
      BY DEF LostAnswersCheap
  <2>1. /\ Cardinality(InHand(r)) \in Nat /\ Cardinality(Services) \in Nat \ {0}
        /\ overcharged[r] \in Nat
      BY <1>1, Sizes DEF InHand, IInv, MarksOK
  <2> QED BY <1>1, <2>1, SMTT(40) DEF IInv, Budget
<1> QED BY <1>1, InvHolds, PTL

(* The service only ever does to the registry what the registry allows:    *)
(* what holds of the store under any enrollment requests holds behind the  *)
(* service.                                                                *)
THEOREM ServiceKeepsRegistry == ServiceSpec => Spec
<1>1. ServiceInit => Init
    BY DEF ServiceInit
<1>2. ASSUME IInv, [ServiceNext]_<<vars, service>>
      PROVE  [Next]_vars
  <2>1. CASE RegistryStep
      BY <2>1 DEF RegistryStep, Next, WorkerStep
  <2>2. CASE OperatorStep
      BY <2>2 DEF OperatorStep, RotatePolicy, RotateSnapshot, Reconcile
  <2>3. ASSUME NEW s \in Services, ServiceStep(s)
        PROVE  [Next]_vars
    <3>1. CASE Admit(s)
      <4>1. /\ calls[s].request \in Requests
            /\ Enroll(calls[s].request.hotkey, calls[s].request.endpoint,
                      calls[s].request.nonce)
          BY <1>2, <3>1 DEF Admit, IInv, CallsOK, CallOK
      <4>2. /\ calls[s].request.hotkey \in Hotkeys
            /\ calls[s].request.endpoint \in Endpoints
            /\ calls[s].request.nonce \in Nonces
          BY <4>1, ServiceAssumption DEF ServiceAssumption
      <4> QED BY <4>1, <4>2 DEF Next, WorkerStep
    <3>2. CASE ~Admit(s)
        BY <2>3, <3>2
           DEF ServiceStep, Receive, PersistFails, Restart,
               IsCompletedEnrollment, CheckAndRecordHotkeyAttempt,
               IsRegistered, ResolveColdkey, Reject, DamageStateFile
    <3> QED BY <3>1, <3>2
  <2> QED BY <1>2, <2>1, <2>2, <2>3 DEF ServiceNext
<1> QED BY <1>1, <1>2, InvHolds, PTL DEF ServiceSpec, Spec

(* So the registry keeps its promises behind any number of service         *)
(* processes: one live binding per chip (record_verdict), tokens that only *)
(* advance, and no return of a stopped worker by a refresh.                *)
THEOREM RegistrySafeBehindService ==
    ServiceSpec => []OneChipOneWorker /\ TokenAdvances /\ NoSelfRecovery
BY ServiceKeepsRegistry, ChipHeldOnce, TokensNeverRepeat, StoppedStaysStopped, PTL
=============================================================================
