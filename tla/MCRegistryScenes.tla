-------------------------- MODULE MCRegistryScenes --------------------------
(* The registry in five scenes, one of which is set at the start: each     *)
(* brings its own workers and clients, and takes the steps of Next that    *)
(* they can take.                                                          *)
EXTENDS MCRegistry, EnrollmentService

CONSTANTS m1, m2, n1, n2, p1, p2, r1, s1, s2

VARIABLE scene

(* A worker's nonces are interchangeable: they are used in order.          *)
EnrollNext(h, endpoint) ==
    \/ Enroll(h, endpoint, n1)
    \/ <<h, n1>> \in nonces /\ Enroll(h, endpoint, n2)

(* Two workers of one host under a prober and a runtime, time passing.     *)
OneHost ==
    /\ allowed = {m1}
    /\ \/ Tick \/ SetBack
       \/ Enroll(h1, e1, n1)
       \/ enrollments[h1] # None /\ Enroll(h2, e2, n1)
       \/ \E h \in {h1, h2} : LifecycleSnapshot(h)
       \/ \E c \in {p1, r1} : ClientStep(c)

(* One worker that moves, is removed and reenrolled under two probers.     *)
OneMoving ==
    \/ \E m \in Measurements : DropMeasurement(m)
    \/ \E e \in {e1, e2} : EnrollNext(h1, e)
    \/ OperatorReenroll(h1) \/ Remove(h1) \/ ClearVerdict(h1)
    \/ LifecycleSnapshot(h1)
    \/ \E c \in {p1, p2} : ClientStep(c)

(* Three workers of two owners, one of them reachable, under the caps of   *)
(* an admission policy.                                                    *)
Capped ==
    /\ allowed = {m1}
    /\ \/ Tick
       \/ \E h \in Hotkeys, e \in Endpoints :
              (h = h2 => enrollments[h1] # None) /\ EnrollNext(h, e)
       \/ /\ ClientStep(p1)
          /\ refresh'[p1].phase = "collected" => refresh[p1].hotkey = h3

Request(h, e, n) == [hotkey |-> h, endpoint |-> e, nonce |-> n]

TwoWorkers == {Request(h1, e1, n1), Request(h1, e2, n2), Request(h3, e3, n1)}

Serve(s, requests) ==
    \/ \E r \in requests : Receive(s, r)
    \/ IsCompletedEnrollment(s) \/ CheckAndRecordHotkeyAttempt(s)
    \/ IsRegistered(s) \/ ResolveColdkey(s) \/ Admit(s) \/ Reject(s)

SecondOnlyK2 == [v \in Versions |-> IF v = 2 THEN {k2} ELSE Coldkeys]

ThreeSnapshots == {[block |-> 1, hotkeys |-> {h1}],
                   [block |-> 2, hotkeys |-> {h1, h3}],
                   [block |-> 2, hotkeys |-> {h3}]}

(* One process of the service, whose policy file is rotated back and forth *)
(* while it restarts.                                                      *)
Policed ==
    \/ \E v \in Versions : RotatePolicy(v)
    \/ \E x \in Snapshots : RotateSnapshot(x)
    \/ PersistFails(s1) \/ Restart(s1) \/ DamageStateFile(s1)
    \/ Serve(s1, {Request(h1, e1, n1), Request(h3, e3, n1)})

(* Two processes, between them a worker that moves and sends its requests  *)
(* again, and an operator who removes it.                                  *)
Shared ==
    \/ \E x \in Snapshots : RotateSnapshot(x)
    \/ Reconcile
    \/ \E s \in Services : Serve(s, {Request(h1, e1, n1), Request(h1, e2, n2)})
    \/ completed # {} /\ (Tick \/ Remove(h1) \/ ClearVerdict(h1)) /\ UNCHANGED service

SceneInit ==
    /\ scene \in {"one host", "one moving", "capped", "policed", "shared"}
    /\ Init /\ ServiceStart
    /\ governed = (scene \in {"capped", "policed", "shared"})
    /\ policy = 1 /\ snapshot.block = 1

SceneNext ==
    /\ \/ /\ \/ scene = "one host" /\ OneHost
             \/ scene = "one moving" /\ OneMoving
             \/ scene = "capped" /\ Capped
             \/ scene \in {"one host", "capped"} /\ DropMeasurement(m2)
          /\ UNCHANGED service
       \/ scene = "policed" /\ Policed
       \/ scene = "shared" /\ Shared
    /\ UNCHANGED scene

SceneSpec == SceneInit /\ [][SceneNext]_<<vars, service, scene>>

Anonymous == Permutations(Probers)
=============================================================================
