----------------------------- MODULE MCRegistry -----------------------------
(* Instances of WorkerRegistry for TLC.                                    *)
EXTENDS WorkerRegistry, TLC

CONSTANTS h1, h2, h3, e1, e2, e3, x1, x2, k1, k2

(* Two workers of one owner, the third of another.                         *)
TwoOwners == [h \in Hotkeys |-> IF h = h3 THEN k2 ELSE k1]

OneOwner == [h \in Hotkeys |-> k1]

(* Endpoints e1 and e2 are guests of one host, e3 has a host of its own.   *)
SharedHost == [e \in Endpoints |-> IF e = e3 THEN x2 ELSE x1]

(* Workers that enroll and retire under a prober, on a clock that stands.  *)
ProberNext ==
    \/ \E h \in Hotkeys :
           \/ \E endpoint \in Endpoints, nonce \in Nonces : Enroll(h, endpoint, nonce)
           \/ Retire(h) \/ LifecycleSnapshot(h)
    \/ \E c \in Probers :
           \/ \E h \in Hotkeys : ProbeDue(c, h)
           \/ ProbeEndpoint(c) \/ Collect(c) \/ RequireCurrentPolicy(c)
           \/ RecordVerdict(c) \/ RecordProbeFailure(c)
           \/ RevokeIdentityConflict(c) \/ GiveUp(c)

ProberSpec == Init /\ [][ProberNext]_vars /\ Fairness
=============================================================================
