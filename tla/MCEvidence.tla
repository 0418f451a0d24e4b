------------------------------ MODULE MCEvidence ------------------------------
(* An instance of EvidenceLane for TLC, in two scenes, one of which is set *)
(* at the start: each takes the steps of Next that it is about.            *)
EXTENDS EvidenceLane, TLC

CONSTANTS a, b, x1, x2, k1, k2

(* Epoch facts: both miners earn; one earns and one failed; the units of   *)
(* one cannot be reported; nobody earns; positive work outside the         *)
(* anchored candidates; positive work that was not persisted; positive     *)
(* work without an attestation binding.                                    *)
Fact(candidates, ua, ub, fine, receipts, retained, release) ==
    [candidates |-> candidates,
     units |-> [h \in Hotkeys |-> IF h = a THEN ua ELSE ub],
     fine |-> fine, receipts |-> receipts, work |-> receipts,
     attested |-> Hotkeys,
     retained |-> retained, release |-> release]

Both == Fact({a, b}, 2, 1, {a, b}, {a, b}, {a, b}, 1)
OneFailed == Fact({a, b}, 1, 0, {a, b}, {a, b}, {a}, 1)
Coarse == Fact({a, b}, 1, 1, {b}, {a, b}, {}, 1)
Alone == Fact({a}, 1, 0, {a, b}, {a}, {}, 2)
Nobody == Fact({b}, 0, 0, {a, b}, {}, {}, 2)
Outside == Fact({b}, 1, 0, {a, b}, {a}, {}, 1)
Unrecorded == [Alone EXCEPT !.work = {}, !.release = 1]
Unattested == [Alone EXCEPT !.attested = {}, !.release = 1]

VariedFacts == [e \in Epochs |-> CASE e = 1 -> {Both, OneFailed}
                                   [] e = 2 -> {Coarse, Outside, Unrecorded, Unattested}
                                   [] OTHER -> {Alone, Nobody}]

(* The second epoch may be exported with other arguments.                  *)
SecondVaries == [e \in Epochs |-> IF e = 2 THEN Variants ELSE WithVerifier]

TwoKeys == [x \in Exporters |-> IF x = x1 THEN k1 ELSE k2]

VARIABLE scene

Exporting == \E x \in Exporters : exporter[x].pc # "idle"
Pending == {v \in Auditors : audit[v] # None}

ExportSteps(x) ==
    \/ \E e \in Epochs : \E v \in VariantsAt[e] : StartExport(x, e, v)
    \/ PutManifest(x) \/ PutEpochCopy(x) \/ WriteIndex(x)
    \/ WriteHighwater(x) \/ Refuse(x)

(* Three reports are signed; then two exporters publish them, die, and     *)
(* find the index corrupted or gone.                                       *)
StoreNext ==
    \/ /\ ~Exporting /\ blobs = {}
       /\ \E e \in Epochs :
              \/ \E f \in FactsAt[e] \cap {Both, Coarse, Alone} : Publish(e, f)
              \/ ExportScoreClass(e)
    \/ /\ reports[3] # None
       /\ \E x \in Exporters : ExportSteps(x) \/ Crash(x)
    \/ CorruptIndex \/ LoseIndex

(* One exporter publishes each epoch as it comes, and two auditors verify; *)
(* a file may be lost in the first epoch.                                  *)
Settled ==
    \A e \in Epochs :
        facts[e] # None /\ Reportable(facts[e]) => reports[e] # None

AuditNext ==
    \/ \E e \in Epochs : \E f \in FactsAt[e] :
           /\ Settled /\ damage = 0 /\ Publish(e, f)
           /\ f \in {Nobody, Outside, Unrecorded, Unattested} => facts[1] # OneFailed
    \/ \E e \in Epochs : ExportScoreClass(e)
    \/ \E e \in Epochs : Settled /\ ExportControlled(e)
    \/ Settled /\ ExportSteps(x1)
    \/ facts[2] = None /\ (CorruptIndex \/ LoseIndex \/ LoseEnvelope)
    \/ facts[1] # OneFailed /\ facts[3] # Nobody /\ Expire
    \/ /\ Settled
       /\ \E v \in Auditors :
              \/ /\ Exporting \/ damage > 0 \/ facts[1] = OneFailed => Pending = {}
                 /\ \E m \in Manifests : \E controlled, compared \in BOOLEAN :
                        Verify(v, m, controlled, compared)
              \/ Reserve(v) \/ Fail(v)

SceneInit == Init /\ scene \in {"store", "audit"}

SceneNext ==
    /\ \/ scene = "store" /\ StoreNext
       \/ scene = "audit" /\ AuditNext
    /\ UNCHANGED scene

SceneSpec == SceneInit /\ [][SceneNext]_<<vars, scene>>

Interchangeable == Permutations(Auditors)
=============================================================================
