----------------------------- MODULE EvidenceLane -----------------------------
(***************************************************************************)
(* The public evidence of a published epoch: the signed score-class report *)
(* (cathedral/score_class.py), the bundle an exporter publishes for it     *)
(* (cathedral/evidence.py, runtime export-evidence), the package of        *)
(* controlled envelopes (runtime export-controlled), and the auditors who  *)
(* recompute the weights from them (cathedral/provenance.py, provenance    *)
(* verify) behind the fences of one state file.                            *)
(*                                                                         *)
(* Artifacts are content-addressed.  What an epoch's manifest says follows *)
(* from the epoch's frozen facts and from the arguments of the export, so  *)
(* an epoch and a variant of those arguments identify a manifest.          *)
(***************************************************************************)
EXTENDS Integers, FiniteSets, FiniteSetsExt

CONSTANTS
    Hotkeys,        \* miners
    FactsAt,        \* what the ledger may freeze for each epoch
    Variants,       \* arguments of an evidence export
    VariantsAt,     \* those that operators may use for each epoch
    WithVerifier,   \* those that publish the verifier's binary
    Exporters,      \* processes running export-evidence
    Keys,           \* index signing keys
    KeyOf,          \* the key of each exporter
    Auditors,       \* processes running provenance verify
    MaxEpoch,       \* bound on the source epochs
    MaxRecent,      \* MAX_INDEX_RECENT
    MaxReceipts,    \* MAX_MANIFEST_RECEIPTS
    MaxStale,       \* bound on the reports that expire
    MaxCrashes,     \* bound on the crashes of exporters
    MaxDamage,      \* bound on the losses of stored files
    None, Corrupt

Epochs == 1 .. MaxEpoch
Manifests == [epoch : Epochs, variant : Variants]
Indexes == [key : Keys, latest : Manifests, recent : SUBSET Manifests]

(* What the ledger holds of a published epoch: the anchored candidates,    *)
(* the frozen units, the hotkeys whose units the report's decimal format   *)
(* can carry, those with a receipt row (of failed work too), those whose   *)
(* work item and result were persisted, those with an attestation, those   *)
(* whose envelope was retained, and the release the epoch is bound to.     *)
Facts ==
    [candidates : SUBSET Hotkeys, units : [Hotkeys -> Nat],
     fine : SUBSET Hotkeys, receipts : SUBSET Hotkeys, work : SUBSET Hotkeys,
     attested : SUBSET Hotkeys, retained : SUBSET Hotkeys, release : Nat]

Reports ==
    [previous : Epochs \cup {None}, candidates : SUBSET Hotkeys,
     units : [Hotkeys -> Nat], evidence : SUBSET Hotkeys, release : Nat]

ASSUME EvidenceAssumption ==
    /\ MaxEpoch \in Nat /\ MaxRecent \in Nat \ {0} /\ MaxReceipts \in Nat
    /\ MaxStale \in Nat /\ MaxCrashes \in Nat /\ MaxDamage \in Nat
    /\ FactsAt \in [Epochs -> SUBSET Facts]
    /\ VariantsAt \in [Epochs -> SUBSET Variants]
    /\ WithVerifier \subseteq Variants
    /\ KeyOf \in [Exporters -> Keys]
    /\ None # Corrupt
    /\ {None, Corrupt} \cap (Manifests \cup Indexes \cup Exporters) = {}
    /\ None \notin Nat \cup Variants \cup Facts \cup Reports

VARIABLES
    facts,      \* the ledger's published epochs
    reports,    \* score_class_exports
    artifacts,  \* epochs whose registry, report, receipts and work are blobs
    blobs,      \* manifests stored as blobs
    copies,     \* epochs/<source_epoch>.json
    index,      \* index.json
    highwater,  \* .index-highwater.json
    lock,       \* holder of .index.lock
    exporter,   \* where each exporter is, and with which manifest
    envelopes,  \* envelopes in the retention store
    packages,   \* epochs whose controlled package was written
    stale,      \* reports of epochs up to this one have expired
    audit,      \* what each auditor verified and has not reserved yet
    fences,     \* the auditors' state file
    proven,     \* epochs that an audit concluded with full assurance
    top,        \* the latest pointer of the last index written
    crashes, damage

ledger == <<facts, reports>>
store == <<artifacts, blobs, copies, index, highwater, top>>
disclosure == <<envelopes, packages>>
auditing == <<stale, audit, fences, proven>>
faults == <<crashes, damage>>
vars == <<ledger, store, lock, exporter, disclosure, auditing, faults>>
-----------------------------------------------------------------------------
Total(units) == MapThenSumSet(LAMBDA h : units[h], Hotkeys)
Positive(units) == {h \in Hotkeys : units[h] > 0}

(* The rows of the report: every candidate, with the units of its receipt, *)
(* and zero where the decimal format cannot carry them.                    *)
ReportUnits(f) ==
    [h \in Hotkeys |-> IF h \in f.candidates \cap f.fine THEN f.units[h]
                                                         ELSE 0]

(* export_score_class_report refuses positive work that has no receipt, or *)
(* that lies outside the anchored snapshot.                                *)
Reportable(f) == Positive(f.units) \subseteq f.receipts \cap f.candidates

(* The candidates that the manifest of epoch e calls verified.             *)
Verified(e) ==
    {h \in reports[e].evidence : reports[e].units[h] > 0}

(* Faulty variant: the signer's word for the work is enough.               *)
EvidencedByReceipt(e) == reports[e].evidence \subseteq facts[e].receipts

(* Every receipt that the report refers to is in the ledger, with the      *)
(* persisted work it is about.                                             *)
Evidenced(e) ==
    reports[e].evidence \subseteq facts[e].receipts \cap facts[e].work

(* The candidate snapshot given to the export is the one the report binds, *)
(* at the epoch's challenge anchor.                                        *)
Anchored(e) == reports[e].candidates = facts[e].candidates

(* Only the bindings of verified candidates are published, and every one   *)
(* of them has to have one.                                                *)
Bound(e) == Verified(e) \subseteq facts[e].attested

(* validate_manifest: the receipts cover exactly the verified candidates,  *)
(* and they are not too many for the auditors' budget.                     *)
WellFormed(e) ==
    /\ reports[e].evidence = Verified(e)
    /\ Cardinality(Verified(e)) <= MaxReceipts

(* build_manifest.                                                         *)
Buildable(e) == Anchored(e) /\ Bound(e) /\ WellFormed(e)

(* verify_report_structure: the report binds the registry of its epoch.    *)
BindsRegistry(e) == reports[e].release = facts[e].release

(* The entries range over the anchored candidates, and the manifest calls  *)
(* verified exactly those with positive units.                             *)
CandidatesAccounted(e) ==
    /\ Positive(reports[e].units) \subseteq reports[e].candidates
    /\ Positive(reports[e].units) = Verified(e)

(* verify_work_artifacts: the published work is solved, and is worth the   *)
(* units of the entry.                                                     *)
WorkReplays(e, h) ==
    h \in facts[e].work /\ reports[e].units[h] = facts[e].units[h]

(* The receipt behind a positive entry.                                    *)
ReceiptProves(e, h) == h \in facts[e].receipts /\ WorkReplays(e, h)

(* verify_and_recompute: a positive entry carries the one receipt that     *)
(* proves it, and an entry without units carries none.                     *)
Recomputable(e) ==
    /\ BindsRegistry(e)
    /\ CandidatesAccounted(e)
    /\ reports[e].evidence = Positive(reports[e].units)
    /\ \A h \in reports[e].evidence : ReceiptProves(e, h)

(* Faulty variant: the units of earlier epochs count in the score.         *)
WireUnitsOfWindow(e) ==
    [h \in Hotkeys |->
        MapThenSumSet(LAMBDA d : IF facts[d] = None THEN 0
                                 ELSE facts[d].units[h], 1 .. e)]

(* The scores of the wire report of epoch e, over their maximum; the       *)
(* publisher normalises them by their sum, so the maximum cancels.         *)
WireUnits(e) == facts[e].units

(* The vector was composed from the ingested report of this very epoch.    *)
EpochBound(e, composed) == composed = e

(* The vector pays nobody exactly when nothing was verified.               *)
SupplyAsserted(mine, wire) == Total(mine) = 0 <=> Total(wire) = 0

(* The same hotkeys have a share, and it is the recomputed one: an omitted *)
(* miner is as much of a discrepancy as an unverified earner.              *)
SameShares(mine, wire) ==
    LET verified == Total(mine)
        mass == Total(wire)
    IN  /\ Positive(mine) = Positive(wire)
        /\ \A h \in Hotkeys : mine[h] * mass = wire[h] * verified

(* What compare_with_vector compares: the epoch, the supply, the shares.   *)
Agrees(e, composed) ==
    LET mine == reports[e].units
        wire == WireUnits(composed)
    IN  /\ EpochBound(e, composed)
        /\ SupplyAsserted(mine, wire)
        /\ SameShares(mine, wire)
-----------------------------------------------------------------------------
Init ==
    /\ facts = [e \in Epochs |-> None]
    /\ reports = [e \in Epochs |-> None]
    /\ artifacts = {} /\ blobs = {}
    /\ copies = [e \in Epochs |-> None]
    /\ index = None /\ highwater = None /\ top = None
    /\ lock = None
    /\ exporter = [x \in Exporters |-> [pc |-> "idle", manifest |-> None]]
    /\ envelopes = {} /\ packages = {}
    /\ stale = 0
    /\ audit = [v \in Auditors |-> None]
    /\ fences = [index |-> None, policy |-> None, report |-> None]
    /\ proven = {}
    /\ crashes = 0 /\ damage = 0

(* The runtime publishes its next epoch, under a release no older than the *)
(* last one's, having retained the envelopes of the attestations.          *)
Publish(e, f) ==
    /\ facts[e] = None /\ f \in FactsAt[e]
    /\ \A d \in 1 .. (e - 1) : facts[d] # None /\ facts[d].release <= f.release
    /\ facts' = [facts EXCEPT ![e] = f]
    /\ envelopes' = envelopes \cup ({e} \X f.retained)
    /\ UNCHANGED <<reports, store, lock, exporter, packages, auditing, faults>>

(* export_score_class_report and record_score_class_export.  The stream is *)
(* append-only: an epoch below the last export is refused.                 *)
ExportScoreClass(e) ==
    LET f == facts[e]
        exported == {d \in Epochs : reports[d] # None}
        previous == IF exported = {} THEN None ELSE Max(exported)
    IN  /\ f # None /\ reports[e] = None
        /\ \A d \in exported : d < e
        /\ Reportable(f)
        /\ reports' = [reports EXCEPT ![e] =
               [previous |-> previous, candidates |-> f.candidates,
                units |-> ReportUnits(f),
                evidence |-> Positive(ReportUnits(f)),
                release |-> f.release]]
        /\ UNCHANGED <<facts, store, lock, exporter, disclosure, auditing,
                       faults>>
-----------------------------------------------------------------------------
(* cmd_runtime_export_evidence.                                            *)

At(x, pc) == exporter[x].pc = pc
Goto(x, pc) == exporter' = [exporter EXCEPT ![x].pc = pc]
Leave(x) ==
    exporter' = [exporter EXCEPT ![x] = [pc |-> "idle", manifest |-> None]]

(* The rows an index may be rebuilt from.                                  *)
CopySet ==
    {m \in Manifests : copies[m.epoch] = m.variant}

(* build_signed_index keeps the newest rows.                               *)
Newest(rows) ==
    {m \in rows : Cardinality({n \in rows : n.epoch > m.epoch}) < MaxRecent}

(* verify_index: the epochs of the rows strictly decrease from the latest. *)
Ordered(latest, rows) ==
    /\ \A m \in rows : m.epoch < latest.epoch
    /\ \A m, n \in rows : m.epoch = n.epoch => m = n

IndexReadable == index \notin {None, Corrupt}

(* Faulty variant: a rebuild takes only the copies of older epochs.        *)
CarriedBelow(x, m) ==
    LET rows == IF index = None THEN {}
                ELSE IF index # Corrupt /\ index.key = KeyOf[x]
                THEN {index.latest} \cup index.recent
                ELSE {n \in CopySet : n.epoch < m.epoch}
    IN  {n \in rows : n.epoch # m.epoch}

(* The rows carried into the index of manifest m: those of an index that   *)
(* verifies under the exporter's own key, else those of the epoch copies.  *)
Carried(x, m) ==
    LET rows == IF index = None THEN {}
                ELSE IF index # Corrupt /\ index.key = KeyOf[x]
                THEN {index.latest} \cup index.recent
                ELSE CopySet
    IN  {n \in rows : n.epoch # m.epoch}

(* The completed index verifies, and _IndexTransaction.publish finds it    *)
(* neither older than, nor another manifest at, the high-water mark and    *)
(* the current index, where that can be parsed.                            *)
Follows(m, last) == m.epoch > last.epoch \/ m = last
Publishable(x, m) ==
    /\ Ordered(m, Newest(Carried(x, m)))
    /\ highwater # None => Follows(m, highwater)
    /\ IndexReadable => Follows(m, index.latest)

(* The checks of the export, and the blobs that need no lock.              *)
StartExport(x, e, a) ==
    /\ At(x, "idle")
    /\ facts[e] # None /\ reports[e] # None
    /\ Evidenced(e) /\ Buildable(e)
    /\ artifacts' = artifacts \cup {e}
    /\ exporter' = [exporter EXCEPT ![x] =
           [pc |-> "built", manifest |-> [epoch |-> e, variant |-> a]]]
    /\ UNCHANGED <<ledger, blobs, copies, index, highwater, top, lock,
                   disclosure, auditing, faults>>

(* The index transaction is entered and the manifest is stored as a blob.  *)
PutManifest(x) ==
    /\ At(x, "built") /\ lock = None
    /\ lock' = x
    /\ blobs' = blobs \cup {exporter[x].manifest}
    /\ Goto(x, "copy")
    /\ UNCHANGED <<ledger, artifacts, copies, index, highwater, top,
                   disclosure, auditing, faults>>

(* Faulty variant: an epoch copy is overwritten.                           *)
PutEpochCopyOver(x) ==
    LET m == exporter[x].manifest
    IN  /\ At(x, "copy")
        /\ copies' = [copies EXCEPT ![m.epoch] = m.variant]
        /\ Goto(x, "index")
        /\ UNCHANGED <<ledger, artifacts, blobs, index, highwater, top, lock,
                       disclosure, auditing, faults>>

(* put_epoch_copy.                                                         *)
PutEpochCopy(x) ==
    LET m == exporter[x].manifest
    IN  /\ At(x, "copy") /\ copies[m.epoch] \in {None, m.variant}
        /\ copies' = [copies EXCEPT ![m.epoch] = m.variant]
        /\ Goto(x, "index")
        /\ UNCHANGED <<ledger, artifacts, blobs, index, highwater, top, lock,
                       disclosure, auditing, faults>>

(* The index is read, carried on, signed, checked and written.             *)
WriteIndex(x) ==
    LET m == exporter[x].manifest
    IN  /\ At(x, "index") /\ Publishable(x, m)
        /\ index' = [key |-> KeyOf[x], latest |-> m,
                     recent |-> Newest(Carried(x, m))]
        /\ top' = m
        /\ Goto(x, "mark")
        /\ UNCHANGED <<ledger, artifacts, blobs, copies, highwater, lock,
                       disclosure, auditing, faults>>

(* The high-water mark is written and the transaction left.                *)
WriteHighwater(x) ==
    /\ At(x, "mark")
    /\ highwater' = exporter[x].manifest
    /\ lock' = None
    /\ Leave(x)
    /\ UNCHANGED <<ledger, artifacts, blobs, copies, index, top, disclosure,
                   auditing, faults>>

(* A refusal leaves the transaction; what was stored stays.                *)
Refuse(x) ==
    LET m == exporter[x].manifest
    IN  /\ \/ At(x, "copy") /\ copies[m.epoch] \notin {None, m.variant}
           \/ At(x, "index") /\ ~Publishable(x, m)
        /\ lock' = None
        /\ Leave(x)
        /\ UNCHANGED <<ledger, store, disclosure, auditing, faults>>

(* The exporter is killed; the system releases its lock.                   *)
Crash(x) ==
    /\ ~At(x, "idle") /\ crashes < MaxCrashes
    /\ crashes' = crashes + 1
    /\ lock' = IF lock = x THEN None ELSE lock
    /\ Leave(x)
    /\ UNCHANGED <<ledger, store, disclosure, auditing, damage>>

(* index.json is corrupted, or lost at a time when the high-water mark has *)
(* caught up with it; an envelope is lost from the retention store.        *)
CorruptIndex ==
    /\ IndexReadable /\ damage < MaxDamage
    /\ damage' = damage + 1
    /\ index' = Corrupt
    /\ UNCHANGED <<ledger, artifacts, blobs, copies, highwater, top, lock,
                   exporter, disclosure, auditing, crashes>>

LoseIndex ==
    /\ IndexReadable /\ highwater = index.latest /\ damage < MaxDamage
    /\ damage' = damage + 1
    /\ index' = None
    /\ UNCHANGED <<ledger, artifacts, blobs, copies, highwater, top, lock,
                   exporter, disclosure, auditing, crashes>>

LoseEnvelope ==
    /\ damage < MaxDamage
    /\ damage' = damage + 1
    /\ \E lost \in envelopes : envelopes' = envelopes \ {lost}
    /\ UNCHANGED <<ledger, store, lock, exporter, packages, auditing, crashes>>
-----------------------------------------------------------------------------
(* cmd_runtime_export_controlled: every retained envelope of the epoch is  *)
(* read before the package is renamed into place; a second export only     *)
(* compares.                                                               *)
ExportControlled(e) ==
    /\ facts[e] # None /\ facts[e].retained # {}
    /\ {e} \X facts[e].retained \subseteq envelopes
    /\ packages' = packages \cup ({e} \X facts[e].retained)
    /\ UNCHANGED <<ledger, store, lock, exporter, envelopes, auditing, faults>>
-----------------------------------------------------------------------------
(* cmd_provenance_verify.                                                  *)

(* valid_until of a report, and the age of its registry, run out.          *)
Expire ==
    /\ stale < MaxStale
    /\ stale' = stale + 1
    /\ UNCHANGED <<ledger, store, lock, exporter, disclosure, audit, fences,
                   proven, faults>>

(* What the publisher composed its vector from: the last published epoch.  *)
Composed == Max({e \in Epochs : facts[e] # None})

(* Faulty variant: candidates that are not verified do not matter.         *)
ProvesPositive(m, controlled) ==
    controlled /\ Verified(m.epoch) # {}

(* replay_positive_miners: an epoch is fully proven when every anchored    *)
(* candidate is verified and was replayed, and there is one.               *)
Proves(m, controlled) ==
    /\ controlled
    /\ Verified(m.epoch) = reports[m.epoch].candidates
    /\ Verified(m.epoch) # {}

(* authenticate_verifier_bytes: the manifest publishes the verifier.       *)
VerifierPinned(m) == m.variant \in WithVerifier

(* replay_evidence: the envelope was disclosed for this epoch's challenge. *)
EnvelopeReplays(e, h) == <<e, h>> \in packages

(* The replay of one positive candidate, through its attestation binding.  *)
Replays(m, h) ==
    h \in facts[m.epoch].attested /\ EnvelopeReplays(m.epoch, h)

(* replay_positive_miners raises unless the auditor's own snapshot of the  *)
(* anchored block has the report's candidates and every positive one can   *)
(* be replayed.                                                            *)
Replayable(m) ==
    /\ VerifierPinned(m)
    /\ reports[m.epoch].candidates = facts[m.epoch].candidates
    /\ \A h \in Verified(m.epoch) : Replays(m, h)

(* The index verifies and has a row for the manifest.                      *)
Selectable(m) == IndexReadable /\ m \in {index.latest} \cup index.recent

(* The index is no older than the index fence, read without the lock.      *)
NotRolledBack == fences.index # None => Follows(index.latest, fences.index)

(* Every artifact of the manifest can be fetched.                          *)
Fetched(m) == m \in blobs /\ m.epoch \in artifacts

(* The vector of the publisher, where the auditor asked for it.            *)
VectorChecked(m, compared) == compared => Agrees(m.epoch, Composed)

(* A manifest is chosen from the index and its whole chain verified.       *)
Verify(v, m, controlled, compared) ==
    /\ audit[v] = None
    /\ Selectable(m) /\ NotRolledBack /\ Fetched(m)
    /\ stale < m.epoch
    /\ Recomputable(m.epoch)
    /\ controlled => Replayable(m)
    /\ VectorChecked(m, compared)
    /\ audit' = [audit EXCEPT ![v] =
           [latest |-> index.latest, chosen |-> m,
            full |-> Proves(m, controlled)]]
    /\ UNCHANGED <<ledger, store, lock, exporter, disclosure, stale, fences,
                   proven, faults>>

(* The conditions of _reserve_fences, under the lock of the state file.    *)
Reservable(a) ==
    LET historical == a.chosen # a.latest
        report == reports[a.chosen.epoch]
    IN  /\ fences.index # None => Follows(a.latest, fences.index)
        /\ fences.policy # None =>
               historical \/ report.release >= fences.policy
        /\ fences.report # None =>
               /\ a.chosen.epoch > fences.report =>
                      report.previous = fences.report
               /\ historical \/ a.chosen.epoch >= fences.report

(* What _reserve_fences writes: a historical audit moves no index fence,   *)
(* establishes no fence and lowers none.                                   *)
Reserved(a) ==
    LET historical == a.chosen # a.latest
        release == reports[a.chosen.epoch].release
    IN  [index |-> IF historical THEN fences.index ELSE a.latest,
         policy |-> IF /\ historical
                       /\ fences.policy = None \/ release < fences.policy
                    THEN fences.policy ELSE release,
         report |-> IF /\ historical
                       /\ \/ fences.report = None
                          \/ a.chosen.epoch < fences.report
                    THEN fences.report ELSE a.chosen.epoch]

Conclude(v) ==
    /\ proven' = IF audit[v].full THEN proven \cup {audit[v].chosen.epoch}
                                  ELSE proven
    /\ audit' = [audit EXCEPT ![v] = None]
    /\ UNCHANGED <<ledger, store, lock, exporter, disclosure, stale, faults>>

(* Faulty variant: the fences were only read before the verification.      *)
ReserveUnchecked(v) ==
    /\ audit[v] # None
    /\ fences' = Reserved(audit[v])
    /\ Conclude(v)

Reserve(v) ==
    /\ audit[v] # None
    /\ Reservable(audit[v])
    /\ fences' = Reserved(audit[v])
    /\ Conclude(v)

(* A conflict, a failure or a crash of the audit: it reports no acceptance *)
(* and reserves nothing.                                                   *)
Fail(v) ==
    /\ audit[v] # None
    /\ audit' = [audit EXCEPT ![v] = None]
    /\ UNCHANGED <<ledger, store, lock, exporter, disclosure, stale, fences,
                   proven, faults>>

Next ==
    \/ \E e \in Epochs : \E f \in FactsAt[e] : Publish(e, f)
    \/ \E e \in Epochs : ExportScoreClass(e) \/ ExportControlled(e)
    \/ \E x \in Exporters :
           \/ \E e \in Epochs : \E a \in VariantsAt[e] : StartExport(x, e, a)
           \/ PutManifest(x) \/ PutEpochCopy(x) \/ WriteIndex(x)
           \/ WriteHighwater(x) \/ Refuse(x) \/ Crash(x)
    \/ CorruptIndex \/ LoseIndex \/ LoseEnvelope
    \/ Expire
    \/ \E v \in Auditors :
           \/ \E m \in Manifests : \E controlled, compared \in BOOLEAN :
                  Verify(v, m, controlled, compared)
           \/ Reserve(v) \/ Fail(v)

Spec == Init /\ [][Next]_vars
-----------------------------------------------------------------------------
(* The variables have their types, and the lock is held by the exporter    *)
(* that is inside the index transaction.                                   *)
TypeOK ==
    /\ facts \in [Epochs -> Facts \cup {None}]
    /\ reports \in [Epochs -> Reports \cup {None}]
    /\ artifacts \subseteq Epochs /\ blobs \subseteq Manifests
    /\ copies \in [Epochs -> Variants \cup {None}]
    /\ index \in Indexes \cup {None, Corrupt}
    /\ highwater \in Manifests \cup {None} /\ top \in Manifests \cup {None}
    /\ lock \in Exporters \cup {None}
    /\ exporter \in [Exporters ->
           [pc : {"idle", "built", "copy", "index", "mark"},
            manifest : Manifests \cup {None}]]
    /\ \A x \in Exporters :
           lock = x <=> exporter[x].pc \in {"copy", "index", "mark"}
    /\ envelopes \subseteq Epochs \X Hotkeys /\ packages \subseteq Epochs \X Hotkeys
    /\ stale \in 0 .. MaxStale
    /\ audit \in [Auditors ->
           [latest : Manifests, chosen : Manifests, full : BOOLEAN] \cup {None}]
    /\ fences \in [index : Manifests \cup {None}, policy : Nat \cup {None},
                   report : Epochs \cup {None}]
    /\ proven \subseteq Epochs
    /\ crashes \in 0 .. MaxCrashes /\ damage \in 0 .. MaxDamage

(* Every row of a readable index leads to its manifest, to the epoch copy  *)
(* of that very manifest and to the artifacts it names, and the rows       *)
(* strictly decrease from the latest, whatever crashed and whichever       *)
(* exporter wrote it (cmd_runtime_export_evidence).                        *)
RowsResolve ==
    IndexReadable =>
        /\ Ordered(index.latest, index.recent)
        /\ \A m \in {index.latest} \cup index.recent :
               m \in blobs /\ m.epoch \in artifacts /\ copies[m.epoch] = m.variant

(* Whatever an exporter publishes, an auditor can verify: the manifest and *)
(* the signed report of every listed epoch pass verify_and_recompute.      *)
ExportVerifies ==
    \A m \in CopySet : Recomputable(m.epoch)

(* The published bundle reproduces the wire allocation: the recomputed     *)
(* shares are those of the publisher's vector for the epoch exactly when   *)
(* the report could carry all units (_mechanism_validated_supply).  Units  *)
(* that its decimal format dropped never pass the comparison unnoticed.    *)
VectorReproduced ==
    \A m \in CopySet :
        Positive(facts[m.epoch].units) \subseteq facts[m.epoch].fine
            <=> Agrees(m.epoch, m.epoch)

(* An epoch that an audit proved fully had only positive candidates, and   *)
(* the envelope of each of them was retained and disclosed                 *)
(* (replay_positive_miners).                                               *)
FullMeansReplayed ==
    \A e \in proven :
        /\ facts[e].candidates # {}
        /\ facts[e].candidates \subseteq Positive(facts[e].units)
        /\ {e} \X facts[e].candidates \subseteq packages

(* The latest pointer never moves back and never shows another manifest    *)
(* for its epoch, even when index.json was corrupted, or lost while the    *)
(* mark was up to date, or an exporter died before it wrote the mark.      *)
LatestAdvances ==
    [][top # None => top' = top \/ top'.epoch > top.epoch]_vars

(* The fences of auditors that share a state file only move forward, and   *)
(* the report fence moves along the chain of reports without a gap         *)
(* (_reserve_fences).                                                      *)
FencesAdvance ==
    [][/\ fences.index # None =>
              fences'.index # None /\ Follows(fences'.index, fences.index)
       /\ fences.policy # None =>
              fences'.policy # None /\ fences'.policy >= fences.policy
       /\ fences.report # None =>
              \/ fences'.report = fences.report
              \/ /\ fences'.report # None
                 /\ reports[fences'.report].previous = fences.report]_vars
=============================================================================
