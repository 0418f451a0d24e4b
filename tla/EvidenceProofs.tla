---------------------------- MODULE EvidenceProofs ----------------------------
(***************************************************************************)
(* The evidence index only moves forward and every row of it resolves,     *)
(* whichever exporters write it, wherever they die, and even when the file *)
(* was corrupted or lost; and the auditors' fences only move forward along *)
(* the chain of reports.                                                   *)
(***************************************************************************)
EXTENDS EvidenceLane, FiniteSetTheorems, WellFoundedInduction, TLAPS

(* A step that names no prover goes to Zenon.                              *)
USE ZenonT(30)

(* The types that the argument needs.                                      *)
Typed ==
    /\ copies \in [Epochs -> Variants \cup {None}]
    /\ index \in Indexes \cup {None, Corrupt}
    /\ highwater \in Manifests \cup {None}
    /\ top \in Manifests \cup {None}
    /\ lock \in Exporters \cup {None}
    /\ exporter \in [Exporters ->
           [pc : {"idle", "built", "copy", "index", "mark"},
            manifest : Manifests \cup {None}]]

(* The lock is held inside the transaction, so there is one exporter in it.*)
Locked ==
    \A x \in Exporters :
        exporter[x].pc \in {"copy", "index", "mark"} => lock = x

(* What an exporter has stored when it reaches each step.                  *)
Stored ==
    \A x \in Exporters :
        LET m == exporter[x].manifest
            pc == exporter[x].pc
        IN  /\ pc # "idle" => m \in Manifests /\ m.epoch \in artifacts
            /\ pc \in {"copy", "index", "mark"} => m \in blobs
            /\ pc \in {"index", "mark"} => copies[m.epoch] = m.variant
            /\ pc = "mark" => top = m

(* An epoch copy has its manifest blob and its artifacts.                  *)
Kept ==
    \A m \in Manifests :
        copies[m.epoch] = m.variant => m \in blobs /\ m.epoch \in artifacts

(* The last latest pointer can be told from the index, or from the mark    *)
(* where there is no index, or from the epoch copies where it is corrupt.  *)
Remembered ==
    /\ IndexReadable =>
           /\ index.latest = top
           /\ Ordered(index.latest, index.recent)
           /\ \A m \in {index.latest} \cup index.recent :
                  copies[m.epoch] = m.variant
    /\ index = None => highwater = top
    /\ top # None => copies[top.epoch] = top.variant

IInv == Typed /\ Locked /\ Stored /\ Kept /\ Remembered
-----------------------------------------------------------------------------
(* Some row of a set of rows has the newest epoch.                         *)
LEMMA NewestExists ==
    ASSUME NEW rows \in SUBSET Manifests, NEW m \in rows
    PROVE  \E n \in rows : n.epoch >= m.epoch
                           /\ \A k \in rows : ~(k.epoch > n.epoch)
<1> DEFINE T == {MaxEpoch - n.epoch : n \in rows}
<1> DEFINE R == OpToRel(<, Nat)
<1>1. MaxEpoch \in Nat
  BY EvidenceAssumption DEF EvidenceAssumption
<1>2. \A n \in rows : n.epoch \in 1 .. MaxEpoch
  BY DEF Manifests, Epochs
<1>3. T \subseteq Nat
  BY <1>1, <1>2, SMTT(40)
<1>4. T # {}
  OBVIOUS
<1>5. \A u, w \in Nat : <<u, w>> \in R <=> u < w
  BY DEF OpToRel
<1>6. \E u \in T : \A w \in T : ~(<<w, u>> \in R)
  <2>1. IsWellFoundedOn(R, Nat)
    BY NatLessThanWellFounded
  <2> HIDE DEF T, R
  <2> QED BY <2>1, <1>3, <1>4, WFMin
<1>7. PICK u \in T : \A w \in T : ~(<<w, u>> \in R)
  BY <1>6
<1>8. PICK n \in rows : u = MaxEpoch - n.epoch
  OBVIOUS
<1>9. \A k \in rows : ~(MaxEpoch - k.epoch < MaxEpoch - n.epoch)
  BY <1>3, <1>5, <1>7, <1>8
<1>10. \A k \in rows : ~(k.epoch > n.epoch)
  BY <1>1, <1>2, <1>9, SMTT(40)
<1>11. n.epoch >= m.epoch
  BY <1>2, <1>10, SMTT(40)
<1> QED BY <1>10, <1>11

(* build_signed_index keeps a row at least as new as any it was given.     *)
LEMMA KeepsNewest ==
    ASSUME NEW rows \in SUBSET Manifests, NEW m \in rows
    PROVE  \E n \in Newest(rows) : n.epoch >= m.epoch
<1>1. PICK n \in rows : /\ n.epoch >= m.epoch
                        /\ \A k \in rows : ~(k.epoch > n.epoch)
  BY NewestExists
<1>2. {k \in rows : k.epoch > n.epoch} = {}
  BY <1>1
<1>3. Cardinality({k \in rows : k.epoch > n.epoch}) = 0
  BY <1>2, FS_EmptySet
<1>4. 0 < MaxRecent
  BY EvidenceAssumption, SMTT(40) DEF EvidenceAssumption
<1> QED BY <1>1, <1>3, <1>4 DEF Newest

(* The rows that are carried on are epoch copies, of other epochs.         *)
LEMMA CarriedCopies ==
    ASSUME IInv, NEW x \in Exporters, NEW m \in Manifests
    PROVE  /\ Carried(x, m) \subseteq Manifests
           /\ Newest(Carried(x, m)) \subseteq Carried(x, m)
           /\ \A n \in Carried(x, m) : copies[n.epoch] = n.variant
<1>1. Newest(Carried(x, m)) \subseteq Carried(x, m)
  BY DEF Newest
<1>2. CASE index = None
  BY <1>1, <1>2 DEF Carried
<1>3. CASE index = Corrupt \/ (IndexReadable /\ index.key # KeyOf[x])
  <2>1. Corrupt # None
    BY EvidenceAssumption DEF EvidenceAssumption
  <2> QED BY <1>1, <1>3, <2>1 DEF Carried, CopySet, IndexReadable
<1>4. CASE IndexReadable /\ index.key = KeyOf[x]
  <2>1. index \in Indexes
    BY <1>4 DEF IInv, Typed, IndexReadable
  <2>2. {index.latest} \cup index.recent \subseteq Manifests
    BY <2>1 DEF Indexes
  <2> QED BY <1>1, <1>4, <2>2 DEF Carried, IndexReadable, IInv, Remembered
<1> QED BY <1>2, <1>3, <1>4 DEF IndexReadable

(* An index that may be written follows the last one.                      *)
LEMMA PublishableFollows ==
    ASSUME IInv, NEW x \in Exporters, At(x, "index"), top # None,
           Publishable(x, exporter[x].manifest)
    PROVE  Follows(exporter[x].manifest, top)
<1> DEFINE m == exporter[x].manifest
<1>1. /\ m \in Manifests /\ copies[m.epoch] = m.variant
      /\ top \in Manifests /\ copies[top.epoch] = top.variant
  BY DEF At, IInv, Typed, Stored, Remembered
<1>2. CASE index = None
  BY <1>2, SMTT(40) DEF Publishable, IInv, Remembered
<1>3. CASE IndexReadable
  BY <1>3 DEF Publishable, IInv, Remembered
<1>4. CASE index = Corrupt
  <2>1. m.epoch \in Nat /\ top.epoch \in Nat
    BY <1>1, SMTT(40) DEF Manifests, Epochs
  <2>2. CASE top.epoch = m.epoch
    <3>1. m.variant = top.variant
      BY <1>1, <2>2
    <3>2. m = top
      BY <1>1, <2>2, <3>1, SMTT(40) DEF Manifests
    <3> QED BY <3>2 DEF Follows
  <2>3. CASE top.epoch > m.epoch
    <3>1. top \in Carried(x, m)
      <4>1. None # Corrupt
        BY EvidenceAssumption DEF EvidenceAssumption
      <4> QED BY <1>1, <1>4, <2>1, <2>3, <4>1, SMTT(40) DEF Carried, CopySet
    <3>2. Carried(x, m) \in SUBSET Manifests
      BY <1>1, CarriedCopies
    <3>3. PICK n \in Newest(Carried(x, m)) : n.epoch >= top.epoch
      BY <3>1, <3>2, KeepsNewest
    <3>4. n \in Manifests /\ n.epoch \in Nat
      <4>1. n \in Carried(x, m)
        BY <3>3 DEF Newest
      <4> QED BY <3>2, <4>1, SMTT(40) DEF Manifests, Epochs
    <3>5. n.epoch < m.epoch
      BY <3>3 DEF Publishable, Ordered
    <3> QED BY <2>1, <2>3, <3>3, <3>4, <3>5, SMTT(40)
  <2> QED BY <2>1, <2>2, <2>3, SMTT(40) DEF Follows
<1> QED BY <1>2, <1>3, <1>4 DEF IndexReadable
-----------------------------------------------------------------------------
LEMMA InitInv == Init => IInv
<1> SUFFICES ASSUME Init PROVE IInv
  OBVIOUS
<1>1. Typed
  BY DEF Init, Typed
<1>2. Locked /\ Stored
  BY DEF Init, Locked, Stored
<1>3. Kept
  <2>1. \A m \in Manifests : m.epoch \in Epochs /\ m.variant # None
    BY EvidenceAssumption DEF EvidenceAssumption, Manifests
  <2> QED BY <2>1 DEF Init, Kept
<1>4. Remembered
  BY DEF Init, Remembered, IndexReadable
<1> QED BY <1>1, <1>2, <1>3, <1>4 DEF IInv

(* The ledger, the disclosures and the audits do not touch the store.      *)
LEMMA Untouched ==
    ASSUME IInv, UNCHANGED <<store, lock, exporter>>
    PROVE  IInv'
BY DEF IInv, Typed, Locked, Stored, Kept, Remembered, IndexReadable, Ordered,
       store

(* The steps of an exporter before it writes the index.                    *)
LEMMA StartExportInv ==
    ASSUME IInv, NEW x \in Exporters, NEW e \in Epochs, NEW a \in VariantsAt[e],
           StartExport(x, e, a)
    PROVE  IInv'
<1> DEFINE m == [epoch |-> e, variant |-> a]
<1>1. m \in Manifests
  BY EvidenceAssumption DEF EvidenceAssumption, Manifests
<1>2. /\ exporter' = [exporter EXCEPT ![x] = [pc |-> "built", manifest |-> m]]
      /\ artifacts' = artifacts \cup {e}
      /\ UNCHANGED <<blobs, copies, index, highwater, top, lock>>
  BY DEF StartExport
<1>3. Typed'
  BY <1>1, <1>2 DEF IInv, Typed
<1>4. Locked'
  BY <1>2 DEF IInv, Typed, Locked
<1>5. Stored'
  BY <1>1, <1>2 DEF IInv, Typed, Stored
<1>6. Kept'
  BY <1>2 DEF IInv, Kept
<1>7. Remembered'
  BY <1>2 DEF IInv, Remembered, IndexReadable, Ordered
<1> QED BY <1>3, <1>4, <1>5, <1>6, <1>7 DEF IInv

LEMMA PutManifestInv ==
    ASSUME IInv, NEW x \in Exporters, PutManifest(x)
    PROVE  IInv'
<1>1. /\ exporter[x].pc = "built" /\ lock = None
      /\ exporter' = [exporter EXCEPT ![x].pc = "copy"]
      /\ lock' = x /\ blobs' = blobs \cup {exporter[x].manifest}
      /\ UNCHANGED <<artifacts, copies, index, highwater, top>>
  BY DEF PutManifest, At, Goto
<1>2. Typed'
  BY <1>1 DEF IInv, Typed
<1>3. Locked'
  BY <1>1, EvidenceAssumption DEF EvidenceAssumption, IInv, Typed, Locked
<1>4. Stored'
  BY <1>1 DEF IInv, Typed, Stored
<1>5. Kept'
  BY <1>1 DEF IInv, Kept
<1>6. Remembered'
  BY <1>1 DEF IInv, Remembered, IndexReadable, Ordered
<1> QED BY <1>2, <1>3, <1>4, <1>5, <1>6 DEF IInv

LEMMA PutEpochCopyInv ==
    ASSUME IInv, NEW x \in Exporters, PutEpochCopy(x)
    PROVE  IInv'
<1> DEFINE m == exporter[x].manifest
<1>1. /\ exporter[x].pc = "copy" /\ copies[m.epoch] \in {None, m.variant}
      /\ exporter' = [exporter EXCEPT ![x].pc = "index"]
      /\ copies' = [copies EXCEPT ![m.epoch] = m.variant]
      /\ UNCHANGED <<artifacts, blobs, index, highwater, top, lock>>
  BY DEF PutEpochCopy, At, Goto
<1>2. /\ m \in Manifests /\ m \in blobs /\ m.epoch \in artifacts
      /\ m.epoch \in Epochs /\ m.variant \in Variants
  BY <1>1 DEF IInv, Stored, Manifests
<1>3. \A n \in Manifests : n.epoch \in Epochs /\ n.variant # None
  BY EvidenceAssumption DEF EvidenceAssumption, Manifests
<1>4. \A n \in Manifests : copies[n.epoch] = n.variant
                               => copies'[n.epoch] = n.variant
  BY <1>1, <1>2, <1>3 DEF IInv, Typed
<1>5. Typed'
  BY <1>1, <1>2, SMTT(40) DEF IInv, Typed
<1>6. Locked'
  BY <1>1 DEF IInv, Typed, Locked
<1>7. Stored'
  <2> SUFFICES ASSUME NEW y \in Exporters
               PROVE  LET k == exporter'[y].manifest
                          pc == exporter'[y].pc
                      IN  /\ pc # "idle" => k \in Manifests /\ k.epoch \in artifacts'
                          /\ pc \in {"copy", "index", "mark"} => k \in blobs'
                          /\ pc \in {"index", "mark"} => copies'[k.epoch] = k.variant
                          /\ pc = "mark" => top' = k
    BY DEF Stored
  <2>1. CASE y = x
    BY <1>1, <1>2, <2>1 DEF IInv, Typed
  <2>2. CASE y # x
    BY <1>1, <1>4, <2>2 DEF IInv, Typed, Stored
  <2> QED BY <2>1, <2>2
<1>8. Kept'
  <2> SUFFICES ASSUME NEW n \in Manifests, copies'[n.epoch] = n.variant
               PROVE  n \in blobs /\ n.epoch \in artifacts
    BY <1>1 DEF Kept
  <2>1. CASE n.epoch = m.epoch
    <3>1. n.variant = m.variant
      BY <1>1, <1>2, <2>1 DEF IInv, Typed
    <3>2. n = m
      BY <1>2, <2>1, <3>1, SMTT(40) DEF Manifests
    <3> QED BY <1>2, <3>2
  <2>2. CASE n.epoch # m.epoch
    BY <1>1, <2>2, SMTT(40) DEF IInv, Typed, Kept
  <2> QED BY <2>1, <2>2
<1>9. Remembered'
  <2>1. IndexReadable => index \in Indexes
    BY DEF IInv, Typed, IndexReadable
  <2>2. IndexReadable => {index.latest} \cup index.recent \subseteq Manifests
    BY <2>1 DEF Indexes
  <2>3. top # None => top \in Manifests
    BY DEF IInv, Typed
  <2> QED BY <1>1, <1>4, <2>2, <2>3
          DEF IInv, Remembered, IndexReadable, Ordered
<1> QED BY <1>5, <1>6, <1>7, <1>8, <1>9 DEF IInv

(* The index is written.                                                   *)
LEMMA WriteIndexInv ==
    ASSUME IInv, NEW x \in Exporters, WriteIndex(x)
    PROVE  IInv'
<1> DEFINE m == exporter[x].manifest
           rows == Newest(Carried(x, m))
<1>1. /\ exporter[x].pc = "index" /\ Publishable(x, m)
      /\ exporter' = [exporter EXCEPT ![x].pc = "mark"]
      /\ index' = [key |-> KeyOf[x], latest |-> m, recent |-> rows]
      /\ top' = m
      /\ UNCHANGED <<artifacts, blobs, copies, highwater, lock>>
  BY DEF WriteIndex, At, Goto
<1>2. m \in Manifests /\ copies[m.epoch] = m.variant
  BY <1>1 DEF IInv, Stored
<1>3. /\ rows \subseteq Manifests
      /\ \A n \in rows : copies[n.epoch] = n.variant
  BY <1>2, CarriedCopies
<1>4. Ordered(m, rows)
  BY <1>1 DEF Publishable
<1> HIDE DEF rows
<1>5. index' \in Indexes
  BY <1>1, <1>2, <1>3, EvidenceAssumption DEF EvidenceAssumption, Indexes
<1>6. index' # None
  BY <1>5, EvidenceAssumption DEF EvidenceAssumption
<1>7. Typed'
  BY <1>1, <1>2, <1>5, SMTT(40) DEF IInv, Typed
<1>8. Locked'
  BY <1>1 DEF IInv, Typed, Locked
<1>9. Stored'
  <2> SUFFICES ASSUME NEW y \in Exporters
               PROVE  LET k == exporter'[y].manifest
                          pc == exporter'[y].pc
                      IN  /\ pc # "idle" => k \in Manifests /\ k.epoch \in artifacts'
                          /\ pc \in {"copy", "index", "mark"} => k \in blobs'
                          /\ pc \in {"index", "mark"} => copies'[k.epoch] = k.variant
                          /\ pc = "mark" => top' = k
    BY DEF Stored
  <2>1. CASE y = x
    BY <1>1, <2>1 DEF IInv, Typed, Stored
  <2>2. CASE y # x
    <3>1. exporter'[y] = exporter[y]
      BY <1>1, <2>2 DEF IInv, Typed
    <3>2. exporter[y].pc # "mark"
      BY <1>1, <2>2 DEF IInv, Locked
    <3> QED BY <1>1, <3>1, <3>2, SMTT(40) DEF IInv, Stored
  <2> QED BY <2>1, <2>2
<1>10. Kept'
  BY <1>1 DEF IInv, Kept
<1>11. Remembered'
  <2>1. index'.latest = m /\ index'.recent = rows
    BY <1>1
  <2> QED BY <1>1, <1>2, <1>3, <1>4, <1>6, <2>1
          DEF Remembered, Ordered, IndexReadable
<1> QED BY <1>7, <1>8, <1>9, <1>10, <1>11 DEF IInv

(* The mark is written, and the transaction is left.                       *)
LEMMA WriteHighwaterInv ==
    ASSUME IInv, NEW x \in Exporters, WriteHighwater(x)
    PROVE  IInv'
<1>1. /\ exporter[x].pc = "mark"
      /\ highwater' = exporter[x].manifest
      /\ exporter' = [exporter EXCEPT ![x] = [pc |-> "idle", manifest |-> None]]
      /\ lock' = None
      /\ UNCHANGED <<artifacts, blobs, copies, index, top>>
  BY DEF WriteHighwater, At, Leave
<1>2. exporter[x].manifest \in Manifests /\ top = exporter[x].manifest
  BY <1>1 DEF IInv, Stored
<1>3. Typed'
  BY <1>1, <1>2 DEF IInv, Typed
<1>4. Locked'
  BY <1>1 DEF IInv, Typed, Locked
<1>5. Stored'
  BY <1>1 DEF IInv, Typed, Stored
<1>6. Kept'
  BY <1>1 DEF IInv, Kept
<1>7. Remembered'
  BY <1>1, <1>2 DEF IInv, Remembered, IndexReadable, Ordered
<1> QED BY <1>3, <1>4, <1>5, <1>6, <1>7 DEF IInv

(* An exporter gives up or dies; the store stays as it is.                 *)
LEMMA LeaveInv ==
    ASSUME IInv, NEW x \in Exporters, Leave(x), UNCHANGED store,
           lock' = IF lock = x THEN None ELSE lock
    PROVE  IInv'
<1>1. /\ exporter' = [exporter EXCEPT ![x] = [pc |-> "idle", manifest |-> None]]
      /\ UNCHANGED <<artifacts, blobs, copies, index, highwater, top>>
  BY DEF Leave, store
<1>2. Typed'
  BY <1>1 DEF IInv, Typed
<1>3. Locked'
  BY <1>1 DEF IInv, Typed, Locked
<1>4. Stored'
  BY <1>1 DEF IInv, Typed, Stored
<1>5. Kept' /\ Remembered'
  BY <1>1 DEF IInv, Kept, Remembered, IndexReadable, Ordered
<1> QED BY <1>2, <1>3, <1>4, <1>5 DEF IInv

(* The index file is damaged.                                              *)
LEMMA DamageInv ==
    ASSUME IInv, CorruptIndex \/ LoseIndex
    PROVE  IInv'
<1>1. /\ IndexReadable
      /\ index' = Corrupt \/ (index' = None /\ highwater = index.latest)
      /\ UNCHANGED <<artifacts, blobs, copies, highwater, top, lock, exporter>>
  BY DEF CorruptIndex, LoseIndex
<1>2. None # Corrupt
  BY EvidenceAssumption DEF EvidenceAssumption
<1>3. Typed' /\ Locked' /\ Stored' /\ Kept'
  BY <1>1 DEF IInv, Typed, Locked, Stored, Kept
<1>4. Remembered'
  BY <1>1, <1>2 DEF IInv, Remembered, IndexReadable
<1> QED BY <1>3, <1>4 DEF IInv

LEMMA NextInv == IInv /\ [Next]_vars => IInv'
<1> SUFFICES ASSUME IInv, [Next]_vars PROVE IInv'
  OBVIOUS
<1>1. CASE \E x \in Exporters : \E e \in Epochs : \E a \in VariantsAt[e] :
               StartExport(x, e, a)
  BY <1>1, StartExportInv
<1>2. CASE \E x \in Exporters : PutManifest(x)
  BY <1>2, PutManifestInv
<1>3. CASE \E x \in Exporters : PutEpochCopy(x)
  BY <1>3, PutEpochCopyInv
<1>4. CASE \E x \in Exporters : WriteIndex(x)
  BY <1>4, WriteIndexInv
<1>5. CASE \E x \in Exporters : WriteHighwater(x)
  BY <1>5, WriteHighwaterInv
<1>6. CASE \E x \in Exporters : Refuse(x)
  <2>1. PICK x \in Exporters : Refuse(x)
    BY <1>6
  <2>2. lock = x /\ lock' = None /\ Leave(x) /\ UNCHANGED store
    BY <2>1 DEF Refuse, At, IInv, Locked
  <2> QED BY <2>2, LeaveInv
<1>7. CASE \E x \in Exporters : Crash(x)
  BY <1>7, LeaveInv DEF Crash
<1>8. CASE CorruptIndex \/ LoseIndex
  BY <1>8, DamageInv
<1>9. CASE UNCHANGED <<store, lock, exporter>>
  BY <1>9, Untouched
<1>10. ASSUME NEW e \in Epochs,
              \/ \E f \in FactsAt[e] : Publish(e, f)
              \/ ExportScoreClass(e) \/ ExportControlled(e)
       PROVE  UNCHANGED <<store, lock, exporter>>
  BY <1>10 DEF Publish, ExportScoreClass, ExportControlled
<1>11. LoseEnvelope \/ Expire => UNCHANGED <<store, lock, exporter>>
  BY DEF LoseEnvelope, Expire
<1>12. ASSUME NEW v \in Auditors,
              \/ \E m \in Manifests : \E controlled, compared \in BOOLEAN :
                     Verify(v, m, controlled, compared)
              \/ Reserve(v) \/ Fail(v)
       PROVE  UNCHANGED <<store, lock, exporter>>
  BY <1>12 DEF Verify, Reserve, Conclude, Fail
<1>13. UNCHANGED vars => UNCHANGED <<store, lock, exporter>>
  BY DEF vars
<1> QED BY <1>1, <1>2, <1>3, <1>4, <1>5, <1>6, <1>7, <1>8, <1>9, <1>10, <1>11,
           <1>12, <1>13 DEF Next
-----------------------------------------------------------------------------
(* Every row of an index that can be read leads to its manifest, its epoch *)
(* copy and its artifacts, and the rows decrease from the latest           *)
(* (cmd_runtime_export_evidence, _IndexTransaction).                       *)
THEOREM EveryRowResolves == Spec => []RowsResolve
<1>1. IInv => RowsResolve
  <2> SUFFICES ASSUME IInv, IndexReadable PROVE RowsResolve
    BY DEF RowsResolve
  <2>1. index \in Indexes
    BY DEF IInv, Typed, IndexReadable
  <2>2. {index.latest} \cup index.recent \subseteq Manifests
    BY <2>1 DEF Indexes
  <2> QED BY <2>2 DEF IInv, Remembered, Kept, RowsResolve
<1> QED BY <1>1, InitInv, NextInv, PTL DEF Spec

(* The latest pointer never moves back and never changes its manifest,     *)
(* whatever is corrupted, lost or interrupted (_IndexTransaction.publish). *)
THEOREM LatestOnlyAdvances == Spec => LatestAdvances
<1> DEFINE A == top # None => top' = top \/ top'.epoch > top.epoch
<1>1. IInv /\ [Next]_vars => [A]_vars
  <2> SUFFICES ASSUME IInv, Next, top # None PROVE top' = top \/ top'.epoch > top.epoch
    OBVIOUS
  <2>1. CASE \E x \in Exporters : WriteIndex(x)
    <3>1. PICK x \in Exporters : WriteIndex(x)
      BY <2>1
    <3>2. Follows(exporter[x].manifest, top) /\ top' = exporter[x].manifest
      BY <3>1, PublishableFollows DEF WriteIndex
    <3> QED BY <3>2 DEF Follows
  <2>2. CASE \E x \in Exporters :
                \/ \E e \in Epochs : \E a \in VariantsAt[e] : StartExport(x, e, a)
                \/ PutManifest(x) \/ PutEpochCopy(x) \/ WriteHighwater(x)
                \/ Refuse(x) \/ Crash(x)
    BY <2>2
       DEF StartExport, PutManifest, PutEpochCopy, WriteHighwater, Refuse,
           Crash, store
  <2>3. CASE \E e \in Epochs : \/ \E f \in FactsAt[e] : Publish(e, f)
                               \/ ExportScoreClass(e) \/ ExportControlled(e)
    BY <2>3 DEF Publish, ExportScoreClass, ExportControlled, store
  <2>4. CASE CorruptIndex \/ LoseIndex \/ LoseEnvelope \/ Expire
    BY <2>4 DEF CorruptIndex, LoseIndex, LoseEnvelope, Expire, store
  <2>5. CASE \E v \in Auditors :
                \/ \E m \in Manifests : \E controlled, compared \in BOOLEAN :
                       Verify(v, m, controlled, compared)
                \/ Reserve(v) \/ Fail(v)
    BY <2>5 DEF Verify, Reserve, Conclude, Fail, store
  <2> QED BY <2>1, <2>2, <2>3, <2>4, <2>5 DEF Next
<1> QED BY <1>1, InitInv, NextInv, PTL DEF Spec, LatestAdvances
-----------------------------------------------------------------------------
Fences ==
    [index : Manifests \cup {None}, policy : Nat \cup {None},
     report : Epochs \cup {None}]
Audits == [latest : Manifests, chosen : Manifests, full : BOOLEAN]

(* What is audited has a signed report, whose release is a number.         *)
Audited ==
    /\ fences \in Fences
    /\ audit \in [Auditors -> Audits \cup {None}]
    /\ facts \in [Epochs -> Facts \cup {None}]
    /\ reports = [e \in Epochs |-> reports[e]]
    /\ \A e \in Epochs : reports[e] # None => reports[e].release \in Nat
    /\ \A e \in artifacts : e \in Epochs /\ reports[e] # None
    /\ \A v \in Auditors :
           audit[v] # None => reports[audit[v].chosen.epoch] # None

LEMMA InitAudited == Init => Audited
BY SMTT(40) DEF Init, Audited, Fences

(* What a reservation writes, field by field.                              *)
LEMMA ReservedFences ==
    ASSUME Audited, NEW a \in Audits, reports[a.chosen.epoch] # None
    PROVE  Reserved(a) \in Fences
<1> DEFINE r == Reserved(a)
<1>1. a.latest \in Manifests /\ a.chosen.epoch \in Epochs
  BY DEF Audits, Manifests
<1>2. reports[a.chosen.epoch].release \in Nat
  BY <1>1 DEF Audited
<1>3. /\ fences.index \in Manifests \cup {None}
      /\ fences.policy \in Nat \cup {None}
      /\ fences.report \in Epochs \cup {None}
  BY DEF Audited, Fences
<1> QED BY <1>1, <1>2, <1>3 DEF Reserved, Fences

LEMMA NextAudited == IInv /\ Audited /\ [Next]_vars => Audited'
<1> SUFFICES ASSUME IInv, Audited, [Next]_vars PROVE Audited'
  OBVIOUS
<1>1. ASSUME UNCHANGED <<ledger, artifacts, audit, fences>> PROVE Audited'
  BY <1>1 DEF Audited, ledger
<1>2. ASSUME NEW e \in Epochs, NEW f \in FactsAt[e], Publish(e, f)
      PROVE  Audited'
  <2>1. f \in Facts
    BY EvidenceAssumption DEF EvidenceAssumption
  <2> QED BY <1>2, <2>1 DEF Publish, Audited, store, auditing
<1>3. ASSUME NEW e \in Epochs, ExportScoreClass(e) PROVE Audited'
  <2>1. /\ facts[e] # None /\ reports[e] = None
        /\ UNCHANGED <<facts, artifacts, audit, fences>>
    BY <1>3 DEF ExportScoreClass, store, auditing
  <2>2. facts[e].release \in Nat
    BY <2>1 DEF Audited, Facts
  <2>3. /\ reports'[e].release = facts[e].release
        /\ \A d \in Epochs : d # e => reports'[d] = reports[d]
        /\ reports' = [d \in Epochs |-> reports'[d]]
    BY <1>3 DEF ExportScoreClass, Audited
  <2>4. e \notin artifacts
    BY <2>1 DEF Audited
  <2>5. ASSUME NEW v \in Auditors, audit[v] # None
        PROVE  audit[v].chosen.epoch \in Epochs \ {e}
    BY <2>1, <2>5 DEF Audited, Audits, Manifests
  <2> QED BY <2>1, <2>2, <2>3, <2>4, <2>5 DEF Audited
<1>4. ASSUME NEW x \in Exporters, NEW e \in Epochs, NEW a \in VariantsAt[e],
             StartExport(x, e, a)
      PROVE  Audited'
  BY <1>4 DEF StartExport, Audited, ledger, auditing
<1>5. ASSUME NEW v \in Auditors, NEW m \in Manifests,
             NEW controlled \in BOOLEAN, NEW compared \in BOOLEAN,
             Verify(v, m, controlled, compared)
      PROVE  Audited'
  <2> DEFINE entry == [latest |-> index.latest, chosen |-> m,
                       full |-> Proves(m, controlled)]
  <2>1. /\ IndexReadable /\ m.epoch \in artifacts
        /\ audit' = [audit EXCEPT ![v] = entry]
        /\ UNCHANGED <<facts, reports, artifacts, fences>>
    BY <1>5 DEF Verify, Selectable, Fetched, ledger, store
  <2>2. index.latest \in Manifests
    BY <2>1 DEF IInv, Typed, IndexReadable, Indexes
  <2>3. Proves(m, controlled) \in BOOLEAN
    BY DEF Proves
  <2>4. entry \in Audits
    BY <2>2, <2>3 DEF Audits
  <2>5. reports[entry.chosen.epoch] # None
    BY <2>1 DEF Audited
  <2> HIDE DEF entry
  <2> QED BY <2>1, <2>4, <2>5 DEF Audited
<1>6. ASSUME NEW v \in Auditors, Reserve(v) PROVE Audited'
  <2>1. /\ audit[v] # None /\ fences' = Reserved(audit[v])
        /\ audit' = [audit EXCEPT ![v] = None]
        /\ UNCHANGED <<facts, reports, artifacts>>
    BY <1>6 DEF Reserve, Conclude, ledger, store
  <2>2. audit[v] \in Audits /\ reports[audit[v].chosen.epoch] # None
    BY <2>1 DEF Audited
  <2>3. fences' \in Fences
    BY <2>1, <2>2, ReservedFences
  <2> QED BY <2>1, <2>3 DEF Audited
<1>7. ASSUME NEW v \in Auditors, Fail(v) PROVE Audited'
  BY <1>7 DEF Fail, Audited, ledger, store
<1>8. ASSUME NEW x \in Exporters,
             \/ PutManifest(x) \/ PutEpochCopy(x) \/ WriteIndex(x)
             \/ WriteHighwater(x) \/ Refuse(x) \/ Crash(x)
      PROVE  UNCHANGED <<ledger, artifacts, audit, fences>>
  BY <1>8
     DEF PutManifest, PutEpochCopy, WriteIndex, WriteHighwater, Refuse, Crash,
         store, auditing
<1>9. ASSUME \/ CorruptIndex \/ LoseIndex \/ LoseEnvelope \/ Expire
             \/ \E e \in Epochs : ExportControlled(e)
             \/ UNCHANGED vars
      PROVE  UNCHANGED <<ledger, artifacts, audit, fences>>
  BY <1>9
     DEF CorruptIndex, LoseIndex, LoseEnvelope, Expire, ExportControlled, vars,
         store, auditing
<1> QED BY <1>1, <1>2, <1>3, <1>4, <1>5, <1>6, <1>7, <1>8, <1>9 DEF Next

(* The fences of the shared state file only move forward, and the report   *)
(* fence moves along the chain of reports (_reserve_fences).               *)
THEOREM FencesOnlyAdvance == Spec => FencesAdvance
<1> DEFINE
      A == /\ fences.index # None =>
                  fences'.index # None /\ Follows(fences'.index, fences.index)
           /\ fences.policy # None =>
                  fences'.policy # None /\ fences'.policy >= fences.policy
           /\ fences.report # None =>
                  \/ fences'.report = fences.report
                  \/ /\ fences'.report # None
                     /\ reports[fences'.report].previous = fences.report
<1>1. IInv /\ Audited /\ [Next]_vars => [A]_vars
  <2> SUFFICES ASSUME IInv, Audited, Next PROVE A
    OBVIOUS
  <2>0. /\ fences.index \in Manifests \cup {None}
        /\ fences.policy \in Nat \cup {None}
        /\ fences.report \in Epochs \cup {None}
    BY DEF Audited, Fences
  <2>1. CASE UNCHANGED fences
    BY <2>0, <2>1, SMTT(40) DEF Follows
  <2>2. ASSUME NEW v \in Auditors, Reserve(v) PROVE A
    <3> DEFINE a == audit[v]
               release == reports[a.chosen.epoch].release
               historical == a.chosen # a.latest
    <3>1. /\ a # None /\ Reservable(a) /\ fences' = Reserved(a)
          /\ a \in Audits /\ reports[a.chosen.epoch] # None
      BY <2>2 DEF Reserve, Audited
    <3>2. /\ a.latest \in Manifests /\ a.latest # None
          /\ a.chosen.epoch \in Epochs /\ a.chosen.epoch # None
          /\ a.chosen.epoch \in Nat
      BY <3>1, EvidenceAssumption, SMTT(40)
         DEF EvidenceAssumption, Audits, Manifests, Epochs
    <3>3. release \in Nat
      BY <3>1, <3>2 DEF Audited
    <3>4. fences.report # None => fences.report \in Nat
      BY <2>0, SMTT(40) DEF Epochs
    <3>5. /\ fences'.index = IF historical THEN fences.index ELSE a.latest
          /\ fences'.policy = IF /\ historical
                                 /\ fences.policy = None \/ release < fences.policy
                              THEN fences.policy ELSE release
          /\ fences'.report = IF /\ historical
                                 /\ \/ fences.report = None
                                    \/ a.chosen.epoch < fences.report
                              THEN fences.report ELSE a.chosen.epoch
      BY <3>1 DEF Reserved
    <3>6. /\ fences.index # None => Follows(a.latest, fences.index)
          /\ fences.policy # None => historical \/ release >= fences.policy
          /\ fences.report # None =>
                 /\ a.chosen.epoch > fences.report =>
                        reports[a.chosen.epoch].previous = fences.report
                 /\ historical \/ a.chosen.epoch >= fences.report
      BY <3>1 DEF Reservable
    <3> HIDE DEF a, release, historical
    <3>7. fences.index # None =>
              fences'.index # None /\ Follows(fences'.index, fences.index)
      BY <3>2, <3>5, <3>6 DEF Follows
    <3>8. fences.policy # None =>
              fences'.policy # None /\ fences'.policy >= fences.policy
      <4> SUFFICES ASSUME fences.policy # None
                   PROVE  fences'.policy # None /\ fences'.policy >= fences.policy
        OBVIOUS
      <4>1. fences.policy \in Nat
        BY <2>0
      <4>2. fences'.policy >= fences.policy
        BY <3>3, <3>5, <3>6, <4>1, SMTT(40)
      <4>3. fences'.policy = fences.policy \/ fences'.policy = release
        BY <3>5
      <4>4. None \notin Nat
        BY EvidenceAssumption DEF EvidenceAssumption
      <4> QED BY <3>3, <4>1, <4>2, <4>3, <4>4
    <3>9. fences.report # None =>
              \/ fences'.report = fences.report
              \/ /\ fences'.report # None
                 /\ reports[fences'.report].previous = fences.report
      BY <3>2, <3>4, <3>5, <3>6, SMTT(40)
    <3> QED BY <3>7, <3>8, <3>9
  <2>3. CASE \E x \in Exporters :
                \/ \E e \in Epochs : \E a \in VariantsAt[e] : StartExport(x, e, a)
                \/ PutManifest(x) \/ PutEpochCopy(x) \/ WriteIndex(x)
                \/ WriteHighwater(x) \/ Refuse(x) \/ Crash(x)
    BY <2>1, <2>3
       DEF StartExport, PutManifest, PutEpochCopy, WriteIndex, WriteHighwater,
           Refuse, Crash, auditing
  <2>4. CASE \E e \in Epochs : \/ \E f \in FactsAt[e] : Publish(e, f)
                               \/ ExportScoreClass(e) \/ ExportControlled(e)
    BY <2>1, <2>4 DEF Publish, ExportScoreClass, ExportControlled, auditing
  <2>5. CASE CorruptIndex \/ LoseIndex \/ LoseEnvelope \/ Expire
    BY <2>1, <2>5 DEF CorruptIndex, LoseIndex, LoseEnvelope, Expire, auditing
  <2>6. CASE \E v \in Auditors :
                \/ \E m \in Manifests : \E controlled, compared \in BOOLEAN :
                       Verify(v, m, controlled, compared)
                \/ Fail(v)
    BY <2>1, <2>6 DEF Verify, Fail
  <2> QED BY <2>2, <2>3, <2>4, <2>5, <2>6 DEF Next
<1> QED BY <1>1, InitInv, NextInv, InitAudited, NextAudited, PTL
        DEF Spec, FencesAdvance
-----------------------------------------------------------------------------
(* What the bundles say.                                                   *)

(* Report r is the one export_score_class_report makes of the facts f.     *)
Faithful(r, f) ==
    /\ r.candidates = f.candidates
    /\ r.units = ReportUnits(f)
    /\ r.evidence = Positive(ReportUnits(f))
    /\ r.release = f.release
    /\ Reportable(f)

(* The reports are made of the frozen facts, and what is behind an epoch's *)
(* artifacts was checked when they were stored.                            *)
Reported ==
    /\ \A e \in Epochs : reports[e] # None =>
           facts[e] \in Facts /\ Faithful(reports[e], facts[e])
    /\ \A e \in artifacts : Evidenced(e)

LEMMA InitReported == Init => Reported
BY DEF Init, Reported

(* What the ledger froze and signed does not change.                       *)
LEMMA LedgerFrozen ==
    ASSUME Audited, Reported, [Next]_vars, NEW d \in Epochs
    PROVE  /\ facts[d] # None => facts'[d] = facts[d]
           /\ reports[d] # None => reports'[d] = reports[d]
           /\ packages \subseteq packages'
<1>1. CASE UNCHANGED <<ledger, packages>>
  BY <1>1 DEF ledger
<1>2. ASSUME NEW e \in Epochs, NEW f, Publish(e, f)
      PROVE  /\ facts[d] # None => facts'[d] = facts[d]
             /\ UNCHANGED <<reports, packages>>
  BY <1>2 DEF Publish, Audited
<1>3. ASSUME NEW e \in Epochs, ExportScoreClass(e)
      PROVE  /\ reports[d] # None => reports'[d] = reports[d]
             /\ UNCHANGED <<facts, packages>>
  <2>1. /\ reports[e] = None /\ \E r : reports' = [reports EXCEPT ![e] = r]
        /\ UNCHANGED <<facts, packages>>
    BY <1>3 DEF ExportScoreClass, disclosure
  <2>2. d # e => reports'[d] = reports[d]
    BY <2>1 DEF Audited
  <2> QED BY <2>1, <2>2
<1>4. ASSUME NEW e \in Epochs, ExportControlled(e)
      PROVE  packages \subseteq packages' /\ UNCHANGED ledger
  BY <1>4 DEF ExportControlled
<1>5. ASSUME NEW x \in Exporters,
             \/ \E e \in Epochs : \E a \in VariantsAt[e] : StartExport(x, e, a)
             \/ PutManifest(x) \/ PutEpochCopy(x) \/ WriteIndex(x)
             \/ WriteHighwater(x) \/ Refuse(x) \/ Crash(x)
      PROVE  UNCHANGED <<ledger, packages>>
  BY <1>5
     DEF StartExport, PutManifest, PutEpochCopy, WriteIndex, WriteHighwater,
         Refuse, Crash, disclosure
<1>6. ASSUME CorruptIndex \/ LoseIndex \/ LoseEnvelope \/ Expire \/ UNCHANGED vars
      PROVE  UNCHANGED <<ledger, packages>>
  BY <1>6 DEF CorruptIndex, LoseIndex, LoseEnvelope, Expire, vars, disclosure
<1>7. ASSUME NEW v \in Auditors,
             \/ \E m \in Manifests : \E controlled, compared \in BOOLEAN :
                    Verify(v, m, controlled, compared)
             \/ Reserve(v) \/ Fail(v)
      PROVE  UNCHANGED <<ledger, packages>>
  BY <1>7 DEF Verify, Reserve, Conclude, Fail, disclosure
<1>8. CASE \E e \in Epochs : \E f \in FactsAt[e] : Publish(e, f)
  BY <1>2, <1>8
<1>9. CASE \E e \in Epochs : ExportScoreClass(e) \/ ExportControlled(e)
  BY <1>3, <1>4, <1>9 DEF ledger
<1> QED BY <1>1, <1>5, <1>6, <1>7, <1>8, <1>9 DEF Next

LEMMA NextReported == IInv /\ Audited /\ Reported /\ [Next]_vars => Reported'
<1> SUFFICES ASSUME IInv, Audited, Reported, [Next]_vars PROVE Reported'
  OBVIOUS
<1>0. None \notin Facts
  BY EvidenceAssumption DEF EvidenceAssumption
<1>1. ASSUME NEW e \in artifacts PROVE Evidenced(e)'
  <2>1. e \in Epochs /\ reports[e] # None
    BY DEF Audited
  <2>2. facts[e] # None /\ Evidenced(e)
    BY <1>0, <2>1 DEF Reported
  <2>3. facts'[e] = facts[e] /\ reports'[e] = reports[e]
    BY <2>1, <2>2, LedgerFrozen
  <2> QED BY <2>2, <2>3 DEF Evidenced
<1>2. ASSUME NEW e \in Epochs, reports[e] # None
      PROVE  facts'[e] \in Facts /\ Faithful(reports'[e], facts'[e])
  <2>1. facts[e] # None /\ facts[e] \in Facts /\ Faithful(reports[e], facts[e])
    BY <1>0, <1>2 DEF Reported
  <2>2. facts'[e] = facts[e] /\ reports'[e] = reports[e]
    BY <1>2, <2>1, LedgerFrozen
  <2> QED BY <2>1, <2>2
<1>3. ASSUME UNCHANGED <<reports, artifacts>> PROVE Reported'
  BY <1>1, <1>2, <1>3 DEF Reported
<1>4. ASSUME NEW e \in Epochs, ExportScoreClass(e) PROVE Reported'
  <2> DEFINE f == facts[e]
             exported == {d \in Epochs : reports[d] # None}
             previous == IF exported = {} THEN None ELSE Max(exported)
             r == [previous |-> previous, candidates |-> f.candidates,
                   units |-> ReportUnits(f), evidence |-> Positive(ReportUnits(f)),
                   release |-> f.release]
  <2>1. /\ f # None /\ Reportable(f) /\ reports' = [reports EXCEPT ![e] = r]
        /\ UNCHANGED <<facts, artifacts>>
    BY <1>4 DEF ExportScoreClass, store
  <2>2. f \in Facts
    BY <2>1 DEF Audited
  <2> HIDE DEF previous, f
  <2>3. Faithful(r, f)
    BY <2>1 DEF Faithful
  <2> HIDE DEF r
  <2>4. reports'[e] = r /\ \A d \in Epochs \ {e} : reports'[d] = reports[d]
    BY <2>1 DEF Audited
  <2>5. facts'[e] = f
    BY <2>1 DEF f
  <2>6. ASSUME NEW d \in Epochs, reports'[d] # None
        PROVE  facts'[d] \in Facts /\ Faithful(reports'[d], facts'[d])
    <3>1. CASE d = e
      BY <2>2, <2>3, <2>4, <2>5, <3>1
    <3>2. CASE d # e
      BY <1>2, <2>4, <2>6, <3>2
    <3> QED BY <3>1, <3>2
  <2> QED BY <1>1, <2>1, <2>6 DEF Reported
<1>5. ASSUME NEW x \in Exporters, NEW e \in Epochs, NEW a, StartExport(x, e, a)
      PROVE  Reported'
  <2>1. Evidenced(e) /\ artifacts' = artifacts \cup {e} /\ UNCHANGED <<facts, reports>>
    BY <1>5 DEF StartExport, ledger
  <2>2. Evidenced(e)'
    BY <2>1 DEF Evidenced
  <2> QED BY <1>1, <1>2, <2>1, <2>2 DEF Reported
<1>6. ASSUME NEW x \in Exporters,
             \/ PutManifest(x) \/ PutEpochCopy(x) \/ WriteIndex(x)
             \/ WriteHighwater(x) \/ Refuse(x) \/ Crash(x)
      PROVE  UNCHANGED <<reports, artifacts>>
  BY <1>6
     DEF PutManifest, PutEpochCopy, WriteIndex, WriteHighwater, Refuse, Crash,
         store, ledger
<1>7. ASSUME \/ CorruptIndex \/ LoseIndex \/ LoseEnvelope \/ Expire
             \/ \E e \in Epochs : ExportControlled(e)
             \/ \E e \in Epochs : \E f \in FactsAt[e] : Publish(e, f)
             \/ UNCHANGED vars
      PROVE  UNCHANGED <<reports, artifacts>>
  BY <1>7
     DEF CorruptIndex, LoseIndex, LoseEnvelope, Expire, ExportControlled,
         Publish, vars, store, ledger
<1>8. ASSUME NEW v \in Auditors,
             \/ \E m \in Manifests : \E controlled, compared \in BOOLEAN :
                    Verify(v, m, controlled, compared)
             \/ Reserve(v) \/ Fail(v)
      PROVE  UNCHANGED <<reports, artifacts>>
  BY <1>8 DEF Verify, Reserve, Conclude, Fail, store, ledger
<1> QED BY <1>3, <1>4, <1>5, <1>6, <1>7, <1>8 DEF Next

LEMMA ReportedHolds == Spec => [](IInv /\ Audited /\ Reported)
BY InitInv, NextInv, InitAudited, NextAudited, InitReported, NextReported, PTL DEF Spec

(* The units a report carries are those of the facts, or none.             *)
LEMMA UnitsCarried ==
    ASSUME NEW f \in Facts, NEW h \in Hotkeys
    PROVE  /\ ReportUnits(f)[h] \in Nat /\ f.units[h] \in Nat
           /\ ReportUnits(f)[h] > 0 => ReportUnits(f)[h] = f.units[h] /\ h \in f.candidates
           /\ h \in f.candidates \cap f.fine => ReportUnits(f)[h] = f.units[h]
           /\ h \notin f.candidates \cap f.fine => ReportUnits(f)[h] = 0
<1>1. f.units \in [Hotkeys -> Nat]
  BY DEF Facts
<1> QED BY <1>1, SMTT(40) DEF ReportUnits

(* Behind every epoch copy there is a report of facts, with its artifacts. *)
LEMMA CopyReported ==
    ASSUME IInv, Audited, Reported, NEW m \in CopySet
    PROVE  /\ m.epoch \in Epochs /\ m.epoch \in artifacts
           /\ reports[m.epoch] # None /\ facts[m.epoch] \in Facts
           /\ Faithful(reports[m.epoch], facts[m.epoch])
<1>1. m \in Manifests /\ copies[m.epoch] = m.variant
  BY DEF CopySet
<1>2. m.epoch \in artifacts
  BY <1>1 DEF IInv, Kept
<1>3. m.epoch \in Epochs /\ reports[m.epoch] # None
  BY <1>2 DEF Audited
<1> QED BY <1>2, <1>3 DEF Reported

(* Whatever an exporter publishes, an auditor can verify                   *)
(* (cmd_runtime_export_evidence, verify_and_recompute).                    *)
THEOREM ExportsAlwaysVerify == Spec => []ExportVerifies
<1>1. ASSUME IInv, Audited, Reported, NEW m \in CopySet
      PROVE  Recomputable(m.epoch)
  <2> DEFINE e == m.epoch
             r == reports[e]
             f == facts[e]
  <2>1. e \in artifacts /\ f \in Facts /\ Faithful(r, f)
    BY <1>1, CopyReported
  <2>2. Evidenced(e)
    BY <1>1, <2>1 DEF Reported
  <2>3. /\ r.evidence = {h \in Hotkeys : r.units[h] > 0}
        /\ r.release = f.release /\ r.candidates = f.candidates
        /\ r.units = ReportUnits(f)
    BY <2>1 DEF Faithful, Positive
  <2>4. r.evidence \subseteq f.receipts /\ r.evidence \subseteq f.work
    BY <2>2 DEF Evidenced
  <2> HIDE DEF r, f, e
  <2>5. BindsRegistry(e)
    BY <2>3 DEF BindsRegistry, r, f
  <2>6. Positive(r.units) = r.evidence
    BY <2>3 DEF Positive
  <2>7. Positive(r.units) \subseteq r.candidates
    BY <2>1, <2>3, UnitsCarried DEF Positive
  <2>8. Verified(e) = r.evidence
    <3>1. {h \in r.evidence : r.units[h] > 0} = r.evidence
      BY <2>3
    <3> QED BY <3>1 DEF Verified, r
  <2>9. CandidatesAccounted(e)
    BY <2>6, <2>7, <2>8 DEF CandidatesAccounted, r
  <2>10. ASSUME NEW h \in r.evidence PROVE ReceiptProves(e, h)
    <3>1. h \in Hotkeys /\ ReportUnits(f)[h] > 0
      BY <2>3, <2>10
    <3>2. r.units[h] = f.units[h]
      BY <2>1, <2>3, <3>1, UnitsCarried
    <3> QED BY <2>4, <3>2 DEF ReceiptProves, WorkReplays, r, f
  <2> QED BY <2>5, <2>6, <2>9, <2>10 DEF Recomputable, r, e
<1>2. IInv /\ Audited /\ Reported => ExportVerifies
  BY <1>1 DEF ExportVerifies
<1> QED BY <1>2, ReportedHolds, PTL

(* The published bundle reproduces the wire allocation exactly where the   *)
(* report's decimal format can carry the units (compare_with_vector).      *)
THEOREM BundlesReproduceTheVector == Spec => []VectorReproduced
<1>1. ASSUME IInv, Audited, Reported, NEW m \in CopySet,
             Positive(facts[m.epoch].units) \subseteq facts[m.epoch].fine
      PROVE  Agrees(m.epoch, m.epoch)
  <2> DEFINE e == m.epoch
             mine == reports[e].units
             wire == facts[e].units
  <2>1. facts[e] \in Facts /\ Faithful(reports[e], facts[e])
    BY <1>1, CopyReported
  <2>2. mine = ReportUnits(facts[e]) /\ Reportable(facts[e])
    BY <2>1 DEF Faithful
  <2>3. wire \in [Hotkeys -> Nat]
    BY <2>1 DEF Facts
  <2>4. ASSUME NEW h \in Hotkeys PROVE ReportUnits(facts[e])[h] = wire[h]
    <3>1. CASE h \in facts[e].candidates \cap facts[e].fine
      BY <2>1, <3>1, UnitsCarried
    <3>2. CASE h \notin facts[e].candidates \cap facts[e].fine
      <4>1. h \notin Positive(wire)
        BY <1>1, <2>2, <3>2 DEF Reportable
      <4>2. wire[h] = 0
        BY <2>3, <4>1, SMTT(40) DEF Positive
      <4>3. ReportUnits(facts[e])[h] = 0
        BY <2>1, <3>2, UnitsCarried
      <4> QED BY <4>2, <4>3
    <3> QED BY <3>1, <3>2
  <2>5. mine = wire
    <3>1. ReportUnits(facts[e]) = [h \in Hotkeys |-> ReportUnits(facts[e])[h]]
      BY DEF ReportUnits
    <3> QED BY <2>2, <2>3, <2>4, <3>1
  <2> HIDE DEF e
  <2>6. EpochBound(e, e)
    BY DEF EpochBound
  <2>7. SupplyAsserted(mine, wire) /\ SameShares(mine, wire)
    BY <2>5 DEF SupplyAsserted, SameShares
  <2>8. Agrees(e, e)
    BY <2>6, <2>7 DEF Agrees, WireUnits
  <2> QED BY <2>8 DEF e
<1>2. ASSUME IInv, Audited, Reported, NEW m \in CopySet,
             Agrees(m.epoch, m.epoch)
      PROVE  Positive(facts[m.epoch].units) \subseteq facts[m.epoch].fine
  <2> DEFINE e == m.epoch
             mine == reports[e].units
             wire == facts[e].units
  <2>1. facts[e] \in Facts /\ Faithful(reports[e], facts[e])
    BY <1>2, CopyReported
  <2>2. mine = ReportUnits(facts[e])
    BY <2>1 DEF Faithful
  <2>3. Positive(wire) = Positive(mine)
    BY <1>2 DEF Agrees, SameShares, WireUnits
  <2>4. ASSUME NEW h \in Positive(wire) PROVE h \in facts[e].fine
    <3>1. h \in Hotkeys /\ ReportUnits(facts[e])[h] > 0
      BY <2>2, <2>3, <2>4 DEF Positive
    <3>2. SUFFICES ASSUME h \notin facts[e].fine PROVE FALSE
      OBVIOUS
    <3>3. ReportUnits(facts[e])[h] = 0
      BY <2>1, <3>1, <3>2, UnitsCarried
    <3> QED BY <3>1, <3>3, SMTT(40)
  <2> QED BY <2>4
<1>3. IInv /\ Audited /\ Reported => VectorReproduced
  BY <1>1, <1>2 DEF VectorReproduced
<1> QED BY <1>3, ReportedHolds, PTL

(* All that full assurance stands for.                                     *)
FullyProven(e) ==
    /\ e \in Epochs /\ facts[e] # None
    /\ facts[e].candidates # {}
    /\ facts[e].candidates \subseteq Positive(facts[e].units)
    /\ {e} \X facts[e].candidates \subseteq packages

Replayed ==
    /\ \A v \in Auditors : audit[v] # None /\ audit[v].full =>
           FullyProven(audit[v].chosen.epoch)
    /\ \A e \in proven : FullyProven(e)

(* An epoch that an audit calls fully proven has every anchored candidate  *)
(* replayed from its disclosed envelope, however long the audit took       *)
(* (replay_positive_miners, _reserve_fences).                              *)
THEOREM FullAssuranceIsReplay == Spec => []FullMeansReplayed
<1>0. None \notin Facts
  BY EvidenceAssumption DEF EvidenceAssumption
<1>1. Init => Replayed
  BY DEF Init, Replayed
<1>2. ASSUME IInv, Audited, Reported, Replayed, [Next]_vars PROVE Replayed'
  <2>1. ASSUME NEW e, FullyProven(e) PROVE FullyProven(e)'
    <3>1. e \in Epochs /\ facts[e] # None
      BY <2>1 DEF FullyProven
    <3>2. facts'[e] = facts[e] /\ packages \subseteq packages'
      BY <1>2, <3>1, LedgerFrozen
    <3> QED BY <2>1, <3>2 DEF FullyProven
  <2>2. ASSUME UNCHANGED <<audit, proven>> PROVE Replayed'
    BY <1>2, <2>1, <2>2 DEF Replayed
  <2>3. ASSUME NEW v \in Auditors, NEW m \in Manifests,
               NEW controlled \in BOOLEAN, NEW compared \in BOOLEAN,
               Verify(v, m, controlled, compared)
        PROVE  Replayed'
    <3> DEFINE entry == [latest |-> index.latest, chosen |-> m,
                         full |-> Proves(m, controlled)]
               e == m.epoch
    <3>1. /\ audit' = [audit EXCEPT ![v] = entry] /\ UNCHANGED proven
          /\ e \in artifacts /\ (controlled => Replayable(m))
      BY <2>3 DEF Verify, Fetched
    <3>2. e \in Epochs /\ reports[e] # None
      BY <1>2, <3>1 DEF Audited
    <3>3. facts[e] \in Facts /\ Faithful(reports[e], facts[e])
      BY <1>2, <3>2 DEF Reported
    <3>4. ASSUME Proves(m, controlled) PROVE FullyProven(e)
      <4>1. /\ Verified(e) = reports[e].candidates /\ Verified(e) # {}
            /\ reports[e].candidates = facts[e].candidates
            /\ \A h \in Verified(e) : <<e, h>> \in packages
        BY <3>1, <3>4 DEF Proves, Replayable, Replays, EnvelopeReplays
      <4>2. \A h \in Verified(e) : h \in Hotkeys /\ ReportUnits(facts[e])[h] > 0
        BY <3>3 DEF Verified, Faithful, Positive
      <4>3. \A h \in Verified(e) : h \in Positive(facts[e].units)
        BY <3>3, <4>2, UnitsCarried DEF Positive
      <4>4. facts[e] # None
        BY <1>0, <3>3
      <4>5. facts[e].candidates = Verified(e)
        BY <4>1
      <4> HIDE DEF e
      <4>6. {e} \X facts[e].candidates \subseteq packages
        BY <4>1, <4>5, SMTT(40)
      <4>7. facts[e].candidates # {} /\ facts[e].candidates \subseteq Positive(facts[e].units)
        BY <4>1, <4>3, <4>5
      <4> QED BY <3>2, <4>4, <4>6, <4>7 DEF FullyProven
    <3>5. entry.chosen.epoch = e /\ entry.full = Proves(m, controlled)
      OBVIOUS
    <3> HIDE DEF entry, e
    <3>6. audit'[v] = entry /\ \A w \in Auditors \ {v} : audit'[w] = audit[w]
      BY <1>2, <3>1 DEF Audited
    <3>7. ASSUME NEW w \in Auditors, audit'[w] # None, audit'[w].full
          PROVE  FullyProven(audit'[w].chosen.epoch)
      BY <1>2, <3>4, <3>5, <3>6, <3>7 DEF Replayed
    <3>8. \A w \in Auditors : audit'[w] # None /\ audit'[w].full =>
              FullyProven(audit[w].chosen.epoch)'
      <4> SUFFICES ASSUME NEW w \in Auditors, audit'[w] # None, audit'[w].full
                   PROVE  FullyProven(audit[w].chosen.epoch)'
        OBVIOUS
      <4> DEFINE d == audit'[w].chosen.epoch
      <4>1. FullyProven(d)
        BY <3>7
      <4>2. d \in Epochs /\ facts[d] # None
        BY <4>1 DEF FullyProven
      <4>3. facts'[d] = facts[d] /\ packages \subseteq packages'
        BY <1>2, <4>2, LedgerFrozen
      <4> QED BY <4>1, <4>3 DEF FullyProven
    <3> QED BY <1>2, <2>1, <3>1, <3>8 DEF Replayed
  <2>4. ASSUME NEW v \in Auditors, Reserve(v) \/ Fail(v) PROVE Replayed'
    <3>1. /\ audit[v] # None /\ audit' = [audit EXCEPT ![v] = None]
          /\ \/ proven' = proven
             \/ audit[v].full /\ proven' = proven \cup {audit[v].chosen.epoch}
      BY <2>4 DEF Reserve, Conclude, Fail
    <3>2. audit'[v] = None /\ \A w \in Auditors \ {v} : audit'[w] = audit[w]
      BY <1>2, <3>1 DEF Audited
    <3>3. ASSUME NEW e \in proven' PROVE FullyProven(e)
      <4>1. e \in proven \/ (audit[v].full /\ e = audit[v].chosen.epoch)
        BY <3>1
      <4> QED BY <1>2, <3>1, <4>1 DEF Replayed
    <3>4. \A e \in proven' : FullyProven(e)'
      BY <2>1, <3>3
    <3>5. ASSUME NEW w \in Auditors, audit'[w] # None, audit'[w].full
          PROVE  FullyProven(audit[w].chosen.epoch)'
      <4>1. audit'[w] = audit[w] /\ FullyProven(audit[w].chosen.epoch)
        BY <1>2, <3>2, <3>5 DEF Replayed
      <4> DEFINE d == audit[w].chosen.epoch
      <4>2. d \in Epochs /\ facts[d] # None
        BY <4>1 DEF FullyProven
      <4>3. facts'[d] = facts[d] /\ packages \subseteq packages'
        BY <1>2, <4>2, LedgerFrozen
      <4> QED BY <4>1, <4>3 DEF FullyProven
    <3> QED BY <3>4, <3>5 DEF Replayed
  <2>5. ASSUME NEW x \in Exporters,
               \/ \E e \in Epochs : \E a \in VariantsAt[e] : StartExport(x, e, a)
               \/ PutManifest(x) \/ PutEpochCopy(x) \/ WriteIndex(x)
               \/ WriteHighwater(x) \/ Refuse(x) \/ Crash(x)
        PROVE  UNCHANGED <<audit, proven>>
    BY <2>5
       DEF StartExport, PutManifest, PutEpochCopy, WriteIndex, WriteHighwater,
           Refuse, Crash, auditing
  <2>6. ASSUME \/ CorruptIndex \/ LoseIndex \/ LoseEnvelope \/ Expire
               \/ \E e \in Epochs : ExportControlled(e) \/ ExportScoreClass(e)
               \/ \E e \in Epochs : \E f \in FactsAt[e] : Publish(e, f)
               \/ UNCHANGED vars
        PROVE  UNCHANGED <<audit, proven>>
    BY <2>6
       DEF CorruptIndex, LoseIndex, LoseEnvelope, Expire, ExportControlled,
           ExportScoreClass, Publish, vars, auditing
  <2> QED BY <1>2, <2>2, <2>3, <2>4, <2>5, <2>6 DEF Next
<1>3. Replayed => FullMeansReplayed
  BY DEF Replayed, FullyProven, FullMeansReplayed
<1> QED BY <1>1, <1>2, <1>3, ReportedHolds, PTL DEF Spec
-----------------------------------------------------------------------------
(* The types of everything, and the lock's holder is in its transaction.   *)
Shelved ==
    /\ reports \in [Epochs -> Reports \cup {None}]
    /\ blobs \subseteq Manifests
    /\ \A x \in Exporters : lock = x => exporter[x].pc \in {"copy", "index", "mark"}
    /\ envelopes \subseteq Epochs \X Hotkeys /\ packages \subseteq Epochs \X Hotkeys
    /\ proven \subseteq Epochs
    /\ stale \in 0 .. MaxStale
    /\ crashes \in 0 .. MaxCrashes /\ damage \in 0 .. MaxDamage

LEMMA InitShelved == Init => Shelved
<1>1. 0 \in 0 .. MaxStale /\ 0 \in 0 .. MaxCrashes /\ 0 \in 0 .. MaxDamage
  BY EvidenceAssumption, SMTT(40) DEF EvidenceAssumption
<1>2. None \notin Exporters
  BY EvidenceAssumption DEF EvidenceAssumption
<1> QED BY <1>1, <1>2 DEF Init, Shelved

(* A non-empty set of epochs has a largest one.                            *)
LEMMA LastEpoch ==
    ASSUME NEW S \in SUBSET Epochs, S # {}
    PROVE  Max(S) \in S
<1> DEFINE T == {MaxEpoch - e : e \in S}
           R == OpToRel(<, Nat)
<1>1. /\ MaxEpoch \in Nat /\ \A e \in S : e \in 1 .. MaxEpoch
  BY EvidenceAssumption DEF EvidenceAssumption, Epochs
<1>2. T \subseteq Nat
  BY <1>1, SMTT(40)
<1>3. T # {}
  OBVIOUS
<1>4. \A u, w \in Nat : <<u, w>> \in R <=> u < w
  BY DEF OpToRel
<1>5. PICK u \in T : \A w \in T : ~(<<w, u>> \in R)
  <2>1. IsWellFoundedOn(R, Nat)
    BY NatLessThanWellFounded
  <2> HIDE DEF T, R
  <2> QED BY <1>2, <1>3, <2>1, WFMin
<1> HIDE DEF R
<1>6. PICK e \in S : u = MaxEpoch - e
  OBVIOUS
<1>7. ASSUME NEW d \in S PROVE e >= d
  <2>1. MaxEpoch - d \in T /\ u \in T
    OBVIOUS
  <2>2. ~(MaxEpoch - d < MaxEpoch - e)
    BY <1>2, <1>4, <1>5, <1>6, <2>1
  <2> QED BY <1>1, <2>2, SMTT(40)
<1>8. \E x \in S : \A y \in S : x >= y
  BY <1>7
<1> QED BY <1>8 DEF Max

(* export_score_class_report.                                              *)
LEMMA ReportShelved ==
    ASSUME Audited, Shelved, NEW e \in Epochs, ExportScoreClass(e)
    PROVE  Shelved'
<1> DEFINE f == facts[e]
           exported == {d \in Epochs : reports[d] # None}
           previous == IF exported = {} THEN None ELSE Max(exported)
           r == [previous |-> previous, candidates |-> f.candidates,
                 units |-> ReportUnits(f), evidence |-> Positive(ReportUnits(f)),
                 release |-> f.release]
<1>1. /\ f # None /\ reports' = [reports EXCEPT ![e] = r]
      /\ UNCHANGED <<blobs, lock, exporter, disclosure, auditing, faults>>
  BY DEF ExportScoreClass, store
<1>2. /\ f.candidates \in SUBSET Hotkeys /\ f.units \in [Hotkeys -> Nat]
      /\ f.release \in Nat
  BY <1>1 DEF Audited, Facts
<1>3. previous \in Epochs \cup {None}
  <2>1. exported \in SUBSET Epochs
    OBVIOUS
  <2> HIDE DEF exported
  <2> QED BY <2>1, LastEpoch
<1>4. ReportUnits(f) \in [Hotkeys -> Nat]
  <2> HIDE DEF f
  <2>1. \A h \in Hotkeys : f.units[h] \in Nat
    BY <1>2
  <2>2. 0 \in Nat
    BY SMTT(40)
  <2> QED BY <2>1, <2>2 DEF ReportUnits
<1>5. Positive(ReportUnits(f)) \in SUBSET Hotkeys
  BY DEF Positive
<1>6. r \in Reports
  <2> HIDE DEF previous, f
  <2> QED BY <1>2, <1>3, <1>4, <1>5 DEF Reports
<1> HIDE DEF r
<1>7. reports' \in [Epochs -> Reports \cup {None}]
  BY <1>1, <1>6 DEF Shelved
<1> QED BY <1>1, <1>7 DEF Shelved, disclosure, auditing, faults

LEMMA NextShelved == IInv /\ Audited /\ Shelved /\ [Next]_vars => Shelved'
<1> SUFFICES ASSUME IInv, Audited, Shelved, [Next]_vars PROVE Shelved'
  OBVIOUS
<1>0. /\ None \notin Exporters
      /\ \A n : n < MaxStale /\ n \in 0 .. MaxStale => n + 1 \in 0 .. MaxStale
      /\ \A n : n < MaxCrashes /\ n \in 0 .. MaxCrashes => n + 1 \in 0 .. MaxCrashes
      /\ \A n : n < MaxDamage /\ n \in 0 .. MaxDamage => n + 1 \in 0 .. MaxDamage
  <2>1. None \notin Exporters
    BY EvidenceAssumption DEF EvidenceAssumption
  <2>2. ASSUME NEW bound \in Nat, NEW n \in 0 .. bound, n < bound
        PROVE  n + 1 \in 0 .. bound
    BY <2>2, SMTT(40)
  <2>3. MaxStale \in Nat /\ MaxCrashes \in Nat /\ MaxDamage \in Nat
    BY EvidenceAssumption DEF EvidenceAssumption
  <2> QED BY <2>1, <2>2, <2>3
<1>1. ASSUME NEW e \in Epochs, NEW f \in FactsAt[e], Publish(e, f)
      PROVE  Shelved'
  <2>1. f.retained \subseteq Hotkeys
    <3>1. f \in Facts
      BY EvidenceAssumption DEF EvidenceAssumption
    <3> QED BY <3>1 DEF Facts
  <2>2. envelopes' \subseteq Epochs \X Hotkeys
    BY <1>1, <2>1 DEF Publish, Shelved
  <2> QED BY <1>1, <2>2 DEF Publish, Shelved, store, auditing, faults
<1>2. ASSUME NEW e \in Epochs, ExportControlled(e) PROVE Shelved'
  <2>1. packages' \subseteq Epochs \X Hotkeys
    BY <1>2 DEF ExportControlled, Shelved
  <2> QED BY <1>2, <2>1 DEF ExportControlled, Shelved, ledger, store, auditing, faults
<1>3. ASSUME NEW x \in Exporters, NEW e \in Epochs, NEW a \in VariantsAt[e],
             StartExport(x, e, a)
      PROVE  Shelved'
  <2>1. /\ exporter[x].pc = "idle"
        /\ exporter' = [exporter EXCEPT ![x] =
               [pc |-> "built", manifest |-> [epoch |-> e, variant |-> a]]]
        /\ UNCHANGED <<ledger, blobs, lock, disclosure, auditing, faults>>
    BY <1>3 DEF StartExport, At
  <2>2. \A y \in Exporters \ {x} : exporter'[y] = exporter[y]
    BY <2>1 DEF IInv, Typed
  <2> QED BY <2>1, <2>2 DEF Shelved, ledger, disclosure, auditing, faults
<1>4. ASSUME NEW x \in Exporters, NEW pc \in {"copy", "index", "mark"}, Goto(x, pc),
             lock' = x, blobs' \subseteq blobs \cup {exporter[x].manifest},
             exporter[x].pc # "idle",
             UNCHANGED <<ledger, disclosure, auditing, faults>>
      PROVE  Shelved'
  <2>1. exporter'[x].pc = pc
    BY <1>4 DEF Goto, IInv, Typed
  <2>2. exporter[x].manifest \in Manifests
    BY <1>4 DEF IInv, Stored
  <2> QED BY <1>4, <2>1, <2>2 DEF Shelved, ledger, disclosure, auditing, faults
<1>5. ASSUME NEW x \in Exporters, PutManifest(x) \/ PutEpochCopy(x) \/ WriteIndex(x)
      PROVE  Shelved'
  <2>1. CASE PutManifest(x)
    BY <1>4, <2>1 DEF PutManifest, At
  <2>2. CASE PutEpochCopy(x)
    BY <1>4, <2>2 DEF PutEpochCopy, At, IInv, Locked
  <2>3. CASE WriteIndex(x)
    BY <1>4, <2>3 DEF WriteIndex, At, IInv, Locked
  <2> QED BY <1>5, <2>1, <2>2, <2>3
<1>6. ASSUME NEW x \in Exporters, Leave(x), lock' = IF lock = x THEN None ELSE lock,
             UNCHANGED <<ledger, blobs, disclosure, auditing, damage>>,
             crashes' \in 0 .. MaxCrashes
      PROVE  Shelved'
  <2>1. \A y \in Exporters \ {x} : exporter'[y] = exporter[y]
    BY <1>6 DEF Leave, IInv, Typed
  <2> QED BY <1>0, <1>6, <2>1 DEF Shelved, ledger, disclosure, auditing
<1>7. ASSUME NEW x \in Exporters, WriteHighwater(x) \/ Refuse(x) \/ Crash(x)
      PROVE  Shelved'
  <2>1. CASE WriteHighwater(x)
    BY <1>6, <2>1 DEF WriteHighwater, At, IInv, Locked, Shelved, faults
  <2>2. CASE Refuse(x)
    BY <1>6, <2>2 DEF Refuse, At, IInv, Locked, Shelved, faults, store
  <2>3. CASE Crash(x)
    BY <1>0, <1>6, <2>3 DEF Crash, Shelved, store
  <2> QED BY <1>7, <2>1, <2>2, <2>3
<1>8. CASE CorruptIndex \/ LoseIndex
  BY <1>0, <1>8 DEF CorruptIndex, LoseIndex, Shelved, ledger, disclosure, auditing
<1>9. CASE LoseEnvelope
  BY <1>0, <1>9 DEF LoseEnvelope, Shelved, ledger, store, auditing
<1>10. CASE Expire
  BY <1>0, <1>10 DEF Expire, Shelved, ledger, store, disclosure, faults
<1>11. ASSUME NEW v \in Auditors,
              \/ \E m \in Manifests : \E controlled, compared \in BOOLEAN :
                     Verify(v, m, controlled, compared)
              \/ Fail(v)
       PROVE  Shelved'
  BY <1>11 DEF Verify, Fail, Shelved, ledger, store, disclosure, faults
<1>12. ASSUME NEW v \in Auditors, Reserve(v) PROVE Shelved'
  <2>1. audit[v] \in Audits
    BY <1>12 DEF Reserve, Audited
  <2>2. audit[v].chosen.epoch \in Epochs
    BY <2>1 DEF Audits, Manifests
  <2>3. proven' \subseteq Epochs
    BY <1>12, <2>2 DEF Reserve, Conclude, Shelved
  <2> QED BY <1>12, <2>3 DEF Reserve, Conclude, Shelved, ledger, store, disclosure, faults
<1>13. CASE UNCHANGED vars
  BY <1>13 DEF vars, Shelved, ledger, store, disclosure, auditing, faults
<1> QED BY <1>1, <1>2, <1>3, <1>5, <1>7, <1>8, <1>9, <1>10, <1>11, <1>12, <1>13,
           ReportShelved DEF Next

(* Everything keeps its type, and the lock of the index is held by the     *)
(* exporter that is inside the transaction, and by no other.               *)
THEOREM WellTyped == Spec => []TypeOK
<1>1. IInv /\ Audited /\ Shelved => TypeOK
  BY DEF IInv, Typed, Locked, Audited, Audits, Fences, Shelved, TypeOK
<1> QED BY <1>1, InitInv, NextInv, InitAudited, NextAudited, InitShelved,
           NextShelved, PTL DEF Spec
=============================================================================
