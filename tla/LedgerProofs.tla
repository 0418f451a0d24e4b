---------------------------- MODULE LedgerProofs ----------------------------
(***************************************************************************)
(* Theorems about Ledger, for any number of epochs, workers, jobs and      *)
(* publishers.                                                             *)
(***************************************************************************)
EXTENDS Ledger, WellFoundedInduction, TLAPS

(* A step that names no prover goes to Zenon.                              *)
USE ZenonT(30)

Frozen == {"complete", "published", "abandoned"}

(* A non-empty set of epochs has a newest one.                             *)
LEMMA NewestExists ==
    ASSUME NEW S, S \subseteq EpochIds, S # {}
    PROVE  Newest(S) # {}
<1> DEFINE age == {MaxEpochs - e : e \in S}
           Less == OpToRel(<, Nat)
<1>1. age \subseteq Nat /\ age # {}
  <2>1. \A e \in S : MaxEpochs - e \in Nat
    BY BoundsAssumption, SMTT(40) DEF EpochIds, BoundsAssumption
  <2>2. age \subseteq Nat
    BY <2>1
  <2>3. age # {}
    <3>1. PICK e \in S : TRUE
      OBVIOUS
    <3>2. MaxEpochs - e \in age
      OBVIOUS
    <3> QED BY <3>2
  <2> QED BY <2>2, <2>3
<1>2. PICK x \in age : \A y \in age : ~ (<<y, x>> \in Less)
  <2> HIDE DEF age
  <2>1. IsWellFoundedOn(Less, Nat)
    BY NatLessThanWellFounded
  <2> HIDE DEF Less
  <2> QED BY <1>1, <2>1, WFMin
<1>3. \A y \in age : x <= y
  <2> SUFFICES ASSUME NEW y \in age PROVE x <= y
    OBVIOUS
  <2>1. y \in Nat /\ x \in Nat
    BY <1>1
  <2>2. ~ (y < x)
    BY <1>2, <2>1 DEF OpToRel
  <2> QED BY <2>1, <2>2, SMTT(40)
<1>4. PICK e \in S : x = MaxEpochs - e
  OBVIOUS
<1>5. \A f \in S : f <= e
  <2> SUFFICES ASSUME NEW f \in S PROVE f <= e
    OBVIOUS
  <2>1. x <= MaxEpochs - f
    BY <1>3
  <2>2. MaxEpochs \in Int /\ e \in Int /\ f \in Int
    BY BoundsAssumption, SMTT(40) DEF EpochIds, BoundsAssumption
  <2> QED BY <1>4, <2>1, <2>2, SMTT(40)
<1> QED BY <1>4, <1>5 DEF Newest
-----------------------------------------------------------------------------
(* Epochs.                                                                 *)

Source(e) == epochs[e].source_epoch

(* Aborted attempts at a source epoch beyond every finalized one but e's.  *)
RetryableBut(e) ==
    {r \in WithStatus({"aborted"}) : \A f \in Finalized \ {e} : Source(f) < Source(r)}

(* The epochs table is filled in order, and publishers hold epochs whose   *)
(* frozen report they sent.                                                *)
EpochsOK ==
    /\ epochs \in [EpochIds -> EpochRow]
    /\ lastEpoch \in 0 .. MaxEpochs
    /\ \A e \in EpochIds : e > lastEpoch => epochs[e].status = "absent"
    /\ \A e \in EpochIds : epochs[e].status # "absent" => Source(e) \in SourceEpochs

PostsOK ==
    /\ DOMAIN posts = Publishers
    /\ \A p \in Publishers : posts[p].phase # "idle" =>
           /\ posts[p].epoch_id \in sent
           /\ posts[p].phase = "acknowledged" => posts[p].epoch_id \in accepted
    /\ PublishedWasAccepted

(* What makes the order of epochs inductive: the blocking epoch is the one *)
(* begun last, it is beyond every finalized epoch, and if it were taken    *)
(* back (abandoned), every attempt left to retry would be an attempt at it.*)
EpochOrder ==
    /\ FinalizedInOrder
    /\ RetryBeforeAdvance
    /\ \A e \in Blocking :
           /\ e = lastEpoch
           /\ \A f \in Finalized \ {e} : Source(f) < Source(e)
           /\ \A r \in RetryableBut(e) : Source(r) = Source(e)

(* One row of the table changes its status, or a new row is added.         *)
StatusSet(e, old, new) ==
    /\ epochs[e].status \in old
    /\ epochs' = [epochs EXCEPT ![e].status = new]
    /\ lastEpoch' = lastEpoch

EpochAdded == \E s \in SourceEpochs, a \in Audiences \cup {None} :
    /\ lastEpoch < MaxEpochs
    /\ Blocking = {}
    /\ \A r \in Newest(Retryable) : s = Source(r)
    /\ \A f \in Finalized : Source(f) < s
    /\ lastEpoch' = lastEpoch + 1
    /\ epochs' = [epochs EXCEPT ![lastEpoch + 1] =
                    [status |-> "running", source_epoch |-> s, audience |-> a]]

EpochMove ==
    \/ UNCHANGED epochVars
    \/ EpochAdded
    \/ \E e \in EpochIds :
         \/ StatusSet(e, {"running"}, "aborted")
         \/ StatusSet(e, {"running"}, "complete")
         \/ StatusSet(e, {"complete"}, "abandoned")
         \/ e \in accepted /\ StatusSet(e, {"complete", "published"}, "published")

(* No step does anything else to the table.                                *)
LEMMA EpochMoves ==
    ASSUME PostsOK, [Next]_vars
    PROVE  EpochMove
<1>1. CASE Tick \/ UNCHANGED vars
  BY <1>1 DEF Tick, vars, EpochMove, epochVars
<1>2. CASE EpochStep
  <2>1. ASSUME NEW s \in SourceEpochs, NEW a \in Audiences \cup {None}, BeginEpoch(s, a)
        PROVE  EpochAdded
    BY <2>1 DEF BeginEpoch, EpochAdded, Source
  <2>2. ASSUME NEW e \in EpochIds, AbortEpoch(e)
        PROVE  StatusSet(e, {"running"}, "aborted")
    BY <2>2 DEF AbortEpoch, StatusSet, Running
  <2>3. ASSUME NEW e \in EpochIds, AbandonCompletedEpoch(e)
        PROVE  StatusSet(e, {"complete"}, "abandoned")
    BY <2>3 DEF AbandonCompletedEpoch, StatusSet
  <2>4. ASSUME NEW e \in EpochIds, NEW given \in SUBSET Hotkeys,
               NEW a \in Audiences \cup {None}, CompleteEpoch(e, given, a)
        PROVE  StatusSet(e, {"running"}, "complete")
    BY <2>4 DEF CompleteEpoch, StatusSet, Running
  <2> QED BY <1>2, <2>1, <2>2, <2>3, <2>4 DEF EpochStep, EpochMove
<1>3. CASE FactStep
  BY <1>3, ZenonT(60)
     DEF FactStep, IssueChallenge, AddAttestation, AddLifecycleSnapshot,
         EpochMove
<1>4. CASE ResolveStep
  <2>1. \A c, status, units, snapshot :
            ResolveCanonical(c, status, units, snapshot) => UNCHANGED epochVars
    BY DEF ResolveCanonical
  <2>2. ASSUME NEW j, NEW a, NEW status, NEW units, NEW snapshot, NEW disposition,
               NEW result,
               ResolveCustomer(j, a, status, units, snapshot, disposition, result)
        PROVE  UNCHANGED epochVars
    BY <2>2 DEF ResolveCustomer
  <2> QED BY <1>4, <2>1, <2>2
             DEF ResolveStep, ResolveCanonicalStep, ResolveCustomerStep,
                 EpochMove
<1>5. CASE JobStep
  BY <1>5
     DEF JobStep, EnqueueCustomerJob, PruneCustomerJobs, ClaimCustomerJob,
         EpochMove
<1>6. CASE PublishStep
  <2>1. ASSUME NEW p \in Publishers, MarkPublished(p)
        PROVE  EpochMove
    <3>1. posts[p].epoch_id \in EpochIds /\ posts[p].epoch_id \in accepted
      BY <2>1 DEF MarkPublished, PostsOK, PublishedWasAccepted, WithStatus
    <3>2. StatusSet(posts[p].epoch_id, {"complete", "published"}, "published")
      BY <2>1 DEF MarkPublished, StatusSet
    <3> QED BY <3>1, <3>2 DEF EpochMove
  <2> QED BY <1>6, <2>1
             DEF PublishStep, PostReport, DownstreamAccepts,
                 ReceiveAcknowledgement, PostFails, EpochMove
<1>7. CASE ExportStep
  BY <1>7 DEF ExportStep, RecordScoreClassExport, EpochMove
<1> QED BY <1>1, <1>2, <1>3, <1>4, <1>5, <1>6, <1>7 DEF Next

(* What becomes of the row sets when one status changes.                   *)
LEMMA StatusSetFields ==
    ASSUME EpochsOK, NEW e \in EpochIds, NEW old, NEW new, StatusSet(e, old, new),
           new \in {"running", "aborted", "complete", "published", "abandoned"},
           "absent" \notin old
    PROVE  /\ EpochsOK'
           /\ epochs'[e].status = new /\ epochs[e].status \in old
           /\ \A f \in EpochIds : Source(f)' = Source(f)
           /\ \A f \in EpochIds \ {e} : epochs'[f].status = epochs[f].status
<1>1. epochs' \in [EpochIds -> EpochRow]
  BY SMTT(40) DEF EpochsOK, StatusSet, EpochRow
<1>2. /\ epochs'[e].status = new /\ epochs[e].status \in old
      /\ epochs'[e].source_epoch = epochs[e].source_epoch
      /\ \A f \in EpochIds \ {e} : epochs'[f] = epochs[f]
  BY DEF EpochsOK, StatusSet, EpochRow
<1>3. \A f \in EpochIds : Source(f)' = Source(f)
  BY <1>2 DEF Source
<1>4. lastEpoch' = lastEpoch /\ epochs[e].status # "absent"
  BY <1>2 DEF StatusSet
<1>5. EpochsOK'
  BY <1>1, <1>2, <1>3, <1>4 DEF EpochsOK
<1> QED BY <1>2, <1>3, <1>5

(* The newest epoch is begun after all others.                             *)
LEMMA EpochAddedFields ==
    ASSUME EpochsOK, EpochAdded
    PROVE  /\ EpochsOK' /\ lastEpoch' = lastEpoch + 1 /\ lastEpoch' \in EpochIds
           /\ epochs[lastEpoch'].status = "absent"
           /\ epochs'[lastEpoch'].status = "running"
           /\ Blocking = {}
           /\ \A r \in Newest(Retryable) : epochs'[lastEpoch'].source_epoch = Source(r)
           /\ \A f \in Finalized : Source(f) < epochs'[lastEpoch'].source_epoch
           /\ \A f \in EpochIds \ {lastEpoch'} : epochs'[f] = epochs[f]
<1>1. PICK s \in SourceEpochs, a \in Audiences \cup {None} :
          /\ lastEpoch < MaxEpochs
          /\ Blocking = {}
          /\ \A r \in Newest(Retryable) : s = Source(r)
          /\ \A f \in Finalized : Source(f) < s
          /\ lastEpoch' = lastEpoch + 1
          /\ epochs' = [epochs EXCEPT ![lastEpoch + 1] =
                          [status |-> "running", source_epoch |-> s, audience |-> a]]
  BY DEF EpochAdded
<1>2. lastEpoch' \in EpochIds /\ lastEpoch \in Int
  BY <1>1, BoundsAssumption, SMTT(40) DEF EpochsOK, EpochIds, BoundsAssumption
<1>3. [status |-> "running", source_epoch |-> s, audience |-> a] \in EpochRow
  BY DEF EpochRow
<1>4. epochs' \in [EpochIds -> EpochRow]
  BY <1>1, <1>3 DEF EpochsOK
<1>5. /\ epochs'[lastEpoch'] =
             [status |-> "running", source_epoch |-> s, audience |-> a]
      /\ \A f \in EpochIds \ {lastEpoch'} : epochs'[f] = epochs[f]
  BY <1>1, <1>2 DEF EpochsOK
<1>6. epochs[lastEpoch'].status = "absent"
  BY <1>1, <1>2, SMTT(40) DEF EpochsOK
<1>7. epochs'[lastEpoch'].source_epoch = s /\ epochs'[lastEpoch'].status = "running"
  BY <1>5, SMTT(40) DEF Source
<1>8. EpochsOK'
  <2>1. \A e \in EpochIds : e > lastEpoch' => epochs'[e].status = "absent"
    BY <1>1, <1>2, <1>5, SMTT(40) DEF EpochsOK, EpochIds
  <2>2. \A e \in EpochIds : epochs'[e].status # "absent" =>
            epochs'[e].source_epoch \in SourceEpochs
    BY <1>5, SMTT(40) DEF EpochsOK, Source
  <2>3. lastEpoch' \in 0 .. MaxEpochs
    BY <1>2, BoundsAssumption, SMTT(40) DEF EpochIds, BoundsAssumption
  <2> QED BY <1>4, <2>1, <2>2, <2>3 DEF EpochsOK, Source
<1> QED BY <1>1, <1>2, <1>5, <1>6, <1>7, <1>8

(* Epoch ids and the sources of epochs that were begun are numbers.        *)
LEMMA EpochNumbers ==
    ASSUME EpochsOK
    PROVE  /\ lastEpoch \in Int /\ EpochIds \subseteq Int
           /\ \A e \in EpochIds : epochs[e].status # "absent" =>
                  Source(e) \in Int /\ e <= lastEpoch
<1>1. lastEpoch \in Int /\ EpochIds \subseteq Int /\ SourceEpochs \subseteq Int
  BY BoundsAssumption, SMTT(40) DEF EpochsOK, EpochIds, BoundsAssumption
<1>2. ASSUME NEW e \in EpochIds, epochs[e].status # "absent"
      PROVE  Source(e) \in Int /\ e <= lastEpoch
  <2>1. Source(e) \in SourceEpochs /\ ~ (e > lastEpoch)
    BY <1>2 DEF EpochsOK
  <2>2. Source(e) \in Int /\ e \in Int
    BY <1>1, <2>1
  <2>3. lastEpoch \in Int
    BY <1>1
  <2> QED BY <2>1, <2>2, <2>3, SMTT(40)
<1> QED BY <1>1, <1>2

(* Every move of the table keeps the order of epochs.                      *)
LEMMA EpochOrderKept ==
    ASSUME EpochsOK, EpochOrder, EpochMove
    PROVE  EpochsOK' /\ EpochOrder'
<1> DEFINE status(e) == epochs[e].status
           next(e) == epochs'[e].status
<1>0. /\ lastEpoch \in Int /\ EpochIds \subseteq Int
      /\ \A e \in EpochIds : status(e) # "absent" => Source(e) \in Int /\ e <= lastEpoch
  BY EpochNumbers
<1>1. CASE UNCHANGED epochVars
  BY <1>1, SMTT(40)
     DEF epochVars, EpochsOK, EpochOrder, FinalizedInOrder, RetryBeforeAdvance,
         Blocking, Finalized, Retryable, RetryableBut, WithStatus, Source
<1>2. CASE EpochAdded
  <2>0. PICK n \in EpochIds : n = lastEpoch'
    BY <1>2, EpochAddedFields
  <2>1. /\ EpochsOK' /\ n = lastEpoch + 1
        /\ status(n) = "absent" /\ next(n) = "running" /\ Blocking = {}
        /\ \A r \in Newest(Retryable) : epochs'[n].source_epoch = Source(r)
        /\ \A f \in Finalized : Source(f) < epochs'[n].source_epoch
        /\ \A f \in EpochIds \ {n} : epochs'[f] = epochs[f]
    BY <1>2, <2>0, EpochAddedFields
  <2>2. /\ Finalized' = Finalized /\ Retryable' = Retryable
        /\ Blocking' = {n} /\ RetryableBut(n)' = Retryable
        /\ WithStatus({"running"})' = {n}
    <3>1. Finalized' = Finalized /\ n \notin Finalized
      BY <2>1 DEF Finalized, WithStatus
    <3>2. WithStatus({"aborted"})' = WithStatus({"aborted"}) /\ n \notin WithStatus({"aborted"})
      BY <2>1 DEF WithStatus
    <3>3. Blocking' = {n} /\ WithStatus({"running"})' = {n}
      BY <2>1, ZenonT(60) DEF Blocking, WithStatus
    <3>4. \A f \in EpochIds \ {n} : Source(f)' = Source(f)
      BY <2>1 DEF Source
    <3>5. Finalized \subseteq EpochIds /\ WithStatus({"aborted"}) \subseteq EpochIds
      BY DEF Finalized, WithStatus
    <3>6. Retryable' = Retryable
      BY <3>1, <3>2, <3>4, <3>5, SMTT(40) DEF Retryable, Source
    <3>7. RetryableBut(n)' = Retryable
      BY <3>1, <3>2, <3>4, <3>5, SMTT(40) DEF Retryable, RetryableBut, Source
    <3> QED BY <3>1, <3>3, <3>6, <3>7
  <2>3. \A r \in Retryable : Source(r) = epochs'[n].source_epoch
    <3> SUFFICES ASSUME NEW r \in Retryable PROVE Source(r) = epochs'[n].source_epoch
      OBVIOUS
    <3>1. PICK m \in Newest(Retryable) : TRUE
      BY NewestExists DEF Retryable, WithStatus
    <3>2. m \in Retryable
      BY DEF Newest
    <3>3. Source(r) = Source(m)
      BY <3>2 DEF EpochOrder, RetryBeforeAdvance, Source
    <3> QED BY <2>1, <3>3
  <2>4. \A r \in Retryable \cup Finalized : r # n /\ epochs'[r] = epochs[r]
    BY <2>1 DEF Retryable, Finalized, WithStatus
  <2>5. FinalizedInOrder'
    BY <2>2, <2>4 DEF EpochOrder, FinalizedInOrder
  <2>6. RetryBeforeAdvance'
    BY <2>2, <2>3, <2>4, SMTT(40) DEF EpochOrder, RetryBeforeAdvance, Source
  <2>7. \A e \in Blocking' :
            /\ e = lastEpoch'
            /\ \A f \in Finalized' \ {e} : Source(f)' < Source(e)'
            /\ \A r \in RetryableBut(e)' : Source(r)' = Source(e)'
    <3>1. \A f \in Finalized : Source(f)' = Source(f)
      BY <2>4 DEF Source
    <3>2. \A r \in Retryable : Source(r)' = Source(r)
      BY <2>4 DEF Source
    <3>3. Source(n)' = epochs'[n].source_epoch
      BY DEF Source
    <3> QED BY <2>0, <2>1, <2>2, <2>3, <3>1, <3>2, <3>3, SMTT(40)
  <2> QED BY <2>1, <2>5, <2>6, <2>7 DEF EpochOrder
<1>3. ASSUME NEW e \in EpochIds, StatusSet(e, {"running"}, "aborted")
      PROVE  EpochsOK' /\ EpochOrder'
  <2>1. /\ EpochsOK' /\ next(e) = "aborted" /\ status(e) = "running"
        /\ \A f \in EpochIds : Source(f)' = Source(f)
        /\ \A f \in EpochIds \ {e} : next(f) = status(f)
    BY <1>3, StatusSetFields
  <2>2. Blocking = {e}
    BY <2>1 DEF EpochOrder, FinalizedInOrder, Blocking, WithStatus
  <2>3. /\ Blocking' = {} /\ Finalized' = Finalized /\ WithStatus({"running"})' = {}
        /\ e \notin Finalized
    BY <2>1, <2>2 DEF Blocking, Finalized, WithStatus
  <2>4. Retryable' \subseteq RetryableBut(e) \cup {e}
    BY <2>1, <2>3 DEF Retryable, RetryableBut, WithStatus, Source, Finalized
  <2>5. \A r \in Retryable' : r \in EpochIds /\ Source(r)' = Source(e)
    BY <2>1, <2>2, <2>4 DEF EpochOrder, RetryableBut, WithStatus
  <2>6. RetryBeforeAdvance'
    BY <2>3, <2>5 DEF RetryBeforeAdvance, Source
  <2>7. FinalizedInOrder'
    BY <2>1, <2>3, SMTT(40)
       DEF EpochOrder, FinalizedInOrder, Source, Finalized, WithStatus
  <2> QED BY <2>1, <2>3, <2>6, <2>7 DEF EpochOrder
<1>4. ASSUME NEW e \in EpochIds, StatusSet(e, {"running"}, "complete")
      PROVE  EpochsOK' /\ EpochOrder'
  <2>1. /\ EpochsOK' /\ next(e) = "complete" /\ status(e) = "running"
        /\ \A f \in EpochIds : Source(f)' = Source(f)
        /\ \A f \in EpochIds \ {e} : next(f) = status(f)
    BY <1>4, StatusSetFields
  <2>2. Blocking = {e} /\ lastEpoch' = lastEpoch /\ e = lastEpoch
    BY <1>4, <2>1, SMTT(40)
       DEF EpochOrder, FinalizedInOrder, Blocking, WithStatus, StatusSet
  <2>3. /\ Blocking' = {e} /\ Finalized' = Finalized \cup {e}
        /\ WithStatus({"running"})' = {} /\ e \notin Finalized
    BY <2>1, <2>2, SMTT(40) DEF Blocking, Finalized, WithStatus
  <2>4. RetryableBut(e)' = RetryableBut(e)
    BY <2>1, <2>3, SMTT(40) DEF RetryableBut, WithStatus, Finalized
  <2>5. Retryable' = {}
    <3> SUFFICES ASSUME NEW r \in Retryable' PROVE FALSE
      OBVIOUS
    <3>1. r \in EpochIds /\ r \in RetryableBut(e) /\ Source(e) < Source(r)
      BY <2>1, <2>3 DEF Retryable, RetryableBut, WithStatus, Source, Finalized
    <3>2. Source(r) = Source(e)
      BY <2>2, <3>1 DEF EpochOrder
    <3> QED BY <1>0, <2>1, <3>1, <3>2, SMTT(40)
  <2>6. RetryBeforeAdvance'
    BY <2>3, <2>5 DEF RetryBeforeAdvance
  <2>7. \A f \in Finalized : Source(f) < Source(e) /\ f < e
    <3>1. \A f \in Finalized : f \in EpochIds /\ f # e /\ status(f) # "absent"
      BY <2>3 DEF Finalized, WithStatus
    <3>2. \A f \in Finalized : f \in Int /\ f <= lastEpoch
      BY <1>0, <3>1
    <3>3. \A f \in Finalized : Source(f) < Source(e)
      BY <2>2, <2>3 DEF EpochOrder
    <3> QED BY <1>0, <2>2, <3>1, <3>2, <3>3, SMTT(40)
  <2>8. FinalizedInOrder'
    <3> SUFFICES ASSUME NEW f \in Finalized', NEW g \in Finalized', f < g
                 PROVE  Source(f)' < Source(g)'
      BY <2>3 DEF FinalizedInOrder, Source
    <3>1. /\ f \in EpochIds /\ g \in EpochIds
          /\ Source(f)' = Source(f) /\ Source(g)' = Source(g)
      BY <2>1, <2>3 DEF Finalized, WithStatus
    <3>2. CASE f \in Finalized /\ g \in Finalized
      BY <3>1, <3>2 DEF EpochOrder, FinalizedInOrder, Source
    <3>3. CASE g = e /\ f \in Finalized
      BY <2>7, <3>1, <3>3
    <3>4. CASE f = e
      BY <1>0, <2>3, <2>7, <3>1, <3>4, SMTT(40)
    <3> QED BY <2>3, <3>2, <3>3, <3>4
  <2>9. \A f \in Finalized' \ {e} : Source(f)' < Source(e)'
    BY <2>1, <2>3, <2>7, SMTT(40) DEF Finalized, WithStatus
  <2>10. \A r \in RetryableBut(e)' : Source(r)' = Source(e)'
    BY <2>1, <2>2, <2>4 DEF EpochOrder, RetryableBut, WithStatus
  <2> QED BY <2>1, <2>2, <2>3, <2>6, <2>8, <2>9, <2>10 DEF EpochOrder
<1>5. ASSUME NEW e \in EpochIds, StatusSet(e, {"complete"}, "abandoned")
      PROVE  EpochsOK' /\ EpochOrder'
  <2>1. /\ EpochsOK' /\ next(e) = "abandoned" /\ status(e) = "complete"
        /\ \A f \in EpochIds : Source(f)' = Source(f)
        /\ \A f \in EpochIds \ {e} : next(f) = status(f)
    BY <1>5, StatusSetFields
  <2>2. Blocking = {e}
    BY <2>1 DEF EpochOrder, FinalizedInOrder, Blocking, WithStatus
  <2>3. /\ Blocking' = {} /\ Finalized' = Finalized \ {e}
        /\ WithStatus({"running"})' = {}
    BY <2>1, <2>2 DEF Blocking, Finalized, WithStatus
  <2>4. \A r \in Retryable' : r \in EpochIds /\ r \in RetryableBut(e)
    BY <2>1, <2>3 DEF Retryable, RetryableBut, WithStatus, Source, Finalized
  <2>5. \A r \in Retryable' : Source(r)' = Source(e)
    BY <2>1, <2>2, <2>4 DEF EpochOrder
  <2>6. RetryBeforeAdvance'
    BY <2>3, <2>5 DEF RetryBeforeAdvance, Source
  <2>7. FinalizedInOrder'
    BY <2>1, <2>3, SMTT(40)
       DEF EpochOrder, FinalizedInOrder, Source, Finalized, WithStatus
  <2> QED BY <2>1, <2>3, <2>6, <2>7 DEF EpochOrder
<1>6. ASSUME NEW e \in EpochIds, StatusSet(e, {"complete", "published"}, "published")
      PROVE  EpochsOK' /\ EpochOrder'
  <2>1. /\ EpochsOK' /\ next(e) = "published" /\ status(e) \in {"complete", "published"}
        /\ \A f \in EpochIds : Source(f)' = Source(f)
        /\ \A f \in EpochIds \ {e} : next(f) = status(f)
    BY <1>6, StatusSetFields
  <2>2. /\ Finalized' = Finalized /\ Blocking' = Blocking \ {e}
        /\ WithStatus({"running"})' = WithStatus({"running"})
    BY <2>1 DEF Blocking, Finalized, WithStatus
  <2>3. /\ Retryable' = Retryable
        /\ \A f \in EpochIds : RetryableBut(f)' = RetryableBut(f)
    BY <2>1, <2>2, SMTT(40)
       DEF Retryable, RetryableBut, WithStatus, Source, Finalized
  <2>4. RetryBeforeAdvance'
    BY <2>1, <2>2, <2>3, SMTT(40)
       DEF EpochOrder, RetryBeforeAdvance, Source, Retryable, WithStatus
  <2>5. FinalizedInOrder'
    BY <2>1, <2>2 DEF EpochOrder, FinalizedInOrder, Source, Finalized, WithStatus
  <2>6. lastEpoch' = lastEpoch
    BY <1>6 DEF StatusSet
  <2>7. \A g \in Blocking' :
            /\ g = lastEpoch'
            /\ \A f \in Finalized' \ {g} : Source(f)' < Source(g)'
            /\ \A r \in RetryableBut(g)' : Source(r)' = Source(g)'
    BY <2>1, <2>2, <2>3, <2>6, SMTT(40)
       DEF EpochOrder, Blocking, Finalized, RetryableBut, WithStatus
  <2> QED BY <2>1, <2>4, <2>5, <2>7 DEF EpochOrder
<1> QED BY <1>1, <1>2, <1>3, <1>4, <1>5, <1>6 DEF EpochMove

(* An epoch stays frozen once it is, and published only after acceptance.  *)
LEMMA FrozenStays ==
    ASSUME EpochsOK, EpochMove
    PROVE  /\ WithStatus(Frozen) \subseteq WithStatus(Frozen)'
           /\ WithStatus({"published"})' \subseteq WithStatus({"published"}) \cup accepted
<1>1. CASE UNCHANGED epochVars
  BY <1>1 DEF epochVars, WithStatus
<1>2. CASE EpochAdded
  <2>1. PICK n \in EpochIds :
            /\ epochs[n].status = "absent" /\ epochs'[n].status = "running"
            /\ \A f \in EpochIds \ {n} : epochs'[f] = epochs[f]
    BY <1>2, EpochAddedFields
  <2> QED BY <2>1 DEF WithStatus, Frozen
<1>3. ASSUME NEW e \in EpochIds, NEW old, NEW new, StatusSet(e, old, new),
             "absent" \notin old, new \in Frozen \cup {"aborted"},
             old \cap Frozen # {} => new \in Frozen,
             new = "published" => e \in accepted
      PROVE  /\ WithStatus(Frozen) \subseteq WithStatus(Frozen)'
             /\ WithStatus({"published"})' \subseteq WithStatus({"published"}) \cup accepted
  <2>1. /\ epochs'[e].status = new /\ epochs[e].status \in old
        /\ \A f \in EpochIds \ {e} : epochs'[f].status = epochs[f].status
    BY <1>3, StatusSetFields DEF Frozen
  <2> QED BY <1>3, <2>1 DEF WithStatus
<1>4. ASSUME NEW e \in EpochIds,
             \/ StatusSet(e, {"running"}, "aborted")
             \/ StatusSet(e, {"running"}, "complete")
             \/ StatusSet(e, {"complete"}, "abandoned")
             \/ e \in accepted /\ StatusSet(e, {"complete", "published"}, "published")
      PROVE  /\ WithStatus(Frozen) \subseteq WithStatus(Frozen)'
             /\ WithStatus({"published"})' \subseteq WithStatus({"published"}) \cup accepted
  <2>1. CASE StatusSet(e, {"running"}, "aborted")
    BY <1>3, <2>1 DEF Frozen
  <2>2. CASE StatusSet(e, {"running"}, "complete")
    BY <1>3, <2>2 DEF Frozen
  <2>3. CASE StatusSet(e, {"complete"}, "abandoned")
    BY <1>3, <2>3 DEF Frozen
  <2>4. CASE e \in accepted /\ StatusSet(e, {"complete", "published"}, "published")
    BY <1>3, <2>4 DEF Frozen
  <2> QED BY <1>4, <2>1, <2>2, <2>3, <2>4
<1> QED BY <1>1, <1>2, <1>4 DEF EpochMove

(* What a step does to the publishers.                                     *)
LEMMA PostsKept ==
    ASSUME EpochsOK, PostsOK, [Next]_vars
    PROVE  PostsOK'
<1>1. EpochMove
  BY EpochMoves
<1>2. /\ WithStatus(Frozen) \subseteq WithStatus(Frozen)'
      /\ WithStatus({"published"})' \subseteq WithStatus({"published"}) \cup accepted
  BY <1>1, FrozenStays
<1>3. ASSUME sent \subseteq sent', accepted \subseteq accepted', accepted' \subseteq sent',
             sent' \subseteq sent \cup WithStatus(Frozen),
             DOMAIN posts' = Publishers,
             \A p \in Publishers : posts'[p].phase # "idle" =>
                 /\ posts'[p].epoch_id \in sent'
                 /\ posts'[p].phase = "acknowledged" => posts'[p].epoch_id \in accepted'
      PROVE  PostsOK'
  BY <1>2, <1>3 DEF PostsOK, PublishedWasAccepted, Frozen
<1>4. CASE UNCHANGED postVars
  BY <1>3, <1>4 DEF postVars, PostsOK, PublishedWasAccepted
<1>5. ASSUME NEW p \in Publishers, NEW e \in EpochIds, PostReport(p, e)
      PROVE  PostsOK'
  <2>1. /\ posts' = [posts EXCEPT ![p] = [phase |-> "waiting", epoch_id |-> e]]
        /\ sent' = sent \cup {e} /\ accepted' = accepted
        /\ e \in WithStatus(Frozen)
    BY <1>5 DEF PostReport, WithStatus, Frozen
  <2>2. DOMAIN posts' = Publishers
    BY <2>1 DEF PostsOK
  <2>3. \A q \in Publishers : posts'[q].phase # "idle" =>
            /\ posts'[q].epoch_id \in sent'
            /\ posts'[q].phase = "acknowledged" => posts'[q].epoch_id \in accepted'
    BY <2>1 DEF PostsOK
  <2>4. /\ sent \subseteq sent' /\ accepted \subseteq accepted' /\ accepted' \subseteq sent'
        /\ sent' \subseteq sent \cup WithStatus(Frozen)
    BY <2>1 DEF PostsOK, PublishedWasAccepted
  <2> QED BY <1>3, <2>2, <2>3, <2>4
<1>6. ASSUME NEW e \in EpochIds, DownstreamAccepts(e)
      PROVE  PostsOK'
  <2>1. e \in sent /\ accepted' = accepted \cup {e} /\ posts' = posts /\ sent' = sent
    BY <1>6 DEF DownstreamAccepts
  <2> QED BY <1>3, <2>1 DEF PostsOK, PublishedWasAccepted
<1>7. ASSUME NEW p \in Publishers, ReceiveAcknowledgement(p)
      PROVE  PostsOK'
  <2>1. /\ posts[p].phase = "waiting" /\ posts[p].epoch_id \in accepted
        /\ posts' = [posts EXCEPT ![p].phase = "acknowledged"]
        /\ sent' = sent /\ accepted' = accepted
    BY <1>7 DEF ReceiveAcknowledgement
  <2>2. DOMAIN posts' = Publishers
    BY <2>1 DEF PostsOK
  <2>3. \A q \in Publishers : posts'[q].phase # "idle" =>
            /\ posts'[q].epoch_id \in sent'
            /\ posts'[q].phase = "acknowledged" => posts'[q].epoch_id \in accepted'
    BY <2>1, SMTT(40) DEF PostsOK
  <2> QED BY <1>3, <2>1, <2>2, <2>3 DEF PostsOK, PublishedWasAccepted
<1>8. ASSUME NEW p \in Publishers, PostFails(p) \/ MarkPublished(p)
      PROVE  PostsOK'
  <2>1. /\ posts' = [posts EXCEPT ![p] = [phase |-> "idle", epoch_id |-> None]]
        /\ sent' = sent /\ accepted' = accepted
    BY <1>8 DEF PostFails, MarkPublished
  <2>2. DOMAIN posts' = Publishers
    BY <2>1 DEF PostsOK
  <2>3. \A q \in Publishers : posts'[q].phase # "idle" =>
            /\ posts'[q].epoch_id \in sent'
            /\ posts'[q].phase = "acknowledged" => posts'[q].epoch_id \in accepted'
    BY <2>1 DEF PostsOK
  <2> QED BY <1>3, <2>1, <2>2, <2>3 DEF PostsOK, PublishedWasAccepted
<1>9. CASE Tick \/ FactStep \/ ExportStep \/ UNCHANGED vars
  <2>1. UNCHANGED postVars
    BY <1>9, ZenonT(60)
       DEF Tick, FactStep, IssueChallenge, AddAttestation,
           AddLifecycleSnapshot, ExportStep, RecordScoreClassExport, vars,
           postVars
  <2> QED BY <1>4, <2>1
<1>10. CASE EpochStep
  <2>1. UNCHANGED postVars
    BY <1>10
       DEF EpochStep, BeginEpoch, AbortEpoch, AbandonCompletedEpoch,
           CompleteEpoch
  <2> QED BY <1>4, <2>1
<1>11. CASE ResolveStep
  <2>1. \A c, status, units, snapshot :
            ResolveCanonical(c, status, units, snapshot) => UNCHANGED postVars
    BY DEF ResolveCanonical
  <2>2. ASSUME NEW j, NEW a, NEW status, NEW units, NEW snapshot, NEW disposition,
               NEW result,
               ResolveCustomer(j, a, status, units, snapshot, disposition, result)
        PROVE  UNCHANGED postVars
    BY <2>2 DEF ResolveCustomer
  <2>3. UNCHANGED postVars
    BY <1>11, <2>1, <2>2
       DEF ResolveStep, ResolveCanonicalStep, ResolveCustomerStep
  <2> QED BY <1>4, <2>3
<1>12. CASE JobStep
  <2>1. UNCHANGED postVars
    BY <1>12
       DEF JobStep, EnqueueCustomerJob, PruneCustomerJobs, ClaimCustomerJob
  <2> QED BY <1>4, <2>1
<1>13. CASE PublishStep
  BY <1>5, <1>6, <1>7, <1>8, <1>13 DEF PublishStep
<1> QED BY <1>9, <1>10, <1>11, <1>12, <1>13 DEF Next

EpochInv == EpochsOK /\ PostsOK /\ EpochOrder

(* The inductive invariant holds: it starts, and every step keeps it.      *)
LEMMA EpochInvHolds == Spec => []EpochInv
<1>1. Init => EpochInv
  <2> SUFFICES ASSUME Init PROVE EpochInv
    OBVIOUS
  <2>1. epochs = [e \in EpochIds |-> NoEpoch] /\ lastEpoch = 0
    BY DEF Init
  <2>2. \A e \in EpochIds : epochs[e].status = "absent"
    BY <2>1 DEF NoEpoch
  <2>3. EpochsOK
    <3>1. NoEpoch \in EpochRow
      BY DEF NoEpoch, EpochRow
    <3> QED BY <2>1, <2>2, <3>1, BoundsAssumption, SMTT(40)
               DEF EpochsOK, BoundsAssumption
  <2>4. /\ Blocking = {} /\ Finalized = {} /\ WithStatus({"aborted"}) = {}
        /\ WithStatus({"published"}) = {}
    BY <2>2 DEF Blocking, Finalized, WithStatus
  <2>5. EpochOrder
    BY <2>4 DEF EpochOrder, FinalizedInOrder, RetryBeforeAdvance, Retryable
  <2>6. PostsOK
    BY <2>4 DEF Init, PostsOK, PublishedWasAccepted
  <2> QED BY <2>3, <2>5, <2>6 DEF EpochInv
<1>2. EpochInv /\ [Next]_vars => EpochInv'
  BY EpochMoves, EpochOrderKept, PostsKept DEF EpochInv
<1> QED BY <1>1, <1>2, PTL DEF Spec

(* begin_epoch keeps finalized epochs in the order of their source epochs, *)
(* whatever is aborted, abandoned or retried in between.                   *)
THEOREM EpochsFinalizeInOrder == Spec => []FinalizedInOrder
<1>1. EpochInv => FinalizedInOrder
  BY DEF EpochInv, EpochOrder
<1> QED BY <1>1, EpochInvHolds, PTL

(* begin_epoch never moves on past an aborted source epoch.                *)
THEOREM AbortedEpochsAreRetried == Spec => []RetryBeforeAdvance
<1>1. EpochInv => RetryBeforeAdvance
  BY DEF EpochInv, EpochOrder
<1> QED BY <1>1, EpochInvHolds, PTL

(* Both at once: epochs are settled in order.                              *)
THEOREM EpochsSettleInOrder == Spec => []EpochsInOrder
BY EpochsFinalizeInOrder, AbortedEpochsAreRetried, PTL DEF EpochsInOrder

(* An epoch is marked published only after the downstream accepted its     *)
(* frozen report, however many publishers race and whatever answer is lost.*)
THEOREM PublishedOnlyIfAccepted == Spec => []PublishedWasAccepted
<1>1. EpochInv => PublishedWasAccepted
  BY DEF EpochInv, PostsOK
<1> QED BY <1>1, EpochInvHolds, PTL
-----------------------------------------------------------------------------
(* Customer jobs and challenges.                                           *)

Attempt(j, a) == challenges[<<"job", j, a>>]

RowsOK ==
    /\ now \in 0 .. MaxTime
    /\ challenges \in [ChallengeIds -> ChallengeRow]
    /\ jobs \in [Jobs -> JobRow]

(* What keeps the queue and the challenges in step: a leased job's current *)
(* attempt is issued, for its owner and in a running epoch; no other       *)
(* attempt of a job is issued, none beyond the current one exists, and one *)
(* that is verified belongs to a job that has succeeded.                   *)
JobOK(j) ==
    /\ jobs[j].status = "absent" => jobs[j].attempt_count = 0
    /\ jobs[j].status = "leased" =>
           /\ jobs[j].attempt_count \in 1 .. MaxAttempts
           /\ Attempt(j, jobs[j].attempt_count).status = "issued"
           /\ Attempt(j, jobs[j].attempt_count).hotkey = jobs[j].lease_owner
           /\ Attempt(j, jobs[j].attempt_count).epoch_id = jobs[j].lease_epoch_id
           /\ jobs[j].lease_epoch_id \in WithStatus({"running"})
    /\ \A a \in 1 .. MaxAttempts :
           /\ Attempt(j, a).status = "issued" =>
                  jobs[j].status = "leased" /\ jobs[j].attempt_count = a
           /\ Attempt(j, a).status = "verified" =>
                  /\ jobs[j].status \in {"succeeded", "pruned"}
                  /\ \A b \in 1 .. MaxAttempts :
                         b # a => Attempt(j, b).status # "verified"
           /\ a > jobs[j].attempt_count /\ jobs[j].status # "pruned" =>
                  Attempt(j, a).status = "absent"

JobsOK == \A j \in Jobs : JobOK(j)

(* A challenge is issued once, in a running epoch, and settled once.       *)
ChallengeMove(c) ==
    \/ challenges'[c] = challenges[c]
    \/ /\ challenges[c].status = "absent" /\ challenges'[c].status = "issued"
       /\ challenges'[c].epoch_id \in WithStatus({"running"})
       /\ challenges'[c].hotkey \in Hotkeys
    \/ /\ challenges[c].status = "issued"
       /\ challenges'[c].status \in {"verified", "failed", "abandoned"}
       /\ challenges'[c].epoch_id = challenges[c].epoch_id
       /\ challenges'[c].hotkey = challenges[c].hotkey

(* A job stays as it is, leaves its lease or moves on without one, or is   *)
(* leased for its next attempt.                                            *)
JobStays(j) ==
    /\ jobs'[j] = jobs[j]
    /\ \A a \in 1 .. MaxAttempts : Attempt(j, a)' = Attempt(j, a)
    /\ jobs[j].status = "leased" =>
           jobs[j].lease_epoch_id \in WithStatus({"running"})'

JobUnleased(j) ==
    /\ jobs[j].status \notin {"pruned", "absent"} \/ jobs'[j].attempt_count = 0
    /\ jobs'[j].status \in {"queued", "failed", "succeeded", "pruned"}
    /\ jobs[j].status \in {"succeeded", "pruned"} => jobs'[j].status = "pruned"
    /\ jobs'[j].status # "pruned" => jobs'[j].attempt_count = jobs[j].attempt_count
    /\ \A a \in 1 .. MaxAttempts :
           \/ Attempt(j, a).status # "issued" /\ Attempt(j, a)' = Attempt(j, a)
           \/ /\ Attempt(j, a).status = "issued"
              /\ Attempt(j, a)'.status \in {"verified", "failed", "abandoned"}
              /\ Attempt(j, a)'.status = "verified" => jobs'[j].status = "succeeded"

JobLeased(j) == \E n \in 1 .. MaxAttempts :
    /\ jobs[j].status \in {"queued", "leased"} /\ jobs'[j].status = "leased"
    /\ n = jobs[j].attempt_count + 1 /\ jobs'[j].attempt_count = n
    /\ jobs'[j].lease_epoch_id \in WithStatus({"running"})'
    /\ Attempt(j, n)'.status = "issued"
    /\ Attempt(j, n)'.hotkey = jobs'[j].lease_owner
    /\ Attempt(j, n)'.epoch_id = jobs'[j].lease_epoch_id
    /\ \A a \in 1 .. MaxAttempts : a # n =>
           \/ Attempt(j, a).status # "issued" /\ Attempt(j, a)' = Attempt(j, a)
           \/ Attempt(j, a).status = "issued" /\ Attempt(j, a)'.status = "abandoned"

JobMove(j) == JobStays(j) \/ JobUnleased(j) \/ JobLeased(j)

LEMMA JobOKKept ==
    ASSUME RowsOK, NEW j \in Jobs, JobOK(j), JobMove(j)
    PROVE  JobOK(j)'
<1>0. jobs[j].attempt_count \in Nat
    BY BoundsAssumption, SMTT(40) DEF RowsOK, JobRow, BoundsAssumption
<1>1. CASE JobStays(j)
  <2>1. JobOK(j)
      OBVIOUS
  <2> QED BY <1>1, <2>1, ZenonT(60) DEF JobStays, JobOK
<1>2. CASE JobUnleased(j)
  <2>1. ASSUME NEW a \in 1 .. MaxAttempts
        PROVE  /\ Attempt(j, a)'.status # "issued"
               /\ a > jobs'[j].attempt_count /\ jobs'[j].status # "pruned" =>
                      Attempt(j, a)'.status = "absent"
      BY <1>0, <1>2, BoundsAssumption DEF JobUnleased, JobOK, BoundsAssumption
  <2>2. ASSUME NEW a \in 1 .. MaxAttempts, Attempt(j, a)'.status = "verified"
        PROVE  /\ jobs'[j].status \in {"succeeded", "pruned"}
               /\ \A b \in 1 .. MaxAttempts :
                      b # a => Attempt(j, b)'.status # "verified"
      BY <1>2, <2>2, ZenonT(60) DEF JobUnleased, JobOK
  <2>3. jobs'[j].status \notin {"absent", "leased"}
      BY <1>2 DEF JobUnleased
  <2> QED BY <2>1, <2>2, <2>3 DEF JobOK
<1>3. CASE JobLeased(j)
  <2>1. PICK n \in 1 .. MaxAttempts :
            /\ jobs[j].status \in {"queued", "leased"} /\ jobs'[j].status = "leased"
            /\ n = jobs[j].attempt_count + 1 /\ jobs'[j].attempt_count = n
            /\ jobs'[j].lease_epoch_id \in WithStatus({"running"})'
            /\ Attempt(j, n)'.status = "issued"
            /\ Attempt(j, n)'.hotkey = jobs'[j].lease_owner
            /\ Attempt(j, n)'.epoch_id = jobs'[j].lease_epoch_id
            /\ \A a \in 1 .. MaxAttempts : a # n =>
                   \/ Attempt(j, a).status # "issued" /\ Attempt(j, a)' = Attempt(j, a)
                   \/ /\ Attempt(j, a).status = "issued"
                      /\ Attempt(j, a)'.status = "abandoned"
      BY <1>3 DEF JobLeased
  <2>2. ASSUME NEW a \in 1 .. MaxAttempts
        PROVE  /\ Attempt(j, a)'.status # "verified"
               /\ Attempt(j, a)'.status = "issued" => a = n
               /\ a > n => Attempt(j, a)'.status = "absent"
    <3>1. Attempt(j, a).status # "verified"
        BY <2>1 DEF JobOK
    <3>2. a > n => Attempt(j, a).status = "absent"
        BY <1>0, <2>1, BoundsAssumption, SMTT(40) DEF JobOK, BoundsAssumption
    <3>3. CASE a = n
        BY <2>1, <3>3, SMTT(40)
    <3>4. CASE a # n
        BY <2>1, <3>1, <3>2, <3>4
    <3> QED BY <3>3, <3>4
  <2> QED BY <2>1, <2>2 DEF JobOK
<1> QED BY <1>1, <1>2, <1>3 DEF JobMove

Moves ==
    /\ RowsOK'
    /\ \A c \in ChallengeIds : ChallengeMove(c)
    /\ \A j \in Jobs : JobMove(j)

LEMMA AttemptIds ==
    ASSUME NEW j \in Jobs, NEW a \in 1 .. MaxAttempts
    PROVE  <<"job", j, a>> \in ChallengeIds /\ <<"job", j, a>> \notin CanonicalIds
BY DEF ChallengeIds, CustomerIds, CanonicalIds

LEMMA QuietMoves ==
    ASSUME RowsOK, JobsOK, UNCHANGED <<challenges, jobs>>, now' \in 0 .. MaxTime,
           \A j \in Jobs : jobs[j].status = "leased" =>
               jobs[j].lease_epoch_id \in WithStatus({"running"})'
    PROVE  Moves
<1>1. RowsOK'
    BY DEF RowsOK
<1>2. \A j \in Jobs : JobStays(j)
    BY DEF JobStays, Attempt
<1> QED BY <1>1, <1>2 DEF Moves, ChallengeMove, JobMove

(* Epochs that neither begin nor end leave the leases in running epochs.   *)
LEMMA LeasesStand ==
    ASSUME RowsOK, JobsOK,
           \A e \in EpochIds : epochs[e].status = "running" => epochs'[e].status = "running"
    PROVE  \A j \in Jobs : jobs[j].status = "leased" =>
               jobs[j].lease_epoch_id \in WithStatus({"running"})'
BY DEF JobsOK, JobOK, WithStatus

(* Rows of jobs, as the methods write them.                                *)
LEMMA UnleasedRow ==
    ASSUME NEW row \in JobRow
    PROVE  /\ Unleased(row) \in JobRow
           /\ Unleased(row).status = row.status
           /\ Unleased(row).attempt_count = row.attempt_count
<1>1. 0 \in 0 .. (MaxTime + LeaseTime)
    BY BoundsAssumption, SMTT(40) DEF BoundsAssumption
<1> QED BY <1>1 DEF Unleased, JobRow

LEMMA QueuedRow ==
    ASSUME NEW row \in JobRow, NEW t \in 0 .. MaxTime
    PROVE  LET new == [row EXCEPT !.status = "queued", !.available_at = t]
           IN  /\ new \in JobRow /\ new.status = "queued"
               /\ new.attempt_count = row.attempt_count
BY DEF JobRow

LEMMA FailedRow ==
    ASSUME NEW row \in JobRow, NEW t \in 0 .. MaxTime
    PROVE  LET new == [row EXCEPT !.status = "failed", !.available_at = t,
                                  !.resolved_at = t]
               spent == [row EXCEPT !.status = "failed", !.resolved_at = t]
           IN  /\ new \in JobRow /\ new.status = "failed"
               /\ new.attempt_count = row.attempt_count
               /\ spent \in JobRow /\ spent.status = "failed"
               /\ spent.attempt_count = row.attempt_count
BY ZenonT(60) DEF JobRow

Leased(row, n, h, e, t) ==
    [row EXCEPT !.status = "leased", !.attempt_count = n, !.lease_owner = h,
                !.lease_epoch_id = e, !.lease_expires_at = t, !.resolved_at = 0]

LEMMA LeasedRow ==
    ASSUME NEW row \in JobRow, NEW n \in 0 .. MaxAttempts, NEW h \in Hotkeys,
           NEW e \in EpochIds, NEW t \in 0 .. (MaxTime + LeaseTime)
    PROVE  LET new == Leased(row, n, h, e, t)
           IN  /\ new \in JobRow /\ new.status = "leased" /\ new.attempt_count = n
               /\ new.lease_owner = h /\ new.lease_epoch_id = e
<1>1. 0 \in 0 .. MaxTime
    BY BoundsAssumption, SMTT(40) DEF BoundsAssumption
<1> QED BY <1>1, ZenonT(60) DEF JobRow, Leased

NewJob(customer, key, payload, t) ==
    [NoJob EXCEPT !.status = "queued", !.customer_id = customer,
                  !.idempotency_key = key, !.payload = payload,
                  !.submitted_at = t, !.available_at = t]

LEMMA NewJobRow ==
    ASSUME NEW customer \in Customers, NEW key \in Keys \cup {None},
           NEW payload \in Payloads, NEW t \in 0 .. MaxTime
    PROVE  /\ NewJob(customer, key, payload, t) \in JobRow
           /\ NewJob(customer, key, payload, t).status = "queued"
           /\ NewJob(customer, key, payload, t).attempt_count = 0
<1>1. /\ 0 \in 0 .. MaxTime /\ 0 \in 0 .. (MaxTime + LeaseTime)
      /\ 0 \in 0 .. MaxAttempts /\ 0 \in 0 .. MaxResultBytes
    BY BoundsAssumption, SMTT(40) DEF BoundsAssumption
<1> QED BY <1>1 DEF JobRow, NoJob, NewJob

LEMMA PrunedRow ==
    LET gone == [NoJob EXCEPT !.status = "pruned"]
    IN  gone \in JobRow /\ gone.status = "pruned" /\ gone.attempt_count = 0
<1>1. /\ 0 \in 0 .. MaxTime /\ 0 \in 0 .. (MaxTime + LeaseTime)
      /\ 0 \in 0 .. MaxAttempts /\ 0 \in 0 .. MaxResultBytes
    BY BoundsAssumption, SMTT(40) DEF BoundsAssumption
<1> QED BY <1>1 DEF JobRow, NoJob

LEMMA AbandonedRows ==
    ASSUME RowsOK, NEW S
    PROVE  /\ Abandon(S) \in [ChallengeIds -> ChallengeRow]
           /\ \A c \in ChallengeIds :
                  IF c \in S /\ challenges[c].status = "issued"
                  THEN /\ Abandon(S)[c].status = "abandoned"
                       /\ Abandon(S)[c].epoch_id = challenges[c].epoch_id
                       /\ Abandon(S)[c].hotkey = challenges[c].hotkey
                  ELSE Abandon(S)[c] = challenges[c]
<1>1. ASSUME NEW c \in ChallengeIds
      PROVE  LET new == [challenges[c] EXCEPT !.status = "abandoned", !.work_units = 0]
             IN  /\ new \in ChallengeRow /\ new.status = "abandoned"
                 /\ new.epoch_id = challenges[c].epoch_id
                 /\ new.hotkey = challenges[c].hotkey
    BY DEF RowsOK, ChallengeRow
<1> QED BY <1>1 DEF Abandon, RowsOK

LEMMA IssueMoves ==
    ASSUME RowsOK, JobsOK, NEW e \in EpochIds, NEW h \in Hotkeys, IssueChallenge(e, h)
    PROVE  Moves
<1> DEFINE id == <<"sat", e, h>>
           row == [status |-> "issued", epoch_id |-> e, hotkey |-> h, work_units |-> 0]
<1>1. /\ id \in ChallengeIds /\ id \in CanonicalIds
      /\ row \in ChallengeRow /\ row.status = "issued"
      /\ row.epoch_id = e /\ row.hotkey = h
    BY DEF ChallengeIds, CanonicalIds, ChallengeRow
<1>2. /\ e \in WithStatus({"running"}) /\ challenges[id].status = "absent"
      /\ challenges' = [challenges EXCEPT ![id] = row]
      /\ UNCHANGED <<now, epochs, jobs>>
    BY DEF IssueChallenge, Running, WithStatus, epochVars
<1> HIDE DEF id, row
<1>3. /\ challenges' \in [ChallengeIds -> ChallengeRow]
      /\ \A c \in ChallengeIds : c # id => challenges'[c] = challenges[c]
      /\ challenges'[id] = row
    BY <1>1, <1>2 DEF RowsOK
<1>4. RowsOK'
    BY <1>2, <1>3 DEF RowsOK
<1>5. \A c \in ChallengeIds : ChallengeMove(c)
    BY <1>1, <1>2, <1>3 DEF ChallengeMove
<1>6. ASSUME NEW j \in Jobs PROVE JobStays(j)
  <2>1. \A a \in 1 .. MaxAttempts : Attempt(j, a)' = Attempt(j, a)
      BY <1>1, <1>3, AttemptIds DEF Attempt
  <2> QED BY <1>2, <2>1, LeasesStand DEF JobStays
<1> QED BY <1>4, <1>5, <1>6 DEF Moves, JobMove

(* What a resolution leaves of its challenge.                              *)
LEMMA ResolvedRows ==
    ASSUME RowsOK, NEW c \in ChallengeIds, NEW status \in {"verified", "failed"},
           NEW units \in Units \cup {0}, Resolvable(c)
    PROVE  /\ Resolved(c, status, units) \in [ChallengeIds -> ChallengeRow]
           /\ \A d \in ChallengeIds : d # c =>
                  Resolved(c, status, units)[d] = challenges[d]
           /\ LET new == Resolved(c, status, units)[c]
              IN  /\ new.status = status /\ new.work_units = units
                  /\ new.epoch_id = challenges[c].epoch_id
                  /\ new.hotkey = challenges[c].hotkey
<1> DEFINE a == [challenges[c] EXCEPT !.status = status]
           row == [a EXCEPT !.work_units = units]
<1>1. /\ a \in ChallengeRow /\ a.status = status
      /\ a.epoch_id = challenges[c].epoch_id /\ a.hotkey = challenges[c].hotkey
    BY DEF RowsOK, ChallengeRow
<1>2. /\ row \in ChallengeRow /\ row.status = status /\ row.work_units = units
      /\ row.epoch_id = challenges[c].epoch_id /\ row.hotkey = challenges[c].hotkey
  <2> HIDE DEF a
  <2> QED BY <1>1 DEF ChallengeRow
<1>3. Resolved(c, status, units) = [challenges EXCEPT ![c] = row]
    BY DEF Resolved, RowsOK
<1> HIDE DEF row
<1> QED BY <1>2, <1>3 DEF RowsOK

LEMMA CanonicalMoves ==
    ASSUME RowsOK, JobsOK, NEW c \in CanonicalIds, NEW status \in {"verified", "failed"},
           NEW units \in Units \cup {0}, NEW snapshot,
           ResolveCanonical(c, status, units, snapshot)
    PROVE  Moves
<1>1. /\ c \in ChallengeIds /\ Resolvable(c) /\ challenges[c].status = "issued"
      /\ challenges' = Resolved(c, status, units) /\ UNCHANGED <<now, epochs, jobs>>
    BY DEF ChallengeIds, ResolveCanonical, Resolvable, epochVars
<1>2. /\ challenges' \in [ChallengeIds -> ChallengeRow]
      /\ \A d \in ChallengeIds : d # c => challenges'[d] = challenges[d]
      /\ challenges'[c].status = status
      /\ challenges'[c].epoch_id = challenges[c].epoch_id
      /\ challenges'[c].hotkey = challenges[c].hotkey
    BY <1>1, ResolvedRows, SMTT(40)
<1>3. RowsOK'
    BY <1>1, <1>2 DEF RowsOK
<1>4. \A d \in ChallengeIds : ChallengeMove(d)
    BY <1>1, <1>2 DEF ChallengeMove
<1>5. ASSUME NEW j \in Jobs PROVE JobStays(j)
  <2>1. \A a \in 1 .. MaxAttempts : Attempt(j, a)' = Attempt(j, a)
      BY <1>2, AttemptIds DEF Attempt
  <2> QED BY <1>1, <2>1, LeasesStand DEF JobStays
<1> QED BY <1>3, <1>4, <1>5 DEF Moves, JobMove

LEMMA EnqueueMoves ==
    ASSUME RowsOK, JobsOK, NEW j \in Jobs, NEW customer \in Customers,
           NEW key \in Keys \cup {None}, NEW payload \in Payloads,
           EnqueueCustomerJob(j, customer, key, payload)
    PROVE  Moves
<1> DEFINE row == NewJob(customer, key, payload, now)
<1>0. now \in 0 .. MaxTime
    BY DEF RowsOK
<1>1. row \in JobRow /\ row.status = "queued" /\ row.attempt_count = 0
    BY <1>0, NewJobRow
<1>2. /\ jobs[j].status = "absent" /\ jobs' = [jobs EXCEPT ![j] = row]
      /\ UNCHANGED <<now, epochs, challenges>>
    BY DEF EnqueueCustomerJob, epochVars, NewJob
<1> HIDE DEF row
<1>3. /\ jobs' \in [Jobs -> JobRow] /\ jobs'[j] = row
      /\ \A i \in Jobs : i # j => jobs'[i] = jobs[i]
    BY <1>1, <1>2 DEF RowsOK
<1>4. RowsOK' /\ \A c \in ChallengeIds : ChallengeMove(c)
    BY <1>2, <1>3 DEF RowsOK, ChallengeMove
<1>5. ASSUME NEW i \in Jobs PROVE JobMove(i)
  <2>1. \A a \in 1 .. MaxAttempts : Attempt(i, a)' = Attempt(i, a)
      BY <1>2 DEF Attempt
  <2>2. CASE i # j
      BY <1>2, <1>3, <2>1, <2>2, LeasesStand DEF JobStays, JobMove
  <2>3. CASE i = j
    <3>1. /\ jobs[j].attempt_count = 0
          /\ \A a \in 1 .. MaxAttempts : Attempt(j, a).status # "issued"
        BY <1>2 DEF JobsOK, JobOK
    <3> QED BY <1>1, <1>2, <1>3, <2>1, <2>3, <3>1 DEF JobUnleased, JobMove
  <2> QED BY <2>2, <2>3
<1> QED BY <1>4, <1>5 DEF Moves

LEMMA PruneMoves ==
    ASSUME RowsOK, JobsOK, NEW before, NEW customer, NEW deleted \in SUBSET Jobs,
           PruneCustomerJobs(before, customer, deleted)
    PROVE  Moves
<1> DEFINE gone == [NoJob EXCEPT !.status = "pruned"]
<1>1. gone \in JobRow /\ gone.status = "pruned" /\ gone.attempt_count = 0
    BY PrunedRow
<1>2. /\ \A j \in deleted : jobs[j].status \in {"succeeded", "failed"}
      /\ jobs' = [j \in Jobs |-> IF j \in deleted THEN gone ELSE jobs[j]]
      /\ UNCHANGED <<now, epochs, challenges>>
    BY DEF PruneCustomerJobs, epochVars
<1> HIDE DEF gone
<1>3. /\ jobs' \in [Jobs -> JobRow]
      /\ \A j \in Jobs : jobs'[j] = IF j \in deleted THEN gone ELSE jobs[j]
    BY <1>1, <1>2 DEF RowsOK
<1>4. RowsOK' /\ \A c \in ChallengeIds : ChallengeMove(c)
    BY <1>2, <1>3 DEF RowsOK, ChallengeMove
<1>5. ASSUME NEW i \in Jobs PROVE JobMove(i)
  <2>1. \A a \in 1 .. MaxAttempts : Attempt(i, a)' = Attempt(i, a)
      BY <1>2 DEF Attempt
  <2>2. CASE i \notin deleted
      BY <1>2, <1>3, <2>1, <2>2, LeasesStand DEF JobStays, JobMove
  <2>3. CASE i \in deleted
    <3>1. \A a \in 1 .. MaxAttempts : Attempt(i, a).status # "issued"
        BY <1>2, <2>3 DEF JobsOK, JobOK
    <3> QED BY <1>1, <1>2, <1>3, <2>1, <2>3, <3>1 DEF JobUnleased, JobMove
  <2> QED BY <2>2, <2>3
<1> QED BY <1>4, <1>5 DEF Moves

(* Leases of the epoch go back to the queue with their attempt abandoned;  *)
(* every other lease is of another epoch.                                  *)
LEMMA AbortMoves ==
    ASSUME EpochsOK, RowsOK, JobsOK, NEW e \in EpochIds, AbortEpoch(e)
    PROVE  Moves
<1> DEFINE leased == {j \in Jobs : jobs[j].status = "leased" /\ jobs[j].lease_epoch_id = e}
           S == {LeaseChallenge(j) : j \in leased}
           back(j) == [Unleased(jobs[j]) EXCEPT !.status = "queued", !.available_at = now]
<1>1. /\ challenges' = Abandon(S)
      /\ jobs' = [j \in Jobs |-> IF j \in leased THEN back(j) ELSE jobs[j]]
      /\ epochs' = [epochs EXCEPT ![e].status = "aborted"] /\ now' = now
    BY DEF AbortEpoch
<1>2. ASSUME NEW j \in Jobs
      PROVE  /\ back(j) \in JobRow /\ back(j).status = "queued"
             /\ back(j).attempt_count = jobs[j].attempt_count
  <2>1. now \in 0 .. MaxTime /\ jobs[j] \in JobRow
      BY DEF RowsOK
  <2> QED BY <2>1, UnleasedRow, QueuedRow, ZenonT(60)
<1>3. ASSUME NEW j \in Jobs, NEW a \in 1 .. MaxAttempts
      PROVE  <<"job", j, a>> \in S <=> j \in leased /\ a = jobs[j].attempt_count
    BY DEF LeaseChallenge
<1>4. \A f \in EpochIds : f # e /\ epochs[f].status = "running" => epochs'[f].status = "running"
    BY <1>1 DEF EpochsOK
<1> HIDE DEF S, back
<1>5. /\ challenges' \in [ChallengeIds -> ChallengeRow]
      /\ \A c \in ChallengeIds :
             IF c \in S /\ challenges[c].status = "issued"
             THEN /\ challenges'[c].status = "abandoned"
                  /\ challenges'[c].epoch_id = challenges[c].epoch_id
                  /\ challenges'[c].hotkey = challenges[c].hotkey
             ELSE challenges'[c] = challenges[c]
    BY <1>1, AbandonedRows
<1>6. /\ jobs' \in [Jobs -> JobRow]
      /\ \A j \in Jobs : jobs'[j] = IF j \in leased THEN back(j) ELSE jobs[j]
    BY <1>1, <1>2 DEF RowsOK
<1>7. RowsOK' /\ \A c \in ChallengeIds : ChallengeMove(c)
    BY <1>1, <1>5, <1>6 DEF RowsOK, ChallengeMove
<1>8. ASSUME NEW j \in Jobs PROVE JobMove(j)
  <2>0. JobOK(j) /\ \A a \in 1 .. MaxAttempts : <<"job", j, a>> \in ChallengeIds
      BY AttemptIds DEF JobsOK
  <2>1. CASE j \notin leased
    <3>1. \A a \in 1 .. MaxAttempts : Attempt(j, a)' = Attempt(j, a)
        BY <1>3, <1>5, <2>0, <2>1 DEF Attempt
    <3>2. jobs[j].status = "leased" =>
              jobs[j].lease_epoch_id \in WithStatus({"running"})'
        BY <1>4, <2>0, <2>1 DEF JobOK, WithStatus
    <3> QED BY <1>6, <2>1, <3>1, <3>2 DEF JobMove, JobStays
  <2>2. CASE j \in leased
    <3>1. /\ jobs'[j].status = "queued" /\ jobs[j].status = "leased"
          /\ jobs'[j].attempt_count = jobs[j].attempt_count
        BY <1>2, <1>6, <2>2
    <3>2. ASSUME NEW a \in 1 .. MaxAttempts
          PROVE  \/ Attempt(j, a).status # "issued" /\ Attempt(j, a)' = Attempt(j, a)
                 \/ /\ Attempt(j, a).status = "issued"
                    /\ Attempt(j, a)'.status = "abandoned"
      <4>1. Attempt(j, a).status = "issued" => a = jobs[j].attempt_count
          BY <2>0 DEF JobOK
      <4> QED BY <1>3, <1>5, <2>0, <2>2, <4>1 DEF Attempt
    <3> QED BY <3>1, <3>2 DEF JobMove, JobUnleased
  <2> QED BY <2>1, <2>2
<1> QED BY <1>7, <1>8 DEF Moves

(* A late answer finds its lease gone; the current one settles its attempt *)
(* and its job together.                                                   *)
LEMMA CustomerMoves ==
    ASSUME RowsOK, JobsOK, NEW j \in Jobs, NEW a \in 1 .. MaxAttempts,
           NEW status \in {"verified", "failed"}, NEW units \in Units \cup {0},
           NEW snapshot, NEW disposition \in {"succeeded", "retry", "failed"},
           NEW result \in 0 .. MaxResultBytes,
           ResolveCustomer(j, a, status, units, snapshot, disposition, result)
    PROVE  Moves
<1> DEFINE c == <<"job", j, a>>
           row == JobAfter(j, a, disposition, result)
<1>1. /\ c \in ChallengeIds /\ Resolvable(c) /\ challenges[c].status = "issued"
      /\ jobs[j].status = "leased" /\ jobs[j].attempt_count = a
      /\ (status = "verified") = (disposition = "succeeded")
      /\ challenges' = Resolved(c, status, units)
      /\ jobs' = [jobs EXCEPT ![j] = row] /\ UNCHANGED <<now, epochs>>
    BY AttemptIds DEF ResolveCustomer, Resolvable, CurrentLease, epochVars
<1>2. /\ challenges' \in [ChallengeIds -> ChallengeRow]
      /\ \A d \in ChallengeIds : d # c => challenges'[d] = challenges[d]
      /\ challenges'[c].status = status
      /\ challenges'[c].epoch_id = challenges[c].epoch_id
      /\ challenges'[c].hotkey = challenges[c].hotkey
    BY <1>1, ResolvedRows, SMTT(40)
<1>3. /\ row \in JobRow /\ row.attempt_count = jobs[j].attempt_count
      /\ row.status \in {"queued", "failed", "succeeded"}
      /\ disposition = "succeeded" => row.status = "succeeded"
  <2> DEFINE final == CASE disposition = "succeeded" -> "succeeded"
                        [] disposition = "retry" /\ a < MaxAttempts -> "queued"
                        [] OTHER -> "failed"
             until == IF final = "queued" THEN 0 ELSE now
             free == Unleased(jobs[j])
  <2>1. /\ final \in {"queued", "failed", "succeeded"}
        /\ disposition = "succeeded" => final = "succeeded"
      OBVIOUS
  <2>2. now \in 0 .. MaxTime /\ until \in 0 .. MaxTime
      BY BoundsAssumption, SMTT(40) DEF RowsOK, BoundsAssumption
  <2>3. free \in JobRow /\ free.attempt_count = jobs[j].attempt_count
      BY UnleasedRow DEF RowsOK
  <2>4. row = [free EXCEPT !.status = final, !.available_at = now,
                           !.resolved_at = until, !.result_bytes = result]
      BY DEF JobAfter
  <2> DEFINE r == [free EXCEPT !.status = final, !.available_at = now]
  <2> HIDE DEF final, until, free
  <2>5. r \in JobRow /\ r.attempt_count = jobs[j].attempt_count /\ r.status = final
      BY <2>1, <2>2, <2>3, ZenonT(60) DEF JobRow
  <2>6. row = [r EXCEPT !.resolved_at = until, !.result_bytes = result]
      BY <2>4
  <2> HIDE DEF r
  <2>7. row \in JobRow /\ row.attempt_count = jobs[j].attempt_count /\ row.status = final
      BY <2>2, <2>5, <2>6, ZenonT(60) DEF JobRow
  <2> QED BY <2>1, <2>7
<1> HIDE DEF c, row
<1>4. /\ jobs' \in [Jobs -> JobRow] /\ jobs'[j] = row
      /\ \A i \in Jobs : i # j => jobs'[i] = jobs[i]
    BY <1>1, <1>3 DEF RowsOK
<1>5. RowsOK' /\ \A d \in ChallengeIds : ChallengeMove(d)
    BY <1>1, <1>2, <1>4 DEF RowsOK, ChallengeMove
<1>6. ASSUME NEW i \in Jobs, NEW b \in 1 .. MaxAttempts, i # j \/ b # a
      PROVE  Attempt(i, b)' = Attempt(i, b)
  <2>1. <<"job", i, b>> # c /\ <<"job", i, b>> \in ChallengeIds
      BY <1>6, AttemptIds DEF c
  <2> QED BY <1>2, <2>1 DEF Attempt
<1>7. ASSUME NEW i \in Jobs PROVE JobMove(i)
  <2>1. CASE i # j
      BY <1>1, <1>4, <1>6, <2>1, LeasesStand DEF JobStays, JobMove
  <2>2. CASE i = j
    <3>1. \A b \in 1 .. MaxAttempts : b # a => Attempt(j, b).status # "issued"
        BY <1>1 DEF JobsOK, JobOK
    <3>2. Attempt(j, a).status = "issued" /\ Attempt(j, a)'.status = status
        BY <1>1, <1>2 DEF Attempt, c
    <3>3. \A b \in 1 .. MaxAttempts :
              \/ Attempt(j, b).status # "issued" /\ Attempt(j, b)' = Attempt(j, b)
              \/ /\ Attempt(j, b).status = "issued"
                 /\ Attempt(j, b)'.status \in {"verified", "failed", "abandoned"}
                 /\ Attempt(j, b)'.status = "verified" => jobs'[j].status = "succeeded"
        BY <1>1, <1>3, <1>4, <1>6, <3>1, <3>2
    <3>4. jobs'[j].status \in {"queued", "failed", "succeeded"}
          /\ jobs'[j].attempt_count = jobs[j].attempt_count
        BY <1>3, <1>4
    <3> QED BY <1>1, <2>2, <3>3, <3>4 DEF JobUnleased, JobMove
  <2> QED BY <2>1, <2>2
<1> QED BY <1>5, <1>7 DEF Moves

(* A reclaimed job keeps its attempts: an expired lease goes back to the   *)
(* queue or fails, a queued job that is out of attempts fails.             *)
LEMMA ReclaimedRow ==
    ASSUME RowsOK, NEW j \in Jobs
    PROVE  /\ Reclaimed(j) \in JobRow
           /\ Reclaimed(j).attempt_count = jobs[j].attempt_count
           /\ j \in Expired =>
                  jobs[j].status = "leased" /\ Reclaimed(j).status \in {"queued", "failed"}
           /\ j \notin Expired =>
                  \/ Reclaimed(j) = jobs[j]
                  \/ jobs[j].status = "queued" /\ Reclaimed(j).status = "failed"
<1> DEFINE free == Unleased(jobs[j])
           back == [free EXCEPT !.status = "queued", !.available_at = now]
           over == [free EXCEPT !.status = "failed", !.available_at = now,
                                !.resolved_at = now]
           spent == [jobs[j] EXCEPT !.status = "failed", !.resolved_at = now]
<1>1. now \in 0 .. MaxTime /\ jobs[j] \in JobRow
    BY DEF RowsOK
<1>2. free \in JobRow /\ free.attempt_count = jobs[j].attempt_count
    BY <1>1, UnleasedRow
<1> HIDE DEF free
<1>3. back \in JobRow /\ back.status = "queued" /\ back.attempt_count = jobs[j].attempt_count
    BY <1>1, <1>2, QueuedRow
<1>4. over \in JobRow /\ over.status = "failed" /\ over.attempt_count = jobs[j].attempt_count
    BY <1>1, <1>2, FailedRow
<1>5. spent \in JobRow /\ spent.status = "failed"
      /\ spent.attempt_count = jobs[j].attempt_count
    BY <1>1, FailedRow
<1>6. j \in Expired => jobs[j].status = "leased"
    BY DEF Expired
<1>7. \/ j \in Expired /\ Reclaimed(j) \in {back, over}
      \/ j \notin Expired /\ jobs[j].status = "queued" /\ Reclaimed(j) = spent
      \/ j \notin Expired /\ Reclaimed(j) = jobs[j]
  <2> DEFINE out == jobs[j].attempt_count >= MaxAttempts
  <2>0. Reclaimed(j) = CASE j \in Expired /\ ~out -> back
                         [] j \in Expired /\ out -> over
                         [] jobs[j].status = "queued" /\ out -> spent
                         [] OTHER -> jobs[j]
      BY DEF Reclaimed, free
  <2> HIDE DEF back, over, spent, out
  <2>1. CASE j \in Expired /\ ~out
      BY <2>0, <2>1
  <2>2. CASE j \in Expired /\ out
      BY <1>6, <2>0, <2>2
  <2>3. CASE j \notin Expired /\ jobs[j].status = "queued" /\ out
      BY <2>0, <2>3
  <2>4. CASE j \notin Expired /\ ~(jobs[j].status = "queued" /\ out)
      BY <2>0, <2>4
  <2> QED BY <2>1, <2>2, <2>3, <2>4
<1> HIDE DEF back, over, spent
<1> QED BY <1>1, <1>3, <1>4, <1>5, <1>6, <1>7

(* Expired leases lose their attempt, and the job claimed gets the next.   *)
LEMMA ClaimMoves ==
    ASSUME RowsOK, JobsOK, NEW e \in EpochIds, NEW h \in Hotkeys, ClaimCustomerJob(e, h)
    PROVE  Moves
<1> DEFINE S == {LeaseChallenge(i) : i \in Expired}
           abandoned == Abandon(S)
<1>1. /\ e \in WithStatus({"running"}) /\ UNCHANGED <<now, epochs>>
      /\ \/ \E j \in Jobs :
              /\ Claimable(j)
              /\ challenges' = [abandoned EXCEPT
                    ![<<"job", j, Reclaimed(j).attempt_count + 1>>] =
                      [status |-> "issued", epoch_id |-> e, hotkey |-> h, work_units |-> 0]]
              /\ jobs' = [i \in Jobs |->
                    IF i = j
                    THEN [Reclaimed(j) EXCEPT
                            !.status = "leased",
                            !.attempt_count = Reclaimed(j).attempt_count + 1,
                            !.lease_owner = h, !.lease_epoch_id = e,
                            !.lease_expires_at = now + LeaseTime, !.resolved_at = 0]
                    ELSE Reclaimed(i)]
         \/ challenges' = abandoned /\ jobs' = [j \in Jobs |-> Reclaimed(j)]
    BY DEF ClaimCustomerJob, Running, WithStatus, epochVars
<1>2. ASSUME NEW j \in Jobs, NEW a \in 1 .. MaxAttempts
      PROVE  <<"job", j, a>> \in S <=> j \in Expired /\ a = jobs[j].attempt_count
    BY DEF LeaseChallenge, Expired
<1> HIDE DEF S
<1>3. /\ abandoned \in [ChallengeIds -> ChallengeRow]
      /\ \A c \in ChallengeIds :
             IF c \in S /\ challenges[c].status = "issued"
             THEN /\ abandoned[c].status = "abandoned"
                  /\ abandoned[c].epoch_id = challenges[c].epoch_id
                  /\ abandoned[c].hotkey = challenges[c].hotkey
             ELSE abandoned[c] = challenges[c]
    BY AbandonedRows
<1> HIDE DEF abandoned
<1>4. ASSUME NEW i \in Jobs, NEW a \in 1 .. MaxAttempts
      PROVE  /\ <<"job", i, a>> \in ChallengeIds
             /\ IF i \in Expired /\ Attempt(i, a).status = "issued"
                THEN abandoned[<<"job", i, a>>].status = "abandoned"
                ELSE abandoned[<<"job", i, a>>] = Attempt(i, a)
  <2>1. JobOK(i)
      BY DEF JobsOK
  <2>2. Attempt(i, a).status = "issued" => a = jobs[i].attempt_count
      BY <2>1 DEF JobOK
  <2>3. <<"job", i, a>> \in ChallengeIds
      BY AttemptIds
  <2> QED BY <1>2, <1>3, <2>2, <2>3 DEF Attempt
<1>5. ASSUME NEW i \in Jobs, jobs'[i] = Reclaimed(i),
             \A a \in 1 .. MaxAttempts : Attempt(i, a)' = abandoned[<<"job", i, a>>]
      PROVE  JobMove(i)
  <2>0. JobOK(i)
      BY DEF JobsOK
  <2>1. CASE i \in Expired
    <3>1. /\ jobs[i].status = "leased" /\ jobs'[i].status \in {"queued", "failed"}
          /\ jobs'[i].attempt_count = jobs[i].attempt_count
        BY <1>5, <2>1, ReclaimedRow
    <3>2. \A a \in 1 .. MaxAttempts :
              \/ Attempt(i, a).status # "issued" /\ Attempt(i, a)' = Attempt(i, a)
              \/ Attempt(i, a).status = "issued" /\ Attempt(i, a)'.status = "abandoned"
        BY <1>4, <1>5, <2>1
    <3> QED BY <3>1, <3>2 DEF JobMove, JobUnleased
  <2>2. CASE i \notin Expired
    <3>1. \A a \in 1 .. MaxAttempts : Attempt(i, a)' = Attempt(i, a)
        BY <1>4, <1>5, <2>2
    <3>2. CASE Reclaimed(i) = jobs[i]
        BY <1>1, <1>5, <3>1, <3>2, LeasesStand DEF JobMove, JobStays
    <3>3. CASE jobs[i].status = "queued" /\ Reclaimed(i).status = "failed"
      <4>1. \A a \in 1 .. MaxAttempts : Attempt(i, a).status # "issued"
          BY <2>0, <3>3 DEF JobOK
      <4>2. jobs'[i].status = "failed" /\ jobs'[i].attempt_count = jobs[i].attempt_count
          BY <1>5, <3>3, ReclaimedRow
      <4> QED BY <3>1, <3>3, <4>1, <4>2 DEF JobMove, JobUnleased
    <3> QED BY <2>2, <3>2, <3>3, ReclaimedRow
  <2> QED BY <2>1, <2>2
<1>6. CASE challenges' = abandoned /\ jobs' = [j \in Jobs |-> Reclaimed(j)]
  <2>1. jobs' \in [Jobs -> JobRow] /\ \A j \in Jobs : jobs'[j] = Reclaimed(j)
      BY <1>6, ReclaimedRow
  <2>2. RowsOK' /\ \A c \in ChallengeIds : ChallengeMove(c)
      BY <1>1, <1>3, <1>6, <2>1 DEF RowsOK, ChallengeMove
  <2>3. \A i \in Jobs : \A a \in 1 .. MaxAttempts :
            Attempt(i, a)' = abandoned[<<"job", i, a>>]
      BY <1>6 DEF Attempt
  <2> QED BY <1>5, <2>1, <2>2, <2>3 DEF Moves
<1>7. ASSUME NEW j \in Jobs, Claimable(j),
             challenges' = [abandoned EXCEPT
                    ![<<"job", j, Reclaimed(j).attempt_count + 1>>] =
                      [status |-> "issued", epoch_id |-> e, hotkey |-> h, work_units |-> 0]],
             jobs' = [i \in Jobs |->
                    IF i = j
                    THEN [Reclaimed(j) EXCEPT
                            !.status = "leased",
                            !.attempt_count = Reclaimed(j).attempt_count + 1,
                            !.lease_owner = h, !.lease_epoch_id = e,
                            !.lease_expires_at = now + LeaseTime, !.resolved_at = 0]
                    ELSE Reclaimed(i)]
      PROVE  Moves
  <2>1. PICK n \in 1 .. MaxAttempts :
            /\ n = jobs[j].attempt_count + 1 /\ n = Reclaimed(j).attempt_count + 1
            /\ n \in 0 .. MaxAttempts /\ now + LeaseTime \in 0 .. (MaxTime + LeaseTime)
            /\ jobs[j].status \in {"queued", "leased"}
            /\ jobs[j].attempt_count \in Nat
    <3>1. /\ Reclaimed(j).attempt_count = jobs[j].attempt_count
          /\ Reclaimed(j).attempt_count < MaxAttempts
          /\ jobs[j].attempt_count \in Nat
        BY <1>7, ReclaimedRow, BoundsAssumption, SMTT(40)
           DEF Claimable, RowsOK, JobRow, BoundsAssumption
    <3>2. jobs[j].status \in {"queued", "leased"}
        BY <1>7, ReclaimedRow DEF Claimable
    <3>3. now + LeaseTime \in 0 .. (MaxTime + LeaseTime)
        BY BoundsAssumption, SMTT(40) DEF RowsOK, BoundsAssumption
    <3>4. /\ jobs[j].attempt_count + 1 \in 1 .. MaxAttempts
          /\ jobs[j].attempt_count + 1 \in 0 .. MaxAttempts
        BY <3>1, BoundsAssumption, SMTT(40) DEF BoundsAssumption
    <3> QED BY <3>1, <3>2, <3>3, <3>4
  <2> DEFINE c == <<"job", j, n>>
             new == [status |-> "issued", epoch_id |-> e, hotkey |-> h, work_units |-> 0]
             row == Leased(Reclaimed(j), n, h, e, now + LeaseTime)
  <2>2. /\ row \in JobRow /\ row.status = "leased" /\ row.attempt_count = n
        /\ row.lease_owner = h /\ row.lease_epoch_id = e
    <3>1. Reclaimed(j) \in JobRow
        BY ReclaimedRow
    <3> QED BY <2>1, <3>1, LeasedRow, SMTT(40)
  <2>3. /\ c \in ChallengeIds /\ new \in ChallengeRow /\ new.status = "issued"
        /\ new.epoch_id = e /\ new.hotkey = h
      BY <2>1, AttemptIds DEF ChallengeRow
  <2>4. jobs' = [i \in Jobs |-> IF i = j THEN row ELSE Reclaimed(i)]
        /\ challenges' = [abandoned EXCEPT ![c] = new]
      BY <1>7, <2>1 DEF Leased
  <2>5. Attempt(j, n).status = "absent"
      BY <2>1, BoundsAssumption, SMTT(40) DEF JobsOK, JobOK, BoundsAssumption
  <2>6. \A i \in Jobs : \A a \in 1 .. MaxAttempts :
            i # j \/ a # n => <<"job", i, a>> # c
      OBVIOUS
  <2>7. c = <<"job", j, n>>
      OBVIOUS
  <2> HIDE DEF c, new, row
  <2>8. /\ jobs' \in [Jobs -> JobRow] /\ jobs'[j] = row
        /\ \A i \in Jobs : i # j => jobs'[i] = Reclaimed(i)
      BY <2>2, <2>4, ReclaimedRow
  <2>9. /\ challenges' \in [ChallengeIds -> ChallengeRow] /\ challenges'[c] = new
        /\ \A d \in ChallengeIds : d # c => challenges'[d] = abandoned[d]
      BY <1>3, <2>3, <2>4
  <2>10. RowsOK'
      BY <1>1, <2>8, <2>9 DEF RowsOK
  <2>11. \A d \in ChallengeIds : ChallengeMove(d)
    <3>1. ChallengeMove(c)
        BY <1>1, <2>3, <2>5, <2>7, <2>9 DEF ChallengeMove, Attempt
    <3> QED BY <1>3, <2>9, <3>1, ZenonT(60) DEF ChallengeMove
  <2>12. \A i \in Jobs : \A a \in 1 .. MaxAttempts :
             i # j \/ a # n => Attempt(i, a)' = abandoned[<<"job", i, a>>]
      BY <1>4, <2>6, <2>9 DEF Attempt
  <2>13. ASSUME NEW i \in Jobs PROVE JobMove(i)
    <3>1. CASE i # j
        BY <1>5, <2>8, <2>12, <3>1
    <3>2. CASE i = j
      <4>1. /\ Attempt(j, n)'.status = "issued" /\ Attempt(j, n)'.hotkey = h
            /\ Attempt(j, n)'.epoch_id = e
          BY <2>3, <2>7, <2>9 DEF Attempt
      <4>2. ASSUME NEW a \in 1 .. MaxAttempts, a # n
            PROVE  \/ Attempt(j, a).status # "issued" /\ Attempt(j, a)' = Attempt(j, a)
                   \/ Attempt(j, a).status = "issued" /\ Attempt(j, a)'.status = "abandoned"
        <5>1. j \notin Expired => Attempt(j, a).status # "issued"
          <6>1. j \notin Expired => jobs[j].status # "leased"
              BY <1>7, ReclaimedRow DEF Claimable
          <6> QED BY <6>1, ZenonT(60) DEF JobsOK, JobOK
        <5> QED BY <1>4, <2>12, <4>2, <5>1
      <4>3. e \in WithStatus({"running"})'
          BY <1>1 DEF WithStatus
      <4> QED BY <2>1, <2>2, <2>8, <3>2, <4>1, <4>2, <4>3
                 DEF JobMove, JobLeased
    <3> QED BY <3>1, <3>2
  <2> QED BY <2>10, <2>11, <2>13 DEF Moves
<1> QED BY <1>1, <1>6, <1>7

LEMMA QuietEpochs ==
    ASSUME RowsOK, JobsOK, UNCHANGED <<now, epochs, challenges, jobs>>
    PROVE  Moves
<1>1. now' \in 0 .. MaxTime
    BY DEF RowsOK
<1> QED BY <1>1, LeasesStand, QuietMoves

LEMMA EpochStepMoves ==
    ASSUME EpochsOK, RowsOK, JobsOK, EpochStep
    PROVE  Moves
<1>0. now \in 0 .. MaxTime
    BY DEF RowsOK
<1>1. ASSUME NEW s \in SourceEpochs, NEW a \in Audiences \cup {None}, BeginEpoch(s, a)
      PROVE  Moves
  <2>1. EpochAdded /\ UNCHANGED <<now, challenges, jobs>>
      BY <1>1 DEF BeginEpoch, EpochAdded, Source
  <2>2. \A f \in EpochIds : epochs[f].status = "running" => epochs'[f].status = "running"
      BY <2>1, EpochAddedFields
  <2> QED BY <1>0, <2>1, <2>2, LeasesStand, QuietMoves
<1>2. ASSUME NEW e \in EpochIds, AbandonCompletedEpoch(e)
      PROVE  Moves
  <2>1. StatusSet(e, {"complete"}, "abandoned") /\ UNCHANGED <<now, challenges, jobs>>
      BY <1>2 DEF AbandonCompletedEpoch, StatusSet
  <2>2. \A f \in EpochIds : epochs[f].status = "running" => epochs'[f].status = "running"
      BY <2>1, StatusSetFields, ZenonT(60)
  <2> QED BY <1>0, <2>1, <2>2, LeasesStand, QuietMoves
<1>3. ASSUME NEW e \in EpochIds, NEW given \in SUBSET Hotkeys,
             NEW a \in Audiences \cup {None}, CompleteEpoch(e, given, a)
      PROVE  Moves
  <2>1. /\ StatusSet(e, {"running"}, "complete") /\ UNCHANGED <<now, challenges, jobs>>
        /\ \A c \in ChallengesOf(e) : challenges[c].status # "issued"
      BY <1>3 DEF CompleteEpoch, StatusSet, Running
  <2>2. \A f \in EpochIds : f # e /\ epochs[f].status = "running" =>
            epochs'[f].status = "running"
      BY <2>1, StatusSetFields, ZenonT(60)
  <2>3. ASSUME NEW j \in Jobs, jobs[j].status = "leased"
        PROVE  jobs[j].lease_epoch_id \in WithStatus({"running"})'
    <3>1. /\ jobs[j].attempt_count \in 1 .. MaxAttempts
          /\ Attempt(j, jobs[j].attempt_count).status = "issued"
          /\ Attempt(j, jobs[j].attempt_count).epoch_id = jobs[j].lease_epoch_id
          /\ jobs[j].lease_epoch_id \in EpochIds
          /\ epochs[jobs[j].lease_epoch_id].status = "running"
        BY <2>3 DEF JobsOK, JobOK, WithStatus
    <3>2. jobs[j].lease_epoch_id # e
        BY <2>1, <3>1, AttemptIds DEF ChallengesOf, Attempt
    <3> QED BY <2>2, <3>1, <3>2 DEF WithStatus
  <2> QED BY <1>0, <2>1, <2>3, QuietMoves
<1> QED BY <1>1, <1>2, <1>3, AbortMoves DEF EpochStep

LEMMA AllMoves ==
    ASSUME EpochsOK, RowsOK, JobsOK, [Next]_vars
    PROVE  Moves
<1>1. CASE Tick
  <2>1. now' \in 0 .. MaxTime /\ UNCHANGED <<epochs, challenges, jobs>>
      BY <1>1, BoundsAssumption, SMTT(40)
         DEF Tick, RowsOK, BoundsAssumption, epochVars
  <2> QED BY <2>1, LeasesStand, QuietMoves
<1>2. CASE EpochStep
    BY <1>2, EpochStepMoves
<1>3. CASE FactStep
  <2>1. ASSUME NEW e \in EpochIds, NEW h \in Hotkeys, NEW row,
               AddAttestation(e, h, row) \/ AddLifecycleSnapshot(e, h, row)
        PROVE  Moves
      BY <2>1, QuietEpochs DEF AddAttestation, AddLifecycleSnapshot, epochVars
  <2> QED BY <1>3, <2>1, IssueMoves DEF FactStep
<1>4. CASE ResolveStep
  <2>1. \A o \in Outcomes : o[1] \in {"verified", "failed"} /\ o[2] \in Units \cup {0}
      BY SMTT(40) DEF Outcomes
  <2>2. CASE ResolveCanonicalStep
    <3>1. PICK o \in Outcomes, snapshot \in Snapshots \cup {None}, c \in CanonicalIds :
              ResolveCanonical(c, o[1], o[2], snapshot)
        BY <2>2 DEF ResolveCanonicalStep
    <3> QED BY <2>1, <3>1, CanonicalMoves
  <2>3. CASE ResolveCustomerStep
    <3>1. PICK o \in Outcomes, snapshot \in Snapshots \cup {None}, j \in Jobs,
               a \in 1 .. MaxAttempts :
              \/ \E result \in ResultSizes :
                   ResolveCustomer(j, a, o[1], o[2], snapshot, "succeeded", result)
              \/ \E disposition \in {"retry", "failed"} :
                   ResolveCustomer(j, a, o[1], o[2], snapshot, disposition, 0)
        BY <2>3 DEF ResolveCustomerStep
    <3>2. 0 \in 0 .. MaxResultBytes /\ ResultSizes \subseteq 0 .. MaxResultBytes
        BY BoundsAssumption, SMTT(40) DEF BoundsAssumption
    <3>3. PICK disposition \in {"succeeded", "retry", "failed"}, result \in 0 .. MaxResultBytes :
              ResolveCustomer(j, a, o[1], o[2], snapshot, disposition, result)
        BY <3>1, <3>2
    <3> QED BY <2>1, <3>3, CustomerMoves
  <2> QED BY <1>4, <2>2, <2>3 DEF ResolveStep
<1>5. CASE JobStep
    BY <1>5, EnqueueMoves, PruneMoves, ClaimMoves DEF JobStep
<1>6. CASE PublishStep
  <2>1. ASSUME NEW p \in Publishers, MarkPublished(p)
        PROVE  Moves
    <3>1. /\ UNCHANGED <<now, challenges, jobs>>
          /\ epochs' = [epochs EXCEPT ![posts[p].epoch_id].status = "published"]
          /\ epochs[posts[p].epoch_id].status \in {"complete", "published"}
        BY <2>1 DEF MarkPublished
    <3>2. \A f \in EpochIds : epochs[f].status = "running" => epochs'[f].status = "running"
        BY <3>1 DEF EpochsOK
    <3>3. now' \in 0 .. MaxTime
        BY <3>1 DEF RowsOK
    <3> QED BY <3>1, <3>2, <3>3, LeasesStand, QuietMoves
  <2>2. ASSUME NEW p \in Publishers, NEW e \in EpochIds,
               \/ PostReport(p, e) \/ ReceiveAcknowledgement(p) \/ PostFails(p)
               \/ DownstreamAccepts(e)
        PROVE  Moves
      BY <2>2, QuietEpochs DEF PostReport, ReceiveAcknowledgement, PostFails,
         DownstreamAccepts, epochVars
  <2>3. ASSUME NEW p \in Publishers, ReceiveAcknowledgement(p) \/ PostFails(p)
        PROVE  Moves
      BY <2>3, QuietEpochs DEF ReceiveAcknowledgement, PostFails, epochVars
  <2>4. ASSUME NEW e \in EpochIds, DownstreamAccepts(e)
        PROVE  Moves
      BY <2>4, QuietEpochs DEF DownstreamAccepts, epochVars
  <2> QED BY <1>6, <2>1, <2>2, <2>3, <2>4 DEF PublishStep
<1>7. CASE ExportStep
    BY <1>7, QuietEpochs DEF ExportStep, RecordScoreClassExport, epochVars
<1>8. CASE UNCHANGED vars
    BY <1>8, QuietEpochs DEF vars
<1> QED BY <1>1, <1>2, <1>3, <1>4, <1>5, <1>6, <1>7, <1>8 DEF Next

LedgerInv == EpochInv /\ RowsOK /\ JobsOK

LEMMA LedgerInvHolds == Spec => []LedgerInv
<1>1. Init => RowsOK /\ JobsOK
  <2> SUFFICES ASSUME Init PROVE RowsOK /\ JobsOK
      OBVIOUS
  <2>1. NoChallenge \in ChallengeRow /\ NoChallenge.status = "absent"
      BY DEF NoChallenge, ChallengeRow
  <2>2. NoJob \in JobRow /\ NoJob.status = "absent" /\ NoJob.attempt_count = 0
    <3>1. /\ 0 \in 0 .. MaxTime /\ 0 \in 0 .. (MaxTime + LeaseTime)
          /\ 0 \in 0 .. MaxAttempts /\ 0 \in 0 .. MaxResultBytes
        BY BoundsAssumption, SMTT(40) DEF BoundsAssumption
    <3> QED BY <3>1 DEF JobRow, NoJob
  <2>3. RowsOK
      BY <2>1, <2>2, BoundsAssumption, SMTT(40)
         DEF Init, RowsOK, BoundsAssumption
  <2>4. \A j \in Jobs : jobs[j].status = "absent" /\ jobs[j].attempt_count = 0
      BY <2>2 DEF Init
  <2>5. \A j \in Jobs, a \in 1 .. MaxAttempts : Attempt(j, a).status = "absent"
      BY <2>1, AttemptIds DEF Init, Attempt
  <2> QED BY <2>3, <2>4, <2>5 DEF JobsOK, JobOK
<1>2. ASSUME EpochsOK, RowsOK, JobsOK, [Next]_vars
      PROVE  RowsOK' /\ JobsOK'
  <2>1. Moves
      BY <1>2, AllMoves
  <2> QED BY <1>2, <2>1, JobOKKept DEF Moves, JobsOK
<1>3. EpochInv => EpochsOK
    BY DEF EpochInv
<1> QED BY <1>1, <1>2, <1>3, EpochInvHolds, PTL DEF Spec, LedgerInv

(* Claim, resolve, reclaim and abort keep the customer_jobs table and the  *)
(* challenges in step: an issued attempt is a lease, and it is in a        *)
(* running epoch.                                                          *)
THEOREM LeasesMatchChallenges == Spec => []LeaseFence
<1>1. LedgerInv => LeaseFence
  <2> SUFFICES ASSUME LedgerInv, NEW j \in Jobs, NEW a \in 1 .. MaxAttempts
               PROVE  Attempt(j, a).status = "issued" <=>
                        /\ jobs[j].status = "leased"
                        /\ jobs[j].attempt_count = a
                        /\ Attempt(j, a).hotkey = jobs[j].lease_owner
                        /\ Attempt(j, a).epoch_id = jobs[j].lease_epoch_id
                        /\ Attempt(j, a).epoch_id \in WithStatus({"running"})
      BY DEF LeaseFence, Attempt
  <2>1. JobOK(j)
      BY DEF LedgerInv, JobsOK
  <2> QED BY <2>1 DEF JobOK
<1> QED BY <1>1, LedgerInvHolds, PTL

(* No second worker earns for a job: not after a late answer, a reclaimed  *)
(* lease or an aborted epoch.                                              *)
THEOREM OneCreditPerJob == Spec => []JobCreditedOnce
<1>1. LedgerInv => JobCreditedOnce
  <2> SUFFICES ASSUME LedgerInv, NEW j \in Jobs, NEW a \in 1 .. MaxAttempts,
                      Attempt(j, a).status = "verified"
               PROVE  /\ jobs[j].status \in {"succeeded", "pruned"}
                      /\ \A b \in 1 .. MaxAttempts :
                             b # a => Attempt(j, b).status # "verified"
      BY DEF JobCreditedOnce, Attempt
  <2>1. JobOK(j)
      BY DEF LedgerInv, JobsOK
  <2> QED BY <2>1 DEF JobOK
<1> QED BY <1>1, LedgerInvHolds, PTL
-----------------------------------------------------------------------------
(* The facts of an epoch and its report.                                   *)

FactsOK ==
    /\ attestations \in [EpochIds -> [Hotkeys -> AttestationRow \cup {None}]]
    /\ lifecycles \in [EpochIds -> [Hotkeys -> Snapshots \cup {None}]]
    /\ \A c \in ChallengeIds : challenges[c].status # "absent" =>
           challenges[c].epoch_id \in EpochIds /\ challenges[c].hotkey \in Hotkeys

(* The report complete_epoch freezes.                                      *)
ReportOf(e, given, audience) ==
    [source_epoch |-> epochs[e].source_epoch, audience |-> audience,
     universe |-> Universe(e, given), gated |-> GatedUnits(e)]

(* An epoch's facts change only while it runs, and it gets its report when *)
(* it completes.                                                           *)
FactsStay(e) ==
    /\ attestations'[e] = attestations[e] /\ lifecycles'[e] = lifecycles[e]
    /\ reports'[e] = reports[e]
    /\ epochs'[e].status \in Frozen => epochs[e].status \in Frozen

FactAdded(e) == Running(e) /\ epochs' = epochs /\ reports'[e] = reports[e]

ReportFrozen(e) ==
    /\ Running(e) /\ epochs'[e].status = "complete"
    /\ UNCHANGED <<challenges, attestations, lifecycles>>
    /\ \A c \in ChallengesOf(e) : challenges[c].status # "issued"
    /\ \E given \in SUBSET Hotkeys, a \in Audiences \cup {None} :
           reports'[e] = ReportOf(e, given, a)

FactMove(e) == FactsStay(e) \/ FactAdded(e) \/ ReportFrozen(e)

FactMoves ==
    /\ FactsOK'
    /\ DOMAIN reports' = EpochIds
    /\ \A e \in EpochIds : FactMove(e)

(* Challenges keep naming a worker and an epoch.                           *)
LEMMA FactsTyped ==
    ASSUME FactsOK, Moves,
           attestations' \in [EpochIds -> [Hotkeys -> AttestationRow \cup {None}]],
           lifecycles' \in [EpochIds -> [Hotkeys -> Snapshots \cup {None}]]
    PROVE  FactsOK'
<1>1. \A e \in WithStatus({"running"}) : e \in EpochIds
    BY DEF WithStatus
<1>2. ASSUME NEW c \in ChallengeIds, challenges'[c].status # "absent"
      PROVE  challenges'[c].epoch_id \in EpochIds /\ challenges'[c].hotkey \in Hotkeys
    BY <1>1, <1>2 DEF FactsOK, Moves, ChallengeMove
<1> QED BY <1>2 DEF FactsOK

LEMMA FactsQuiet ==
    ASSUME FactsOK, Moves, DOMAIN reports = EpochIds,
           UNCHANGED <<attestations, lifecycles, reports>>,
           \A e \in EpochIds : epochs'[e].status \in Frozen => epochs[e].status \in Frozen
    PROVE  FactMoves
<1>1. FactsOK'
    BY FactsTyped DEF FactsOK
<1> QED BY <1>1 DEF FactMoves, FactMove, FactsStay

LEMMA FactStepMoves ==
    ASSUME FactsOK, Moves, DOMAIN reports = EpochIds, FactStep
    PROVE  FactMoves
<1>1. ASSUME NEW e \in EpochIds, NEW h \in Hotkeys, IssueChallenge(e, h)
      PROVE  FactMoves
    BY <1>1, FactsQuiet DEF IssueChallenge, factVars, epochVars
<1>2. ASSUME NEW e \in EpochIds, NEW h \in Hotkeys, NEW row \in AttestationRow,
             AddAttestation(e, h, row)
      PROVE  FactMoves
  <2>1. /\ Running(e) /\ attestations' = [attestations EXCEPT ![e][h] = row]
        /\ UNCHANGED <<lifecycles, reports, epochs>>
      BY <1>2 DEF AddAttestation, epochVars
  <2>2. /\ attestations' \in [EpochIds -> [Hotkeys -> AttestationRow \cup {None}]]
        /\ \A f \in EpochIds : f # e => attestations'[f] = attestations[f]
      BY <2>1 DEF FactsOK
  <2>3. FactsOK'
      BY <2>1, <2>2, FactsTyped DEF FactsOK
  <2> QED BY <2>1, <2>2, <2>3 DEF FactMoves, FactMove, FactsStay, FactAdded
<1>3. ASSUME NEW e \in EpochIds, NEW h \in Hotkeys, NEW snapshot \in Snapshots,
             AddLifecycleSnapshot(e, h, snapshot)
      PROVE  FactMoves
  <2>1. /\ Running(e) /\ lifecycles' = [lifecycles EXCEPT ![e][h] = snapshot]
        /\ UNCHANGED <<attestations, reports, epochs>>
      BY <1>3 DEF AddLifecycleSnapshot, epochVars
  <2>2. /\ lifecycles' \in [EpochIds -> [Hotkeys -> Snapshots \cup {None}]]
        /\ \A f \in EpochIds : f # e => lifecycles'[f] = lifecycles[f]
      BY <2>1 DEF FactsOK
  <2>3. FactsOK'
      BY <2>1, <2>2, FactsTyped DEF FactsOK
  <2> QED BY <2>1, <2>2, <2>3 DEF FactMoves, FactMove, FactsStay, FactAdded
<1> QED BY <1>1, <1>2, <1>3 DEF FactStep

LEMMA EpochStepFacts ==
    ASSUME EpochsOK, FactsOK, Moves, DOMAIN reports = EpochIds, EpochStep
    PROVE  FactMoves
<1>1. ASSUME NEW s \in SourceEpochs, NEW a \in Audiences \cup {None}, BeginEpoch(s, a)
      PROVE  FactMoves
  <2>1. EpochAdded /\ UNCHANGED <<attestations, lifecycles, reports>>
      BY <1>1 DEF BeginEpoch, EpochAdded, Source, factVars
  <2>2. \A f \in EpochIds : epochs'[f].status \in Frozen => epochs[f].status \in Frozen
      BY <2>1, EpochAddedFields DEF Frozen
  <2> QED BY <2>1, <2>2, FactsQuiet
<1>2. ASSUME NEW e \in EpochIds, AbortEpoch(e)
      PROVE  FactMoves
  <2>1. /\ StatusSet(e, {"running"}, "aborted")
        /\ UNCHANGED <<attestations, lifecycles, reports>>
      BY <1>2 DEF AbortEpoch, StatusSet, Running, factVars
  <2>2. \A f \in EpochIds : epochs'[f].status \in Frozen => epochs[f].status \in Frozen
      BY <2>1, StatusSetFields, SMTT(40) DEF Frozen
  <2> QED BY <2>1, <2>2, FactsQuiet
<1>3. ASSUME NEW e \in EpochIds, AbandonCompletedEpoch(e)
      PROVE  FactMoves
  <2>1. /\ StatusSet(e, {"complete"}, "abandoned")
        /\ UNCHANGED <<attestations, lifecycles, reports>>
      BY <1>3 DEF AbandonCompletedEpoch, StatusSet, factVars
  <2>2. \A f \in EpochIds : epochs'[f].status \in Frozen => epochs[f].status \in Frozen
      BY <2>1, StatusSetFields, SMTT(40) DEF Frozen
  <2> QED BY <2>1, <2>2, FactsQuiet
<1>4. ASSUME NEW e \in EpochIds, NEW given \in SUBSET Hotkeys,
             NEW a \in Audiences \cup {None}, CompleteEpoch(e, given, a)
      PROVE  FactMoves
  <2>1. /\ StatusSet(e, {"running"}, "complete") /\ Running(e)
        /\ UNCHANGED <<challenges, attestations, lifecycles>>
        /\ \A c \in ChallengesOf(e) : challenges[c].status # "issued"
        /\ reports' = [reports EXCEPT ![e] = ReportOf(e, given, a)]
      BY <1>4 DEF CompleteEpoch, StatusSet, Running, factVars, ReportOf
  <2>2. /\ epochs'[e].status = "complete"
        /\ \A f \in EpochIds \ {e} : epochs'[f].status = epochs[f].status
      BY <2>1, StatusSetFields
  <2>3. /\ DOMAIN reports' = EpochIds /\ reports'[e] = ReportOf(e, given, a)
        /\ \A f \in EpochIds : f # e => reports'[f] = reports[f]
      BY <2>1
  <2>4. FactsOK'
      BY <2>1, FactsTyped DEF FactsOK
  <2>5. ReportFrozen(e)
      BY <2>1, <2>2, <2>3 DEF ReportFrozen
  <2>6. \A f \in EpochIds : f # e => FactsStay(f)
      BY <2>1, <2>2, <2>3 DEF FactsStay
  <2> QED BY <2>3, <2>4, <2>5, <2>6 DEF FactMoves, FactMove
<1> QED BY <1>1, <1>2, <1>3, <1>4 DEF EpochStep

LEMMA AllFactMoves ==
    ASSUME EpochsOK, FactsOK, Moves, DOMAIN reports = EpochIds, [Next]_vars
    PROVE  FactMoves
<1>1. ASSUME UNCHANGED <<attestations, lifecycles, reports, epochs>>
      PROVE  FactMoves
    BY <1>1, FactsQuiet
<1>2. CASE Tick \/ JobStep \/ ExportStep \/ UNCHANGED vars
  <2>1. UNCHANGED <<attestations, lifecycles, reports, epochs>>
      BY <1>2
         DEF Tick, JobStep, EnqueueCustomerJob, PruneCustomerJobs,
             ClaimCustomerJob, ExportStep, RecordScoreClassExport, vars,
             factVars, epochVars
  <2> QED BY <1>1, <2>1
<1>3. CASE ResolveStep
  <2>1. \A c, status, units, snapshot : ResolveCanonical(c, status, units, snapshot) =>
            UNCHANGED <<attestations, lifecycles, reports, epochs>>
      BY DEF ResolveCanonical, epochVars
  <2>2. ASSUME NEW j, NEW a, NEW status, NEW units, NEW snapshot, NEW disposition,
               NEW result,
               ResolveCustomer(j, a, status, units, snapshot, disposition, result)
        PROVE  UNCHANGED <<attestations, lifecycles, reports, epochs>>
      BY <2>2 DEF ResolveCustomer, epochVars
  <2>3. UNCHANGED <<attestations, lifecycles, reports, epochs>>
      BY <1>3, <2>1, <2>2
         DEF ResolveStep, ResolveCanonicalStep, ResolveCustomerStep
  <2> QED BY <1>1, <2>3
<1>4. CASE PublishStep
  <2>1. ASSUME NEW p \in Publishers, MarkPublished(p)
        PROVE  FactMoves
    <3>1. /\ UNCHANGED <<attestations, lifecycles, reports>>
          /\ epochs' = [epochs EXCEPT ![posts[p].epoch_id].status = "published"]
          /\ epochs[posts[p].epoch_id].status \in {"complete", "published"}
        BY <2>1 DEF MarkPublished, factVars
    <3>2. \A f \in EpochIds : epochs'[f].status \in Frozen => epochs[f].status \in Frozen
        BY <3>1 DEF EpochsOK, Frozen
    <3> QED BY <3>1, <3>2, FactsQuiet
  <2>2. ASSUME NEW p \in Publishers, ReceiveAcknowledgement(p) \/ PostFails(p)
        PROVE  FactMoves
      BY <2>2, <1>1 DEF ReceiveAcknowledgement, PostFails, factVars, epochVars
  <2>3. ASSUME NEW e \in EpochIds, DownstreamAccepts(e) \/ \E p \in Publishers : PostReport(p, e)
        PROVE  FactMoves
      BY <2>3, <1>1 DEF DownstreamAccepts, PostReport, factVars, epochVars
  <2> QED BY <1>4, <2>1, <2>2, <2>3 DEF PublishStep
<1> QED BY <1>2, <1>3, <1>4, FactStepMoves, EpochStepFacts DEF Next
-----------------------------------------------------------------------------
(* The report of a frozen epoch is what its rows still say.                *)
FrozenOK(e) ==
    IF epochs[e].status \in Frozen
    THEN /\ IsReport(reports[e])
         /\ reports[e].gated = GatedUnits(e)
         /\ Universe(e, {}) \subseteq reports[e].universe
         /\ \A c \in ChallengesOf(e) : challenges[c].status # "issued"
    ELSE reports[e] = None

(* Scores depend on nothing but the epoch's challenges and facts.          *)
LEMMA SameScores ==
    ASSUME NEW e \in EpochIds,
           ChallengesOf(e)' = ChallengesOf(e),
           \A c \in ChallengesOf(e) : challenges'[c] = challenges[c],
           attestations'[e] = attestations[e], lifecycles'[e] = lifecycles[e]
    PROVE  GatedUnits(e)' = GatedUnits(e) /\ Universe(e, {})' = Universe(e, {})
<1> DEFINE own(h) == {d \in ChallengesOf(e) : /\ challenges[d].hotkey = h
                                             /\ challenges[d].status = "verified"}
           own2(h) == {d \in ChallengesOf(e)' : /\ challenges'[d].hotkey = h
                                               /\ challenges'[d].status = "verified"}
<1>1. ASSUME NEW h \in Hotkeys PROVE CurrentWork(e, h)' = CurrentWork(e, h)
  <2>1. own2(h) = own(h) /\ own(h) \subseteq ChallengesOf(e)
      OBVIOUS
  <2>2. [c \in own2(h) |-> challenges'[c].work_units] =
            [c \in own(h) |-> challenges[c].work_units]
      BY <2>1
  <2>3. /\ CurrentWork(e, h) = SumFunction([c \in own(h) |-> challenges[c].work_units])
        /\ CurrentWork(e, h)' = SumFunction([c \in own2(h) |-> challenges'[c].work_units])
      BY DEF CurrentWork
  <2> QED BY <2>2, <2>3
<1>2. Attested(e)' = Attested(e)
    BY DEF Attested
<1>3. GatedUnits(e)' = GatedUnits(e)
  <2> HIDE DEF own, own2
  <2> QED BY <1>1, <1>2 DEF GatedUnits
<1>4. {challenges'[c].hotkey : c \in ChallengesOf(e)'} =
          {challenges[c].hotkey : c \in ChallengesOf(e)}
    OBVIOUS
<1>5. Universe(e, {})' = Universe(e, {})
    BY <1>4 DEF Universe
<1> QED BY <1>3, <1>5

(* A frozen epoch has no open challenge, so none of its challenges moves.  *)
LEMMA FrozenChallenges ==
    ASSUME Moves, NEW e \in EpochIds, epochs[e].status \in Frozen,
           \A c \in ChallengesOf(e) : challenges[c].status # "issued"
    PROVE  /\ ChallengesOf(e)' = ChallengesOf(e)
           /\ \A c \in ChallengesOf(e) : challenges'[c] = challenges[c]
<1>1. e \notin WithStatus({"running"})
    BY DEF WithStatus, Frozen
<1>2. ASSUME NEW c \in ChallengeIds
      PROVE  \/ challenges'[c] = challenges[c]
             \/ c \notin ChallengesOf(e) /\ c \notin ChallengesOf(e)'
  <2>1. ChallengeMove(c)
      BY DEF Moves
  <2>2. CASE challenges[c].status = "absent" /\ challenges'[c].epoch_id # e
      BY <2>2 DEF ChallengesOf
  <2>3. CASE challenges[c].status = "issued" /\ challenges'[c].epoch_id = challenges[c].epoch_id
    <3>1. challenges[c].epoch_id # e
        BY <2>3 DEF ChallengesOf
    <3> QED BY <2>3, <3>1 DEF ChallengesOf
  <2> QED BY <1>1, <2>1, <2>2, <2>3 DEF ChallengeMove
<1> QED BY <1>2 DEF ChallengesOf

LEMMA FrozenKept ==
    ASSUME EpochsOK, EpochMove, FactsOK, Moves, FactMoves,
           NEW e \in EpochIds, FrozenOK(e)
    PROVE  FrozenOK(e)'
<1>0. FrozenOK(e)
    OBVIOUS
<1>1. epochs[e].status \in Frozen => epochs'[e].status \in Frozen
    BY FrozenStays DEF WithStatus
<1>2. CASE FactsStay(e) /\ epochs'[e].status \in Frozen
  <2>1. epochs[e].status \in Frozen
      BY <1>2 DEF FactsStay
  <2>2. \A c \in ChallengesOf(e) : challenges[c].status # "issued"
      BY <1>0, <2>1 DEF FrozenOK
  <2>3. /\ ChallengesOf(e)' = ChallengesOf(e)
        /\ \A c \in ChallengesOf(e) : challenges'[c] = challenges[c]
      BY <2>1, <2>2, FrozenChallenges
  <2>4. GatedUnits(e)' = GatedUnits(e) /\ Universe(e, {})' = Universe(e, {})
      BY <1>2, <2>3, SameScores DEF FactsStay
  <2>5. IsReport(reports[e])' /\ reports'[e] = reports[e]
      BY <1>0, <1>2, <2>1 DEF FactsStay, FrozenOK, IsReport
  <2>6. \A c \in ChallengesOf(e)' : challenges'[c].status # "issued"
      BY <2>2, <2>3
  <2>7. /\ reports'[e].gated = GatedUnits(e)'
        /\ Universe(e, {})' \subseteq reports'[e].universe
      BY <1>0, <2>1, <2>4, <2>5 DEF FrozenOK
  <2> QED BY <1>2, <2>5, <2>6, <2>7 DEF FrozenOK
<1>3. CASE (FactsStay(e) \/ FactAdded(e)) /\ epochs'[e].status \notin Frozen
    BY <1>0, <1>1, <1>3 DEF FactsStay, FactAdded, FrozenOK
<1>4. CASE FactAdded(e) /\ epochs'[e].status \in Frozen
    BY <1>4 DEF FactAdded, Running, Frozen
<1>5. CASE ReportFrozen(e)
  <2>1. PICK given \in SUBSET Hotkeys, a \in Audiences \cup {None} :
            reports'[e] = ReportOf(e, given, a)
      BY <1>5 DEF ReportFrozen
  <2>2. /\ epochs'[e].status = "complete" /\ epochs[e].status = "running"
        /\ UNCHANGED <<challenges, attestations, lifecycles>>
        /\ \A c \in ChallengesOf(e) : challenges[c].status # "issued"
      BY <1>5 DEF ReportFrozen, Running
  <2>3. ChallengesOf(e)' = ChallengesOf(e)
      BY <2>2 DEF ChallengesOf
  <2>4. GatedUnits(e)' = GatedUnits(e) /\ Universe(e, {})' = Universe(e, {})
      BY <2>2, <2>3, SameScores
  <2>5. Universe(e, {}) \subseteq Universe(e, given) /\ Universe(e, given) \subseteq Hotkeys
    <3>1. \A c \in ChallengesOf(e) : challenges[c].hotkey \in Hotkeys
        BY DEF ChallengesOf, FactsOK
    <3> QED BY <3>1 DEF Universe
  <2>6. DOMAIN GatedUnits(e) = Hotkeys
      BY DEF GatedUnits
  <2>7. /\ reports'[e].gated = GatedUnits(e)
        /\ reports'[e].universe = Universe(e, given)
        /\ reports'[e].source_epoch = epochs[e].source_epoch
        /\ reports'[e].audience = a
        /\ DOMAIN reports'[e] = {"source_epoch", "audience", "universe", "gated"}
      BY <2>1, SMTT(40) DEF ReportOf
  <2>8. epochs[e].source_epoch \in SourceEpochs
      BY <2>2 DEF EpochsOK, Source
  <2>9. IsReport(reports[e])'
      BY <2>5, <2>6, <2>7, <2>8 DEF IsReport
  <2> QED BY <2>2, <2>3, <2>4, <2>5, <2>7, <2>9 DEF FrozenOK, Frozen
<1> QED BY <1>2, <1>3, <1>4, <1>5 DEF FactMoves, FactMove
-----------------------------------------------------------------------------
(* Receipts.                                                               *)

ReceiptOK(e, h) ==
    receipts[e][h] # None =>
        /\ receipts[e][h] \in ReceiptRow
        /\ challenges[receipts[e][h].challenge_id] =
               [status |-> receipts[e][h].work_status, epoch_id |-> e, hotkey |-> h,
                work_units |-> receipts[e][h].work_units]
        /\ lifecycles[e][h] \in {None, receipts[e][h].lifecycle}

ReceiptsOK ==
    /\ receipts \in [EpochIds -> [Hotkeys -> ReceiptRow \cup {None}]]
    /\ \A e \in EpochIds, h \in Hotkeys : ReceiptOK(e, h)

(* The status field of a challenge row written out in full.                *)
LEMMA RowStatus ==
    ASSUME NEW row, NEW s, NEW e, NEW h, NEW u,
           row = [status |-> s, epoch_id |-> e, hotkey |-> h, work_units |-> u]
    PROVE  row.status = s
OBVIOUS

(* A stored receipt's challenge is settled and does not move any more.     *)
LEMMA ReceiptStands ==
    ASSUME Moves, NEW e \in EpochIds, NEW h \in Hotkeys, ReceiptOK(e, h),
           receipts'[e][h] = receipts[e][h],
           receipts[e][h] # None => lifecycles'[e][h] \in {None, receipts[e][h].lifecycle}
    PROVE  ReceiptOK(e, h)'
<1> SUFFICES ASSUME receipts[e][h] # None
             PROVE  ReceiptOK(e, h)'
    BY DEF ReceiptOK
<1> DEFINE r == receipts[e][h]
<1>1. /\ r \in ReceiptRow
      /\ challenges[r.challenge_id] = [status |-> r.work_status, epoch_id |-> e,
                                       hotkey |-> h, work_units |-> r.work_units]
    BY DEF ReceiptOK
<1>2. r.challenge_id \in ChallengeIds /\ r.work_status \in {"verified", "failed"}
    BY <1>1 DEF ReceiptRow
<1>3. challenges[r.challenge_id].status \in {"verified", "failed"}
  <2> DEFINE row == challenges[r.challenge_id]
             s == r.work_status
             u == r.work_units
  <2>1. row = [status |-> s, epoch_id |-> e, hotkey |-> h, work_units |-> u]
      BY <1>1
  <2> HIDE DEF row, s, u, r
  <2>2. row.status = s
      BY <2>1, RowStatus
  <2>3. challenges[r.challenge_id].status = r.work_status
      BY <2>2 DEF row, s
  <2> QED BY <1>2, <2>3
<1>4. challenges'[r.challenge_id] = challenges[r.challenge_id]
    BY <1>2, <1>3 DEF Moves, ChallengeMove
<1> QED BY <1>1, <1>4 DEF ReceiptOK

LEMMA ResolvedReceipts ==
    ASSUME RowsOK, FactsOK, ReceiptsOK, Moves, NEW c \in ChallengeIds,
           NEW status \in {"verified", "failed"}, NEW units \in Units \cup {0},
           NEW snapshot \in Snapshots \cup {None},
           Resolvable(c), ReceiptAllowed(c, snapshot),
           challenges' = Resolved(c, status, units),
           receipts' = WithReceipt(c, status, units, snapshot),
           lifecycles' = lifecycles
    PROVE  ReceiptsOK'
<1>1. CASE snapshot = None
  <2>1. receipts' = receipts
      BY <1>1 DEF WithReceipt
  <2>2. \A e \in EpochIds, h \in Hotkeys : ReceiptOK(e, h)'
    <3> SUFFICES ASSUME NEW e \in EpochIds, NEW h \in Hotkeys PROVE ReceiptOK(e, h)'
        OBVIOUS
    <3>1. ReceiptOK(e, h)
        BY DEF ReceiptsOK
    <3>2. receipts[e][h] # None => lifecycles'[e][h] \in {None, receipts[e][h].lifecycle}
        BY <3>1 DEF ReceiptOK
    <3> QED BY <2>1, <3>1, <3>2, ReceiptStands
  <2> QED BY <2>1, <2>2 DEF ReceiptsOK
<1>2. CASE snapshot # None
  <2> DEFINE row == [challenge_id |-> c, work_status |-> status,
                     work_units |-> units, lifecycle |-> snapshot]
  <2>1. PICK f \in EpochIds, g \in Hotkeys :
            f = challenges[c].epoch_id /\ g = challenges[c].hotkey
      BY DEF Resolvable, FactsOK
  <2>2. row \in ReceiptRow
      BY <1>2 DEF ReceiptRow
  <2>3. receipts' = [receipts EXCEPT ![f][g] = row]
      BY <1>2, <2>1 DEF WithReceipt
  <2>4. /\ receipts' \in [EpochIds -> [Hotkeys -> ReceiptRow \cup {None}]]
        /\ receipts'[f][g] = row
        /\ \A e \in EpochIds, h \in Hotkeys :
               ~ (e = f /\ h = g) => receipts'[e][h] = receipts[e][h]
    <3> HIDE DEF row
    <3> QED BY <2>1, <2>2, <2>3, SMTT(40) DEF ReceiptsOK
  <2>5. challenges'[c] = [status |-> status, epoch_id |-> f, hotkey |-> g,
                          work_units |-> units]
      BY <2>1, ZenonT(60) DEF Resolved, RowsOK, ChallengeRow
  <2>6. lifecycles'[f][g] \in {None, snapshot}
      BY <1>2, <2>1 DEF ReceiptAllowed
  <2>7. ReceiptOK(f, g)'
    <3>1. /\ row.challenge_id = c /\ row.work_status = status /\ row.work_units = units
          /\ row.lifecycle = snapshot
        OBVIOUS
    <3> HIDE DEF row
    <3> QED BY <2>2, <2>4, <2>5, <2>6, <3>1 DEF ReceiptOK
  <2>8. ASSUME NEW e \in EpochIds, NEW h \in Hotkeys, ~ (e = f /\ h = g)
        PROVE  ReceiptOK(e, h)'
    <3>1. ReceiptOK(e, h)
        BY DEF ReceiptsOK
    <3>2. receipts[e][h] # None => lifecycles'[e][h] \in {None, receipts[e][h].lifecycle}
        BY <3>1 DEF ReceiptOK
    <3> QED BY <2>4, <2>8, <3>1, <3>2, ReceiptStands
  <2> QED BY <2>4, <2>7, <2>8 DEF ReceiptsOK
<1> QED BY <1>1, <1>2

LEMMA ReceiptsKept ==
    ASSUME RowsOK, FactsOK, ReceiptsOK, Moves, [Next]_vars
    PROVE  ReceiptsOK'
<1>1. ASSUME receipts' = receipts,
             \A e \in EpochIds, h \in Hotkeys : receipts[e][h] # None =>
                 lifecycles'[e][h] \in {None, receipts[e][h].lifecycle}
      PROVE  ReceiptsOK'
  <2>1. ASSUME NEW e \in EpochIds, NEW h \in Hotkeys PROVE ReceiptOK(e, h)'
    <3>1. ReceiptOK(e, h)
        BY DEF ReceiptsOK
    <3> QED BY <1>1, <3>1, ReceiptStands
  <2> QED BY <1>1, <2>1 DEF ReceiptsOK
<1>2. ASSUME UNCHANGED <<receipts, lifecycles>>
      PROVE  ReceiptsOK'
  <2>1. \A e \in EpochIds, h \in Hotkeys : receipts[e][h] # None =>
            lifecycles'[e][h] \in {None, receipts[e][h].lifecycle}
      BY <1>2 DEF ReceiptsOK, ReceiptOK
  <2> QED BY <1>1, <1>2, <2>1
<1>3. CASE Tick \/ JobStep \/ ExportStep \/ PublishStep \/ UNCHANGED vars
  <2>1. UNCHANGED <<receipts, lifecycles>>
      BY <1>3
         DEF Tick, JobStep, EnqueueCustomerJob, PruneCustomerJobs,
             ClaimCustomerJob, ExportStep, RecordScoreClassExport, PublishStep,
             PostReport, ReceiveAcknowledgement, PostFails, MarkPublished,
             DownstreamAccepts, vars, factVars
  <2> QED BY <1>2, <2>1
<1>4. CASE EpochStep
  <2>1. UNCHANGED <<receipts, lifecycles>>
      BY <1>4
         DEF EpochStep, BeginEpoch, AbortEpoch, AbandonCompletedEpoch,
             CompleteEpoch, factVars
  <2> QED BY <1>2, <2>1
<1>5. CASE FactStep
  <2>1. ASSUME NEW e \in EpochIds, NEW h \in Hotkeys,
               IssueChallenge(e, h) \/ \E row \in AttestationRow : AddAttestation(e, h, row)
        PROVE  ReceiptsOK'
    <3>1. UNCHANGED <<receipts, lifecycles>>
        BY <2>1 DEF IssueChallenge, AddAttestation, factVars
    <3> QED BY <1>2, <3>1
  <2>2. ASSUME NEW e \in EpochIds, NEW h \in Hotkeys, NEW snapshot \in Snapshots,
               AddLifecycleSnapshot(e, h, snapshot)
        PROVE  ReceiptsOK'
    <3>1. /\ receipts' = receipts
          /\ receipts[e][h] # None => receipts[e][h].lifecycle = snapshot
          /\ lifecycles' = [lifecycles EXCEPT ![e][h] = snapshot]
        BY <2>2 DEF AddLifecycleSnapshot
    <3>2. /\ lifecycles'[e][h] = snapshot
          /\ \A f \in EpochIds, g \in Hotkeys :
                 ~ (f = e /\ g = h) => lifecycles'[f][g] = lifecycles[f][g]
        BY <3>1 DEF FactsOK
    <3>3. \A f \in EpochIds, g \in Hotkeys : receipts[f][g] # None =>
              lifecycles[f][g] \in {None, receipts[f][g].lifecycle}
        BY DEF ReceiptsOK, ReceiptOK
    <3>4. \A f \in EpochIds, g \in Hotkeys : receipts[f][g] # None =>
              lifecycles'[f][g] \in {None, receipts[f][g].lifecycle}
        BY <3>1, <3>2, <3>3, ZenonT(60)
    <3> QED BY <1>1, <3>1, <3>4
  <2> QED BY <1>5, <2>1, <2>2 DEF FactStep
<1>6. CASE ResolveStep
  <2>1. \A o \in Outcomes : o[1] \in {"verified", "failed"} /\ o[2] \in Units \cup {0}
      BY SMTT(40) DEF Outcomes
  <2>2. ASSUME NEW o \in Outcomes, NEW snapshot \in Snapshots \cup {None},
               NEW c \in CanonicalIds, ResolveCanonical(c, o[1], o[2], snapshot)
        PROVE  ReceiptsOK'
    <3>1. /\ c \in ChallengeIds /\ Resolvable(c) /\ ReceiptAllowed(c, snapshot)
          /\ challenges' = Resolved(c, o[1], o[2])
          /\ receipts' = WithReceipt(c, o[1], o[2], snapshot)
          /\ lifecycles' = lifecycles
        BY <2>2 DEF ResolveCanonical, ChallengeIds
    <3> QED BY <2>1, <3>1, ResolvedReceipts
  <2>3. ASSUME NEW o \in Outcomes, NEW snapshot \in Snapshots \cup {None},
               NEW j \in Jobs, NEW a \in 1 .. MaxAttempts, NEW disposition, NEW result,
               ResolveCustomer(j, a, o[1], o[2], snapshot, disposition, result)
        PROVE  ReceiptsOK'
    <3> DEFINE c == <<"job", j, a>>
    <3>1. /\ Resolvable(c) /\ ReceiptAllowed(c, snapshot)
          /\ challenges' = Resolved(c, o[1], o[2])
          /\ receipts' = WithReceipt(c, o[1], o[2], snapshot)
          /\ lifecycles' = lifecycles
        BY <2>3 DEF ResolveCustomer
    <3>2. c \in ChallengeIds
        BY AttemptIds
    <3> HIDE DEF c
    <3> QED BY <2>1, <3>1, <3>2, ResolvedReceipts
  <2> QED BY <1>6, <2>2, <2>3
             DEF ResolveStep, ResolveCanonicalStep, ResolveCustomerStep
<1> QED BY <1>3, <1>4, <1>5, <1>6 DEF Next
-----------------------------------------------------------------------------
(* Exports.                                                                *)

Exported == {e \in EpochIds : exports[e] # None}

ExportsOK ==
    /\ exports \in [EpochIds -> ExportRow \cup {None}]
    /\ Exported \subseteq WithStatus(Frozen)
    /\ Exported # {} => LatestExport # {}
    /\ ExportChain

(* An epoch keeps its source epoch once it has begun.                      *)
LEMMA SourceStays ==
    ASSUME EpochsOK, EpochMove, NEW e \in EpochIds, epochs[e].status # "absent"
    PROVE  Source(e)' = Source(e)
<1>1. CASE UNCHANGED epochVars
    BY <1>1 DEF epochVars, Source
<1>2. CASE EpochAdded
  <2>1. e # lastEpoch' /\ \A f \in EpochIds \ {lastEpoch'} : epochs'[f] = epochs[f]
      BY <1>2, EpochAddedFields
  <2> QED BY <2>1 DEF Source
<1>3. ASSUME NEW f \in EpochIds,
             \/ StatusSet(f, {"running"}, "aborted")
             \/ StatusSet(f, {"running"}, "complete")
             \/ StatusSet(f, {"complete"}, "abandoned")
             \/ StatusSet(f, {"complete", "published"}, "published")
      PROVE  Source(e)' = Source(e)
    BY <1>3, SMTT(40) DEF StatusSet, EpochsOK, EpochRow, Source
<1> QED BY <1>1, <1>2, <1>3 DEF EpochMove

LEMMA ExportsStay ==
    ASSUME EpochsOK, EpochMove, ExportsOK, exports' = exports
    PROVE  ExportsOK'
<1>1. Exported' = Exported /\ Exported \subseteq EpochIds
    BY DEF Exported
<1>2. \A e \in Exported : Source(e)' = Source(e)
    BY SourceStays DEF ExportsOK, Exported, WithStatus, Frozen
<1>3. Exported \subseteq WithStatus(Frozen)'
    BY FrozenStays DEF ExportsOK
<1>4. /\ LatestExport = {f \in Exported : \A g \in Exported : Source(g) <= Source(f)}
      /\ LatestExport' = {f \in Exported : \A g \in Exported : Source(g)' <= Source(f)'}
    BY <1>1 DEF LatestExport, Exported, Source
<1>5. LatestExport' = LatestExport
    BY <1>2, <1>4
<1>6. ExportChain'
  <2> DEFINE Earlier(e) == {f \in EpochIds : /\ exports[f] # None
                                             /\ epochs[f].source_epoch < epochs[e].source_epoch}
             Earlier2(e) == {f \in EpochIds : /\ exports'[f] # None
                                              /\ epochs'[f].source_epoch < epochs'[e].source_epoch}
  <2> SUFFICES ASSUME NEW e \in EpochIds, exports'[e] # None
               PROVE  IF Earlier2(e) = {}
                      THEN exports'[e].previous = None
                      ELSE /\ exports'[e].previous \in Earlier2(e)
                           /\ \A f \in Earlier2(e) : epochs'[f].source_epoch
                                <= epochs'[exports'[e].previous].source_epoch
      BY DEF ExportChain
  <2>1. e \in Exported
      BY DEF Exported
  <2>2. Earlier2(e) = Earlier(e) /\ Earlier(e) \subseteq Exported
      BY <1>2, <2>1 DEF Exported, Source
  <2>3. IF Earlier(e) = {}
        THEN exports[e].previous = None
        ELSE /\ exports[e].previous \in Earlier(e)
             /\ \A f \in Earlier(e) : epochs[f].source_epoch
                  <= epochs[exports[e].previous].source_epoch
      BY DEF ExportsOK, ExportChain
  <2> HIDE DEF Earlier, Earlier2
  <2> QED BY <1>2, <2>2, <2>3, SMTT(40) DEF Source
<1> QED BY <1>1, <1>3, <1>5, <1>6 DEF ExportsOK

(* A new export has the largest source epoch, and names the largest one    *)
(* before it.                                                              *)
LEMMA ExportRecorded ==
    ASSUME EpochsOK, ExportsOK, NEW e \in EpochIds, NEW previous \in EpochIds \cup {None},
           RecordScoreClassExport(e, previous)
    PROVE  ExportsOK'
<1> DEFINE row == [previous |-> previous]
<1>1. /\ epochs[e].status \in Frozen /\ epochs' = epochs /\ exports[e] = None
      /\ exports' = [exports EXCEPT ![e] = row]
    BY DEF RecordScoreClassExport, Frozen, epochVars
<1>2. /\ LatestExport = {} => previous = None
      /\ \A f \in LatestExport : Source(f) < Source(e) /\ previous = f
    BY DEF RecordScoreClassExport, Source
<1>3. row \in ExportRow /\ row # None /\ row.previous = previous
    BY NoRowAssumption, SMTT(40) DEF ExportRow, NoRowAssumption
<1> HIDE DEF row
<1>4. /\ exports' \in [EpochIds -> ExportRow \cup {None}] /\ exports'[e] = row
      /\ \A f \in EpochIds : f # e => exports'[f] = exports[f]
    BY <1>1, <1>3 DEF ExportsOK
<1>5. Exported' = Exported \cup {e} /\ e \notin Exported /\ Exported \subseteq EpochIds
    BY <1>1, <1>3, <1>4 DEF Exported
<1>6. Exported' \subseteq WithStatus(Frozen)'
    BY <1>1, <1>5 DEF ExportsOK, WithStatus
<1>7. \A f \in Exported \cup {e} : Source(f) \in Int
    BY <1>1, <1>5, EpochNumbers DEF ExportsOK, WithStatus, Frozen
<1>8. /\ LatestExport = {f \in Exported : \A g \in Exported : Source(g) <= Source(f)}
      /\ LatestExport' = {f \in Exported' : \A g \in Exported' : Source(g)' <= Source(f)'}
    BY DEF LatestExport, Exported, Source
<1>9. \A f \in EpochIds : Source(f)' = Source(f)
    BY <1>1 DEF Source
<1>10. \A f \in Exported : Source(f) < Source(e)
  <2> SUFFICES ASSUME NEW f \in Exported PROVE Source(f) < Source(e)
      OBVIOUS
  <2>1. PICK l \in LatestExport : TRUE
      BY DEF ExportsOK
  <2>2. Source(f) <= Source(l) /\ Source(l) < Source(e) /\ l \in Exported
      BY <1>2, <1>8, <2>1
  <2> QED BY <1>7, <2>2, SMTT(40)
<1>11. e \in LatestExport'
  <2>1. \A g \in Exported' : Source(g)' <= Source(e)'
      BY <1>5, <1>7, <1>9, <1>10, SMTT(40)
  <2> QED BY <1>5, <1>8, <2>1
<1>12. ExportChain'
  <2> DEFINE Earlier(f) == {g \in EpochIds : /\ exports[g] # None
                                             /\ epochs[g].source_epoch < epochs[f].source_epoch}
             Earlier2(f) == {g \in EpochIds : /\ exports'[g] # None
                                              /\ epochs'[g].source_epoch < epochs'[f].source_epoch}
  <2> SUFFICES ASSUME NEW f \in EpochIds, exports'[f] # None
               PROVE  IF Earlier2(f) = {}
                      THEN exports'[f].previous = None
                      ELSE /\ exports'[f].previous \in Earlier2(f)
                           /\ \A g \in Earlier2(f) : epochs'[g].source_epoch
                                <= epochs'[exports'[f].previous].source_epoch
      BY DEF ExportChain
  <2>1. Earlier(f) = {g \in Exported : Source(g) < Source(f)}
      BY DEF Exported, Source
  <2>2. Earlier2(f) = {g \in Exported \cup {e} : Source(g) < Source(f)}
      BY <1>1, <1>5 DEF Exported, Source
  <2> HIDE DEF Earlier, Earlier2
  <2>3. CASE f = e
    <3>1. Earlier2(f) = Exported
        BY <1>7, <1>10, <2>2, <2>3, SMTT(40)
    <3>2. CASE Exported = {}
      <4>1. previous = None
          BY <1>2, <1>8, <3>2
      <4> QED BY <1>3, <1>4, <2>3, <3>1, <3>2, <4>1
    <3>3. CASE Exported # {}
      <4>1. previous \in Exported /\ \A g \in Exported : Source(g) <= Source(previous)
          BY <1>2, <1>8, <3>3 DEF ExportsOK
      <4> QED BY <1>1, <1>3, <1>4, <2>3, <3>1, <3>3, <4>1 DEF Source
    <3> QED BY <3>2, <3>3
  <2>4. CASE f # e
    <3>1. f \in Exported /\ exports[f] # None /\ exports'[f] = exports[f]
        BY <1>4, <2>4 DEF Exported
    <3>2. ~ (Source(e) < Source(f))
        BY <1>7, <1>10, <3>1, SMTT(40)
    <3>3. Earlier2(f) = Earlier(f)
        BY <2>1, <2>2, <3>2
    <3>4. IF Earlier(f) = {}
          THEN exports[f].previous = None
          ELSE /\ exports[f].previous \in Earlier(f)
               /\ \A g \in Earlier(f) : epochs[g].source_epoch
                    <= epochs[exports[f].previous].source_epoch
        BY <3>1 DEF ExportsOK, ExportChain, Earlier
    <3> QED BY <1>1, <3>1, <3>3, <3>4
  <2> QED BY <2>3, <2>4
<1> QED BY <1>4, <1>6, <1>11, <1>12 DEF ExportsOK

LEMMA ExportsKept ==
    ASSUME EpochsOK, EpochMove, ExportsOK, [Next]_vars
    PROVE  ExportsOK'
<1>1. CASE ExportStep
    BY <1>1, ExportRecorded DEF ExportStep
<1>2. CASE Tick \/ JobStep \/ PublishStep \/ UNCHANGED vars
  <2>1. exports' = exports
      BY <1>2
         DEF Tick, JobStep, EnqueueCustomerJob, PruneCustomerJobs,
             ClaimCustomerJob, PublishStep, PostReport, ReceiveAcknowledgement,
             PostFails, MarkPublished, DownstreamAccepts, vars
  <2> QED BY <2>1, ExportsStay
<1>3. CASE EpochStep \/ FactStep
  <2>1. exports' = exports
      BY <1>3, ZenonT(60)
         DEF EpochStep, BeginEpoch, AbortEpoch, AbandonCompletedEpoch,
             CompleteEpoch, FactStep, IssueChallenge, AddAttestation,
             AddLifecycleSnapshot
  <2> QED BY <2>1, ExportsStay
<1>4. CASE ResolveStep
  <2>1. \A c, status, units, snapshot : ResolveCanonical(c, status, units, snapshot) =>
            exports' = exports
      BY DEF ResolveCanonical
  <2>2. ASSUME NEW j, NEW a, NEW status, NEW units, NEW snapshot, NEW disposition,
               NEW result,
               ResolveCustomer(j, a, status, units, snapshot, disposition, result)
        PROVE  exports' = exports
      BY <2>2 DEF ResolveCustomer
  <2>3. exports' = exports
      BY <1>4, <2>1, <2>2
         DEF ResolveStep, ResolveCanonicalStep, ResolveCustomerStep
  <2> QED BY <2>3, ExportsStay
<1> QED BY <1>1, <1>2, <1>3, <1>4 DEF Next
-----------------------------------------------------------------------------
(* A publisher's call is a row of its type.                                *)
LEMMA PostRowsKept ==
    ASSUME posts \in [Publishers -> PostRow], [Next]_vars
    PROVE  posts' \in [Publishers -> PostRow]
<1>1. CASE PublishStep
  <2>1. ASSUME NEW p \in Publishers, NEW e \in EpochIds, PostReport(p, e)
        PROVE  posts' \in [Publishers -> PostRow]
      BY <2>1 DEF PostReport, PostRow
  <2>2. ASSUME NEW p \in Publishers, ReceiveAcknowledgement(p)
        PROVE  posts' \in [Publishers -> PostRow]
      BY <2>2 DEF ReceiveAcknowledgement, PostRow
  <2>3. ASSUME NEW p \in Publishers, PostFails(p) \/ MarkPublished(p)
        PROVE  posts' \in [Publishers -> PostRow]
      BY <2>3, SMTT(40) DEF PostFails, MarkPublished, PostRow
  <2>4. ASSUME NEW e \in EpochIds, DownstreamAccepts(e)
        PROVE  posts' \in [Publishers -> PostRow]
      BY <2>4 DEF DownstreamAccepts
  <2> QED BY <1>1, <2>1, <2>2, <2>3, <2>4 DEF PublishStep
<1>2. CASE Tick \/ JobStep \/ ExportStep \/ UNCHANGED vars
  <2>1. posts' = posts
      BY <1>2
         DEF Tick, JobStep, EnqueueCustomerJob, PruneCustomerJobs,
             ClaimCustomerJob, ExportStep, RecordScoreClassExport, postVars,
             vars
  <2> QED BY <2>1
<1>3. CASE EpochStep \/ FactStep
  <2>1. posts' = posts
      BY <1>3, ZenonT(60)
         DEF EpochStep, BeginEpoch, AbortEpoch, AbandonCompletedEpoch,
             CompleteEpoch, FactStep, IssueChallenge, AddAttestation,
             AddLifecycleSnapshot, postVars
  <2> QED BY <2>1
<1>4. CASE ResolveStep
  <2>1. \A c, status, units, snapshot : ResolveCanonical(c, status, units, snapshot) =>
            posts' = posts
      BY DEF ResolveCanonical, postVars
  <2>2. ASSUME NEW j, NEW a, NEW status, NEW units, NEW snapshot, NEW disposition,
               NEW result,
               ResolveCustomer(j, a, status, units, snapshot, disposition, result)
        PROVE  posts' = posts
      BY <2>2 DEF ResolveCustomer, postVars
  <2>3. posts' = posts
      BY <1>4, <2>1, <2>2
         DEF ResolveStep, ResolveCanonicalStep, ResolveCustomerStep
  <2> QED BY <2>3
<1> QED BY <1>1, <1>2, <1>3, <1>4 DEF Next
-----------------------------------------------------------------------------
TableRows ==
    /\ FactsOK /\ DOMAIN reports = EpochIds
    /\ \A e \in EpochIds : FrozenOK(e)
    /\ ReceiptsOK
    /\ ExportsOK
    /\ posts \in [Publishers -> PostRow]

TablesInv == LedgerInv /\ TableRows

LEMMA TablesInvHolds == Spec => []TablesInv
<1>1. ASSUME Init PROVE TableRows
  <2>1. \A c \in ChallengeIds : challenges[c].status = "absent"
      BY <1>1 DEF Init, NoChallenge
  <2>2. FactsOK /\ DOMAIN reports = EpochIds
      BY <1>1, <2>1 DEF Init, FactsOK
  <2>3. \A e \in EpochIds : epochs[e].status = "absent" /\ reports[e] = None
      BY <1>1 DEF Init, NoEpoch
  <2>4. \A e \in EpochIds : FrozenOK(e)
      BY <2>3 DEF FrozenOK, Frozen
  <2>5. ReceiptsOK
      BY <1>1 DEF Init, ReceiptsOK, ReceiptOK
  <2>6. \A e \in EpochIds : exports[e] = None
      BY <1>1 DEF Init
  <2>7. ExportsOK
      BY <1>1, <2>6 DEF Init, ExportsOK, Exported, ExportChain
  <2>8. posts \in [Publishers -> PostRow]
      BY <1>1 DEF Init, PostRow
  <2> QED BY <2>2, <2>4, <2>5, <2>7, <2>8 DEF TableRows
<1>2. ASSUME TablesInv, [Next]_vars PROVE TableRows'
  <2>1. /\ EpochsOK /\ PostsOK /\ RowsOK /\ JobsOK /\ FactsOK /\ ReceiptsOK /\ ExportsOK
        /\ DOMAIN reports = EpochIds /\ posts \in [Publishers -> PostRow]
        /\ \A e \in EpochIds : FrozenOK(e)
      BY <1>2 DEF TablesInv, TableRows, LedgerInv, EpochInv
  <2>2. EpochMove /\ Moves
      BY <1>2, <2>1, EpochMoves, AllMoves
  <2>3. FactMoves
      BY <1>2, <2>1, <2>2, AllFactMoves
  <2>4. \A e \in EpochIds : FrozenOK(e)'
      BY <2>1, <2>2, <2>3, FrozenKept
  <2>5. ReceiptsOK'
      BY <1>2, <2>1, <2>2, ReceiptsKept
  <2>6. ExportsOK'
      BY <1>2, <2>1, <2>2, ExportsKept
  <2>7. posts' \in [Publishers -> PostRow]
      BY <1>2, <2>1, PostRowsKept
  <2> QED BY <2>3, <2>4, <2>5, <2>6, <2>7 DEF FactMoves, TableRows
<1> QED BY <1>1, <1>2, LedgerInvHolds, PTL DEF Spec, TablesInv

(* What complete_epoch froze is what it would compute again: no later call *)
(* touches a row that was scored.                                          *)
THEOREM ReportsReproduce == Spec => []FrozenReportReproducible
<1>1. TablesInv => FrozenReportReproducible
  <2> SUFFICES ASSUME TablesInv, NEW e \in WithStatus(Frozen)
               PROVE  /\ reports[e].gated = GatedUnits(e)
                      /\ Universe(e, {}) \subseteq reports[e].universe
                      /\ \A c \in ChallengesOf(e) : challenges[c].status # "issued"
      BY DEF FrozenReportReproducible, Frozen
  <2>1. e \in EpochIds /\ epochs[e].status \in Frozen
      BY DEF WithStatus
  <2>2. FrozenOK(e)
      BY <2>1 DEF TablesInv, TableRows
  <2> QED BY <2>1, <2>2 DEF FrozenOK
<1> QED BY <1>1, TablesInvHolds, PTL

(* Receipts, challenges and lifecycle rows tell one story, and the exports *)
(* form one chain, over rows that keep their types.                        *)
THEOREM TablesStayInStep == Spec => []TablesAgree
<1>1. TablesInv => TablesAgree
  <2> SUFFICES ASSUME TablesInv PROVE TypeOK /\ ReceiptConsistent /\ ExportChain
      BY DEF TablesAgree
  <2>1. /\ EpochsOK /\ PostsOK /\ RowsOK /\ FactsOK /\ ReceiptsOK /\ ExportsOK
        /\ DOMAIN reports = EpochIds /\ posts \in [Publishers -> PostRow]
        /\ \A e \in EpochIds : FrozenOK(e)
      BY DEF TablesInv, TableRows, LedgerInv, EpochInv
  <2>2. \A e \in EpochIds :
            IF epochs[e].status \in {"complete", "published", "abandoned"}
            THEN IsReport(reports[e]) ELSE reports[e] = None
      BY <2>1 DEF FrozenOK, Frozen
  <2>3. sent \subseteq EpochIds /\ accepted \subseteq EpochIds
      BY <2>1 DEF PostsOK, PublishedWasAccepted, WithStatus
  <2>4. TypeOK
      BY <2>1, <2>2, <2>3
         DEF TypeOK, EpochsOK, RowsOK, FactsOK, ReceiptsOK, ExportsOK
  <2>5. ReceiptConsistent
      BY <2>1 DEF ReceiptsOK, ReceiptOK, ReceiptConsistent
  <2> QED BY <2>1, <2>4, <2>5 DEF ExportsOK
<1> QED BY <1>1, TablesInvHolds, PTL

(* Settled challenges and finished epochs, with their report, stay as they *)
(* are.                                                                    *)
THEOREM SettledStays == Spec => SettledForever
<1>1. ASSUME TablesInv, [Next]_vars
      PROVE  /\ \A c \in ChallengeIds :
                   challenges[c].status \in {"verified", "failed", "abandoned"} =>
                      challenges'[c] = challenges[c]
             /\ \A e \in EpochIds :
                   epochs[e].status \in {"published", "aborted", "abandoned"} =>
                      epochs'[e] = epochs[e] /\ reports'[e] = reports[e]
  <2>1. /\ EpochsOK /\ PostsOK /\ RowsOK /\ JobsOK /\ FactsOK /\ DOMAIN reports = EpochIds
      BY <1>1 DEF TablesInv, TableRows, LedgerInv, EpochInv
  <2>2. EpochMove /\ Moves
      BY <1>1, <2>1, EpochMoves, AllMoves
  <2>3. FactMoves
      BY <1>1, <2>1, <2>2, AllFactMoves
  <2>4. \A c \in ChallengeIds :
            challenges[c].status \in {"verified", "failed", "abandoned"} =>
               challenges'[c] = challenges[c]
      BY <2>2 DEF Moves, ChallengeMove
  <2>5. ASSUME NEW e \in EpochIds, epochs[e].status \in {"published", "aborted", "abandoned"}
        PROVE  epochs'[e] = epochs[e] /\ reports'[e] = reports[e]
    <3>1. reports'[e] = reports[e]
        BY <2>3, <2>5
           DEF FactMoves, FactMove, FactsStay, FactAdded, ReportFrozen, Running
    <3>2. CASE UNCHANGED epochVars
        BY <3>1, <3>2 DEF epochVars
    <3>3. CASE EpochAdded
        BY <2>1, <2>5, <3>1, <3>3, EpochAddedFields
    <3>4. ASSUME NEW f \in EpochIds,
                 \/ StatusSet(f, {"running"}, "aborted")
                 \/ StatusSet(f, {"running"}, "complete")
                 \/ StatusSet(f, {"complete"}, "abandoned")
                 \/ StatusSet(f, {"complete", "published"}, "published")
          PROVE  epochs'[e] = epochs[e]
        BY <2>1, <2>5, <3>4, SMTT(40) DEF StatusSet, EpochsOK, EpochRow
    <3> QED BY <2>2, <3>1, <3>2, <3>3, <3>4 DEF EpochMove
  <2> QED BY <2>4, <2>5
<1> QED BY <1>1, TablesInvHolds, PTL DEF Spec, SettledForever
-----------------------------------------------------------------------------
(* The limits of the queue.                                                *)

(* A step other than an enqueue leaves a row as it is, changes the row of  *)
(* an active job, of the same customer, or deletes it.                     *)
RowFreed(j) ==
    \/ jobs'[j] = jobs[j]
    \/ /\ jobs[j].status \in {"queued", "leased"}
       /\ jobs'[j].customer_id = jobs[j].customer_id
    \/ jobs'[j].status = "pruned"

RowsFreed == \A j \in Jobs : RowFreed(j)

(* No method but enqueue writes customer_id.                               *)
LEMMA CustomerKept ==
    ASSUME NEW row \in JobRow
    PROVE  Unleased(row).customer_id = row.customer_id
BY DEF JobRow, Unleased

LEMMA ReclaimedCustomer ==
    ASSUME RowsOK, NEW j \in Jobs
    PROVE  Reclaimed(j).customer_id = jobs[j].customer_id
<1> DEFINE free == Unleased(jobs[j])
           out == jobs[j].attempt_count >= MaxAttempts
           back == [free EXCEPT !.status = "queued", !.available_at = now]
           over == [free EXCEPT !.status = "failed", !.available_at = now,
                                !.resolved_at = now]
           spent == [jobs[j] EXCEPT !.status = "failed", !.resolved_at = now]
<1>1. jobs[j] \in JobRow
    BY DEF RowsOK
<1>2. free \in JobRow /\ free.customer_id = jobs[j].customer_id
    BY <1>1, UnleasedRow, CustomerKept
<1> HIDE DEF free
<1>3. /\ back.customer_id = jobs[j].customer_id
      /\ over.customer_id = jobs[j].customer_id
      /\ spent.customer_id = jobs[j].customer_id
    BY <1>1, <1>2 DEF JobRow
<1>4. Reclaimed(j) = CASE j \in Expired /\ ~out -> back
                       [] j \in Expired /\ out -> over
                       [] jobs[j].status = "queued" /\ out -> spent
                       [] OTHER -> jobs[j]
    BY DEF Reclaimed, free
<1> HIDE DEF back, over, spent, out
<1>5. CASE j \in Expired /\ ~out
    BY <1>3, <1>4, <1>5
<1>6. CASE j \in Expired /\ out
    BY <1>3, <1>4, <1>6
<1>7. CASE j \notin Expired /\ jobs[j].status = "queued" /\ out
    BY <1>3, <1>4, <1>7
<1>8. CASE j \notin Expired /\ ~(jobs[j].status = "queued" /\ out)
    BY <1>4, <1>8
<1> QED BY <1>5, <1>6, <1>7, <1>8

LEMMA AbortFrees ==
    ASSUME RowsOK, NEW e \in EpochIds, AbortEpoch(e)
    PROVE  RowsFreed
<1> SUFFICES ASSUME NEW j \in Jobs PROVE RowFreed(j)
    BY DEF RowsFreed
<1> DEFINE leased == {i \in Jobs : /\ jobs[i].status = "leased"
                                   /\ jobs[i].lease_epoch_id = e}
           back(i) == [Unleased(jobs[i]) EXCEPT !.status = "queued",
                                                !.available_at = now]
<1>1. jobs' = [i \in Jobs |-> IF i \in leased THEN back(i) ELSE jobs[i]]
    BY DEF AbortEpoch
<1>2. back(j).customer_id = jobs[j].customer_id
  <2> DEFINE free == Unleased(jobs[j])
  <2>1. free \in JobRow /\ free.customer_id = jobs[j].customer_id
      BY UnleasedRow, CustomerKept DEF RowsOK
  <2> HIDE DEF free
  <2>2. [free EXCEPT !.status = "queued", !.available_at = now].customer_id
            = jobs[j].customer_id
      BY <2>1 DEF JobRow
  <2> QED BY <2>2 DEF free
<1> HIDE DEF back
<1>3. jobs'[j] = IF j \in leased THEN back(j) ELSE jobs[j]
    BY <1>1
<1> QED BY <1>2, <1>3 DEF RowFreed

LEMMA PruneFrees ==
    ASSUME NEW before, NEW customer, NEW deleted \in SUBSET Jobs,
           PruneCustomerJobs(before, customer, deleted)
    PROVE  RowsFreed
<1> SUFFICES ASSUME NEW j \in Jobs PROVE RowFreed(j)
    BY DEF RowsFreed
<1> DEFINE gone == [NoJob EXCEPT !.status = "pruned"]
<1>1. gone.status = "pruned"
    BY PrunedRow
<1>2. jobs' = [i \in Jobs |-> IF i \in deleted THEN gone ELSE jobs[i]]
    BY DEF PruneCustomerJobs
<1> HIDE DEF gone
<1>3. jobs'[j] = IF j \in deleted THEN gone ELSE jobs[j]
    BY <1>2
<1> QED BY <1>1, <1>3 DEF RowFreed

LEMMA ClaimFrees ==
    ASSUME RowsOK, NEW e \in EpochIds, NEW h \in Hotkeys, ClaimCustomerJob(e, h)
    PROVE  RowsFreed
<1> SUFFICES ASSUME NEW i \in Jobs PROVE RowFreed(i)
    BY DEF RowsFreed
<1>1. /\ Reclaimed(i) \in JobRow /\ Reclaimed(i).customer_id = jobs[i].customer_id
      /\ Reclaimed(i) = jobs[i] \/ jobs[i].status \in {"queued", "leased"}
    BY ReclaimedRow, ReclaimedCustomer
<1>2. CASE \A j \in Jobs : ~ Claimable(j)
  <2>1. jobs' = [j \in Jobs |-> Reclaimed(j)]
      BY <1>2 DEF ClaimCustomerJob
  <2>2. jobs'[i] = Reclaimed(i)
      BY <2>1
  <2> QED BY <1>1, <2>2 DEF RowFreed
<1>3. CASE ~ \A j \in Jobs : ~ Claimable(j)
  <2> DEFINE leased(j) == [Reclaimed(j) EXCEPT
                             !.status = "leased",
                             !.attempt_count = Reclaimed(j).attempt_count + 1,
                             !.lease_owner = h,
                             !.lease_epoch_id = e,
                             !.lease_expires_at = now + LeaseTime,
                             !.resolved_at = 0]
  <2>1. PICK j \in Jobs :
            /\ Claimable(j)
            /\ jobs' = [k \in Jobs |-> IF k = j THEN leased(j) ELSE Reclaimed(k)]
      BY <1>3 DEF ClaimCustomerJob
  <2>2. leased(i).customer_id = jobs[i].customer_id
      BY <1>1 DEF JobRow
  <2> HIDE DEF leased
  <2>3. jobs'[i] = IF i = j THEN leased(j) ELSE Reclaimed(i)
      BY <2>1
  <2>4. CASE i # j
      BY <1>1, <2>3, <2>4 DEF RowFreed
  <2>5. CASE i = j
    <3>1. Reclaimed(i).status = "queued"
        BY <2>1, <2>5 DEF Claimable
    <3>2. jobs[i].status \in {"queued", "leased"}
        BY <1>1, <3>1
    <3> QED BY <2>2, <2>3, <2>5, <3>2 DEF RowFreed
  <2> QED BY <2>4, <2>5
<1> QED BY <1>2, <1>3

LEMMA ResolveFrees ==
    ASSUME RowsOK, NEW j \in Jobs, NEW a, NEW status, NEW units, NEW snapshot,
           NEW disposition, NEW result,
           ResolveCustomer(j, a, status, units, snapshot, disposition, result)
    PROVE  RowsFreed
<1> DEFINE row == JobAfter(j, a, disposition, result)
<1>1. jobs[j].status = "leased" /\ jobs' = [jobs EXCEPT ![j] = row]
    BY DEF ResolveCustomer, CurrentLease
<1>2. row.customer_id = jobs[j].customer_id
  <2> DEFINE free == Unleased(jobs[j])
             final == CASE disposition = "succeeded" -> "succeeded"
                        [] disposition = "retry" /\ a < MaxAttempts -> "queued"
                        [] OTHER -> "failed"
             until == IF final = "queued" THEN 0 ELSE now
  <2>1. free \in JobRow /\ free.customer_id = jobs[j].customer_id
      BY UnleasedRow, CustomerKept DEF RowsOK
  <2>2. row = [free EXCEPT !.status = final, !.available_at = now,
                           !.resolved_at = until, !.result_bytes = result]
      BY DEF JobAfter
  <2> HIDE DEF row, free, final, until
  <2> QED BY <2>1, <2>2 DEF JobRow
<1> HIDE DEF row
<1>3. jobs'[j] = row /\ \A i \in Jobs : i # j => jobs'[i] = jobs[i]
    BY <1>1 DEF RowsOK
<1> QED BY <1>1, <1>2, <1>3 DEF RowsFreed, RowFreed

EnqueueStep ==
    \E j \in Jobs, customer \in Customers, key \in Keys \cup {None},
       payload \in Payloads : EnqueueCustomerJob(j, customer, key, payload)

(* Only enqueue_customer_job adds to what the rows may come to hold.       *)
LEMMA StepsFree ==
    ASSUME RowsOK, [Next]_vars
    PROVE  RowsFreed \/ EnqueueStep
<1>0. ASSUME jobs' = jobs PROVE RowsFreed
    BY <1>0 DEF RowsFreed, RowFreed
<1>1. CASE Tick
    BY <1>0, <1>1 DEF Tick
<1>2. CASE EpochStep
  <2>1. ASSUME NEW s, NEW a, BeginEpoch(s, a) PROVE RowsFreed
      BY <1>0, <2>1 DEF BeginEpoch
  <2>2. ASSUME NEW e, AbandonCompletedEpoch(e) PROVE RowsFreed
      BY <1>0, <2>2 DEF AbandonCompletedEpoch
  <2>3. ASSUME NEW e, NEW given, NEW a, CompleteEpoch(e, given, a) PROVE RowsFreed
      BY <1>0, <2>3 DEF CompleteEpoch
  <2> QED BY <1>2, <2>1, <2>2, <2>3, AbortFrees DEF EpochStep
<1>3. CASE FactStep
    BY <1>0, <1>3 DEF FactStep, IssueChallenge, AddAttestation, AddLifecycleSnapshot
<1>4. CASE ResolveStep
  <2>1. CASE ResolveCanonicalStep
      BY <1>0, <2>1 DEF ResolveCanonicalStep, ResolveCanonical
  <2>2. CASE ResolveCustomerStep
      BY <2>2, ResolveFrees DEF ResolveCustomerStep
  <2> QED BY <1>4, <2>1, <2>2 DEF ResolveStep
<1>5. CASE JobStep
    BY <1>5, PruneFrees, ClaimFrees DEF JobStep, EnqueueStep
<1>6. CASE PublishStep
    BY <1>0, <1>6 DEF PublishStep, PostReport, ReceiveAcknowledgement, PostFails,
       MarkPublished, DownstreamAccepts
<1>7. CASE ExportStep
    BY <1>0, <1>7 DEF ExportStep, RecordScoreClassExport
<1>8. CASE UNCHANGED vars
    BY <1>0, <1>8 DEF vars
<1> QED BY <1>1, <1>2, <1>3, <1>4, <1>5, <1>6, <1>7, <1>8 DEF Next

(* The library's facts about finite sets. They are instantiated here, not  *)
(* extended, since only the counting below needs them.                     *)
FS == INSTANCE FiniteSetTheorems

(* The instance's notions are the ones the modules count with.             *)
LEMMA SameNotions ==
    /\ \A S : FS!IsFiniteSet(S) <=> IsFiniteSet(S)
    /\ \A S : FS!Cardinality(S) = Cardinality(S)
<1>1. \A S : FS!IsFiniteSet(S) <=> IsFiniteSet(S)
    BY DEF FS!IsFiniteSet, IsFiniteSet
<1>2. \A S : FS!Cardinality(S) = Cardinality(S)
    BY DEF FS!Cardinality, Cardinality
<1> QED BY <1>1, <1>2

LEMMA SizeType ==
    /\ IsFiniteSet({}) /\ Cardinality({}) = 0
    /\ \A S : IsFiniteSet(S) => Cardinality(S) \in Nat
<1>1. FS!IsFiniteSet({}) /\ FS!Cardinality({}) = 0
    BY FS!FS_EmptySet
<1>2. \A S : FS!IsFiniteSet(S) => FS!Cardinality(S) \in Nat
    BY FS!FS_CardinalityType
<1> QED BY <1>1, <1>2, SameNotions

(* A part of a finite set is finite and no larger.                         *)
LEMMA SubsetSize ==
    ASSUME NEW S, IsFiniteSet(S), NEW T \in SUBSET S
    PROVE  IsFiniteSet(T) /\ Cardinality(T) <= Cardinality(S)
BY FS!FS_Subset, SameNotions

LEMMA JoinedSize ==
    ASSUME NEW S, NEW T, IsFiniteSet(S), IsFiniteSet(T)
    PROVE  /\ IsFiniteSet(S \cup T)
           /\ Cardinality(S \cup T) <= Cardinality(S) + Cardinality(T)
<1>1. /\ IsFiniteSet(S \cup T)
      /\ Cardinality(S \cup T) = Cardinality(S) + Cardinality(T) - Cardinality(S \cap T)
    BY FS!FS_Union, SameNotions
<1>2. IsFiniteSet(S \cap T)
    BY SubsetSize
<1>3. /\ Cardinality(S) \in Nat /\ Cardinality(T) \in Nat
      /\ Cardinality(S \cap T) \in Nat
    BY <1>2, SizeType
<1> QED BY <1>1, <1>3, SMTT(40)

(* A row of n bytes has n of them.                                         *)
LEMMA RowSize ==
    ASSUME NEW j, NEW n \in Nat
    PROVE  IsFiniteSet({j} \X (1 .. n)) /\ Cardinality({j} \X (1 .. n)) = n
<1>1. FS!IsFiniteSet({j}) /\ FS!Cardinality({j}) = 1
    BY FS!FS_Singleton
<1>2. FS!IsFiniteSet(1 .. n) /\ FS!Cardinality(1 .. n) = n
  <2>1. 1 \in Int /\ n \in Int
      BY SMTT(40)
  <2>2. FS!IsFiniteSet(1 .. n) /\ FS!Cardinality(1 .. n) = IF 1 > n THEN 0 ELSE n - 1 + 1
      BY <2>1, FS!FS_Interval
  <2>3. (IF 1 > n THEN 0 ELSE n - 1 + 1) = n
      BY SMTT(40)
  <2> QED BY <2>2, <2>3, SMTT(40)
<1>3. FS!IsFiniteSet({j} \X (1 .. n)) /\ FS!Cardinality({j} \X (1 .. n)) = 1 * n
    BY <1>1, <1>2, FS!FS_Product
<1>4. 1 * n = n
    BY SMTT(40)
<1> QED BY <1>3, <1>4, SameNotions

LEMMA BytesFinite ==
    ASSUME NEW S, IsFiniteSet(S)
    PROVE  IsFiniteSet(S \X RowBytes)
<1>1. 1 \in Int /\ PayloadBytes + MaxResultBytes + ErrorBytes \in Int
    BY BoundsAssumption, SMTT(40) DEF BoundsAssumption
<1>2. FS!IsFiniteSet(RowBytes)
    BY <1>1, FS!FS_Interval DEF RowBytes
<1> QED BY <1>2, FS!FS_Product, SameNotions

(* QueueBounded, with the table a finite one.                              *)
QueueInv == IsFiniteSet(Stored) /\ QueueBounded

LEMMA ReservedSize ==
    ASSUME IsFiniteSet(Stored)
    PROVE  IsFiniteSet(ReservedBytes) /\ Cardinality(ReservedBytes) \in Nat
<1>1. ReservedBytes \in SUBSET (Stored \X RowBytes)
    BY DEF ReservedBytes
<1> QED BY <1>1, BytesFinite, SubsetSize, SizeType

LEMMA ActiveSize ==
    ASSUME IsFiniteSet(Stored)
    PROVE  /\ IsFiniteSet(Active) /\ Cardinality(Active) \in Nat
           /\ \A customer : /\ IsFiniteSet(ActiveOf(customer))
                            /\ Cardinality(ActiveOf(customer)) \in Nat
<1>1. Active \in SUBSET Stored /\ \A customer : ActiveOf(customer) \in SUBSET Stored
    BY DEF Active, Stored, ActiveOf
<1> QED BY <1>1, SubsetSize, SizeType

(* The active jobs when nothing is enqueued.                               *)
LEMMA FreedActive ==
    ASSUME RowsFreed, QueueInv, IsFiniteSet(Stored')
    PROVE  /\ Cardinality(Active') <= MaxActive
           /\ \A customer \in Customers :
                 Cardinality(ActiveOf(customer)') <= MaxActivePerCustomer
<1>1. /\ IsFiniteSet(Stored) /\ Cardinality(Active) <= MaxActive
      /\ \A customer \in Customers :
            Cardinality(ActiveOf(customer)) <= MaxActivePerCustomer
    BY DEF QueueInv, QueueBounded
<1>2. MaxActive \in Nat /\ MaxActivePerCustomer \in Nat
    BY BoundsAssumption DEF BoundsAssumption
<1>3. Active' \in SUBSET Active
    BY DEF Active, RowsFreed, RowFreed
<1>4. ASSUME NEW customer \in Customers
      PROVE  Cardinality(ActiveOf(customer)') <= MaxActivePerCustomer
  <2>1. ActiveOf(customer)' \in SUBSET ActiveOf(customer)
      BY DEF ActiveOf, Active, RowsFreed, RowFreed
  <2>2. /\ Cardinality(ActiveOf(customer)') <= Cardinality(ActiveOf(customer))
        /\ Cardinality(ActiveOf(customer)) \in Nat
        /\ Cardinality(ActiveOf(customer)') \in Nat
      BY <1>1, <2>1, ActiveSize, SubsetSize, SizeType
  <2> QED BY <1>1, <1>2, <2>2, SMTT(40)
<1>5. /\ Cardinality(Active') <= Cardinality(Active)
      /\ Cardinality(Active) \in Nat /\ Cardinality(Active') \in Nat
    BY <1>1, <1>3, ActiveSize, SubsetSize, SizeType
<1>6. Cardinality(Active') <= MaxActive
    BY <1>1, <1>2, <1>5, SMTT(40)
<1> QED BY <1>4, <1>6

LEMMA FreedBounded ==
    ASSUME RowsOK, RowsOK', RowsFreed, QueueInv
    PROVE  QueueInv'
<1>1. Stored' \subseteq Stored
    BY DEF Stored, RowsFreed, RowFreed
<1>2. ASSUME NEW j \in Stored', NEW n \in RowBytes, n <= KeptBytes(j)'
      PROVE  n <= KeptBytes(j)
  <2>1. /\ j \in Jobs /\ jobs'[j].status # "pruned"
        /\ jobs'[j] = jobs[j] \/ j \in Active
      BY DEF Stored, Active, RowsFreed, RowFreed
  <2>2. CASE jobs'[j] = jobs[j]
      BY <1>2, <2>1, <2>2 DEF KeptBytes, Active
  <2>3. CASE j \in Active
    <3>1. jobs'[j].result_bytes \in 0 .. MaxResultBytes
        BY <2>1 DEF RowsOK, JobRow
    <3>2. KeptBytes(j) = PayloadBytes + MaxResultBytes
        BY <2>3 DEF KeptBytes
    <3>3. \/ KeptBytes(j)' = PayloadBytes + MaxResultBytes
          \/ KeptBytes(j)' = PayloadBytes + jobs'[j].result_bytes
        BY DEF KeptBytes
    <3>4. PayloadBytes \in Nat /\ MaxResultBytes \in Nat /\ ErrorBytes \in Nat
        BY BoundsAssumption DEF BoundsAssumption
    <3>5. n \in Nat
        BY <3>4, SMTT(40) DEF RowBytes
    <3> HIDE DEF KeptBytes
    <3> QED BY <1>2, <3>1, <3>2, <3>3, <3>4, <3>5, SMTT(40)
  <2> QED BY <2>1, <2>2, <2>3
<1>3. ReservedBytes' \in SUBSET ReservedBytes
  <2>1. ASSUME NEW b \in ReservedBytes' PROVE b \in ReservedBytes
    <3>1. /\ b \in Stored' \X RowBytes /\ b[2] <= KeptBytes(b[1])'
        BY DEF ReservedBytes
    <3>2. b[1] \in Stored' /\ b[2] \in RowBytes /\ b \in Stored \X RowBytes
        BY <1>1, <3>1
    <3> QED BY <1>2, <3>1, <3>2 DEF ReservedBytes
  <2> QED BY <2>1
<1>4. /\ IsFiniteSet(Stored') /\ IsFiniteSet(Stored)
      /\ Cardinality(ReservedBytes) <= MaxStorageBytes
    BY <1>1, SubsetSize DEF QueueInv, QueueBounded
<1>5. Cardinality(ReservedBytes) \in Nat /\ IsFiniteSet(ReservedBytes)
    BY <1>4, ReservedSize
<1>6. /\ Cardinality(ReservedBytes') <= Cardinality(ReservedBytes)
      /\ IsFiniteSet(ReservedBytes')
    BY <1>3, <1>5, SubsetSize
<1>7. Cardinality(ReservedBytes') \in Nat /\ MaxStorageBytes \in Nat
    BY <1>6, SizeType, BoundsAssumption DEF BoundsAssumption
<1>8. Cardinality(ReservedBytes') <= MaxStorageBytes
    BY <1>4, <1>5, <1>6, <1>7, SMTT(40)
<1> QED BY <1>4, <1>8, FreedActive DEF QueueInv, QueueBounded

(* The active jobs after an enqueue: one more, for its customer.           *)
LEMMA EnqueuedActive ==
    ASSUME RowsOK, QueueInv, NEW j \in Jobs, NEW customer, NEW key, NEW payload,
           EnqueueCustomerJob(j, customer, key, payload)
    PROVE  /\ Cardinality(Active') <= MaxActive
           /\ \A c \in Customers : Cardinality(ActiveOf(c)') <= MaxActivePerCustomer
<1> DEFINE row == NewJob(customer, key, payload, now)
<1>1. /\ jobs' = [jobs EXCEPT ![j] = row]
      /\ Cardinality(Active) < MaxActive
      /\ Cardinality(ActiveOf(customer)) < MaxActivePerCustomer
    BY DEF EnqueueCustomerJob, NewJob, ActiveOf
<1>2. row.customer_id = customer
    BY DEF NewJob, NoJob
<1> HIDE DEF row
<1>3. jobs'[j] = row /\ \A i \in Jobs : i # j => jobs'[i] = jobs[i]
    BY <1>1 DEF RowsOK
<1>4. /\ IsFiniteSet(Stored) /\ MaxActive \in Nat /\ MaxActivePerCustomer \in Nat
      /\ \A c \in Customers : Cardinality(ActiveOf(c)) <= MaxActivePerCustomer
    BY BoundsAssumption DEF QueueInv, QueueBounded, BoundsAssumption
<1>5. IsFiniteSet({j}) /\ Cardinality({j}) = 1
    BY FS!FS_Singleton, SameNotions
<1>6. ASSUME NEW S, NEW T \in SUBSET (S \cup {j}), NEW n \in Nat,
             IsFiniteSet(S), Cardinality(S) < n
      PROVE  Cardinality(T) <= n
  <2>1. /\ IsFiniteSet(S \cup {j})
        /\ Cardinality(S \cup {j}) <= Cardinality(S) + Cardinality({j})
      BY <1>5, <1>6, JoinedSize
  <2>2. IsFiniteSet(T) /\ Cardinality(T) <= Cardinality(S \cup {j})
      BY <2>1, SubsetSize
  <2>3. /\ Cardinality(S) \in Nat /\ Cardinality(T) \in Nat
        /\ Cardinality(S \cup {j}) \in Nat
      BY <1>6, <2>1, <2>2, SizeType
  <2> QED BY <1>5, <1>6, <2>1, <2>2, <2>3, SMTT(40)
<1>7. Cardinality(Active') <= MaxActive
  <2>1. Active' \in SUBSET (Active \cup {j})
      BY <1>3 DEF Active
  <2> QED BY <1>1, <1>4, <1>6, <2>1, ActiveSize
<1>8. ASSUME NEW c \in Customers
      PROVE  Cardinality(ActiveOf(c)') <= MaxActivePerCustomer
  <2>1. CASE c = customer
    <3>1. ActiveOf(c)' \in SUBSET (ActiveOf(c) \cup {j})
        BY <1>3 DEF ActiveOf, Active
    <3> QED BY <1>1, <1>4, <1>6, <2>1, <3>1, ActiveSize
  <2>2. CASE c # customer
    <3>1. ActiveOf(c)' \in SUBSET ActiveOf(c)
        BY <1>2, <1>3, <2>2 DEF ActiveOf, Active
    <3>2. /\ Cardinality(ActiveOf(c)') <= Cardinality(ActiveOf(c))
          /\ Cardinality(ActiveOf(c)) \in Nat /\ Cardinality(ActiveOf(c)') \in Nat
        BY <1>4, <3>1, ActiveSize, SubsetSize, SizeType
    <3> QED BY <1>4, <3>2, SMTT(40)
  <2> QED BY <2>1, <2>2
<1> QED BY <1>7, <1>8

LEMMA EnqueueBounded ==
    ASSUME RowsOK, QueueInv, NEW j \in Jobs, NEW customer, NEW key, NEW payload,
           EnqueueCustomerJob(j, customer, key, payload)
    PROVE  QueueInv'
<1> DEFINE row == NewJob(customer, key, payload, now)
           room == PayloadBytes + MaxResultBytes
<1>1. /\ jobs[j].status = "absent" /\ jobs' = [jobs EXCEPT ![j] = row]
      /\ Cardinality(ChargedBytes) + PayloadBytes + MaxResultBytes <= MaxStorageBytes
    BY DEF EnqueueCustomerJob, NewJob
<1>2. row.status = "queued"
    BY DEF NewJob, NoJob
<1> HIDE DEF row
<1>3. jobs'[j] = row /\ \A i \in Jobs : i # j => jobs'[i] = jobs[i]
    BY <1>1 DEF RowsOK
<1>4. Stored' = Stored \cup {j} /\ j \notin Stored
    BY <1>1, <1>2, <1>3 DEF Stored
<1>5. KeptBytes(j)' = room /\ \A i \in Stored : KeptBytes(i)' = KeptBytes(i)
  <2>1. j \in Active'
      BY <1>2, <1>3 DEF Active
  <2>2. ASSUME NEW i \in Stored
        PROVE  jobs'[i] = jobs[i] /\ (i \in Active' <=> i \in Active)
      BY <1>3, <1>4 DEF Stored, Active
  <2> QED BY <2>1, <2>2 DEF KeptBytes
<1>6. PayloadBytes \in Nat /\ MaxResultBytes \in Nat /\ ErrorBytes \in Nat
      /\ MaxStorageBytes \in Nat
    BY BoundsAssumption DEF BoundsAssumption
<1>7. room \in Nat /\ \A n \in RowBytes : n <= room => n \in 1 .. room
    BY <1>6, SMTT(40) DEF RowBytes
<1>8. ReservedBytes' \in SUBSET (ReservedBytes \cup ({j} \X (1 .. room)))
  <2> HIDE DEF room
  <2>1. ASSUME NEW b \in ReservedBytes'
        PROVE  b \in ReservedBytes \cup ({j} \X (1 .. room))
    <3>1. b \in (Stored \cup {j}) \X RowBytes /\ b[2] <= KeptBytes(b[1])'
        BY <1>4 DEF ReservedBytes
    <3>2. CASE b[1] = j
        BY <1>5, <1>7, <3>1, <3>2
    <3>3. CASE b[1] \in Stored
        BY <1>5, <3>1, <3>3 DEF ReservedBytes
    <3> QED BY <3>1, <3>2, <3>3
  <2> QED BY <2>1
<1>9. ReservedBytes \in SUBSET ChargedBytes
  <2>1. ASSUME NEW i \in Stored, NEW n \in RowBytes, n <= KeptBytes(i)
        PROVE  n <= StorageBytes(i)
    <3>1. KeptBytes(i) \in Nat
      <4>1. jobs[i].result_bytes \in 0 .. MaxResultBytes
          BY DEF Stored, RowsOK, JobRow
      <4> QED BY <1>6, <4>1, SMTT(40) DEF KeptBytes
    <3>2. StorageBytes(i) \in {KeptBytes(i) + ErrorBytes, KeptBytes(i) + 0}
        BY DEF StorageBytes, KeptBytes
    <3>3. n \in Nat
        BY <1>6, SMTT(40) DEF RowBytes
    <3> QED BY <1>6, <2>1, <3>1, <3>2, <3>3, SMTT(40)
  <2>2. ASSUME NEW b \in ReservedBytes PROVE b \in ChargedBytes
    <3>1. b \in Stored \X RowBytes /\ b[2] <= KeptBytes(b[1])
        BY DEF ReservedBytes
    <3>2. b[1] \in Stored /\ b[2] \in RowBytes
        BY <3>1
    <3> QED BY <2>1, <3>1, <3>2 DEF ChargedBytes
  <2> QED BY <2>2
<1>10. /\ IsFiniteSet(Stored) /\ IsFiniteSet(Stored')
       /\ IsFiniteSet(ChargedBytes) /\ IsFiniteSet(ReservedBytes)
  <2>1. IsFiniteSet(Stored) /\ IsFiniteSet({j})
      BY FS!FS_Singleton, SameNotions DEF QueueInv
  <2>2. ChargedBytes \in SUBSET (Stored \X RowBytes)
      BY DEF ChargedBytes
  <2> QED BY <1>4, <2>1, <2>2, JoinedSize, BytesFinite, SubsetSize, ReservedSize
<1> DEFINE new == {j} \X (1 .. room)
           both == ReservedBytes \cup new
<1>11. IsFiniteSet(new) /\ Cardinality(new) = room
    BY <1>7, RowSize
<1>12. /\ IsFiniteSet(both)
       /\ Cardinality(both) <= Cardinality(ReservedBytes) + Cardinality(new)
    BY <1>10, <1>11, JoinedSize
<1>13. /\ Cardinality(ReservedBytes') <= Cardinality(both)
       /\ IsFiniteSet(ReservedBytes')
    BY <1>8, <1>12, SubsetSize
<1>14. Cardinality(ReservedBytes) <= Cardinality(ChargedBytes)
    BY <1>9, <1>10, SubsetSize
<1>15. /\ Cardinality(ReservedBytes) \in Nat /\ Cardinality(ChargedBytes) \in Nat
       /\ Cardinality(both) \in Nat /\ Cardinality(ReservedBytes') \in Nat
    BY <1>10, <1>12, <1>13, SizeType
<1>16. Cardinality(ReservedBytes') <= MaxStorageBytes
  <2> HIDE DEF new, both
  <2> QED BY <1>1, <1>6, <1>11, <1>12, <1>13, <1>14, <1>15, SMTT(40)
<1> QED BY <1>10, <1>16, EnqueuedActive DEF QueueInv, QueueBounded

(* The active jobs stay within the quotas, and payloads and results within *)
(* the storage limit: only an enqueue adds to them or to what they may     *)
(* come to hold, and it counts first.                                      *)
THEOREM QueueStaysBounded == Spec => []QueueBounded
<1>1. Init => QueueInv
  <2> SUFFICES ASSUME Init PROVE QueueInv
      OBVIOUS
  <2>1. \A j \in Jobs : jobs[j].status = "absent"
      BY DEF Init, NoJob
  <2>2. Stored = {}
      BY <2>1 DEF Stored
  <2>3. ReservedBytes = {}
      BY <2>2 DEF ReservedBytes
  <2>4. 0 <= MaxStorageBytes /\ 0 <= MaxActive /\ 0 <= MaxActivePerCustomer
      BY BoundsAssumption, SMTT(40) DEF BoundsAssumption
  <2>5. Active = {} /\ \A customer : ActiveOf(customer) = {}
      BY <2>1 DEF Active, ActiveOf
  <2> QED BY <2>2, <2>3, <2>4, <2>5, SizeType DEF QueueInv, QueueBounded
<1>2. ASSUME LedgerInv, LedgerInv', QueueInv, [Next]_vars
      PROVE  QueueInv'
  <2>1. RowsOK /\ RowsOK'
      BY <1>2 DEF LedgerInv
  <2>2. CASE RowsFreed
      BY <1>2, <2>1, <2>2, FreedBounded
  <2>3. CASE EnqueueStep
      BY <1>2, <2>1, <2>3, EnqueueBounded DEF EnqueueStep
  <2> QED BY <1>2, <2>1, <2>2, <2>3, StepsFree
<1>3. QueueInv => QueueBounded
    BY DEF QueueInv
<1> QED BY <1>1, <1>2, <1>3, LedgerInvHolds, PTL DEF Spec
=============================================================================
