--------------------------- MODULE MCLedgerScenes ---------------------------
(* The ledger in two scenes, one of which is set at the start: each uses   *)
(* some of the tables, and takes the steps of Next that touch them.        *)
EXTENDS MCLedger

VARIABLE scene

(* Epochs begun, ended, published and exported without any work.           *)
EpochsAlone ==
    \/ \E s \in SourceEpochs : BeginEpoch(s, None)
    \/ \E e \in EpochIds : \/ AbortEpoch(e)
                          \/ AbandonCompletedEpoch(e)
                          \/ CompleteEpoch(e, {}, PosterAudience)
    \/ PublishStep
    \/ ExportStep

(* One epoch that scores two workers and a customer job.                   *)
OneEpoch ==
    \/ lastEpoch = 0 /\ \E a \in Audiences \cup {None} : BeginEpoch(0, a)
    \/ AbortEpoch(1)
    \/ AbandonCompletedEpoch(1)
    \/ \E given \in SUBSET Hotkeys, a \in Audiences \cup {None} :
          CompleteEpoch(1, given, a)
    \/ FactStep
    \/ ResolveStep
    \/ \E j \in Jobs, c \in Customers, w \in Payloads :
          EnqueueCustomerJob(j, c, None, w)
    \/ \E h \in Hotkeys : ClaimCustomerJob(1, h)
    \/ PublishStep

SceneInit == Init /\ scene \in {"epochs", "one epoch"}

SceneNext ==
    /\ \/ scene = "epochs" /\ EpochsAlone
       \/ scene = "one epoch" /\ OneEpoch
    /\ UNCHANGED scene

SceneSpec == SceneInit /\ [][SceneNext]_<<vars, scene>>
=============================================================================
