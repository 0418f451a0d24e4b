------------------------------ MODULE MCLedger ------------------------------
(* Instances of Ledger for TLC.                                            *)
EXTENDS Ledger, TLC

(* Two lifecycle events of one worker, one of them attested.               *)
TwoSnapshots == {[state |-> "attested", event_id |-> 1],
                 [state |-> "stale", event_id |-> 2]}

NoSnapshots == {}

(* Customer work only: the facts of a worker and its canonical challenges  *)
(* do not touch the job queue.                                             *)
CustomerNext == Tick \/ EpochStep \/ ResolveCustomerStep \/ JobStep

CustomerSpec == Init /\ [][CustomerNext]_vars

Interchangeable == Permutations(Jobs) \cup Permutations(Hotkeys)
=============================================================================
