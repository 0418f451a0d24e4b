----------------------------- MODULE CustomerBill -----------------------------
(***************************************************************************)
(* What the provider contract (cathedral/provider_contract.py and          *)
(* provider_transcript.py) promises the customer of one Worker: a cap is   *)
(* reserved once, and it is either charged, at most once, for a Worker     *)
(* that delivered, or released: for nothing, or after it was held because  *)
(* the Worker did not deliver.                                             *)
(***************************************************************************)
EXTENDS Naturals

CONSTANT Cap

VARIABLES
    funds,      \* what became of the customer's cap
    charged,    \* micros charged
    delivered   \* the Worker's result was verified and its provider is gone

vars == <<funds, charged, delivered>>

Init == funds = "none" /\ charged = 0 /\ delivered = FALSE

Reserve ==
    /\ funds = "none"
    /\ funds' = "reserved"
    /\ UNCHANGED <<charged, delivered>>

(* One delivery, while the cap is still reserved.                          *)
Deliver ==
    /\ funds = "reserved" /\ ~delivered
    /\ delivered' = TRUE
    /\ UNCHANGED <<funds, charged>>

Charge ==
    /\ funds = "reserved" /\ delivered
    /\ funds' = "charged"
    /\ charged' \in 1 .. Cap
    /\ UNCHANGED delivered

Hold ==
    /\ funds = "reserved" /\ ~delivered
    /\ funds' = "held"
    /\ UNCHANGED <<charged, delivered>>

(* A run may be free; what was held goes back in full.                     *)
Release ==
    /\ funds = "reserved" \/ (funds = "held" /\ ~delivered)
    /\ funds' = "released"
    /\ UNCHANGED <<charged, delivered>>

Next == Reserve \/ Deliver \/ Charge \/ Hold \/ Release

Spec == Init /\ [][Next]_vars
=============================================================================
