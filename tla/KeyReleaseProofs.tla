-------------------------- MODULE KeyReleaseProofs --------------------------
(***************************************************************************)
(* Theorems about KeyRelease, for every set of callers, processes,         *)
(* assignments and workers, every lifetime and every bound.                *)
(***************************************************************************)
EXTENDS KeyRelease, TLAPS

(* A step that names no prover goes to Zenon.                              *)
USE ZenonT(30)

(* The phases of a call that has a redemption on record, that has the      *)
(* broker's answer, and that has a stored ciphertext in hand.              *)
Issuing == {"issue_lifecycle", "issue_record", "create"}
Answered == {"answered", "persist_lifecycle", "persist_record", "persist"}
OnRecord == {"broker"} \cup Answered
Releasing == {"check", "release_lifecycle", "release_record", "return"}

CallRow == [phase : Phases, id : Assignments \cup {None}, at : Times,
            row : LifecycleRow \cup {None}, key : Keys \cup {None},
            policy : Policy \cup {None},
            envelope : (1 .. MaxUnwraps) \cup {None}, fresh : BOOLEAN]

(* What a call holds, given the assignments as, the grants gs and the      *)
(* lifecycle rows lc.  An issuing call read a row that may have moved on;  *)
(* a redeeming call has a grant, at least as far as its phase says; once   *)
(* the release check began, the grant was current, or it is too late and   *)
(* the check of the lifecycle will say so.                                 *)
IssueOK(call, as, lc) ==
    /\ call.key \in Keys /\ call.policy \in Policy
    /\ call.phase # "issue_lifecycle" =>
           /\ call.row \in LifecycleRow
           /\ call.row.event_id <= lc[as[call.id].worker].event_id

RedeemOK(call, as, gs, lc) ==
    /\ gs[call.id] \in GrantRow
    /\ call.phase \in OnRecord => gs[call.id].state # "issued"
    /\ call.phase \in Answered => call.envelope \in 1 .. MaxUnwraps
    /\ call.phase \in Releasing =>
           gs[call.id].state = "redeemed" /\ gs[call.id].envelope = call.envelope
    /\ call.phase = "release_lifecycle" =>
           call.fresh \/ lc[as[call.id].worker].event_id > gs[call.id].event_id
    /\ call.phase \in {"release_record", "return"} => call.fresh

CallOK(call, as, gs, lc) ==
    call.phase # "idle" =>
        /\ call.id \in Assignments /\ as[call.id] # None
        /\ call.phase \in Issuing => IssueOK(call, as, lc)
        /\ call.phase \notin Issuing => RedeemOK(call, as, gs, lc)

(* A grant has a ciphertext when it is redeemed, lasts no longer than the  *)
(* evidence it rests on, and rests on an event its worker has had.         *)
Sealed(g) == g.state = "redeemed" <=> g.envelope # None

GrantOK(a, as, gs, lc) ==
    gs[a] # None =>
        /\ as[a] # None /\ Sealed(gs[a])
        /\ gs[a].expires_at <= gs[a].verified_at + EvidenceTTL
        /\ gs[a].expires_at <= gs[a].verified_at + MaxAge
        /\ gs[a].event_id <= lc[as[a].worker].event_id

BrokerOK(b, gs) ==
    \A a \in Assignments : b[a] # None => gs[a] \in GrantRow /\ gs[a].state # "issued"

ReleasedOK(r, as, gs) ==
    r # None =>
        /\ r.id \in Assignments /\ r.at \in Times /\ r.fresh
        /\ gs[r.id] \in GrantRow /\ gs[r.id].state = "redeemed"
        /\ r.envelope = gs[r.id].envelope /\ r.at < gs[r.id].expires_at
        /\ as[r.id] # None
        /\ as[r.id].issued_at <= r.at /\ r.at < as[r.id].expires_at

TablesOK ==
    /\ lifecycle \in [Workers -> LifecycleRow]
    /\ record \in [Workers -> [evidence : Events, key : Keys] \cup {None}]
    /\ policy \in Policy
    /\ assignments \in [Assignments -> Assignment \cup {None}]
    /\ grants \in [Assignments -> GrantRow \cup {None}]
    /\ broker \in [Assignments -> (1 .. MaxUnwraps) \cup {None}]
    /\ unwraps \in 0 .. MaxUnwraps

ClocksOK ==
    /\ now \in Times /\ registry_seen \in Times
    /\ last_seen \in [Services -> Times]

IInv ==
    /\ TablesOK /\ ClocksOK
    /\ calls \in [Callers -> CallRow]
    /\ \A c \in Callers : CallOK(calls[c], assignments, grants, lifecycle)
    /\ \A a \in Assignments : GrantOK(a, assignments, grants, lifecycle)
    /\ BrokerOK(broker, grants)
    /\ ReleasedOK(released, assignments, grants)
-----------------------------------------------------------------------------
(* What a step may do to a grant: nothing, or take it out of the issued    *)
(* state for good.  A redeemed grant never changes.                        *)
GrantMoves(g, n) ==
    \/ n = g
    \/ /\ n \in GrantRow /\ Sealed(n)
       /\ g.state # "redeemed" /\ n.state # "issued"
       /\ n.event_id = g.event_id
       /\ n.verified_at = g.verified_at /\ n.expires_at = g.expires_at

(* What a step may do to the tables that calls rest on.                    *)
Onward(as, gs, lc, as2, gs2, lc2) ==
    /\ \A a \in Assignments : as[a] # None => as2[a] = as[a]
    /\ \A a \in Assignments : gs[a] \in GrantRow => GrantMoves(gs[a], gs2[a])
    /\ \A h \in Workers : lc[h].event_id <= lc2[h].event_id

LEMMA RowTypes ==
    /\ \A g \in GrantRow : /\ g.event_id \in Int /\ g.verified_at \in Int
                           /\ g.expires_at \in Int /\ g.issued_at \in Int
    /\ \A row \in LifecycleRow : row.event_id \in Int /\ row.verified_at \in Int
    /\ \A x \in Assignment : /\ x.worker \in Workers
                             /\ x.issued_at \in Int /\ x.expires_at \in Int
BY KeyReleaseAssumption, SMTT(40)
   DEF KeyReleaseAssumption, GrantRow, LifecycleRow, Assignment, Events, Times,
       Releases

(* A call that does not move stays in order while the tables move on.      *)
LEMMA CallKept ==
    ASSUME NEW call, NEW as \in [Assignments -> Assignment \cup {None}], NEW gs,
           NEW lc \in [Workers -> LifecycleRow], NEW as2, NEW gs2,
           NEW lc2 \in [Workers -> LifecycleRow],
           CallOK(call, as, gs, lc), Onward(as, gs, lc, as2, gs2, lc2)
    PROVE  CallOK(call, as2, gs2, lc2)
<1> SUFFICES ASSUME call.phase # "idle"
             PROVE  /\ call.id \in Assignments /\ as2[call.id] # None
                    /\ call.phase \in Issuing => IssueOK(call, as2, lc2)
                    /\ call.phase \notin Issuing => RedeemOK(call, as2, gs2, lc2)
  BY DEF CallOK
<1> DEFINE a == call.id
           h == as[a].worker
<1>1. a \in Assignments /\ as[a] # None /\ as2[a] = as[a]
  BY DEF CallOK, Onward
<1>2. h \in Workers /\ as2[a].worker = h
  <2>1. as[a] \in Assignment
    BY <1>1
  <2> QED BY <1>1, <2>1, RowTypes
<1>3. /\ lc[h].event_id \in Int /\ lc2[h].event_id \in Int
      /\ lc[h].event_id <= lc2[h].event_id
  <2>1. lc[h] \in LifecycleRow /\ lc2[h] \in LifecycleRow
    BY <1>2
  <2> QED BY <1>2, <2>1, RowTypes DEF Onward
<1>4. ASSUME call.phase \in Issuing PROVE IssueOK(call, as2, lc2)
  <2>1. IssueOK(call, as, lc)
    BY <1>4 DEF CallOK
  <2>2. ASSUME call.phase # "issue_lifecycle"
        PROVE  call.row \in LifecycleRow /\ call.row.event_id <= lc2[h].event_id
    <3>1. call.row \in LifecycleRow /\ call.row.event_id <= lc[h].event_id
      BY <2>1, <2>2 DEF IssueOK
    <3>2. call.row.event_id \in Int
      BY <3>1, RowTypes
    <3> HIDE DEF h, a
    <3> QED BY <1>3, <3>1, <3>2, SMTT(40)
  <2> QED BY <1>2, <2>1, <2>2 DEF IssueOK
<1>5. ASSUME call.phase \notin Issuing PROVE RedeemOK(call, as2, gs2, lc2)
  <2>1. RedeemOK(call, as, gs, lc)
    BY <1>5 DEF CallOK
  <2>2. gs[a] \in GrantRow /\ GrantMoves(gs[a], gs2[a])
    BY <1>1, <2>1 DEF RedeemOK, Onward
  <2>3. /\ gs2[a] \in GrantRow /\ gs2[a].event_id = gs[a].event_id
        /\ gs[a].state = "redeemed" => gs2[a] = gs[a]
        /\ gs[a].state # "issued" => gs2[a].state # "issued"
        /\ gs[a].event_id \in Int
    BY <2>2, RowTypes DEF GrantMoves
  <2> HIDE DEF h, a
  <2>4. call.phase = "release_lifecycle" => call.fresh \/ lc2[h].event_id > gs2[a].event_id
    <3>1. call.phase = "release_lifecycle" => call.fresh \/ lc[h].event_id > gs[a].event_id
      BY <2>1 DEF RedeemOK, h, a
    <3>2. lc[h].event_id > gs[a].event_id => lc2[h].event_id > gs2[a].event_id
      BY <1>3, <2>3, SMTT(40)
    <3> QED BY <3>1, <3>2
  <2>5. call.phase \in {"release_record", "return"} => call.fresh
    BY <2>1 DEF RedeemOK
  <2>6. call.phase \in Releasing =>
            gs2[a].state = "redeemed" /\ gs2[a].envelope = call.envelope
    BY <2>1, <2>3 DEF RedeemOK, a
  <2>7. /\ call.phase \in OnRecord => gs2[a].state # "issued"
        /\ call.phase \in Answered => call.envelope \in 1 .. MaxUnwraps
    BY <2>1, <2>3 DEF RedeemOK, a
  <2> QED BY <1>2, <2>3, <2>4, <2>5, <2>6, <2>7 DEF RedeemOK, a
<1> QED BY <1>1, <1>4, <1>5

(* The same of a grant, of the broker's cache and of what was released.    *)
LEMMA GrantKept ==
    ASSUME NEW a \in Assignments, NEW as \in [Assignments -> Assignment \cup {None}],
           NEW gs \in [Assignments -> GrantRow \cup {None}],
           NEW lc \in [Workers -> LifecycleRow], NEW as2, NEW gs2,
           NEW lc2 \in [Workers -> LifecycleRow], gs[a] # None,
           GrantOK(a, as, gs, lc), Onward(as, gs, lc, as2, gs2, lc2)
    PROVE  GrantOK(a, as2, gs2, lc2)
<1> DEFINE h == as[a].worker
<1>1. gs[a] \in GrantRow /\ GrantMoves(gs[a], gs2[a])
  BY DEF Onward
<1>2. as[a] # None /\ as2[a] = as[a]
  BY DEF Onward, GrantOK
<1>3. h \in Workers
  <2>1. as[a] \in Assignment
    BY <1>2
  <2> QED BY <2>1, RowTypes
<1>4. /\ lc[h].event_id \in Int /\ lc2[h].event_id \in Int
      /\ lc[h].event_id <= lc2[h].event_id
  <2>1. lc[h] \in LifecycleRow /\ lc2[h] \in LifecycleRow
    BY <1>3
  <2> QED BY <1>3, <2>1, RowTypes DEF Onward
<1>5. /\ Sealed(gs2[a]) /\ gs2[a].event_id = gs[a].event_id
      /\ gs2[a].verified_at = gs[a].verified_at /\ gs2[a].expires_at = gs[a].expires_at
  BY <1>1 DEF GrantMoves, GrantOK
<1>6. gs[a].event_id <= lc[h].event_id /\ gs[a].event_id \in Int
  BY <1>1, RowTypes DEF GrantOK
<1>7. gs2[a].event_id <= lc2[as2[a].worker].event_id
  <2> HIDE DEF h
  <2>1. gs2[a].event_id <= lc2[h].event_id
    BY <1>4, <1>5, <1>6, SMTT(40)
  <2>2. as2[a].worker = h
    BY <1>2 DEF h
  <2> QED BY <2>1, <2>2
<1> QED BY <1>2, <1>5, <1>7 DEF GrantOK

LEMMA RestKept ==
    ASSUME NEW as, NEW gs, NEW lc, NEW as2, NEW gs2, NEW lc2,
           Onward(as, gs, lc, as2, gs2, lc2)
    PROVE  /\ \A b : BrokerOK(b, gs) => BrokerOK(b, gs2)
           /\ \A r : ReleasedOK(r, as, gs) => ReleasedOK(r, as2, gs2)
<1>1. ASSUME NEW a \in Assignments, gs[a] \in GrantRow
      PROVE  /\ gs2[a] \in GrantRow
             /\ gs[a].state # "issued" => gs2[a].state # "issued"
             /\ gs[a].state = "redeemed" => gs2[a] = gs[a]
  BY <1>1 DEF Onward, GrantMoves
<1>2. ASSUME NEW b, BrokerOK(b, gs) PROVE BrokerOK(b, gs2)
  BY <1>1, <1>2 DEF BrokerOK
<1>3. ASSUME NEW r, ReleasedOK(r, as, gs), r # None PROVE ReleasedOK(r, as2, gs2)
  <2>1. gs2[r.id] = gs[r.id] /\ as2[r.id] = as[r.id]
    BY <1>1, <1>3 DEF ReleasedOK, Onward
  <2> QED BY <1>3, <2>1 DEF ReleasedOK
<1>4. \A r : r = None => ReleasedOK(r, as2, gs2)
  BY DEF ReleasedOK
<1> QED BY <1>2, <1>3, <1>4

(* A step keeps the invariant when it moves the tables on and leaves what  *)
(* it changes itself in order.                                             *)
LEMMA StepInv ==
    ASSUME IInv, TablesOK', ClocksOK', calls' \in [Callers -> CallRow],
           Onward(assignments, grants, lifecycle, assignments', grants', lifecycle'),
           \A c \in Callers :
               \/ calls'[c] = calls[c]
               \/ CallOK(calls'[c], assignments', grants', lifecycle'),
           \A a \in Assignments : grants[a] = None =>
               grants'[a] = None \/ GrantOK(a, assignments', grants', lifecycle'),
           broker' = broker \/ BrokerOK(broker', grants'),
           released' = released \/ ReleasedOK(released', assignments', grants')
    PROVE  IInv'
<1>1. /\ assignments \in [Assignments -> Assignment \cup {None}]
      /\ grants \in [Assignments -> GrantRow \cup {None}]
      /\ lifecycle \in [Workers -> LifecycleRow]
      /\ lifecycle' \in [Workers -> LifecycleRow]
  BY DEF IInv, TablesOK
<1>2. \A c \in Callers : CallOK(calls'[c], assignments', grants', lifecycle')
  <2> SUFFICES ASSUME NEW c \in Callers, calls'[c] = calls[c]
               PROVE  CallOK(calls'[c], assignments', grants', lifecycle')
    OBVIOUS
  <2>1. CallOK(calls[c], assignments, grants, lifecycle)
    BY DEF IInv
  <2>2. CallOK(calls[c], assignments', grants', lifecycle')
    BY <1>1, <2>1, CallKept
  <2> QED BY <2>2
<1>3. \A a \in Assignments : GrantOK(a, assignments', grants', lifecycle')
  <2> SUFFICES ASSUME NEW a \in Assignments
               PROVE  GrantOK(a, assignments', grants', lifecycle')
    OBVIOUS
  <2>1. CASE grants[a] = None
    BY <2>1 DEF GrantOK
  <2>2. CASE grants[a] # None
    <3>1. GrantOK(a, assignments, grants, lifecycle)
      BY DEF IInv
    <3> QED BY <1>1, <2>2, <3>1, GrantKept
  <2> QED BY <2>1, <2>2
<1>4. BrokerOK(broker, grants) /\ ReleasedOK(released, assignments, grants)
  BY DEF IInv
<1>5. BrokerOK(broker', grants') /\ ReleasedOK(released', assignments', grants')
  <2>1. BrokerOK(broker, grants') /\ ReleasedOK(released, assignments', grants')
    BY <1>4, RestKept
  <2> QED BY <2>1
<1> QED BY <1>2, <1>3, <1>5 DEF IInv
-----------------------------------------------------------------------------
(* Calls.                                                                  *)

LEMMA IdleFits ==
    /\ Idle \in CallRow
    /\ \A as, gs, lc : CallOK(Idle, as, gs, lc)
<1>1. 0 \in Times
  BY KeyReleaseAssumption, SMTT(40) DEF KeyReleaseAssumption, Times
<1>2. Idle.phase = "idle"
  BY DEF Idle
<1>3. Idle \in CallRow
  BY <1>1 DEF Idle, CallRow, Phases
<1> QED BY <1>2, <1>3 DEF CallOK

(* A call that goes on to a phase that asks no more of it.                 *)
SamePlace ==
    {<<"issue_record", "create">>, <<"redeem_lifecycle", "redeem_record">>,
     <<"redeem_record", "begin">>, <<"answered", "persist_lifecycle">>,
     <<"persist_lifecycle", "persist_record">>, <<"persist_record", "persist">>,
     <<"release_record", "return">>}

LEMMA GoesOn ==
    ASSUME NEW call, NEW n, NEW as, NEW gs, NEW lc, CallOK(call, as, gs, lc),
           <<call.phase, n.phase>> \in SamePlace,
           n.id = call.id, n.key = call.key, n.policy = call.policy,
           n.row = call.row, n.envelope = call.envelope, n.fresh = call.fresh
    PROVE  CallOK(n, as, gs, lc)
<1>1. /\ call.phase # "idle" /\ n.phase # "idle" /\ call.phase # "issue_lifecycle"
      /\ call.phase \in Issuing <=> n.phase \in Issuing
      /\ n.phase \in OnRecord => call.phase \in OnRecord
      /\ n.phase \in Answered => call.phase \in Answered
      /\ n.phase \in Releasing => call.phase \in Releasing
      /\ n.phase # "release_lifecycle"
      /\ n.phase \in {"release_record", "return"} =>
             call.phase \in {"release_record", "return"}
  BY DEF SamePlace, Issuing, OnRecord, Answered, Releasing
<1>2. call.id \in Assignments /\ as[call.id] # None
  BY <1>1 DEF CallOK
<1>3. n.phase \in Issuing => IssueOK(n, as, lc)
  BY <1>1 DEF CallOK, IssueOK
<1>4. n.phase \notin Issuing => RedeemOK(n, as, gs, lc)
  BY <1>1 DEF CallOK, RedeemOK
<1> QED BY <1>2, <1>3, <1>4 DEF CallOK

(* The fields of a call that only changes its phase, or its sample or its  *)
(* ciphertext too.                                                         *)
LEMMA PhaseOnly ==
    ASSUME NEW call \in CallRow, NEW p \in Phases, NEW n,
           n = [call EXCEPT !.phase = p]
    PROVE  /\ n \in CallRow /\ n.phase = p /\ n.id = call.id /\ n.key = call.key
           /\ n.policy = call.policy /\ n.row = call.row
           /\ n.envelope = call.envelope /\ n.fresh = call.fresh /\ n.at = call.at
BY DEF CallRow

Sampled(call, p, t) == [call EXCEPT !.phase = p, !.at = t]
Holding(call, p, e) == [call EXCEPT !.phase = p, !.envelope = e]

LEMMA PhaseAndSample ==
    ASSUME NEW call \in CallRow, NEW p \in Phases, NEW t \in Times, NEW n,
           n = Sampled(call, p, t)
    PROVE  /\ n \in CallRow /\ n.phase = p /\ n.id = call.id /\ n.key = call.key
           /\ n.policy = call.policy /\ n.row = call.row
           /\ n.envelope = call.envelope /\ n.fresh = call.fresh /\ n.at = t
<1> DEFINE m == [call EXCEPT !.phase = p]
<1>1. /\ m \in CallRow /\ m.phase = p /\ m.id = call.id /\ m.key = call.key
      /\ m.policy = call.policy /\ m.row = call.row
      /\ m.envelope = call.envelope /\ m.fresh = call.fresh /\ m.at = call.at
  BY DEF CallRow
<1>2. n = [m EXCEPT !.at = t]
  BY DEF Sampled
<1> HIDE DEF m
<1> QED BY <1>1, <1>2, SMTT(40) DEF CallRow

LEMMA PhaseAndEnvelope ==
    ASSUME NEW call \in CallRow, NEW p \in Phases, NEW n,
           NEW e \in (1 .. MaxUnwraps) \cup {None}, n = Holding(call, p, e)
    PROVE  /\ n \in CallRow /\ n.phase = p /\ n.id = call.id /\ n.key = call.key
           /\ n.policy = call.policy /\ n.row = call.row
           /\ n.envelope = e /\ n.fresh = call.fresh
<1> DEFINE m == [call EXCEPT !.phase = p]
<1>1. /\ m \in CallRow /\ m.phase = p /\ m.id = call.id /\ m.key = call.key
      /\ m.policy = call.policy /\ m.row = call.row
      /\ m.envelope = call.envelope /\ m.fresh = call.fresh /\ m.at = call.at
  BY DEF CallRow
<1>2. n = [m EXCEPT !.envelope = e]
  BY DEF Holding
<1> HIDE DEF m
<1> QED BY <1>1, <1>2 DEF CallRow

LEMMA Unmoved ==
    ASSUME TablesOK, UNCHANGED <<assignments, grants, lifecycle>>
    PROVE  Onward(assignments, grants, lifecycle, assignments', grants', lifecycle')
<1>1. \A h \in Workers : lifecycle[h].event_id <= lifecycle'[h].event_id
  <2> SUFFICES ASSUME NEW h \in Workers
               PROVE  lifecycle[h].event_id <= lifecycle'[h].event_id
    OBVIOUS
  <2>1. lifecycle[h] \in LifecycleRow
    BY DEF TablesOK
  <2>2. lifecycle[h].event_id \in Int
    BY <2>1, RowTypes
  <2> QED BY <2>2, SMTT(40)
<1> QED BY <1>1 DEF Onward, GrantMoves

(* One call moves and at most a clock with it.                             *)
LEMMA CallMoves ==
    ASSUME IInv, NEW c \in Callers, NEW new \in CallRow,
           calls' = [calls EXCEPT ![c] = new],
           CallOK(new, assignments, grants, lifecycle), ClocksOK',
           UNCHANGED <<lifecycle, record, policy, assignments, grants, brokerVars>>,
           released' = released \/ ReleasedOK(released', assignments, grants)
    PROVE  IInv'
<1>1. /\ calls' \in [Callers -> CallRow] /\ calls'[c] = new
      /\ \A x \in Callers \ {c} : calls'[x] = calls[x]
  BY DEF IInv
<1>2. TablesOK' /\ TablesOK /\ UNCHANGED broker
  BY DEF IInv, TablesOK, brokerVars
<1>3. Onward(assignments, grants, lifecycle, assignments', grants', lifecycle')
  BY <1>2, Unmoved
<1>4. \A x \in Callers :
          \/ calls'[x] = calls[x]
          \/ CallOK(calls'[x], assignments', grants', lifecycle')
  BY <1>1
<1>5. \A a \in Assignments : grants[a] = None =>
          grants'[a] = None \/ GrantOK(a, assignments', grants', lifecycle')
  OBVIOUS
<1>6. released' = released \/ ReleasedOK(released', assignments', grants')
  OBVIOUS
<1> QED BY <1>1, <1>2, <1>3, <1>4, <1>5, <1>6, StepInv

LEMMA Ends ==
    ASSUME IInv, NEW c \in Callers, calls' = [calls EXCEPT ![c] = Idle], ClocksOK',
           UNCHANGED <<lifecycle, record, policy, assignments, grants, brokerVars>>,
           released' = released \/ ReleasedOK(released', assignments, grants)
    PROVE  IInv'
BY CallMoves, IdleFits

LEMMA SampleOK ==
    ASSUME ClocksOK, NEW c \in Callers, Sample(c), UNCHANGED <<now, registry_seen>>
    PROVE  ClocksOK'
<1>1. ServiceOf[c] \in Services
  BY KeyReleaseAssumption DEF KeyReleaseAssumption
<1> QED BY <1>1 DEF ClocksOK, Sample

(* Where a call stands.                                                    *)
LEMMA Standing ==
    ASSUME IInv, NEW c \in Callers
    PROVE  /\ TablesOK /\ ClocksOK
           /\ calls[c] \in CallRow
           /\ CallOK(calls[c], assignments, grants, lifecycle)
           /\ calls[c].phase # "idle" =>
                  /\ calls[c].id \in Assignments
                  /\ assignments[calls[c].id] \in Assignment
                  /\ assignments[calls[c].id].worker \in Workers
           /\ calls[c].phase # "idle" /\ calls[c].phase \notin Issuing =>
                  /\ grants[calls[c].id] \in GrantRow
                  /\ grants[calls[c].id] # None
<1>1. /\ TablesOK /\ ClocksOK /\ calls[c] \in CallRow
      /\ CallOK(calls[c], assignments, grants, lifecycle)
  BY DEF IInv
<1>2. ASSUME calls[c].phase # "idle"
      PROVE  /\ calls[c].id \in Assignments
             /\ assignments[calls[c].id] \in Assignment
             /\ assignments[calls[c].id].worker \in Workers
  <2>1. calls[c].id \in Assignments /\ assignments[calls[c].id] # None
    BY <1>1, <1>2 DEF CallOK
  <2>2. assignments[calls[c].id] \in Assignment
    BY <1>1, <2>1 DEF TablesOK
  <2> QED BY <2>1, <2>2, RowTypes
<1>3. ASSUME calls[c].phase # "idle", calls[c].phase \notin Issuing
      PROVE  grants[calls[c].id] \in GrantRow /\ grants[calls[c].id] # None
  BY <1>1, <1>3, NoneAssumption DEF CallOK, RedeemOK, NoneAssumption
<1> QED BY <1>1, <1>2, <1>3
-----------------------------------------------------------------------------
(* The steps of issue_grant.                                               *)

LEMMA IssueGrantInv ==
    ASSUME IInv, NEW c \in Callers, NEW a \in Assignments, NEW key \in Keys,
           IssueGrant(c, a, key)
    PROVE  IInv'
<1> DEFINE ok == Verify(a, now) /\ assignments[a].workload = policy.workload
           new == [Idle EXCEPT !.phase = "issue_lifecycle", !.id = a, !.at = now,
                               !.key = key, !.policy = policy]
<1>1. /\ Sample(c) /\ calls' = [calls EXCEPT ![c] = IF ok THEN new ELSE Idle]
      /\ UNCHANGED <<now, registry_seen, lifecycle, record, policy, assignments,
                     grants, brokerVars, released>>
  BY DEF IssueGrant, Proceed, registryVars
<1>2. ClocksOK' /\ now \in Times /\ policy \in Policy
  BY <1>1, SampleOK DEF IInv, ClocksOK, TablesOK
<1>3. CASE ok
  <2>1. /\ new \in CallRow /\ new.phase = "issue_lifecycle" /\ new.id = a
        /\ new.key = key /\ new.policy = policy
    <3> DEFINE m1 == [Idle EXCEPT !.phase = "issue_lifecycle"]
               m2 == [m1 EXCEPT !.id = a]
               m3 == [m2 EXCEPT !.at = now]
               m4 == [m3 EXCEPT !.key = key]
    <3>0. new = [m4 EXCEPT !.policy = policy]
      OBVIOUS
    <3>1. m1 \in CallRow /\ m1.phase = "issue_lifecycle"
      BY IdleFits DEF CallRow, Phases
    <3> HIDE DEF m1
    <3>2. m2 \in CallRow /\ m2.phase = "issue_lifecycle" /\ m2.id = a
      BY <3>1 DEF CallRow
    <3> HIDE DEF m2
    <3>3. m3 \in CallRow /\ m3.phase = "issue_lifecycle" /\ m3.id = a
      BY <1>2, <3>2 DEF CallRow
    <3> HIDE DEF m3
    <3>4. m4 \in CallRow /\ m4.phase = "issue_lifecycle" /\ m4.id = a /\ m4.key = key
      BY <3>3 DEF CallRow
    <3> HIDE DEF m4, new
    <3> QED BY <1>2, <3>0, <3>4 DEF CallRow
  <2>2. assignments[a] # None
    BY <1>3 DEF Verify
  <2>3. calls' = [calls EXCEPT ![c] = new]
    BY <1>1, <1>3
  <2> HIDE DEF new
  <2>4. new.phase \in Issuing
    BY <2>1 DEF Issuing
  <2>5. CallOK(new, assignments, grants, lifecycle)
    BY <1>2, <2>1, <2>2, <2>4 DEF CallOK, IssueOK
  <2> QED BY <1>1, <1>2, <2>1, <2>3, <2>5, CallMoves
<1>4. CASE ~ok
  <2>1. calls' = [calls EXCEPT ![c] = Idle]
    BY <1>1, <1>4
  <2> QED BY <1>1, <1>2, <2>1, Ends
<1> QED BY <1>3, <1>4

(* What a read of the lifecycle does to the registry.                      *)
LEMMA SnapshotOK ==
    ASSUME TablesOK, ClocksOK, NEW h \in Workers, ReadLifecycle(h)
    PROVE  /\ Snapshot(h) \in LifecycleRow
           /\ registry_seen' \in Times
           /\ lifecycle' \in [Workers -> LifecycleRow]
           /\ lifecycle'[h] = Snapshot(h)
           /\ \A k \in Workers : lifecycle[k].event_id <= lifecycle'[k].event_id
<1>1. lifecycle[h] \in LifecycleRow /\ now \in Times /\ MaxEvents \in Nat
  BY KeyReleaseAssumption DEF TablesOK, ClocksOK, KeyReleaseAssumption
<1>2. /\ Snapshot(h).event_id <= MaxEvents /\ registry_seen' = now
      /\ lifecycle' = [lifecycle EXCEPT ![h] = Snapshot(h)]
  BY DEF ReadLifecycle
<1>3. /\ Snapshot(h) \in LifecycleRow
      /\ lifecycle[h].event_id <= Snapshot(h).event_id
  <2>1. CASE Snapshot(h) = lifecycle[h]
    <3>1. lifecycle[h].event_id \in Int
      BY <1>1, RowTypes
    <3> QED BY <1>1, <2>1, <3>1, SMTT(40)
  <2>2. CASE Snapshot(h) # lifecycle[h]
    <3> DEFINE row == lifecycle[h]
               m == [row EXCEPT !.state = "other"]
               n == [m EXCEPT !.event_id = row.event_id + 1]
    <3>1. Snapshot(h) = [lifecycle[h] EXCEPT !.state = "other", !.event_id = @ + 1]
      BY <2>2 DEF Snapshot
    <3>2. /\ m \in LifecycleRow /\ m.event_id = row.event_id
          /\ row.event_id \in Nat
      BY <1>1, SMTT(40) DEF LifecycleRow, Events
    <3>3. Snapshot(h) = n
      BY <1>1, <3>1 DEF LifecycleRow
    <3> HIDE DEF m
    <3>5. n.event_id = row.event_id + 1
      BY <3>2 DEF LifecycleRow
    <3>6. row.event_id + 1 \in Events
      BY <1>1, <1>2, <3>2, <3>3, <3>5, SMTT(40) DEF Events
    <3>7. n \in LifecycleRow
      BY <3>2, <3>6 DEF LifecycleRow
    <3> QED BY <3>2, <3>3, <3>5, <3>7, SMTT(40)
  <2> QED BY <2>1, <2>2
<1>4. /\ lifecycle' \in [Workers -> LifecycleRow] /\ lifecycle'[h] = Snapshot(h)
      /\ \A k \in Workers \ {h} : lifecycle'[k] = lifecycle[k]
  BY <1>2, <1>3 DEF TablesOK
<1>5. ASSUME NEW k \in Workers PROVE lifecycle[k].event_id <= lifecycle'[k].event_id
  <2>1. CASE k = h
    BY <1>3, <1>4, <2>1
  <2>2. CASE k # h
    <3>1. lifecycle'[k] = lifecycle[k] /\ lifecycle[k] \in LifecycleRow
      BY <1>4, <2>2 DEF TablesOK
    <3>2. lifecycle[k].event_id \in Int
      BY <3>1, RowTypes
    <3> QED BY <3>1, <3>2, SMTT(40)
  <2> QED BY <2>1, <2>2
<1> QED BY <1>1, <1>2, <1>3, <1>4, <1>5

(* A call moves on after a read of its worker's lifecycle.                 *)
LEMMA ReadMoves ==
    ASSUME IInv, NEW c \in Callers, NEW h \in Workers, ReadLifecycle(h),
           NEW new \in CallRow, calls' = [calls EXCEPT ![c] = new],
           CallOK(new, assignments, grants, lifecycle'),
           UNCHANGED <<now, record, policy, assignments, grants, brokerVars,
                       last_seen, released>>
    PROVE  IInv'
<1>1. TablesOK /\ ClocksOK
  BY DEF IInv
<1>2. /\ registry_seen' \in Times /\ lifecycle' \in [Workers -> LifecycleRow]
      /\ \A k \in Workers : lifecycle[k].event_id <= lifecycle'[k].event_id
  BY <1>1, SnapshotOK
<1>3. TablesOK' /\ ClocksOK' /\ UNCHANGED broker
  BY <1>1, <1>2 DEF TablesOK, ClocksOK, brokerVars
<1>4. /\ calls' \in [Callers -> CallRow] /\ calls'[c] = new
      /\ \A x \in Callers \ {c} : calls'[x] = calls[x]
  BY DEF IInv
<1>5. Onward(assignments, grants, lifecycle, assignments', grants', lifecycle')
  BY <1>2 DEF Onward, GrantMoves
<1>6. \A x \in Callers :
          \/ calls'[x] = calls[x]
          \/ CallOK(calls'[x], assignments', grants', lifecycle')
  BY <1>4
<1>7. \A a \in Assignments : grants[a] = None =>
          grants'[a] = None \/ GrantOK(a, assignments', grants', lifecycle')
  OBVIOUS
<1> QED BY <1>3, <1>4, <1>5, <1>6, <1>7, StepInv

LEMMA IssueLifecycleInv ==
    ASSUME IInv, NEW c \in Callers, IssueLifecycle(c)
    PROVE  IInv'
<1> DEFINE call == calls[c]
           h == assignments[call.id].worker
           row == Snapshot(h)
           new == [call EXCEPT !.phase = "issue_record", !.row = row]
           m == [call EXCEPT !.phase = "issue_record"]
<1>1. /\ call.phase = "issue_lifecycle" /\ ReadLifecycle(h)
      /\ calls' = [calls EXCEPT ![c] = new]
      /\ UNCHANGED <<now, record, policy, assignments, grants, brokerVars,
                     last_seen, released>>
  BY DEF IssueLifecycle, Proceed
<1>2. /\ call \in CallRow /\ call.id \in Assignments /\ h \in Workers
      /\ assignments[call.id] # None
      /\ TablesOK /\ ClocksOK /\ CallOK(call, assignments, grants, lifecycle)
  BY <1>1, Standing DEF CallOK
<1>3. row \in LifecycleRow /\ lifecycle'[h] = row
  BY <1>1, <1>2, SnapshotOK
<1>4. call.phase \in Issuing
  BY <1>1 DEF Issuing
<1>5. call.key \in Keys /\ call.policy \in Policy
  BY <1>1, <1>2, <1>4 DEF CallOK, IssueOK
<1>6. new = [m EXCEPT !.row = row]
  OBVIOUS
<1> HIDE DEF call, h, row
<1>7. /\ m \in CallRow /\ m.phase = "issue_record" /\ m.id = call.id
      /\ m.key = call.key /\ m.policy = call.policy
  BY <1>2 DEF CallRow, Phases
<1> HIDE DEF m, new
<1>8. /\ new \in CallRow /\ new.phase = "issue_record" /\ new.id = call.id
      /\ new.key = call.key /\ new.policy = call.policy /\ new.row = row
  BY <1>3, <1>6, <1>7 DEF CallRow
<1>9. new.phase \in Issuing /\ new.phase # "idle"
  BY <1>8 DEF Issuing
<1>10. row.event_id \in Int
  BY <1>3, RowTypes
<1>11. new.row.event_id <= lifecycle'[assignments[new.id].worker].event_id
  <2>1. assignments[new.id].worker = h
    BY <1>8 DEF h
  <2>2. row.event_id <= row.event_id
    BY <1>10, SMTT(40)
  <2> QED BY <1>3, <1>8, <2>1, <2>2
<1>12. CallOK(new, assignments, grants, lifecycle')
  BY <1>2, <1>3, <1>5, <1>8, <1>9, <1>11 DEF CallOK, IssueOK
<1> QED BY <1>1, <1>2, <1>8, <1>12, ReadMoves

LEMMA IssueRecordInv ==
    ASSUME IInv, NEW c \in Callers, IssueRecord(c)
    PROVE  IInv'
<1> DEFINE call == calls[c]
           new == [call EXCEPT !.phase = "create"]
<1>1. /\ call.phase = "issue_record"
      /\ calls' = [calls EXCEPT ![c] = new] \/ calls' = [calls EXCEPT ![c] = Idle]
      /\ UNCHANGED <<now, registryVars, policy, assignments, grants,
                     brokerVars, last_seen, released>>
  BY DEF IssueRecord, Proceed
<1>2. call \in CallRow /\ ClocksOK /\ CallOK(call, assignments, grants, lifecycle)
  BY Standing
<1>3. /\ ClocksOK' /\ UNCHANGED released
      /\ UNCHANGED <<lifecycle, record, policy, assignments, grants, brokerVars>>
  BY <1>1, <1>2 DEF ClocksOK, registryVars
<1>4. "create" \in Phases
  BY DEF Phases
<1> HIDE DEF call
<1>5. /\ new \in CallRow /\ new.phase = "create" /\ new.id = call.id
      /\ new.key = call.key /\ new.policy = call.policy /\ new.row = call.row
      /\ new.envelope = call.envelope /\ new.fresh = call.fresh
  BY <1>2, <1>4, PhaseOnly, SMTT(40)
<1> HIDE DEF new
<1>6. <<call.phase, new.phase>> \in SamePlace
  BY <1>1, <1>5 DEF SamePlace
<1>7. CallOK(new, assignments, grants, lifecycle)
  BY <1>2, <1>5, <1>6, GoesOn
<1> QED BY <1>1, <1>3, <1>5, <1>7, CallMoves, Ends

LEMMA LeastOf ==
    ASSUME NEW w \in Int, NEW x \in Int, NEW y \in Int, NEW z \in Int,
           NEW l, l = Least({w, x, y, z})
    PROVE  /\ l = w \/ l = x \/ l = y \/ l = z
           /\ l <= y /\ l <= z
<1> DEFINE S == {w, x, y, z}
<1>1. \E m \in S : \A n \in S : m <= n
  BY SMTT(40)
<1>2. l = Least(S)
  OBVIOUS
<1>3. S = {w, x, y, z}
  OBVIOUS
<1> HIDE DEF S
<1>4. l \in S /\ \A n \in S : l <= n
  BY <1>1, <1>2 DEF Least
<1> QED BY <1>3, <1>4

(* A candidate is a row, and lasts no longer than its evidence.            *)
LEMMA CandidateOK ==
    ASSUME IInv, NEW c \in Callers, calls[c].phase = "create"
    PROVE  LET g == Candidate(calls[c])
           IN  /\ g \in GrantRow /\ Sealed(g)
               /\ g.event_id = calls[c].row.event_id
               /\ g.expires_at <= g.verified_at + EvidenceTTL
               /\ g.expires_at <= g.verified_at + MaxAge
<1> DEFINE call == calls[c]
           g == Candidate(call)
           row == call.row
<1>1. call \in CallRow /\ assignments[call.id] \in Assignment
  BY Standing
<1>2. call.phase # "idle" /\ call.phase # "issue_lifecycle" /\ call.phase \in Issuing
  BY DEF Issuing
<1>3. row \in LifecycleRow /\ call.key \in Keys /\ call.policy \in Policy
  <2>1. CallOK(call, assignments, grants, lifecycle)
    BY Standing
  <2> QED BY <1>2, <2>1 DEF CallOK, IssueOK
<1>4. /\ call.at \in Times /\ call.at \in Nat
      /\ row.event_id \in Events /\ row.verified_at \in Times /\ row.verified_at \in Nat
      /\ assignments[call.id].expires_at \in Nat
  BY <1>1, <1>3, SMTT(40) DEF CallRow, LifecycleRow, Assignment, Times
<1>5. EvidenceTTL \in Nat /\ MaxAge \in Nat /\ GrantTTL \in Nat
  BY KeyReleaseAssumption DEF KeyReleaseAssumption
<1>6. /\ Expiry(call) \in Nat
      /\ Expiry(call) <= row.verified_at + EvidenceTTL
      /\ Expiry(call) <= row.verified_at + MaxAge
  <2> DEFINE w == call.at + GrantTTL
             x == assignments[call.id].expires_at
             y == row.verified_at + EvidenceTTL
             z == row.verified_at + MaxAge
  <2>1. w \in Nat /\ x \in Nat /\ y \in Nat /\ z \in Nat
    BY <1>4, <1>5, SMTT(40)
  <2>2. Expiry(call) = Least({w, x, y, z})
    BY DEF Expiry
  <2> HIDE DEF w, x, y, z
  <2>3. /\ Expiry(call) = w \/ Expiry(call) = x \/ Expiry(call) = y \/ Expiry(call) = z
        /\ Expiry(call) <= y /\ Expiry(call) <= z
    <3>1. w \in Int /\ x \in Int /\ y \in Int /\ z \in Int
      BY <2>1, SMTT(40)
    <3> QED BY <2>2, <3>1, LeastOf
  <2> QED BY <2>1, <2>3 DEF y, z
<1>7. /\ g.state = "issued" /\ g.envelope = None /\ g.event_id = row.event_id
      /\ g.verified_at = row.verified_at /\ g.expires_at = Expiry(call)
  BY DEF Candidate
<1>8. g \in GrantRow
  <2>1. "issued" \in {"issued", "redeeming", "redeemed"}
    OBVIOUS
  <2> HIDE DEF call, row
  <2> QED BY <1>3, <1>4, <1>6, <2>1 DEF Candidate, GrantRow, row
<1>9. Sealed(g)
  <2> HIDE DEF g
  <2> QED BY <1>7 DEF Sealed
<1> HIDE DEF g
<1>10. g.expires_at <= g.verified_at + EvidenceTTL /\ g.expires_at <= g.verified_at + MaxAge
  BY <1>6, <1>7
<1> QED BY <1>7, <1>8, <1>9, <1>10 DEF g, row, call

LEMMA CreateOrGetInv ==
    ASSUME IInv, NEW c \in Callers, CreateOrGet(c)
    PROVE  IInv'
<1> DEFINE call == calls[c]
           a == call.id
           g == Candidate(call)
<1>1. /\ call.phase = "create" /\ calls' = [calls EXCEPT ![c] = Idle]
      /\ \/ grants' = grants
         \/ grants[a] = None /\ grants' = [grants EXCEPT ![a] = g]
      /\ UNCHANGED <<now, registryVars, policy, assignments, brokerVars,
                     last_seen, released>>
  BY DEF CreateOrGet, Proceed
<1>2. /\ TablesOK /\ ClocksOK /\ a \in Assignments /\ assignments[a] # None
      /\ call \in CallRow /\ CallOK(call, assignments, grants, lifecycle)
  BY <1>1, Standing DEF CallOK
<1>3. ClocksOK' /\ UNCHANGED <<lifecycle, record, policy, assignments, brokerVars, released>>
  BY <1>1, <1>2 DEF ClocksOK, registryVars
<1>4. CASE grants' = grants
  BY <1>1, <1>3, <1>4, Ends
<1>5. CASE grants[a] = None /\ grants' = [grants EXCEPT ![a] = g]
  <2>1. /\ g \in GrantRow /\ Sealed(g) /\ g.event_id = call.row.event_id
        /\ g.expires_at <= g.verified_at + EvidenceTTL
        /\ g.expires_at <= g.verified_at + MaxAge
    BY <1>1, CandidateOK
  <2>2. call.row.event_id <= lifecycle[assignments[a].worker].event_id
    <3>1. call.phase # "idle" /\ call.phase # "issue_lifecycle" /\ call.phase \in Issuing
      BY <1>1 DEF Issuing
    <3> QED BY <1>2, <3>1 DEF CallOK, IssueOK
  <2> HIDE DEF g
  <2>3. /\ grants' \in [Assignments -> GrantRow \cup {None}] /\ grants'[a] = g
        /\ \A b \in Assignments \ {a} : grants'[b] = grants[b]
    BY <1>2, <1>5, <2>1 DEF TablesOK
  <2>4. TablesOK' /\ UNCHANGED broker
    BY <1>2, <1>3, <2>3 DEF TablesOK, brokerVars
  <2>5. GrantOK(a, assignments', grants', lifecycle')
    BY <1>2, <1>3, <2>1, <2>2, <2>3 DEF GrantOK
  <2>6. Onward(assignments, grants, lifecycle, assignments', grants', lifecycle')
    <3>1. Onward(assignments, grants, lifecycle, assignments, grants, lifecycle)
      <4>1. \A h \in Workers : lifecycle[h].event_id \in Int
        BY <1>2, RowTypes DEF TablesOK
      <4>2. \A h \in Workers : lifecycle[h].event_id <= lifecycle[h].event_id
        BY <4>1, SMTT(40)
      <4> QED BY <4>2 DEF Onward, GrantMoves
    <3>2. \A b \in Assignments : grants[b] \in GrantRow => grants'[b] = grants[b]
      BY <1>5, <2>3, NoneAssumption DEF NoneAssumption
    <3> QED BY <1>3, <3>1, <3>2 DEF Onward, GrantMoves
  <2>7. calls' \in [Callers -> CallRow]
    BY <1>1, IdleFits DEF IInv
  <2>8. \A x \in Callers :
            calls'[x] = calls[x] \/ CallOK(calls'[x], assignments', grants', lifecycle')
    <3>1. calls'[c] = Idle /\ \A x \in Callers \ {c} : calls'[x] = calls[x]
      BY <1>1 DEF IInv
    <3> QED BY <3>1, IdleFits
  <2>9. \A b \in Assignments : grants[b] = None =>
            grants'[b] = None \/ GrantOK(b, assignments', grants', lifecycle')
    BY <2>3, <2>5
  <2> QED BY <1>3, <2>4, <2>6, <2>7, <2>8, <2>9, StepInv
<1> QED BY <1>1, <1>4, <1>5
-----------------------------------------------------------------------------
(* The steps of redeem.                                                    *)

LEMMA RedeemInv ==
    ASSUME IInv, NEW c \in Callers, NEW a \in Assignments, NEW key, Redeem(c, a, key)
    PROVE  IInv'
<1> DEFINE new == [Idle EXCEPT !.phase = "redeem_lifecycle", !.id = a, !.at = now]
           ok == /\ Verify(a, now) /\ key = grants[a].key
                 /\ now < grants[a].expires_at /\ PolicyCurrent(grants[a])
<1>1. /\ grants[a] # None /\ Sample(c)
      /\ calls' = [calls EXCEPT ![c] = IF ok THEN new ELSE Idle]
      /\ UNCHANGED <<now, registry_seen, lifecycle, record, policy, assignments,
                     grants, brokerVars, released>>
  BY DEF Redeem, Proceed, registryVars
<1>2. ClocksOK' /\ now \in Times
  BY <1>1, SampleOK DEF IInv, ClocksOK
<1>3. CASE ok
  <2>1. new \in CallRow /\ new.phase = "redeem_lifecycle" /\ new.id = a
    <3> DEFINE m1 == [Idle EXCEPT !.phase = "redeem_lifecycle"]
               m2 == [m1 EXCEPT !.id = a]
    <3>0. new = [m2 EXCEPT !.at = now]
      OBVIOUS
    <3>1. m1 \in CallRow /\ m1.phase = "redeem_lifecycle"
      BY IdleFits DEF CallRow, Phases
    <3> HIDE DEF m1
    <3>2. m2 \in CallRow /\ m2.phase = "redeem_lifecycle" /\ m2.id = a
      BY <3>1 DEF CallRow
    <3> HIDE DEF m2, new
    <3> QED BY <1>2, <3>0, <3>2 DEF CallRow
  <2>2. assignments[a] # None /\ grants[a] \in GrantRow
    BY <1>1, <1>3 DEF Verify, IInv, TablesOK
  <2>3. calls' = [calls EXCEPT ![c] = new]
    BY <1>1, <1>3
  <2> HIDE DEF new
  <2>4. /\ new.phase \notin Issuing /\ new.phase \notin OnRecord
        /\ new.phase \notin Answered /\ new.phase \notin Releasing
        /\ new.phase \notin {"release_lifecycle", "release_record", "return"}
    BY <2>1 DEF Issuing, OnRecord, Answered, Releasing
  <2>5. CallOK(new, assignments, grants, lifecycle)
    BY <2>1, <2>2, <2>4 DEF CallOK, RedeemOK
  <2> QED BY <1>1, <1>2, <2>1, <2>3, <2>5, CallMoves
<1>4. CASE ~ok
  <2>1. calls' = [calls EXCEPT ![c] = Idle]
    BY <1>1, <1>4
  <2> QED BY <1>1, <1>2, <2>1, Ends
<1> QED BY <1>3, <1>4

(* A call that goes on keeps everything else it holds.                     *)
LEMMA StepsOn ==
    ASSUME IInv, NEW c \in Callers, NEW p \in Phases,
           <<calls[c].phase, p>> \in SamePlace,
           calls' = [calls EXCEPT ![c] = [calls[c] EXCEPT !.phase = p]], ClocksOK',
           UNCHANGED <<lifecycle, record, policy, assignments, grants, brokerVars,
                       released>>
    PROVE  IInv'
<1> DEFINE call == calls[c]
           new == [call EXCEPT !.phase = p]
<1>1. call \in CallRow /\ CallOK(call, assignments, grants, lifecycle)
  BY Standing
<1>2. /\ calls' = [calls EXCEPT ![c] = new] /\ <<call.phase, p>> \in SamePlace
      /\ UNCHANGED released
  OBVIOUS
<1> HIDE DEF call
<1>3. /\ new \in CallRow /\ new.phase = p /\ new.id = call.id
      /\ new.key = call.key /\ new.policy = call.policy /\ new.row = call.row
      /\ new.envelope = call.envelope /\ new.fresh = call.fresh
  BY <1>1, PhaseOnly, SMTT(40)
<1> HIDE DEF new
<1>4. CallOK(new, assignments, grants, lifecycle)
  BY <1>1, <1>2, <1>3, GoesOn
<1> QED BY <1>2, <1>3, <1>4, CallMoves

LEMMA ValidateRecordInv ==
    ASSUME IInv, NEW c \in Callers, NEW p, NEW q \in Phases, <<p, q>> \in SamePlace,
           ValidateRecord(c, p, q)
    PROVE  IInv'
<1>1. /\ calls[c].phase = p
      /\ \/ calls' = [calls EXCEPT ![c] = [calls[c] EXCEPT !.phase = q]]
         \/ calls' = [calls EXCEPT ![c] = Idle]
      /\ UNCHANGED <<now, registryVars, policy, assignments, grants, brokerVars,
                     last_seen, released>>
  BY DEF ValidateRecord, Proceed
<1>2. /\ ClocksOK' /\ UNCHANGED released
      /\ UNCHANGED <<lifecycle, record, policy, assignments, grants, brokerVars>>
  BY <1>1 DEF ClocksOK, registryVars, IInv
<1>3. <<calls[c].phase, q>> \in SamePlace
  BY <1>1
<1> QED BY <1>1, <1>2, <1>3, StepsOn, Ends

(* The read of the lifecycle, before the broker, before the store and      *)
(* before the release.  Before the release it settles that the grant was   *)
(* current when the check began: the worker's event is still the grant's,  *)
(* and events only go up.                                                  *)
LEMMA ValidateLifecycleInv ==
    ASSUME IInv, NEW c \in Callers, NEW p, NEW q \in Phases,
           <<p, q>> \in {<<"redeem_lifecycle", "redeem_record">>,
                         <<"persist_lifecycle", "persist_record">>,
                         <<"release_lifecycle", "release_record">>},
           ValidateLifecycle(c, p, q)
    PROVE  IInv'
<1> DEFINE call == calls[c]
           h == assignments[call.id].worker
           g == grants[call.id]
           ok == LifecycleCurrent(g, Snapshot(h), call.at)
           new == [call EXCEPT !.phase = q]
<1>1. /\ call.phase = p /\ ReadLifecycle(h)
      /\ calls' = [calls EXCEPT ![c] = IF ok THEN new ELSE Idle]
      /\ UNCHANGED <<now, record, policy, assignments, grants, brokerVars,
                     last_seen, released>>
  BY DEF ValidateLifecycle, Proceed
<1>2. p # "idle" /\ p \notin Issuing /\ q # "idle" /\ q \notin Issuing
  BY DEF Issuing
<1>3. /\ call \in CallRow /\ call.id \in Assignments /\ h \in Workers
      /\ assignments[call.id] # None /\ g \in GrantRow
      /\ TablesOK /\ ClocksOK /\ CallOK(call, assignments, grants, lifecycle)
  BY <1>1, <1>2, Standing DEF CallOK
<1>4. /\ lifecycle'[h] = Snapshot(h) /\ Snapshot(h) \in LifecycleRow
      /\ lifecycle' \in [Workers -> LifecycleRow]
      /\ \A k \in Workers : lifecycle[k].event_id <= lifecycle'[k].event_id
  BY <1>1, <1>3, SnapshotOK
<1>5. CallOK(call, assignments, grants, lifecycle')
  <2>1. Onward(assignments, grants, lifecycle, assignments, grants, lifecycle')
    BY <1>4 DEF Onward, GrantMoves
  <2> QED BY <1>3, <1>4, <2>1, CallKept DEF TablesOK
<1>6. CASE ok
  <2>1. /\ new \in CallRow /\ new.phase = q /\ new.id = call.id
        /\ new.key = call.key /\ new.policy = call.policy /\ new.row = call.row
        /\ new.envelope = call.envelope /\ new.fresh = call.fresh
    <3> HIDE DEF call
    <3> QED BY <1>3, PhaseOnly, SMTT(40)
  <2>2. calls' = [calls EXCEPT ![c] = new]
    BY <1>1, <1>6
  <2> HIDE DEF new
  <2>3. CASE p # "release_lifecycle"
    <3>1. <<call.phase, new.phase>> \in SamePlace
      BY <1>1, <2>1, <2>3 DEF SamePlace
    <3>2. CallOK(new, assignments, grants, lifecycle')
      BY <1>5, <2>1, <3>1, GoesOn
    <3> QED BY <1>1, <1>3, <2>1, <2>2, <3>2, ReadMoves
  <2>4. CASE p = "release_lifecycle"
    <3>1. call.phase = "release_lifecycle" /\ new.phase = "release_record"
      BY <1>1, <2>1, <2>4
    <3>2. RedeemOK(call, assignments, grants, lifecycle')
      BY <1>1, <1>2, <1>5 DEF CallOK
    <3>3. /\ call.phase \in Releasing /\ new.phase \in Releasing
          /\ new.phase \notin OnRecord /\ new.phase \notin Answered
          /\ new.phase # "release_lifecycle"
      BY <3>1 DEF Releasing, OnRecord, Answered
    <3>4. /\ g.state = "redeemed" /\ g.envelope = call.envelope
          /\ call.fresh \/ lifecycle'[h].event_id > g.event_id
      BY <3>1, <3>2, <3>3 DEF RedeemOK
    <3>5. lifecycle'[h].event_id = g.event_id /\ g.event_id \in Int
      BY <1>3, <1>4, <1>6, RowTypes DEF LifecycleCurrent
    <3>6. call.fresh
      BY <3>4, <3>5, SMTT(40)
    <3>7. RedeemOK(new, assignments, grants, lifecycle')
      BY <1>3, <2>1, <3>3, <3>4, <3>6 DEF RedeemOK
    <3>8. CallOK(new, assignments, grants, lifecycle')
      BY <1>2, <1>3, <2>1, <3>7 DEF CallOK
    <3> QED BY <1>1, <1>3, <2>1, <2>2, <3>8, ReadMoves
  <2> QED BY <2>3, <2>4
<1>7. CASE ~ok
  <2>1. calls' = [calls EXCEPT ![c] = Idle]
    BY <1>1, <1>7
  <2> QED BY <1>1, <1>3, <2>1, IdleFits, ReadMoves
<1> QED BY <1>6, <1>7

LEMMA ValidateInv ==
    ASSUME IInv, NEW c \in Callers, Validate(c)
    PROVE  IInv'
<1>1. /\ <<"redeem_record", "begin">> \in SamePlace
      /\ <<"persist_record", "persist">> \in SamePlace
      /\ <<"release_record", "return">> \in SamePlace
      /\ {"redeem_record", "begin", "persist_record", "persist", "release_record",
          "return"} \subseteq Phases
  BY DEF SamePlace, Phases
<1>2. CASE ValidateLifecycle(c, "redeem_lifecycle", "redeem_record")
  BY <1>1, <1>2, ValidateLifecycleInv
<1>3. CASE ValidateRecord(c, "redeem_record", "begin")
  BY <1>1, <1>3, ValidateRecordInv
<1>4. CASE ValidateLifecycle(c, "persist_lifecycle", "persist_record")
  BY <1>1, <1>4, ValidateLifecycleInv
<1>5. CASE ValidateRecord(c, "persist_record", "persist")
  BY <1>1, <1>5, ValidateRecordInv
<1>6. CASE ValidateLifecycle(c, "release_lifecycle", "release_record")
  BY <1>1, <1>6, ValidateLifecycleInv
<1>7. CASE ValidateRecord(c, "release_record", "return")
  BY <1>1, <1>7, ValidateRecordInv
<1> QED BY <1>2, <1>3, <1>4, <1>5, <1>6, <1>7 DEF Validate

LEMMA AfterBrokerInv ==
    ASSUME IInv, NEW c \in Callers, AfterBroker(c)
    PROVE  IInv'
<1> DEFINE call == calls[c]
           new == [call EXCEPT !.phase = "persist_lifecycle", !.at = now]
<1>1. /\ call.phase = "answered" /\ Sample(c)
      /\ calls' = [calls EXCEPT ![c] = new] \/ calls' = [calls EXCEPT ![c] = Idle]
      /\ UNCHANGED <<now, registry_seen, lifecycle, record, policy, assignments,
                     grants, brokerVars, released>>
  BY DEF AfterBroker, Proceed, registryVars
<1>2. /\ ClocksOK' /\ now \in Times /\ call \in CallRow
      /\ CallOK(call, assignments, grants, lifecycle)
  BY <1>1, SampleOK DEF IInv, ClocksOK
<1>3. "persist_lifecycle" \in Phases
  BY DEF Phases
<1>8. new = Sampled(call, "persist_lifecycle", now)
  BY DEF Sampled
<1> HIDE DEF call, new
<1>4. /\ new \in CallRow /\ new.phase = "persist_lifecycle" /\ new.id = call.id
      /\ new.key = call.key /\ new.policy = call.policy /\ new.row = call.row
      /\ new.envelope = call.envelope /\ new.fresh = call.fresh
  BY <1>2, <1>3, <1>8, PhaseAndSample, SMTT(40)
<1>5. <<call.phase, new.phase>> \in SamePlace
  BY <1>1, <1>4 DEF SamePlace
<1>6. CallOK(new, assignments, grants, lifecycle)
  BY <1>2, <1>4, <1>5, GoesOn
<1> QED BY <1>1, <1>2, <1>4, <1>6, CallMoves, Ends

(* A step of a call that moves its grant and nothing else.                 *)
LEMMA GrantAndCall ==
    ASSUME IInv, NEW c \in Callers, NEW new \in CallRow, NEW a \in Assignments, NEW g,
           grants[a] \in GrantRow, GrantMoves(grants[a], g), g \in GrantRow,
           grants' = [grants EXCEPT ![a] = g], calls' = [calls EXCEPT ![c] = new],
           CallOK(new, assignments, grants', lifecycle),
           UNCHANGED <<now, registryVars, policy, assignments, brokerVars,
                       last_seen, released>>
    PROVE  IInv'
<1>1. TablesOK /\ ClocksOK /\ grants[a] # None
  BY NoneAssumption DEF IInv, NoneAssumption
<1>2. /\ grants' \in [Assignments -> GrantRow \cup {None}] /\ grants'[a] = g
      /\ \A b \in Assignments \ {a} : grants'[b] = grants[b]
  BY <1>1 DEF TablesOK
<1>3. /\ UNCHANGED <<assignments, lifecycle, broker, released>>
      /\ TablesOK' /\ ClocksOK'
  BY <1>1, <1>2 DEF TablesOK, ClocksOK, registryVars, brokerVars
<1>4. /\ calls' \in [Callers -> CallRow] /\ calls'[c] = new
      /\ \A x \in Callers \ {c} : calls'[x] = calls[x]
  BY DEF IInv
<1>5. Onward(assignments, grants, lifecycle, assignments', grants', lifecycle')
  <2>1. \A h \in Workers : lifecycle[h].event_id \in Int
    BY <1>1, RowTypes DEF TablesOK
  <2>2. \A h \in Workers : lifecycle[h].event_id <= lifecycle[h].event_id
    BY <2>1, SMTT(40)
  <2>3. \A b \in Assignments : GrantMoves(grants[b], grants'[b])
    BY <1>2 DEF GrantMoves
  <2> QED BY <1>3, <2>2, <2>3 DEF Onward
<1>6. \A x \in Callers :
          \/ calls'[x] = calls[x]
          \/ CallOK(calls'[x], assignments', grants', lifecycle')
  BY <1>3, <1>4
<1>7. \A b \in Assignments : grants[b] = None =>
          grants'[b] = None \/ GrantOK(b, assignments', grants', lifecycle')
  BY <1>1, <1>2
<1> QED BY <1>3, <1>4, <1>5, <1>6, <1>7, StepInv

(* Where a redeeming call's grant stands.                                  *)
LEMMA GrantStanding ==
    ASSUME IInv, NEW c \in Callers, calls[c].phase # "idle", calls[c].phase \notin Issuing
    PROVE  /\ calls[c].id \in Assignments /\ assignments[calls[c].id] # None
           /\ calls[c] \in CallRow
           /\ grants[calls[c].id] \in GrantRow
           /\ Sealed(grants[calls[c].id])
           /\ GrantOK(calls[c].id, assignments, grants, lifecycle)
           /\ RedeemOK(calls[c], assignments, grants, lifecycle)
           /\ now \in Times
<1>1. /\ calls[c] \in CallRow /\ calls[c].id \in Assignments
      /\ grants[calls[c].id] \in GrantRow /\ grants[calls[c].id] # None
      /\ CallOK(calls[c], assignments, grants, lifecycle)
  BY Standing
<1>2. GrantOK(calls[c].id, assignments, grants, lifecycle) /\ now \in Times
  BY <1>1 DEF IInv, ClocksOK
<1> QED BY <1>1, <1>2 DEF CallOK, GrantOK

LEMMA BeginRedemptionInv ==
    ASSUME IInv, NEW c \in Callers, BeginRedemption(c)
    PROVE  IInv'
<1> DEFINE call == calls[c]
           a == call.id
           g == grants[a]
           valid == call.at < g.expires_at
           p == IF g.state = "redeemed" THEN "check" ELSE "broker"
           new == [call EXCEPT !.phase = p, !.envelope = g.envelope]
           n == [g EXCEPT !.state = "redeeming"]
<1>1. /\ call.phase = "begin"
      /\ calls' = [calls EXCEPT ![c] = IF valid THEN new ELSE Idle]
      /\ grants' = IF valid /\ g.state = "issued"
                   THEN [grants EXCEPT ![a].state = "redeeming"] ELSE grants
      /\ UNCHANGED <<now, registryVars, policy, assignments, brokerVars,
                     last_seen, released>>
  BY DEF BeginRedemption, Proceed
<1>2. call.phase # "idle" /\ call.phase \notin Issuing
  BY <1>1 DEF Issuing
<1>3. /\ a \in Assignments /\ assignments[a] # None /\ call \in CallRow
      /\ g \in GrantRow /\ Sealed(g)
  BY <1>2, GrantStanding
<1>4. /\ ClocksOK' /\ UNCHANGED released
      /\ UNCHANGED <<lifecycle, record, policy, assignments, brokerVars>>
  BY <1>1 DEF ClocksOK, registryVars, IInv
<1>5. CASE ~valid
  <2>1. calls' = [calls EXCEPT ![c] = Idle] /\ UNCHANGED grants
    BY <1>1, <1>5
  <2> QED BY <1>4, <2>1, Ends
<1>6. CASE valid
  <2>1. calls' = [calls EXCEPT ![c] = new] /\ p \in Phases
    BY <1>1, <1>6 DEF Phases
  <2>2. /\ new = Holding(call, p, g.envelope)
        /\ g.envelope \in (1 .. MaxUnwraps) \cup {None}
        /\ g.state \in {"issued", "redeeming", "redeemed"}
    <3>1. g.envelope \in (1 .. MaxUnwraps) \cup {None}
          /\ g.state \in {"issued", "redeeming", "redeemed"}
      <4> HIDE DEF g
      <4> QED BY <1>3 DEF GrantRow
    <3> QED BY <3>1 DEF Holding
  <2> HIDE DEF call, new, p
  <2>3. new \in CallRow /\ new.phase = p /\ new.id = a /\ new.envelope = g.envelope
    <3> HIDE DEF g, a
    <3>1. new.id = call.id => new.id = a
      BY DEF a
    <3> DEFINE e == g.envelope
    <3>2. /\ call \in CallRow /\ p \in Phases /\ new = Holding(call, p, e)
          /\ e \in (1 .. MaxUnwraps) \cup {None}
      BY <1>3, <2>1, <2>2
    <3> HIDE DEF e
    <3>3. new \in CallRow /\ new.phase = p /\ new.id = call.id /\ new.envelope = e
      BY <3>2, PhaseAndEnvelope, SMTT(40)
    <3> QED BY <3>1, <3>3 DEF e
  <2>4. CASE g.state = "redeemed"
    <3>1. UNCHANGED grants
      BY <1>1, <2>4
    <3>2. /\ new.phase \in Releasing /\ new.phase # "idle" /\ new.phase \notin Issuing
          /\ new.phase \notin OnRecord /\ new.phase \notin Answered
          /\ new.phase # "release_lifecycle"
          /\ new.phase \notin {"release_record", "return"}
      BY <2>3, <2>4 DEF Releasing, Issuing, OnRecord, Answered, p
    <3>3. CallOK(new, assignments, grants, lifecycle)
      BY <1>3, <2>3, <2>4, <3>2 DEF CallOK, RedeemOK
    <3> QED BY <1>4, <2>1, <2>3, <3>1, <3>3, CallMoves
  <2>5. ASSUME g.state # "redeemed"
        PROVE  /\ new.phase \notin Releasing /\ new.phase # "idle"
               /\ new.phase \notin Issuing /\ new.phase \notin Answered
               /\ new.phase # "release_lifecycle"
               /\ new.phase \notin {"release_record", "return"}
    BY <2>3, <2>5 DEF Releasing, Issuing, Answered, p
  <2>6. CASE g.state = "redeeming"
    <3>1. UNCHANGED grants /\ g.state # "redeemed" /\ g.state # "issued"
      BY <1>1, <2>6
    <3>2. CallOK(new, assignments, grants, lifecycle)
      BY <1>3, <2>3, <2>5, <3>1 DEF CallOK, RedeemOK
    <3> QED BY <1>4, <2>1, <2>3, <3>1, <3>2, CallMoves
  <2>7. CASE g.state = "issued"
    <3>1. grants' = [grants EXCEPT ![a] = n] /\ g.state # "redeemed"
      BY <1>1, <1>6, <2>7
    <3>2. /\ n \in GrantRow /\ n.state = "redeeming" /\ n.envelope = g.envelope
          /\ n.event_id = g.event_id /\ n.verified_at = g.verified_at
          /\ n.expires_at = g.expires_at
      <4> HIDE DEF g
      <4> QED BY <1>3 DEF GrantRow
    <3> HIDE DEF n
    <3>3. n.state # "issued" /\ n.state # "redeemed"
      BY <3>2
    <3>4. Sealed(n)
      BY <1>3, <3>1, <3>2, <3>3 DEF Sealed
    <3>5. GrantMoves(g, n)
      BY <3>1, <3>2, <3>3, <3>4 DEF GrantMoves
    <3>6. grants'[a] = n
      BY <1>3, <3>1 DEF IInv, TablesOK
    <3>7. CallOK(new, assignments, grants', lifecycle)
      BY <1>3, <2>3, <2>5, <3>1, <3>2, <3>3, <3>6 DEF CallOK, RedeemOK
    <3> QED BY <1>1, <1>3, <2>1, <2>3, <3>1, <3>2, <3>5, <3>7, GrantAndCall
  <2> QED BY <2>2, <2>4, <2>6, <2>7
<1> QED BY <1>5, <1>6

LEMMA BrokerRedeemInv ==
    ASSUME IInv, NEW c \in Callers, BrokerRedeem(c)
    PROVE  IInv'
<1> DEFINE call == calls[c]
           a == call.id
           cached == broker[a] # None
           e == IF cached THEN broker[a] ELSE unwraps + 1
           new == [call EXCEPT !.phase = "answered", !.envelope = e]
<1>1. /\ call.phase = "broker" /\ e <= MaxUnwraps
      /\ calls' = [calls EXCEPT ![c] = new]
      /\ broker' = [broker EXCEPT ![a] = e]
      /\ unwraps' = IF cached THEN unwraps ELSE unwraps + 1
      /\ UNCHANGED <<now, registryVars, policy, assignments, grants, last_seen,
                     released>>
  BY DEF BrokerRedeem, Proceed
<1>2. /\ call.phase # "idle" /\ call.phase \notin Issuing /\ call.phase \in OnRecord
      /\ "answered" \in Phases
  BY <1>1 DEF Issuing, OnRecord, Phases
<1>3. /\ a \in Assignments /\ assignments[a] # None /\ call \in CallRow
      /\ grants[a] \in GrantRow /\ grants[a].state # "issued"
  BY <1>2, GrantStanding DEF RedeemOK
<1>4. TablesOK /\ ClocksOK /\ BrokerOK(broker, grants)
  BY DEF IInv
<1>5. /\ MaxUnwraps \in Nat /\ unwraps \in 0 .. MaxUnwraps
      /\ broker[a] \in (1 .. MaxUnwraps) \cup {None}
  BY <1>3, <1>4, KeyReleaseAssumption DEF KeyReleaseAssumption, TablesOK
<1>6. e \in 1 .. MaxUnwraps /\ unwraps' \in 0 .. MaxUnwraps
  BY <1>1, <1>5, SMTT(40)
<1>7. new = Holding(call, "answered", e)
  BY DEF Holding
<1> HIDE DEF e, call, new, cached
<1>8. new \in CallRow /\ new.phase = "answered" /\ new.id = a /\ new.envelope = e
  BY <1>2, <1>3, <1>6, <1>7, PhaseAndEnvelope, SMTT(40)
<1>9. /\ new.phase \in OnRecord /\ new.phase \in Answered /\ new.phase # "idle"
      /\ new.phase \notin Issuing /\ new.phase \notin Releasing
      /\ new.phase # "release_lifecycle"
      /\ new.phase \notin {"release_record", "return"}
  BY <1>8 DEF OnRecord, Answered, Issuing, Releasing
<1>10. CallOK(new, assignments, grants, lifecycle)
  BY <1>3, <1>6, <1>8, <1>9 DEF CallOK, RedeemOK
<1>11. /\ broker' \in [Assignments -> (1 .. MaxUnwraps) \cup {None}]
       /\ \A b \in Assignments \ {a} : broker'[b] = broker[b]
  BY <1>1, <1>3, <1>4, <1>6 DEF TablesOK
<1>12. BrokerOK(broker', grants)
  BY <1>3, <1>4, <1>11 DEF BrokerOK
<1>13. /\ UNCHANGED <<assignments, grants, lifecycle, released>>
       /\ TablesOK' /\ ClocksOK'
  BY <1>1, <1>4, <1>6, <1>11 DEF TablesOK, ClocksOK, registryVars
<1>14. /\ calls' \in [Callers -> CallRow] /\ calls'[c] = new
       /\ \A x \in Callers \ {c} : calls'[x] = calls[x]
  BY <1>1, <1>8 DEF IInv
<1>15. Onward(assignments, grants, lifecycle, assignments', grants', lifecycle')
  BY <1>4, <1>13, Unmoved
<1>16. \A x \in Callers :
           \/ calls'[x] = calls[x]
           \/ CallOK(calls'[x], assignments', grants', lifecycle')
  BY <1>10, <1>13, <1>14
<1>17. BrokerOK(broker', grants')
  BY <1>12, <1>13
<1>18. \A b \in Assignments : grants[b] = None =>
           grants'[b] = None \/ GrantOK(b, assignments', grants', lifecycle')
  BY <1>13
<1> QED BY <1>13, <1>14, <1>15, <1>16, <1>17, <1>18, StepInv

LEMMA PersistRedemptionInv ==
    ASSUME IInv, NEW c \in Callers, PersistRedemption(c)
    PROVE  IInv'
<1> DEFINE call == calls[c]
           a == call.id
           g == grants[a]
           valid == call.at < g.expires_at
           ok == /\ valid /\ (g.state = "redeemed" => g.envelope = call.envelope)
                 /\ g.state # "issued"
           new == [call EXCEPT !.phase = "check"]
           m == [g EXCEPT !.state = "redeemed"]
           n == [m EXCEPT !.envelope = call.envelope]
<1>1. /\ call.phase = "persist"
      /\ calls' = [calls EXCEPT ![c] = IF ok THEN new ELSE Idle]
      /\ grants' = IF valid /\ g.state = "redeeming"
                   THEN [grants EXCEPT ![a].state = "redeemed",
                                       ![a].envelope = call.envelope]
                   ELSE grants
      /\ UNCHANGED <<now, registryVars, policy, assignments, brokerVars,
                     last_seen, released>>
  BY DEF PersistRedemption, Proceed
<1>2. /\ call.phase # "idle" /\ call.phase \notin Issuing /\ call.phase \in OnRecord
      /\ call.phase \in Answered /\ "check" \in Phases
  BY <1>1 DEF Issuing, OnRecord, Answered, Phases
<1>3. /\ a \in Assignments /\ assignments[a] # None /\ call \in CallRow
      /\ g \in GrantRow /\ Sealed(g) /\ g.state # "issued"
      /\ call.envelope \in 1 .. MaxUnwraps
  BY <1>2, GrantStanding DEF RedeemOK
<1>4. /\ ClocksOK' /\ UNCHANGED released
      /\ UNCHANGED <<lifecycle, record, policy, assignments, brokerVars>>
  BY <1>1 DEF ClocksOK, registryVars, IInv
<1>5. /\ new \in CallRow /\ new.phase = "check" /\ new.id = a
      /\ new.envelope = call.envelope
  <2> HIDE DEF call
  <2> QED BY <1>2, <1>3, PhaseOnly, SMTT(40)
<1>6. /\ call.envelope # None
      /\ g.state = "redeeming" \/ g.state = "redeemed"
  <2>1. call.envelope \in Nat
    BY <1>3, KeyReleaseAssumption, SMTT(40) DEF KeyReleaseAssumption
  <2>2. g.state \in {"issued", "redeeming", "redeemed"}
    <3> HIDE DEF g
    <3> QED BY <1>3 DEF GrantRow
  <2>3. call.envelope # None
    BY <2>1, NoneAssumption DEF NoneAssumption
  <2> QED BY <1>3, <2>2, <2>3
<1>7. /\ new.phase \in Releasing /\ new.phase # "idle" /\ new.phase \notin Issuing
      /\ new.phase \notin OnRecord /\ new.phase \notin Answered
      /\ new.phase # "release_lifecycle"
      /\ new.phase \notin {"release_record", "return"}
  <2> HIDE DEF new
  <2> QED BY <1>5 DEF Releasing, Issuing, OnRecord, Answered
<1> HIDE DEF new
<1>8. CASE ~valid
  <2>1. calls' = [calls EXCEPT ![c] = Idle] /\ UNCHANGED grants
    BY <1>1, <1>8
  <2> QED BY <1>4, <2>1, Ends
<1>9. CASE valid /\ g.state = "redeemed"
  <2>1. UNCHANGED grants
    BY <1>1, <1>9
  <2>2. CASE ok
    <3>1. CallOK(new, assignments, grants, lifecycle)
      BY <1>3, <1>5, <1>7, <1>9, <2>2 DEF CallOK, RedeemOK
    <3>2. calls' = [calls EXCEPT ![c] = new]
      BY <1>1, <2>2
    <3> QED BY <1>4, <1>5, <2>1, <3>1, <3>2, CallMoves
  <2>3. CASE ~ok
    <3>1. calls' = [calls EXCEPT ![c] = Idle]
      BY <1>1, <2>3
    <3> QED BY <1>4, <2>1, <3>1, Ends
  <2> QED BY <2>2, <2>3
<1>10. CASE valid /\ g.state = "redeeming"
  <2>1. g.state # "redeemed" /\ ok
    BY <1>3, <1>10
  <2>2. calls' = [calls EXCEPT ![c] = new]
    BY <1>1, <2>1
  <2>3. grants' = [grants EXCEPT ![a].state = "redeemed", ![a].envelope = call.envelope]
    BY <1>1, <1>10
  <2>4. grants' = [grants EXCEPT ![a] = n]
    <3>1. grants \in [Assignments -> GrantRow \cup {None}]
      BY DEF IInv, TablesOK
    <3> DEFINE gs == [grants EXCEPT ![a] = m]
    <3>2. grants' = [gs EXCEPT ![a].envelope = call.envelope]
      BY <2>3
    <3>3. gs[a] = m
      BY <1>3, <3>1
    <3> HIDE DEF m
    <3>4. grants' = [gs EXCEPT ![a] = n]
      BY <3>2, <3>3
    <3> HIDE DEF n, g, a
    <3> QED BY <3>1, <3>4
  <2>5. /\ m \in GrantRow /\ m.state = "redeemed"
        /\ m.event_id = g.event_id /\ m.verified_at = g.verified_at
        /\ m.expires_at = g.expires_at
    <3> HIDE DEF g
    <3> QED BY <1>3 DEF GrantRow
  <2> HIDE DEF m
  <2>6. /\ n \in GrantRow /\ n.state = "redeemed" /\ n.envelope = call.envelope
        /\ n.event_id = g.event_id /\ n.verified_at = g.verified_at
        /\ n.expires_at = g.expires_at
    <3> HIDE DEF g, call
    <3> QED BY <1>3, <2>5 DEF GrantRow
  <2> HIDE DEF n
  <2>7. Sealed(n) /\ n.state # "issued"
    <3>1. n.state # "issued"
      BY <2>6
    <3> QED BY <1>6, <2>6, <3>1 DEF Sealed
  <2>8. GrantMoves(g, n)
    BY <2>1, <2>6, <2>7 DEF GrantMoves
  <2>9. grants'[a] = n
    BY <1>3, <2>4 DEF IInv, TablesOK
  <2>10. CallOK(new, assignments, grants', lifecycle)
    BY <1>3, <1>5, <1>7, <2>6, <2>9 DEF CallOK, RedeemOK
  <2> QED BY <1>1, <1>3, <1>5, <2>2, <2>4, <2>6, <2>8, <2>10, GrantAndCall
<1> QED BY <1>6, <1>8, <1>9, <1>10

LEMMA CheckReleaseInv ==
    ASSUME IInv, NEW c \in Callers, CheckRelease(c)
    PROVE  IInv'
<1> DEFINE call == calls[c]
           a == call.id
           g == grants[a]
           h == assignments[a].worker
           fresh == StillCurrent(a)
           ok == /\ now < g.expires_at /\ Verify(a, now) /\ PolicyCurrent(g)
           m == Sampled(call, "release_lifecycle", now)
           new == [call EXCEPT !.phase = "release_lifecycle", !.at = now,
                               !.fresh = fresh]
<1>1. /\ call.phase = "check" /\ Sample(c)
      /\ calls' = [calls EXCEPT ![c] = IF ok THEN new ELSE Idle]
      /\ UNCHANGED <<now, registry_seen, lifecycle, record, policy, assignments,
                     grants, brokerVars, released>>
  BY DEF CheckRelease, Proceed, registryVars
<1>2. /\ call.phase # "idle" /\ call.phase \notin Issuing /\ call.phase \in Releasing
      /\ "release_lifecycle" \in Phases
  BY <1>1 DEF Issuing, Releasing, Phases
<1>3. /\ a \in Assignments /\ assignments[a] # None /\ call \in CallRow
      /\ g \in GrantRow /\ g # None /\ g.state = "redeemed" /\ g.envelope = call.envelope
      /\ g.event_id <= lifecycle[h].event_id /\ now \in Times
  BY <1>2, GrantStanding, NoneAssumption DEF RedeemOK, GrantOK, NoneAssumption
<1>4. ClocksOK' /\ UNCHANGED released
  BY <1>1, SampleOK DEF IInv
<1>5. h \in Workers /\ lifecycle[h].event_id \in Int /\ g.event_id \in Int
  <2>1. assignments[a] \in Assignment /\ lifecycle \in [Workers -> LifecycleRow]
    BY <1>3 DEF IInv, TablesOK
  <2> QED BY <1>3, <2>1, RowTypes
<1>6. CASE ok
  <2>1. fresh \/ lifecycle[h].event_id > g.event_id
    <3>1. fresh \/ lifecycle[h].event_id # g.event_id
      BY <1>6 DEF StillCurrent, PolicyCurrent
    <3> HIDE DEF fresh
    <3> QED BY <1>3, <1>5, <3>1, SMTT(40)
  <2>2. fresh \in BOOLEAN
    BY DEF StillCurrent
  <2>3. new = [m EXCEPT !.fresh = fresh]
    BY DEF Sampled
  <2>4. /\ calls' = [calls EXCEPT ![c] = new]
        /\ m = Sampled(call, "release_lifecycle", now)
    BY <1>1, <1>6
  <2> HIDE DEF fresh, m, new, call
  <2>5. /\ m \in CallRow /\ m.phase = "release_lifecycle" /\ m.id = call.id
        /\ m.envelope = call.envelope
    BY <1>2, <1>3, <2>4, PhaseAndSample, SMTT(40)
  <2>6. /\ new \in CallRow /\ new.phase = "release_lifecycle" /\ new.id = call.id
        /\ new.envelope = call.envelope /\ new.fresh = fresh
    BY <2>2, <2>3, <2>5 DEF CallRow
  <2>7. /\ new.phase \in Releasing /\ new.phase # "idle" /\ new.phase \notin Issuing
        /\ new.phase \notin OnRecord /\ new.phase \notin Answered
        /\ new.phase \notin {"release_record", "return"}
    BY <2>6 DEF Releasing, Issuing, OnRecord, Answered
  <2>8. RedeemOK(new, assignments, grants, lifecycle)
    BY <1>3, <2>1, <2>6, <2>7 DEF RedeemOK
  <2>9. CallOK(new, assignments, grants, lifecycle)
    BY <1>3, <2>6, <2>7, <2>8 DEF CallOK
  <2> QED BY <1>1, <1>4, <2>4, <2>6, <2>9, CallMoves
<1>7. CASE ~ok
  <2>1. calls' = [calls EXCEPT ![c] = Idle]
    BY <1>1, <1>7
  <2> QED BY <1>1, <1>4, <2>1, Ends
<1> QED BY <1>6, <1>7

LEMMA ReturnInv ==
    ASSUME IInv, NEW c \in Callers, Return(c)
    PROVE  IInv'
<1> DEFINE call == calls[c]
           a == call.id
           g == grants[a]
           ok == now < g.expires_at /\ Verify(a, now)
           r == [id |-> a, envelope |-> call.envelope, at |-> now, fresh |-> call.fresh]
<1>1. /\ call.phase = "return" /\ Sample(c) /\ calls' = [calls EXCEPT ![c] = Idle]
      /\ released' = IF ok THEN r ELSE released
      /\ UNCHANGED <<now, registry_seen, lifecycle, record, policy, assignments,
                     grants, brokerVars>>
  BY DEF Return, registryVars
<1>2. /\ call.phase # "idle" /\ call.phase \notin Issuing /\ call.phase \in Releasing
      /\ call.phase \in {"release_record", "return"}
  BY <1>1 DEF Issuing, Releasing
<1>3. /\ a \in Assignments /\ g \in GrantRow /\ g.state = "redeemed"
      /\ g.envelope = call.envelope /\ call.fresh /\ now \in Times
  BY <1>2, GrantStanding DEF RedeemOK
<1>4. ClocksOK'
  BY <1>1, SampleOK DEF IInv
<1>5. released' = released \/ ReleasedOK(released', assignments, grants)
  <2>1. CASE ok
    <3>1. r.id = a /\ r.envelope = call.envelope /\ r.at = now /\ r.fresh = call.fresh
      OBVIOUS
    <3> HIDE DEF r
    <3>2. released' = r
      BY <1>1, <2>1
    <3>3. /\ now < g.expires_at /\ assignments[a] # None
          /\ assignments[a].issued_at <= now /\ now < assignments[a].expires_at
      BY <2>1 DEF Verify
    <3>4. ReleasedOK(r, assignments, grants)
      BY <1>3, <3>1, <3>3 DEF ReleasedOK
    <3> QED BY <3>2, <3>4
  <2> QED BY <1>1, <2>1
<1> QED BY <1>1, <1>4, <1>5, Ends

LEMMA RaiseInv ==
    ASSUME IInv, NEW c \in Callers, Raise(c)
    PROVE  IInv'
<1>1. /\ calls' = [calls EXCEPT ![c] = Idle] /\ ClocksOK' /\ UNCHANGED released
      /\ UNCHANGED <<lifecycle, record, policy, assignments, grants, brokerVars>>
  BY DEF Raise, IInv, ClocksOK, registryVars
<1> QED BY <1>1, Ends
-----------------------------------------------------------------------------
(* The surroundings.                                                       *)

(* Calls and grants stand while tables around them move on.                *)
LEMMA AroundCalls ==
    ASSUME IInv, TablesOK', ClocksOK', UNCHANGED <<calls, grants, released>>,
           \A a \in Assignments : assignments[a] # None => assignments'[a] = assignments[a],
           \A h \in Workers : lifecycle[h].event_id <= lifecycle'[h].event_id,
           broker' = broker \/ BrokerOK(broker', grants)
    PROVE  IInv'
<1>1. Onward(assignments, grants, lifecycle, assignments', grants', lifecycle')
  BY DEF Onward, GrantMoves
<1>2. calls' \in [Callers -> CallRow]
  BY DEF IInv
<1> QED BY <1>1, <1>2, StepInv

LEMMA EventsStand ==
    ASSUME TablesOK, UNCHANGED lifecycle
    PROVE  \A h \in Workers : lifecycle[h].event_id <= lifecycle'[h].event_id
<1>1. \A h \in Workers : lifecycle[h].event_id \in Int
  BY RowTypes DEF TablesOK
<1>2. \A h \in Workers : lifecycle[h].event_id <= lifecycle[h].event_id
  BY <1>1, SMTT(40)
<1> QED BY <1>2

LEMMA ClockInv ==
    ASSUME IInv, Tick \/ SetBack
    PROVE  IInv'
<1>1. /\ TablesOK /\ ClocksOK /\ now \in Times /\ MaxTime \in Nat
  BY KeyReleaseAssumption DEF IInv, ClocksOK, KeyReleaseAssumption
<1>2. now' \in Times
  BY <1>1, SMTT(40) DEF Tick, SetBack, Times
<1>3. UNCHANGED <<registryVars, policy, assignments, grants, brokerVars,
                  last_seen, calls, released>>
  BY DEF Tick, SetBack
<1>4. /\ TablesOK' /\ ClocksOK' /\ UNCHANGED <<calls, grants, released>>
      /\ UNCHANGED lifecycle /\ UNCHANGED broker /\ UNCHANGED assignments
  BY <1>1, <1>2, <1>3 DEF TablesOK, ClocksOK, registryVars, brokerVars
<1> QED BY <1>1, <1>4, EventsStand, AroundCalls

LEMMA RollPolicyInv ==
    ASSUME IInv, NEW which \in {"attestation", "workload"}, RollPolicy(which)
    PROVE  IInv'
<1>1. /\ TablesOK /\ ClocksOK /\ policy \in Policy /\ MaxRelease \in Nat
  BY KeyReleaseAssumption DEF IInv, TablesOK, KeyReleaseAssumption
<1>2. policy' \in Policy
  <2>1. policy[which] < MaxRelease /\ policy' = [policy EXCEPT ![which] = @ + 1]
    BY DEF RollPolicy
  <2>2. CASE which = "attestation"
    <3>1. /\ policy.attestation < MaxRelease
          /\ policy' = [policy EXCEPT !.attestation = policy.attestation + 1]
      BY <2>1, <2>2
    <3> QED BY <1>1, <3>1, SMTT(40) DEF Policy, Releases
  <2>3. CASE which = "workload"
    <3>1. /\ policy.workload < MaxRelease
          /\ policy' = [policy EXCEPT !.workload = policy.workload + 1]
      BY <2>1, <2>3
    <3> QED BY <1>1, <3>1, SMTT(40) DEF Policy, Releases
  <2> QED BY <2>2, <2>3
<1>3. UNCHANGED <<now, registryVars, assignments, grants, brokerVars, last_seen,
                  calls, released>>
  BY DEF RollPolicy
<1>4. /\ TablesOK' /\ ClocksOK' /\ UNCHANGED <<calls, grants, released>>
      /\ UNCHANGED lifecycle /\ UNCHANGED broker /\ UNCHANGED assignments
  BY <1>1, <1>2, <1>3 DEF TablesOK, ClocksOK, registryVars, brokerVars
<1> QED BY <1>1, <1>4, EventsStand, AroundCalls

(* One worker's row moves on to a later event.                             *)
LEMMA RowMoves ==
    ASSUME IInv, NEW h \in Workers, NEW row \in LifecycleRow,
           NEW rec \in [evidence : Events, key : Keys] \cup {None},
           lifecycle[h].event_id <= row.event_id,
           lifecycle' = [lifecycle EXCEPT ![h] = row],
           record' = [record EXCEPT ![h] = rec], registry_seen' = now,
           UNCHANGED <<now, policy, assignments, grants, brokerVars, last_seen,
                       calls, released>>
    PROVE  IInv'
<1>1. TablesOK /\ ClocksOK
  BY DEF IInv
<1>2. /\ lifecycle' \in [Workers -> LifecycleRow] /\ lifecycle'[h] = row
      /\ \A k \in Workers \ {h} : lifecycle'[k] = lifecycle[k]
      /\ record' \in [Workers -> [evidence : Events, key : Keys] \cup {None}]
  BY <1>1 DEF TablesOK
<1>3. \A k \in Workers : lifecycle[k].event_id <= lifecycle'[k].event_id
  <2>1. \A k \in Workers : lifecycle[k].event_id \in Int
    BY <1>1, RowTypes DEF TablesOK
  <2>2. \A k \in Workers : lifecycle[k].event_id <= lifecycle[k].event_id
    BY <2>1, SMTT(40)
  <2> QED BY <1>2, <2>2
<1>4. /\ TablesOK' /\ ClocksOK' /\ UNCHANGED <<calls, grants, released>>
      /\ UNCHANGED broker /\ UNCHANGED assignments
  BY <1>1, <1>2 DEF TablesOK, ClocksOK, brokerVars
<1> QED BY <1>3, <1>4, AroundCalls

LEMMA AttestInv ==
    ASSUME IInv, NEW h \in Workers, NEW key \in Keys, NEW release \in Releases,
           Attest(h, key, release)
    PROVE  IInv'
<1> DEFINE event == lifecycle[h].event_id + 1
           row == [state |-> "attested", event_id |-> event, evidence |-> event,
                   verified_at |-> now, release |-> release]
           rec == [evidence |-> event, key |-> key]
<1>1. /\ lifecycle[h].event_id < MaxEvents /\ registry_seen' = now
      /\ lifecycle' = [lifecycle EXCEPT ![h] = row]
      /\ record' = [record EXCEPT ![h] = rec]
      /\ UNCHANGED <<now, policy, assignments, grants, brokerVars, last_seen,
                     calls, released>>
  BY DEF Attest
<1>2. lifecycle[h] \in LifecycleRow /\ now \in Times /\ MaxEvents \in Nat
  BY KeyReleaseAssumption DEF IInv, TablesOK, ClocksOK, KeyReleaseAssumption
<1>3. lifecycle[h].event_id \in Events
  BY <1>2 DEF LifecycleRow
<1>4. event \in Events /\ lifecycle[h].event_id <= event
  BY <1>1, <1>2, <1>3, SMTT(40) DEF Events
<1> HIDE DEF event
<1>5. row \in LifecycleRow /\ row.event_id = event
  BY <1>2, <1>4 DEF LifecycleRow
<1>6. rec \in [evidence : Events, key : Keys] \cup {None}
  BY <1>4
<1>7. lifecycle[h].event_id <= row.event_id
  BY <1>4, <1>5
<1> HIDE DEF row, rec
<1> QED BY <1>1, <1>5, <1>6, <1>7, RowMoves

LEMMA RevokeInv ==
    ASSUME IInv, NEW h \in Workers, NEW kept, Revoke(h, kept)
    PROVE  IInv'
<1> DEFINE old == lifecycle[h]
           m == [old EXCEPT !.state = "other"]
           row == [m EXCEPT !.event_id = old.event_id + 1]
           rec == IF kept THEN record[h] ELSE None
<1>1. /\ lifecycle[h].event_id < MaxEvents /\ registry_seen' = now
      /\ lifecycle' = [lifecycle EXCEPT ![h].state = "other", ![h].event_id = @ + 1]
      /\ record' = [record EXCEPT ![h] = rec]
      /\ UNCHANGED <<now, policy, assignments, grants, brokerVars, last_seen,
                     calls, released>>
  BY DEF Revoke
<1>2. /\ old \in LifecycleRow /\ MaxEvents \in Nat
      /\ lifecycle \in [Workers -> LifecycleRow]
      /\ rec \in [evidence : Events, key : Keys] \cup {None}
  BY KeyReleaseAssumption DEF IInv, TablesOK, KeyReleaseAssumption
<1>3. lifecycle' = [lifecycle EXCEPT ![h] = row]
  <2> DEFINE ls == [lifecycle EXCEPT ![h] = m]
  <2>1. lifecycle' = [ls EXCEPT ![h].event_id = @ + 1]
    BY <1>1
  <2>2. ls[h] = m
    BY <1>2
  <2>3. m.event_id = old.event_id
    <3> HIDE DEF old
    <3> QED BY <1>2 DEF LifecycleRow
  <2> HIDE DEF m
  <2>4. lifecycle' = [ls EXCEPT ![h] = row]
    BY <2>1, <2>2, <2>3
  <2> HIDE DEF row
  <2> QED BY <1>2, <2>4
<1> HIDE DEF rec
<1>4. m \in LifecycleRow /\ m.event_id = old.event_id /\ old.event_id \in Events
  <2> HIDE DEF old
  <2> QED BY <1>2 DEF LifecycleRow
<1> HIDE DEF m
<1>5. old.event_id + 1 \in Events /\ old.event_id <= old.event_id + 1
  BY <1>1, <1>2, <1>4, SMTT(40) DEF Events
<1>6. row \in LifecycleRow /\ row.event_id = old.event_id + 1
  <2> HIDE DEF old
  <2> QED BY <1>4, <1>5 DEF LifecycleRow
<1>7. lifecycle[h].event_id <= row.event_id
  BY <1>5, <1>6
<1> HIDE DEF row
<1> QED BY <1>1, <1>2, <1>3, <1>6, <1>7, RowMoves

LEMMA IssueAssignmentInv ==
    ASSUME IInv, NEW a \in Assignments, NEW h \in Workers, IssueAssignment(a, h)
    PROVE  IInv'
<1> DEFINE row == [worker |-> h, workload |-> policy.workload, issued_at |-> now,
                   expires_at |-> now + AssignmentTTL]
<1>1. /\ assignments[a] = None /\ assignments' = [assignments EXCEPT ![a] = row]
      /\ UNCHANGED <<now, registryVars, policy, grants, brokerVars, last_seen,
                     calls, released>>
  BY DEF IssueAssignment
<1>2. /\ TablesOK /\ ClocksOK /\ policy \in Policy /\ now \in Times
  BY DEF IInv, TablesOK, ClocksOK
<1>3. AssignmentTTL \in Nat
  BY KeyReleaseAssumption DEF KeyReleaseAssumption
<1>4. row \in Assignment
  <2>1. policy.workload \in Releases /\ now + AssignmentTTL \in Nat
    BY <1>2, <1>3, SMTT(40) DEF Policy, Times
  <2> QED BY <1>2, <2>1 DEF Assignment
<1> HIDE DEF row
<1>5. /\ assignments' \in [Assignments -> Assignment \cup {None}]
      /\ \A b \in Assignments : assignments[b] # None => assignments'[b] = assignments[b]
  BY <1>1, <1>2, <1>4 DEF TablesOK
<1>6. /\ TablesOK' /\ ClocksOK' /\ UNCHANGED <<calls, grants, released>>
      /\ UNCHANGED lifecycle /\ UNCHANGED broker
  BY <1>1, <1>2, <1>5 DEF TablesOK, ClocksOK, registryVars, brokerVars
<1> QED BY <1>2, <1>5, <1>6, EventsStand, AroundCalls

LEMMA BrokerForgetsInv ==
    ASSUME IInv, BrokerForgets
    PROVE  IInv'
<1>1. /\ broker' = [a \in Assignments |-> None]
      /\ UNCHANGED <<now, registryVars, policy, assignments, grants, unwraps,
                     last_seen, calls, released>>
  BY DEF BrokerForgets
<1>2. TablesOK /\ ClocksOK
  BY DEF IInv
<1>3. /\ broker' \in [Assignments -> (1 .. MaxUnwraps) \cup {None}]
      /\ BrokerOK(broker', grants)
  BY <1>1 DEF BrokerOK
<1>4. /\ TablesOK' /\ ClocksOK' /\ UNCHANGED <<calls, grants, released>>
      /\ UNCHANGED lifecycle /\ UNCHANGED assignments
  BY <1>1, <1>2, <1>3 DEF TablesOK, ClocksOK, registryVars
<1> QED BY <1>2, <1>3, <1>4, EventsStand, AroundCalls

LEMMA RestartInv ==
    ASSUME IInv, NEW s \in Services, Restart(s)
    PROVE  IInv'
<1>1. /\ last_seen' = [last_seen EXCEPT ![s] = 0]
      /\ calls' = [c \in Callers |-> IF ServiceOf[c] = s THEN Idle ELSE calls[c]]
      /\ UNCHANGED <<now, registryVars, policy, assignments, grants, brokerVars,
                     released>>
  BY DEF Restart
<1>2. 0 \in Times /\ TablesOK /\ ClocksOK
  <2>1. 0 \in Times
    BY KeyReleaseAssumption, SMTT(40) DEF KeyReleaseAssumption, Times
  <2> QED BY <2>1 DEF IInv
<1>3. /\ TablesOK' /\ ClocksOK' /\ UNCHANGED <<assignments, grants, lifecycle>>
      /\ UNCHANGED broker /\ UNCHANGED released
  BY <1>1, <1>2 DEF TablesOK, ClocksOK, registryVars, brokerVars
<1>4. calls' \in [Callers -> CallRow]
  BY <1>1, IdleFits DEF IInv
<1>5. \A c \in Callers :
          \/ calls'[c] = calls[c]
          \/ CallOK(calls'[c], assignments', grants', lifecycle')
  BY <1>1, IdleFits
<1>6. Onward(assignments, grants, lifecycle, assignments', grants', lifecycle')
  BY <1>2, <1>3, Unmoved
<1>7. \A a \in Assignments : grants[a] = None =>
          grants'[a] = None \/ GrantOK(a, assignments', grants', lifecycle')
  BY <1>3
<1> QED BY <1>3, <1>4, <1>5, <1>6, <1>7, StepInv
-----------------------------------------------------------------------------
LEMMA InitInv ==
    Init => IInv
<1> SUFFICES ASSUME Init PROVE IInv
  OBVIOUS
<1>1. /\ 0 \in Times /\ 0 \in Events /\ 0 \in Releases /\ 0 \in 0 .. MaxUnwraps
  BY KeyReleaseAssumption, SMTT(40)
     DEF KeyReleaseAssumption, Times, Events, Releases
<1> DEFINE row == [state |-> "other", event_id |-> 0, evidence |-> 0,
                   verified_at |-> 0, release |-> 0]
           pol == [attestation |-> 0, workload |-> 0]
<1>2. row \in LifecycleRow /\ pol \in Policy
  BY <1>1 DEF LifecycleRow, Policy
<1>3. /\ lifecycle = [h \in Workers |-> row] /\ policy = pol
      /\ record = [h \in Workers |-> None]
      /\ assignments = [a \in Assignments |-> None]
      /\ grants = [a \in Assignments |-> None] /\ broker = [a \in Assignments |-> None]
      /\ unwraps = 0 /\ last_seen = [s \in Services |-> 0]
      /\ calls = [c \in Callers |-> Idle] /\ released = None
      /\ now = 0 /\ registry_seen = 0
  BY DEF Init
<1> HIDE DEF row, pol
<1>4. TablesOK /\ ClocksOK
  BY <1>1, <1>2, <1>3 DEF TablesOK, ClocksOK
<1>5. /\ calls \in [Callers -> CallRow]
      /\ \A c \in Callers : CallOK(calls[c], assignments, grants, lifecycle)
  BY <1>3, IdleFits
<1>6. /\ \A a \in Assignments : GrantOK(a, assignments, grants, lifecycle)
      /\ BrokerOK(broker, grants) /\ ReleasedOK(released, assignments, grants)
  BY <1>3 DEF GrantOK, BrokerOK, ReleasedOK
<1> QED BY <1>4, <1>5, <1>6 DEF IInv

LEMMA NextInv ==
    IInv /\ [Next]_vars => IInv'
<1> SUFFICES ASSUME IInv, [Next]_vars PROVE IInv'
  OBVIOUS
<1>1. CASE Environment
  BY <1>1, ClockInv, BrokerForgetsInv, RollPolicyInv, AttestInv, RevokeInv,
     IssueAssignmentInv, RestartInv DEF Environment
<1>2. ASSUME NEW c \in Callers, CallStep(c) PROVE IInv'
  BY <1>2, IssueGrantInv, RedeemInv, IssueLifecycleInv, IssueRecordInv,
     CreateOrGetInv, ValidateInv, BeginRedemptionInv, BrokerRedeemInv,
     AfterBrokerInv, PersistRedemptionInv, CheckReleaseInv, ReturnInv, RaiseInv
     DEF CallStep
<1>3. CASE UNCHANGED vars
  <2>1. TablesOK /\ UNCHANGED <<lifecycle, record, policy, assignments, grants, broker,
                                unwraps, now, registry_seen, last_seen, calls, released>>
    BY <1>3 DEF vars, registryVars, brokerVars, IInv
  <2>2. TablesOK' /\ ClocksOK'
    BY <2>1 DEF TablesOK, ClocksOK, IInv
  <2> QED BY <2>1, <2>2, EventsStand, AroundCalls
<1> QED BY <1>1, <1>2, <1>3 DEF Next

(* The inductive invariant holds in every behaviour.                       *)
LEMMA InvHolds == Spec => []IInv
BY InitInv, NextInv, PTL DEF Spec

(* Whatever races, stops or forgets, all callers of a grant get            *)
(* the same bytes: the ciphertext redeem returned last is the stored one   *)
(* (persist_redemption keeps the first, and a different one conflicts).    *)
THEOREM OneCiphertextPerGrant == Spec => []OneCiphertext
<1>1. IInv => OneCiphertext
  BY DEF IInv, ReleasedOK, OneCiphertext
<1> QED BY <1>1, InvHolds, PTL

(* redeem returns nothing stale: when a ciphertext goes out, the worker    *)
(* and the policies were the grant's when the release check began, and     *)
(* assignment, grant and evidence are within their lifetimes.              *)
THEOREM ReleasesAreCurrent == Spec => []CurrentAtRelease
<1>1. IInv => CurrentAtRelease
  <2> SUFFICES ASSUME IInv, released # None PROVE CurrentAtRelease
    BY DEF CurrentAtRelease
  <2> DEFINE a == released.id
             g == grants[a]
             t == released.at
  <2>1. /\ a \in Assignments /\ t \in Times /\ released.fresh
        /\ g \in GrantRow /\ t < g.expires_at /\ Verify(a, t)
    BY DEF IInv, ReleasedOK, Verify
  <2>2. g # None
    BY <2>1, NoneAssumption DEF NoneAssumption
  <2>3. /\ g.expires_at <= g.verified_at + EvidenceTTL
        /\ g.expires_at <= g.verified_at + MaxAge
    BY <2>1, <2>2 DEF IInv, GrantOK
  <2>4. g.expires_at \in Int /\ g.verified_at \in Int
    BY <2>1, RowTypes
  <2>5. EvidenceTTL \in Nat /\ MaxAge \in Nat /\ t \in Int
    BY <2>1, KeyReleaseAssumption, SMTT(40) DEF KeyReleaseAssumption, Times
  <2>6. t - g.verified_at < MaxAge /\ t < g.verified_at + EvidenceTTL
    <3> HIDE DEF g, t
    <3> QED BY <2>1, <2>3, <2>4, <2>5, SMTT(40)
  <2> QED BY <2>1, <2>6 DEF CurrentAtRelease
<1> QED BY <1>1, InvHolds, PTL

(* The broker is only asked for a redemption that begin_redemption has     *)
(* stored, whatever stops or restarts in between; and every row is well    *)
(* formed.                                                                 *)
THEOREM UnwrapsAreOnRecord == Spec => []RecordedBeforeUnwrap
<1>1. IInv => RecordedBeforeUnwrap
  <2> SUFFICES ASSUME IInv PROVE RecordedBeforeUnwrap
    OBVIOUS
  <2>1. \A c \in Callers : calls[c].phase \in Phases
    <3>1. \A x \in CallRow : x.phase \in Phases
      BY DEF CallRow
    <3> QED BY <3>1 DEF IInv
  <2>2. \A a \in Assignments : grants[a] # None =>
            (grants[a].state = "redeemed" <=> grants[a].envelope # None)
    BY DEF IInv, GrantOK, Sealed
  <2>3. TypeOK
    BY <2>1, <2>2 DEF IInv, TablesOK, ClocksOK, TypeOK
  <2>4. \A a \in Assignments : broker[a] # None =>
            grants[a] # None /\ grants[a].state # "issued"
    BY NoneAssumption DEF IInv, BrokerOK, NoneAssumption
  <2>5. ASSUME NEW c \in Callers, calls[c].phase \in {"answered", "persist"}
        PROVE  grants[calls[c].id].state # "issued"
    <3>1. /\ calls[c].phase # "idle" /\ calls[c].phase \notin Issuing
          /\ calls[c].phase \in OnRecord
      BY <2>5 DEF Issuing, OnRecord, Answered
    <3> QED BY <3>1, GrantStanding DEF RedeemOK
  <2> QED BY <2>3, <2>4, <2>5 DEF RecordedBeforeUnwrap
<1> QED BY <1>1, InvHolds, PTL
=============================================================================
