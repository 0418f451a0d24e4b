------------------------------ MODULE GpuProofs ------------------------------
(***************************************************************************)
(* Theorems about GpuIdentity, for every set of workers, GPUs and          *)
(* processes and every bound on the generation.                            *)
(***************************************************************************)
EXTENDS GpuIdentity, TLAPS

(* A step that names no prover goes to Zenon.                              *)
USE ZenonT(30)

Aside(n) == 1 - SlotOf(n)

(* The anchor is at the database's generation, with the one before it or   *)
(* nothing readable in the other slot; or it is one behind, and then the   *)
(* slot to be written next holds the oldest generation or nothing.         *)
AtDatabase ==
    /\ slots[SlotOf(generation)] = generation
    /\ slots[Aside(generation)] \in {generation - 1, Unreadable}

OneBehind ==
    /\ generation > 0
    /\ slots[Aside(generation)] = generation - 1
    /\ slots[SlotOf(generation)] \in {generation - 2, Unreadable}

AnchorInv ==
    /\ generation \in Generations
    /\ slots \in [{0, 1} -> Generations \cup {Unreadable}]
    /\ writer \in Processes \cup {None}
    /\ AtDatabase \/ OneBehind
    /\ writer # None => OneBehind

CallRow == [phase : Phases, hotkey : Hotkeys \cup {Canary, None},
            gpus : SUBSET Gpus, token : Generations \cup {None},
            current : BOOLEAN]

(* The calls that have inserted claims, under a token of their own.        *)
Holding == {"claimed", "recorded", "rejected", "reserved"}

(* The row of g is this call's own, or was settled before it.              *)
Backs(g, call) ==
    /\ claims[g] # None
    /\ claims[g].hotkey = call.hotkey
    /\ claims[g].token \in {None, call.token}

(* A call whose lifecycle token still holds is for a worker that is not    *)
(* retired, and once it has claimed, every GPU of it is backed.  An epoch  *)
(* has the rows of its reservation, unless a recovery released them.       *)
CallOK(p) ==
    /\ calls[p].phase \in Holding =>
           calls[p].token \in Generations /\ calls[p].token <= generation
    /\ calls[p].phase \in {"probing", "claimed", "recorded", "rejected"} =>
           calls[p].hotkey \in Hotkeys
    /\ calls[p].phase = "reserved" => calls[p].hotkey = Canary
    /\ calls[p].current =>
           calls[p].hotkey \in Hotkeys /\ ~workers[calls[p].hotkey].retired
    /\ calls[p].phase = "claimed" /\ calls[p].current =>
           \A g \in calls[p].gpus : Backs(g, calls[p])
    /\ calls[p].phase = "reserved" /\ calls[p].token \notin recovered =>
           \A g \in calls[p].gpus :
               claims[g] = [hotkey |-> Canary, token |-> calls[p].token,
                            kind |-> "canary"]
    /\ p \notin running => calls[p].phase = "idle"

CallsOK == calls \in [Processes -> CallRow] /\ \A p \in Processes : CallOK(p)

(* No two calls insert under one token.                                    *)
TokensApart ==
    \A p, q \in Processes :
        p # q /\ calls[p].phase \in Holding /\ calls[q].phase \in Holding
        => calls[p].token # calls[q].token

RowsOK ==
    \A g \in Gpus : claims[g] # None =>
        /\ claims[g].token # None => claims[g].token <= generation
        /\ claims[g].kind = "canary" =>
               claims[g].hotkey = Canary /\ claims[g].token # None

(* The GPUs of a verdict are claimed by its worker, and no call that may   *)
(* still take its claims back holds one of them.                           *)
VerdictsOK ==
    \A h \in Hotkeys :
        /\ workers[h].retired => workers[h].gpus = {}
        /\ \A g \in workers[h].gpus :
               /\ claims[g] # None /\ claims[g].hotkey = h
               /\ \A p \in Processes : calls[p].phase \in {"claimed", "rejected"} =>
                      claims[g].token # calls[p].token

ClaimsInv ==
    /\ claims \in [Gpus -> ClaimRow \cup {None}]
    /\ generation \in Generations /\ recovered \subseteq Generations
    /\ running \subseteq Processes
    /\ workers \in [Hotkeys -> WorkerRow]
    /\ CallsOK /\ TokensApart /\ RowsOK /\ VerdictsOK
-----------------------------------------------------------------------------
(* The two slots take turns.                                               *)
LEMMA Slots ==
    ASSUME NEW n \in Nat
    PROVE  /\ SlotOf(n) \in {0, 1} /\ Aside(n) \in {0, 1}
           /\ SlotOf(n) # Aside(n)
           /\ SlotOf(n + 1) = Aside(n) /\ Aside(n + 1) = SlotOf(n)
           /\ \A i \in {0, 1} : i = SlotOf(n) \/ i = Aside(n)
<1>1. n % 2 \in {0, 1} /\ (n + 1) % 2 = 1 - (n % 2)
    BY SMTT(40)
<1> QED BY <1>1, SMTT(40) DEF SlotOf, Aside

(* What the slots hold is at most two generations, the later of which is   *)
(* the anchor.                                                             *)
LEMMA AnchorIs ==
    ASSUME AnchorInv
    PROVE  /\ Readable
           /\ AtDatabase => Anchor = generation
           /\ OneBehind => Anchor = generation - 1
<1> USE GpuAssumption DEF GpuAssumption, Generations
<1>1. generation \in Nat /\ generation <= MaxGeneration
    BY SMTT(40) DEF AnchorInv
<1>2. PICK top \in Generations :
          /\ top \in Valid /\ \A m \in Valid : m = top \/ m = top - 1
          /\ AtDatabase => top = generation
          /\ OneBehind => top = generation - 1
  <2>1. CASE AtDatabase
    <3>1. generation \in Valid
        BY <1>1, <2>1, SMTT(40) DEF Valid, AtDatabase, SlotOf
    <3>2. ASSUME NEW m \in Valid PROVE m = generation \/ m = generation - 1
      <4>1. m \in Nat /\ slots[SlotOf(m)] = m /\ SlotOf(m) \in {0, 1}
          BY Slots, SMTT(40) DEF Valid, SlotOf
      <4>2. SlotOf(m) = SlotOf(generation) \/ SlotOf(m) = Aside(generation)
          BY <1>1, <4>1, Slots
      <4> QED BY <2>1, <4>1, <4>2, SMTT(40) DEF AtDatabase, Unreadable
    <3>3. ~OneBehind
        BY <1>1, <2>1, SMTT(40) DEF AtDatabase, OneBehind, Unreadable
    <3> QED BY <1>1, <3>1, <3>2, <3>3, SMTT(40)
  <2>2. CASE OneBehind
    <3>1. /\ generation - 1 \in Generations
          /\ SlotOf(generation - 1) = Aside(generation)
      <4>1. generation - 1 \in Nat /\ (generation - 1) + 1 = generation
          BY <1>1, <2>2, SMTT(40) DEF OneBehind
      <4>2. Aside((generation - 1) + 1) = SlotOf(generation - 1)
          BY <4>1, Slots
      <4> QED BY <1>1, <4>1, <4>2, SMTT(40)
    <3>2. generation - 1 \in Valid
        BY <2>2, <3>1 DEF Valid, OneBehind, SlotOf
    <3>3. ASSUME NEW m \in Valid PROVE m = generation - 1 \/ m = generation - 2
      <4>1. m \in Nat /\ slots[SlotOf(m)] = m /\ SlotOf(m) \in {0, 1}
          BY Slots, SMTT(40) DEF Valid, SlotOf
      <4>2. SlotOf(m) = SlotOf(generation) \/ SlotOf(m) = Aside(generation)
          BY <1>1, <4>1, Slots
      <4> QED BY <2>2, <4>1, <4>2, SMTT(40) DEF OneBehind, Unreadable
    <3>4. ~AtDatabase
        BY <1>1, <2>2, SMTT(40) DEF AtDatabase, OneBehind, Unreadable
    <3>5. \A m \in Valid : m = generation - 1 \/ m = (generation - 1) - 1
        BY <1>1, <3>3, SMTT(40)
    <3> QED BY <3>1, <3>2, <3>4, <3>5
  <2> QED BY <2>1, <2>2 DEF AnchorInv
<1>3. Valid \subseteq Generations
    BY DEF Valid
<1>4. Readable
    BY <1>2, <1>3, SMTT(40) DEF Readable
<1>5. Anchor = top
  <2>1. \A m \in Valid : m <= top
      BY <1>2, <1>3, SMTT(40)
  <2>2. /\ Anchor \in Valid
        /\ \A m \in Valid : m <= Anchor
      BY <1>2, <2>1 DEF Anchor
  <2>3. top <= Anchor /\ Anchor <= top
      BY <1>2, <2>1, <2>2
  <2>4. Anchor \in Nat /\ top \in Nat
      BY <1>2, <1>3, <2>2, SMTT(40)
  <2> QED BY <2>3, <2>4, SMTT(40)
<1> QED BY <1>2, <1>4, <1>5

(* The steps of the anchor: a write that leaves it one behind, a slot      *)
(* written, and a slot cut off while the anchor was behind.                *)
LEMMA WriteAnchor ==
    ASSUME AnchorInv, NEW p \in Processes, NEW rows, Write(p, rows)
    PROVE  AnchorInv'
<1> USE GpuAssumption DEF GpuAssumption, Generations
<1>1. /\ generation \in Nat /\ generation + 1 \in Generations
      /\ generation' = generation + 1 /\ writer' = p
      /\ slots' = [slots EXCEPT ![SlotOf(generation)] = generation]
    BY SMTT(40) DEF AnchorInv, Write, Reconciled
<1>2. /\ SlotOf(generation) \in {0, 1} /\ Aside(generation) \in {0, 1}
      /\ SlotOf(generation) # Aside(generation)
      /\ SlotOf(generation') = Aside(generation)
      /\ Aside(generation') = SlotOf(generation)
    BY <1>1, Slots
<1>3. /\ slots' \in [{0, 1} -> Generations \cup {Unreadable}]
      /\ slots'[SlotOf(generation)] = generation
      /\ slots'[Aside(generation)] = slots[Aside(generation)]
    BY <1>1, <1>2 DEF AnchorInv
<1>4. slots[Aside(generation)] \in {generation - 1, Unreadable}
    BY DEF AnchorInv, AtDatabase, OneBehind
<1>5. OneBehind'
  <2>1. generation = generation' - 1 /\ generation - 1 = generation' - 2
        /\ generation' > 0
      BY <1>1, SMTT(40)
  <2>2. slots'[Aside(generation')] = generation' - 1
      BY <1>2, <1>3, <2>1
  <2>3. slots'[SlotOf(generation')] \in {generation' - 2, Unreadable}
      BY <1>2, <1>3, <1>4, <2>1
  <2> QED BY <2>1, <2>2, <2>3 DEF OneBehind, Aside, SlotOf
<1> QED BY <1>1, <1>3, <1>5 DEF AnchorInv

LEMMA AppendedAnchor ==
    ASSUME AnchorInv, generation' = generation, writer' = None,
           slots' = Reconciled
    PROVE  AnchorInv'
<1> USE GpuAssumption DEF GpuAssumption, Generations
<1>1. /\ generation \in Nat /\ generation \in Generations
      /\ slots' = [slots EXCEPT ![SlotOf(generation)] = generation]
    BY SMTT(40) DEF AnchorInv, Reconciled
<1>2. /\ SlotOf(generation) \in {0, 1} /\ Aside(generation) \in {0, 1}
      /\ SlotOf(generation) # Aside(generation)
    BY <1>1, Slots
<1>3. /\ slots' \in [{0, 1} -> Generations \cup {Unreadable}]
      /\ slots'[SlotOf(generation)] = generation
      /\ slots'[Aside(generation)] = slots[Aside(generation)]
    BY <1>1, <1>2, SMTT(40) DEF AnchorInv
<1>4. slots[Aside(generation)] \in {generation - 1, Unreadable}
    BY DEF AnchorInv, AtDatabase, OneBehind
<1>5. AtDatabase'
    BY <1>3, <1>4 DEF AtDatabase, Aside, SlotOf
<1> QED BY <1>1, <1>3, <1>5 DEF AnchorInv

LEMMA InterruptedAnchor ==
    ASSUME AnchorInv, NEW outcome \in {"unwritten", "torn", "written"},
           slots' = Interrupted(outcome), generation' = generation,
           writer' \in {writer, None},
           outcome # "unwritten" => OneBehind /\ writer' = None
    PROVE  AnchorInv'
<1> USE GpuAssumption DEF GpuAssumption, Generations
<1>1. CASE outcome = "unwritten"
  <2>1. slots' = slots
      BY <1>1 DEF Interrupted
  <2>2. AtDatabase' = AtDatabase /\ OneBehind' = OneBehind
      BY <2>1 DEF AtDatabase, OneBehind, Aside, SlotOf
  <2> QED BY <2>1, <2>2 DEF AnchorInv
<1>2. CASE outcome = "torn"
  <2>1. /\ generation \in Nat /\ OneBehind /\ writer' = None
        /\ slots' = [slots EXCEPT ![SlotOf(generation)] = Unreadable]
      BY <1>2, SMTT(40) DEF AnchorInv, Interrupted
  <2>2. /\ SlotOf(generation) \in {0, 1} /\ Aside(generation) \in {0, 1}
        /\ SlotOf(generation) # Aside(generation)
      BY <2>1, Slots
  <2>3. /\ slots' \in [{0, 1} -> Generations \cup {Unreadable}]
        /\ slots'[SlotOf(generation)] = Unreadable
        /\ slots'[Aside(generation)] = slots[Aside(generation)]
      BY <2>1, <2>2, SMTT(40) DEF AnchorInv
  <2>4. OneBehind'
      BY <2>1, <2>3 DEF OneBehind, Aside, SlotOf
  <2> QED BY <2>1, <2>3, <2>4 DEF AnchorInv
<1>3. CASE outcome = "written"
  <2>1. slots' = Reconciled
      BY <1>3 DEF Interrupted
  <2> QED BY <1>3, <2>1, AppendedAnchor
<1> QED BY <1>1, <1>2, <1>3

LEMMA CrashAnchor ==
    ASSUME AnchorInv, NEW p \in Processes,
           NEW outcome \in {"unwritten", "torn", "written"}, Crash(p, outcome)
    PROVE  AnchorInv'
<1> USE GpuAssumption DEF GpuAssumption, Generations
<1>1. /\ slots' = Interrupted(outcome) /\ generation' = generation
      /\ writer' = IF writer = p THEN None ELSE writer
    BY DEF Crash
<1>2. ASSUME outcome # "unwritten"
      PROVE  OneBehind /\ writer' = None
  <2>1. CASE writer = p
      BY <1>1, <2>1 DEF AnchorInv
  <2>2. CASE writer = None /\ generation = Anchor + 1
    <3>1. generation \in Nat
        BY SMTT(40) DEF AnchorInv
    <3>2. ~AtDatabase
        BY <2>2, <3>1, AnchorIs, SMTT(40)
    <3> QED BY <1>1, <2>2, <3>2 DEF AnchorInv
  <2> QED BY <1>2, <2>1, <2>2 DEF Crash
<1> QED BY <1>1, <1>2, InterruptedAnchor

LEMMA AnchorNext == AnchorInv /\ [Next]_vars => AnchorInv'
<1> SUFFICES ASSUME AnchorInv, [Next]_vars PROVE AnchorInv'
    OBVIOUS
<1>1. ASSUME UNCHANGED <<slots, generation, writer>>
      PROVE  AnchorInv'
    BY <1>1 DEF AnchorInv, AtDatabase, OneBehind, Aside, SlotOf
<1>2. ASSUME NEW p \in Processes, Reconcile(p)
      PROVE  AnchorInv'
    BY <1>2, AppendedAnchor DEF Reconcile
<1>3. ASSUME NEW p \in Processes, NEW rows, Commit(p, rows)
      PROVE  AnchorInv'
    BY <1>3, WriteAnchor DEF Commit
<1>4. ASSUME NEW p \in Processes, Admission(p)
      PROVE  AnchorInv'
  <2>1. CASE BeginClaim(p)
      BY <2>1, <1>3 DEF BeginClaim
  <2>2. CASE CommitClaim(p)
      BY <2>2, <1>3 DEF CommitClaim
  <2>3. CASE RollbackClaim(p)
      BY <2>3, <1>3 DEF RollbackClaim
  <2>4. CASE \/ ClaimConflict(p) \/ ClaimRefused(p) \/ CommitRefused(p)
             \/ RollbackRefused(p)
      BY <2>4, <1>2 DEF ClaimConflict, ClaimRefused, CommitRefused,
         RollbackRefused, Refuse
  <2>5. CASE \/ \E h \in Hotkeys, gpus \in GpuSets : Probe(p, h, gpus)
             \/ RecordRaises(p) \/ \E gpus \in {calls[p].gpus, {}} : RecordVerdict(p, gpus)
      BY <2>5, <1>1 DEF Probe, RecordRaises, RecordVerdict, registryVars
  <2> QED BY <1>4, <2>1, <2>2, <2>3, <2>4, <2>5 DEF Admission
<1>5. ASSUME NEW p \in Processes, AppendAnchor(p)
      PROVE  AnchorInv'
    BY <1>5, AppendedAnchor DEF AppendAnchor
<1>6. ASSUME NEW p \in Processes, NEW gpus \in GpuSets, Reserve(p, gpus)
      PROVE  AnchorInv'
    BY <1>6, <1>3 DEF Reserve
<1>7. ASSUME NEW p \in Processes, NEW outcome \in {"unwritten", "torn"},
             AppendFails(p, outcome)
      PROVE  AnchorInv'
  <2>1. writer = p /\ p # None
      BY <1>7, GpuAssumption DEF AppendFails, GpuAssumption
  <2> QED BY <1>7, <2>1, InterruptedAnchor DEF AppendFails, AnchorInv
<1>8. ASSUME NEW p \in Processes, NEW outcome \in {"unwritten", "torn", "written"},
             Crash(p, outcome)
      PROVE  AnchorInv'
    BY <1>8, CrashAnchor
<1>9. ASSUME NEW p \in Processes, Start(p)
      PROVE  AnchorInv'
    BY <1>9, AppendedAnchor DEF Start
<1>10. ASSUME NEW p \in Processes, Recover(p)
       PROVE  AnchorInv'
    BY <1>10, WriteAnchor DEF Recover
<1>11. ASSUME NEW p \in Processes, NEW h \in Hotkeys, ReleaseWorker(p, h)
       PROVE  AnchorInv'
    BY <1>11, <1>3 DEF ReleaseWorker
<1>12. ASSUME NEW h \in Hotkeys, Retire(h) \/ Reenroll(h) \/ Lapse(h)
       PROVE  AnchorInv'
    BY <1>12, <1>1 DEF Retire, Reenroll, Lapse, registryVars
<1>13. CASE UNCHANGED vars
    BY <1>13, <1>1 DEF vars, registryVars
<1> QED BY <1>4, <1>5, <1>6, <1>7, <1>8, <1>9, <1>10, <1>11, <1>12, <1>13 DEF Next

LEMMA AnchorHolds == Spec => []AnchorInv
<1>1. Init => AnchorInv
  <2> SUFFICES ASSUME Init PROVE AnchorInv
      OBVIOUS
  <2> USE GpuAssumption DEF GpuAssumption, Generations
  <2>1. SlotOf(0) = 0 /\ Aside(0) = 1
      BY SMTT(40) DEF SlotOf, Aside
  <2>2. AtDatabase
      BY <2>1, SMTT(40) DEF Init, AtDatabase
  <2> QED BY <2>2, SMTT(40) DEF Init, AnchorInv, Unreadable
<1> QED BY <1>1, AnchorNext, PTL DEF Spec

(* No sequence of crashes, cut-off slots and restarts locks the registry   *)
(* out: the anchor stays readable, with the database at it or one ahead    *)
(* (_verify_authenticated_state).                                          *)
THEOREM NoLockout == Spec => []AnchorRecoverable
<1>1. ASSUME AnchorInv PROVE AnchorRecoverable
  <2>1. generation \in Nat
      BY <1>1, GpuAssumption, SMTT(40)
         DEF AnchorInv, Generations, GpuAssumption
  <2>2. generation = Anchor \/ generation = Anchor + 1
      BY <1>1, <2>1, AnchorIs, SMTT(40) DEF AnchorInv
  <2> QED BY <1>1, <2>2, AnchorIs DEF AnchorRecoverable, Authenticated
<1> QED BY <1>1, AnchorHolds, PTL
-----------------------------------------------------------------------------
(* The claims.                                                             *)

LEMMA IdleCall ==
    /\ Idle \in CallRow /\ Idle.phase = "idle" /\ Idle.current = FALSE
    /\ Idle.token = None
BY DEF Idle, CallRow, Phases

(* Steps that leave the claims alone.  A call may end, its lifecycle token *)
(* may become stale, a claimed one may be rejected and a new probe begun;  *)
(* a worker may lose its verdict, and one that changes leaves no call with *)
(* a token that holds.                                                     *)
LEMMA ClaimsKept ==
    ASSUME ClaimsInv, UNCHANGED <<claims, generation, recovered>>,
           running' \subseteq Processes,
           calls' \in [Processes -> CallRow], workers' \in [Hotkeys -> WorkerRow],
           \A k \in Hotkeys :
               /\ workers'[k].gpus \subseteq workers[k].gpus
               /\ workers'[k].retired => workers'[k].gpus = {}
               /\ \/ workers'[k] = workers[k]
                  \/ \A q \in Processes : ~(calls'[q].current /\ calls'[q].hotkey = k),
           \A q \in Processes :
               \/ calls'[q] = Idle
               \/ /\ calls'[q].phase = "probing" /\ q \in running'
                  /\ calls'[q].hotkey \in Hotkeys
                  /\ ~workers'[calls'[q].hotkey].retired
               \/ /\ \/ calls'[q].phase = calls[q].phase
                     \/ calls[q].phase = "claimed" /\ calls'[q].phase = "rejected"
                  /\ calls'[q].hotkey = calls[q].hotkey
                  /\ calls'[q].gpus = calls[q].gpus
                  /\ calls'[q].token = calls[q].token
                  /\ calls'[q].current => calls[q].current
                  /\ q \notin running' => q \notin running
    PROVE  ClaimsInv'
<1>1. ASSUME NEW q \in Processes
      PROVE  /\ calls'[q].phase \in Holding =>
                    /\ calls[q].phase \in Holding
                    /\ calls'[q].token = calls[q].token
             /\ calls'[q].phase \in {"claimed", "rejected"} =>
                    calls[q].phase \in {"claimed", "rejected"}
    BY <1>1, IdleCall DEF Holding
<1>2. ASSUME NEW q \in Processes
      PROVE  CallOK(q)'
  <2>1. CASE calls'[q] = Idle
      BY <2>1, IdleCall DEF CallOK, Holding
  <2>2. CASE /\ calls'[q].phase = "probing" /\ q \in running'
             /\ calls'[q].hotkey \in Hotkeys
             /\ ~workers'[calls'[q].hotkey].retired
      BY <2>2 DEF CallOK, Holding
  <2>3. CASE /\ calls'[q] # Idle
             /\ ~ /\ calls'[q].phase = "probing" /\ q \in running'
                  /\ calls'[q].hotkey \in Hotkeys
                  /\ ~workers'[calls'[q].hotkey].retired
    <3>1. /\ \/ calls'[q].phase = calls[q].phase
             \/ calls[q].phase = "claimed" /\ calls'[q].phase = "rejected"
          /\ calls'[q].hotkey = calls[q].hotkey
          /\ calls'[q].gpus = calls[q].gpus
          /\ calls'[q].token = calls[q].token
          /\ calls'[q].current => calls[q].current
          /\ q \notin running' => q \notin running
        BY <2>3
    <3>2. CallOK(q)
        BY DEF ClaimsInv, CallsOK
    <3>3. calls'[q].current =>
              calls'[q].hotkey \in Hotkeys /\ ~workers'[calls'[q].hotkey].retired
      <4> SUFFICES ASSUME calls'[q].current
                   PROVE  calls'[q].hotkey \in Hotkeys
                          /\ ~workers'[calls'[q].hotkey].retired
          OBVIOUS
      <4>1. calls[q].hotkey \in Hotkeys /\ ~workers[calls[q].hotkey].retired
          BY <3>1, <3>2 DEF CallOK
      <4>2. workers'[calls[q].hotkey] = workers[calls[q].hotkey]
          BY <3>1, <4>1
      <4> QED BY <3>1, <4>1, <4>2, SMTT(40)
    <3>4. /\ calls'[q].phase = "claimed" /\ calls'[q].current =>
                 \A g \in calls'[q].gpus : Backs(g, calls[q])
          /\ calls'[q].phase = "reserved" /\ calls'[q].token \notin recovered' =>
                 \A g \in calls'[q].gpus :
                     claims'[g] = [hotkey |-> Canary, token |-> calls'[q].token,
                                   kind |-> "canary"]
        BY <3>1, <3>2, SMTT(40) DEF CallOK
    <3>5. /\ calls'[q].phase \in Holding =>
                 calls'[q].token \in Generations /\ calls'[q].token <= generation'
          /\ calls'[q].phase \in {"probing", "claimed", "recorded", "rejected"} =>
                 calls'[q].hotkey \in Hotkeys
          /\ calls'[q].phase = "reserved" => calls'[q].hotkey = Canary
          /\ q \notin running' => calls'[q].phase = "idle"
        BY <3>1, <3>2 DEF CallOK, Holding
    <3>6. calls'[q].phase = "claimed" /\ calls'[q].current =>
              \A g \in calls'[q].gpus : Backs(g, calls[q])'
        BY <3>1, <3>4 DEF Backs
    <3> QED BY <3>3, <3>4, <3>5, <3>6 DEF CallOK
  <2> QED BY <2>1, <2>2, <2>3
<1>3. CallsOK'
    BY <1>2 DEF CallsOK
<1>4. TokensApart'
    BY <1>1, SMTT(40) DEF ClaimsInv, TokensApart
<1>5. RowsOK'
    BY DEF ClaimsInv, RowsOK
<1>6. VerdictsOK'
  <2> SUFFICES ASSUME NEW h \in Hotkeys, NEW g \in workers'[h].gpus
               PROVE  /\ claims[g] # None /\ claims[g].hotkey = h
                      /\ \A q \in Processes :
                             calls'[q].phase \in {"claimed", "rejected"} =>
                                 claims[g].token # calls'[q].token
      BY SMTT(40) DEF VerdictsOK
  <2>1. g \in workers[h].gpus
      OBVIOUS
  <2> QED BY <1>1, <2>1, SMTT(40) DEF ClaimsInv, VerdictsOK, Holding
<1> QED BY <1>3, <1>4, <1>5, <1>6 DEF ClaimsInv

(* A write that only adds rows, under the token of a call that begins to   *)
(* hold them.                                                              *)
LEMMA RowsAdded ==
    ASSUME ClaimsInv, NEW p \in Processes, NEW row \in CallRow,
           calls' = [calls EXCEPT ![p] = row], UNCHANGED <<running, workers>>,
           row.phase \in {"claimed", "reserved"}, row.token = generation + 1,
           generation' = generation + 1, generation + 1 \in Generations,
           UNCHANGED recovered, claims' \in [Gpus -> ClaimRow \cup {None}],
           \A g \in Gpus :
               IF claims[g] # None THEN claims'[g] = claims[g]
               ELSE \/ claims'[g] = None
                    \/ /\ claims'[g].token = generation + 1
                       /\ claims'[g].kind = "canary" => claims'[g].hotkey = Canary,
           CallOK(p)'
    PROVE  ClaimsInv'
<1> USE GpuAssumption DEF GpuAssumption, Generations
<1>1. /\ calls' \in [Processes -> CallRow] /\ calls'[p] = row
      /\ \A q \in Processes : q # p => calls'[q] = calls[q]
      /\ generation \in Nat /\ generation + 1 # None
    BY SMTT(40) DEF ClaimsInv, CallsOK
<1>2. ASSUME NEW q \in Processes, q # p
      PROVE  CallOK(q)'
  <2>1. CallOK(q) /\ calls'[q] = calls[q] /\ calls[q] \in CallRow
      BY <1>1, <1>2 DEF ClaimsInv, CallsOK
  <2>2. calls[q].phase \in Holding =>
            calls[q].token \in Generations /\ calls[q].token <= generation'
      BY <1>1, <2>1, SMTT(40) DEF CallOK
  <2>3. calls[q].phase = "claimed" /\ calls[q].current =>
            \A g \in calls[q].gpus : Backs(g, calls[q])'
    <3>1. \A g \in calls[q].gpus : g \in Gpus
        BY <2>1 DEF CallRow
    <3> QED BY <2>1, <3>1, SMTT(40) DEF CallOK, Backs
  <2>4. calls[q].phase = "reserved" /\ calls[q].token \notin recovered' =>
            \A g \in calls[q].gpus :
                claims'[g] = [hotkey |-> Canary, token |-> calls[q].token,
                              kind |-> "canary"]
    <3> SUFFICES ASSUME calls[q].phase = "reserved",
                        calls[q].token \notin recovered', NEW g \in calls[q].gpus
                 PROVE  claims'[g] = [hotkey |-> Canary, token |-> calls[q].token,
                                      kind |-> "canary"]
        OBVIOUS
    <3>1. g \in Gpus
        BY <2>1 DEF CallRow
    <3>2. /\ calls[q].token \in Generations
          /\ claims[g] = [hotkey |-> Canary, token |-> calls[q].token,
                          kind |-> "canary"]
        BY <2>1 DEF CallOK, Holding
    <3>3. claims[g] \in ClaimRow
        BY <3>2, SMTT(40) DEF ClaimRow
    <3>4. claims[g] # None
        BY <3>3, NoClaimAssumption
    <3> QED BY <3>1, <3>2, <3>4
  <2> QED BY <2>1, <2>2, <2>3, <2>4 DEF CallOK
<1>3. CallsOK'
    BY <1>1, <1>2 DEF CallsOK
<1>4. TokensApart'
  <2>1. \A q \in Processes : calls[q].phase \in Holding =>
            calls[q].token # generation + 1
      BY <1>1, SMTT(40) DEF ClaimsInv, CallsOK, CallOK
  <2> QED BY <1>1, <2>1, SMTT(40) DEF ClaimsInv, TokensApart, Holding
<1>5. RowsOK'
  <2> SUFFICES ASSUME NEW g \in Gpus, claims'[g] # None
               PROVE  /\ claims'[g].token # None => claims'[g].token <= generation + 1
                      /\ claims'[g].kind = "canary" =>
                             claims'[g].hotkey = Canary /\ claims'[g].token # None
      BY DEF RowsOK
  <2>1. CASE claims[g] # None
    <3>1. claims'[g] = claims[g] /\ claims[g] \in ClaimRow
        BY <2>1 DEF ClaimsInv
    <3>2. claims[g].token \in Generations \cup {None}
        BY <3>1 DEF ClaimRow
    <3> QED BY <1>1, <2>1, <3>1, <3>2, SMTT(40) DEF ClaimsInv, RowsOK
  <2>2. CASE claims[g] = None
      BY <1>1, <2>2, SMTT(40)
  <2> QED BY <2>1, <2>2
<1>6. VerdictsOK'
  <2> SUFFICES ASSUME NEW h \in Hotkeys, NEW g \in workers[h].gpus
               PROVE  /\ claims'[g] # None /\ claims'[g].hotkey = h
                      /\ \A q \in Processes :
                             calls'[q].phase \in {"claimed", "rejected"} =>
                                 claims'[g].token # calls'[q].token
      BY SMTT(40) DEF ClaimsInv, VerdictsOK
  <2>1. /\ claims[g] # None /\ claims[g].hotkey = h
        /\ \A q \in Processes : calls[q].phase \in {"claimed", "rejected"} =>
               claims[g].token # calls[q].token
      BY SMTT(40) DEF ClaimsInv, VerdictsOK
  <2>2. g \in Gpus
      BY DEF ClaimsInv, WorkerRow
  <2>3. claims'[g] = claims[g] /\ claims[g] \in ClaimRow
      BY <2>1, <2>2 DEF ClaimsInv
  <2>4. claims[g].token # generation + 1
    <3>1. claims[g].token \in Generations \cup {None}
        BY <2>3 DEF ClaimRow
    <3> QED BY <1>1, <2>1, <2>2, <3>1, SMTT(40) DEF ClaimsInv, RowsOK
  <2> QED BY <1>1, <2>1, <2>3, <2>4, SMTT(40)
<1> QED BY <1>3, <1>4, <1>5, <1>6 DEF ClaimsInv

(* A write that settles rows or removes them: none that a claimed call, a  *)
(* verdict or a reservation rests on is removed.                           *)
LEMMA RowsChanged ==
    ASSUME ClaimsInv, UNCHANGED <<running, workers>>,
           generation' = generation + 1, generation + 1 \in Generations,
           recovered \subseteq recovered', recovered' \subseteq Generations,
           calls' \in [Processes -> CallRow],
           \A q \in Processes : calls'[q] = Idle \/ calls'[q] = calls[q],
           claims' \in [Gpus -> ClaimRow \cup {None}],
           \A g \in Gpus :
               \/ claims'[g] \in {claims[g], None}
               \/ /\ claims[g] # None /\ claims'[g] # None
                  /\ claims'[g].hotkey = claims[g].hotkey
                  /\ claims'[g].token = None /\ claims'[g].kind = "worker",
           \A q \in Processes :
               /\ calls'[q].phase = "claimed" /\ calls'[q].current =>
                      \A g \in calls'[q].gpus : claims'[g] # None
               /\ calls'[q].phase = "reserved" /\ calls'[q].token \notin recovered' =>
                      \A g \in calls'[q].gpus : claims'[g] = claims[g],
           \A h \in Hotkeys : \A g \in workers[h].gpus : claims'[g] # None
    PROVE  ClaimsInv'
<1> USE GpuAssumption DEF GpuAssumption, Generations
<1>1. generation \in Nat
    BY SMTT(40) DEF ClaimsInv
<1>2. ASSUME NEW q \in Processes
      PROVE  CallOK(q)'
  <2>1. CASE calls'[q] = Idle
      BY <2>1, IdleCall DEF CallOK, Holding
  <2>2. CASE calls'[q] = calls[q]
    <3>1. CallOK(q) /\ calls[q] \in CallRow
        BY DEF ClaimsInv, CallsOK
    <3>2. calls[q].phase \in Holding =>
              calls[q].token \in Generations /\ calls[q].token <= generation'
        BY <1>1, <3>1, SMTT(40) DEF CallOK
    <3>3. ASSUME calls[q].phase = "claimed", calls[q].current, NEW g \in calls[q].gpus
          PROVE  Backs(g, calls[q])'
      <4>1. g \in Gpus /\ claims'[g] # None /\ Backs(g, calls[q])
          BY <2>2, <3>1, <3>3 DEF CallRow, CallOK
      <4> QED BY <2>2, <4>1 DEF Backs
    <3> QED BY <2>2, <3>1, <3>2, <3>3, ZenonT(60) DEF CallOK
  <2> QED BY <2>1, <2>2
<1>3. CallsOK'
    BY <1>2 DEF CallsOK
<1>4. TokensApart'
    BY IdleCall, SMTT(40) DEF ClaimsInv, TokensApart, Holding
<1>5. RowsOK'
  <2> SUFFICES ASSUME NEW g \in Gpus, claims'[g] # None
               PROVE  /\ claims'[g].token # None => claims'[g].token <= generation + 1
                      /\ claims'[g].kind = "canary" =>
                             claims'[g].hotkey = Canary /\ claims'[g].token # None
      BY DEF RowsOK
  <2>1. CASE claims'[g] = claims[g]
    <3>1. claims[g].token \in Generations \cup {None}
        BY <2>1, SMTT(40) DEF ClaimsInv, ClaimRow
    <3> QED BY <1>1, <2>1, <3>1, SMTT(40) DEF ClaimsInv, RowsOK
  <2>2. CASE claims'[g].token = None /\ claims'[g].kind = "worker"
      BY <2>2
  <2> QED BY <2>1, <2>2
<1>6. VerdictsOK'
  <2> SUFFICES ASSUME NEW h \in Hotkeys, NEW g \in workers[h].gpus
               PROVE  /\ claims'[g] # None /\ claims'[g].hotkey = h
                      /\ \A q \in Processes :
                             calls'[q].phase \in {"claimed", "rejected"} =>
                                 claims'[g].token # calls'[q].token
      BY SMTT(40) DEF ClaimsInv, VerdictsOK
  <2>1. /\ claims[g].hotkey = h /\ claims'[g] # None
        /\ \A q \in Processes : calls[q].phase \in {"claimed", "rejected"} =>
               claims[g].token # calls[q].token
      BY SMTT(40) DEF ClaimsInv, VerdictsOK
  <2>2. g \in Gpus
      BY DEF ClaimsInv, WorkerRow
  <2>3. \A q \in Processes : calls'[q].phase \in {"claimed", "rejected"} =>
            calls'[q] = calls[q] /\ calls[q].token # None
    <3> SUFFICES ASSUME NEW q \in Processes, calls'[q].phase \in {"claimed", "rejected"}
                 PROVE  calls'[q] = calls[q] /\ calls[q].token # None
        OBVIOUS
    <3>1. calls'[q] = calls[q]
        BY IdleCall
    <3>2. calls[q].phase \in Holding /\ CallOK(q)
        BY <3>1 DEF Holding, ClaimsInv, CallsOK
    <3> QED BY <3>1, <3>2, SMTT(40) DEF CallOK
  <2>4. \/ claims'[g] = claims[g]
        \/ claims'[g].hotkey = claims[g].hotkey /\ claims'[g].token = None
      BY <2>1, <2>2
  <2>5. CASE claims'[g] = claims[g]
      BY <2>1, <2>3, <2>5
  <2>6. CASE claims'[g].hotkey = claims[g].hotkey /\ claims'[g].token = None
    <3>1. \A q \in Processes : calls'[q].phase \in {"claimed", "rejected"} =>
              claims'[g].token # calls'[q].token
        BY <2>3, <2>6
    <3> QED BY <2>1, <2>6, <3>1
  <2> QED BY <2>4, <2>5, <2>6
<1> QED BY <1>3, <1>4, <1>5, <1>6 DEF ClaimsInv
-----------------------------------------------------------------------------
(* The steps that leave the claims alone.                                  *)

LEMMA QuietInv ==
    ASSUME ClaimsInv, UNCHANGED <<claims, generation, recovered, workers, calls>>,
           running \subseteq running', running' \subseteq Processes
    PROVE  ClaimsInv'
<1>1. /\ calls' \in [Processes -> CallRow] /\ workers' \in [Hotkeys -> WorkerRow]
      /\ \A k \in Hotkeys : workers[k].retired => workers[k].gpus = {}
    BY DEF ClaimsInv, CallsOK, VerdictsOK
<1> QED BY <1>1, ClaimsKept

LEMMA EndedInv ==
    ASSUME ClaimsInv, NEW p \in Processes, calls' = [calls EXCEPT ![p] = Idle],
           UNCHANGED <<claims, generation, recovered, workers>>,
           running' \in {running, running \ {p}}
    PROVE  ClaimsInv'
<1>1. /\ calls' \in [Processes -> CallRow] /\ calls'[p] = Idle
      /\ \A q \in Processes : q # p => calls'[q] = calls[q]
    BY IdleCall DEF ClaimsInv, CallsOK
<1>2. /\ workers' \in [Hotkeys -> WorkerRow] /\ running' \subseteq Processes
      /\ \A k \in Hotkeys : workers[k].retired => workers[k].gpus = {}
    BY DEF ClaimsInv, VerdictsOK
<1>3. \A q \in Processes : q # p => (q \notin running' => q \notin running)
    OBVIOUS
<1> QED BY <1>1, <1>2, <1>3, ClaimsKept

(* What a step of a lifecycle leaves of the calls.                         *)
LEMMA MovedCalls ==
    ASSUME ClaimsInv, NEW h \in Hotkeys
    PROVE  /\ Moved(h) \in [Processes -> CallRow]
           /\ \A q \in Processes :
                  /\ Moved(h)[q].phase = calls[q].phase
                  /\ Moved(h)[q].hotkey = calls[q].hotkey
                  /\ Moved(h)[q].gpus = calls[q].gpus
                  /\ Moved(h)[q].token = calls[q].token
                  /\ Moved(h)[q].current => calls[q].current /\ calls[q].hotkey # h
<1> SUFFICES ASSUME NEW q \in Processes
             PROVE  /\ Moved(h)[q] \in CallRow
                    /\ Moved(h)[q].phase = calls[q].phase
                    /\ Moved(h)[q].hotkey = calls[q].hotkey
                    /\ Moved(h)[q].gpus = calls[q].gpus
                    /\ Moved(h)[q].token = calls[q].token
                    /\ Moved(h)[q].current => calls[q].current /\ calls[q].hotkey # h
    BY DEF Moved
<1> DEFINE still == calls[q].current /\ calls[q].hotkey # h
<1>1. calls[q] \in CallRow /\ still \in BOOLEAN
    BY DEF ClaimsInv, CallsOK, CallRow
<1>2. Moved(h)[q] = [calls[q] EXCEPT !.current = still]
    BY DEF Moved
<1>3. still => calls[q].current /\ calls[q].hotkey # h
    OBVIOUS
<1> HIDE DEF still
<1> QED BY <1>1, <1>2, <1>3 DEF CallRow

(* A worker's lifecycle moves and its verdict may end.                     *)
LEMMA MovedInv ==
    ASSUME ClaimsInv, NEW h \in Hotkeys, NEW row \in WorkerRow,
           workers' = [workers EXCEPT ![h] = row],
           row.retired => row.gpus = {}, row.gpus \subseteq workers[h].gpus,
           UNCHANGED <<claims, generation, recovered, running>>,
           calls' = Moved(h)
             \/ \E p \in Processes : calls' = [Moved(h) EXCEPT ![p] = Idle]
    PROVE  ClaimsInv'
<1>1. /\ workers' \in [Hotkeys -> WorkerRow] /\ workers'[h] = row
      /\ \A k \in Hotkeys : k # h => workers'[k] = workers[k]
      /\ \A k \in Hotkeys : workers[k].retired => workers[k].gpus = {}
    BY SMTT(40) DEF ClaimsInv, VerdictsOK
<1>2. /\ calls' \in [Processes -> CallRow]
      /\ \A q \in Processes : calls'[q] \in {Idle, Moved(h)[q]}
    BY IdleCall, MovedCalls, SMTT(40)
<1>3. \A q \in Processes : ~(calls'[q].current /\ calls'[q].hotkey = h)
    BY <1>2, IdleCall, MovedCalls, SMTT(40)
<1>4. \A k \in Hotkeys :
          /\ workers'[k].gpus \subseteq workers[k].gpus
          /\ workers'[k].retired => workers'[k].gpus = {}
          /\ \/ workers'[k] = workers[k]
             \/ \A q \in Processes : ~(calls'[q].current /\ calls'[q].hotkey = k)
    BY <1>1, <1>3
<1>5. \A q \in Processes :
          \/ calls'[q] = Idle
          \/ /\ calls'[q].phase = calls[q].phase
             /\ calls'[q].hotkey = calls[q].hotkey
             /\ calls'[q].gpus = calls[q].gpus
             /\ calls'[q].token = calls[q].token
             /\ calls'[q].current => calls[q].current
    BY <1>2, MovedCalls, SMTT(40)
<1>6. running' \subseteq Processes
    BY DEF ClaimsInv
<1> QED BY <1>1, <1>2, <1>4, <1>5, <1>6, ClaimsKept

LEMMA LifecycleInv ==
    ASSUME ClaimsInv, NEW h \in Hotkeys, Retire(h) \/ Reenroll(h) \/ Lapse(h)
    PROVE  ClaimsInv'
<1>1. /\ workers \in [Hotkeys -> WorkerRow] /\ workers[h] \in WorkerRow
      /\ workers[h].gpus \subseteq Gpus
      /\ workers[h].retired => workers[h].gpus = {}
      /\ UNCHANGED <<claims, generation, recovered, running>> /\ calls' = Moved(h)
    BY DEF ClaimsInv, VerdictsOK, WorkerRow, Retire, Reenroll, Lapse, registryVars
<1>2. CASE Retire(h)
  <2>1. Retired \in WorkerRow /\ Retired.gpus = {}
      BY DEF Retired, WorkerRow
  <2> QED BY <1>1, <1>2, <2>1, MovedInv DEF Retire
<1>3. CASE Reenroll(h)
  <2> DEFINE row == [workers[h] EXCEPT !.retired = FALSE]
  <2>1. row \in WorkerRow /\ row.gpus = workers[h].gpus /\ ~row.retired
      BY <1>1 DEF WorkerRow
  <2>2. workers' = [workers EXCEPT ![h] = row]
      BY <1>1, <1>3 DEF Reenroll
  <2> HIDE DEF row
  <2> QED BY <1>1, <2>1, <2>2, MovedInv
<1>4. CASE Lapse(h)
  <2>1. PICK gpus \in {{}, workers[h].gpus} :
            workers' = [workers EXCEPT ![h].gpus = gpus]
      BY <1>4 DEF Lapse
  <2> DEFINE row == [workers[h] EXCEPT !.gpus = gpus]
  <2>2. gpus \subseteq Gpus /\ gpus \subseteq workers[h].gpus
      BY <1>1, <2>1
  <2>3. row \in WorkerRow /\ row.gpus = gpus /\ row.retired = workers[h].retired
      BY <1>1, <2>2 DEF WorkerRow
  <2>4. workers' = [workers EXCEPT ![h] = row]
      BY <1>1, <2>1
  <2> HIDE DEF row
  <2>5. ~row.retired
      BY <1>4, <2>3 DEF Lapse
  <2> QED BY <1>1, <2>2, <2>3, <2>4, <2>5, MovedInv
<1> QED BY <1>2, <1>3, <1>4

LEMMA ProbeInv ==
    ASSUME ClaimsInv, NEW p \in Processes, NEW h \in Hotkeys,
           NEW gpus \in GpuSets, Probe(p, h, gpus)
    PROVE  ClaimsInv'
<1> DEFINE row == [phase |-> "probing", hotkey |-> h, gpus |-> gpus,
                   token |-> None, current |-> TRUE]
<1>1. /\ row \in CallRow /\ row.phase = "probing" /\ row.hotkey = h
    BY DEF CallRow, Phases, GpuSets
<1>2. /\ calls' = [calls EXCEPT ![p] = row] /\ p \in running /\ ~workers[h].retired
      /\ UNCHANGED <<claims, generation, recovered, running, workers>>
    BY DEF Probe, registryVars
<1> HIDE DEF row
<1>3. /\ calls' \in [Processes -> CallRow] /\ calls'[p] = row
      /\ \A q \in Processes : q # p => calls'[q] = calls[q]
    BY <1>1, <1>2 DEF ClaimsInv, CallsOK
<1>4. /\ workers' \in [Hotkeys -> WorkerRow] /\ running' \subseteq Processes
      /\ \A k \in Hotkeys : workers[k].retired => workers[k].gpus = {}
    BY <1>2 DEF ClaimsInv, VerdictsOK
<1> QED BY <1>1, <1>2, <1>3, <1>4, ClaimsKept

LEMMA RaisesInv ==
    ASSUME ClaimsInv, NEW p \in Processes, RecordRaises(p)
    PROVE  ClaimsInv'
<1> DEFINE row == [calls[p] EXCEPT !.phase = "rejected"]
<1>1. /\ row \in CallRow /\ row.phase = "rejected" /\ calls[p].phase = "claimed"
      /\ row.hotkey = calls[p].hotkey /\ row.gpus = calls[p].gpus
      /\ row.token = calls[p].token /\ row.current = calls[p].current
    BY DEF ClaimsInv, CallsOK, CallRow, Phases, RecordRaises
<1>2. /\ calls' = [calls EXCEPT ![p] = row]
      /\ UNCHANGED <<claims, generation, recovered, running, workers>>
    BY DEF RecordRaises, registryVars
<1> HIDE DEF row
<1>3. /\ calls' \in [Processes -> CallRow] /\ calls'[p] = row
      /\ \A q \in Processes : q # p => calls'[q] = calls[q]
    BY <1>1, <1>2 DEF ClaimsInv, CallsOK
<1>4. /\ workers' \in [Hotkeys -> WorkerRow] /\ running' \subseteq Processes
      /\ \A k \in Hotkeys : workers[k].retired => workers[k].gpus = {}
    BY <1>2 DEF ClaimsInv, VerdictsOK
<1> QED BY <1>1, <1>2, <1>3, <1>4, ClaimsKept

LEMMA ConflictInv ==
    ASSUME ClaimsInv, NEW p \in Processes, ClaimConflict(p)
    PROVE  ClaimsInv'
<1>1. /\ calls[p].hotkey \in Hotkeys
      /\ UNCHANGED <<claims, generation, recovered, running>>
    BY DEF ClaimsInv, CallsOK, CallOK, ClaimConflict, Reconcile
<1>2. CASE calls[p].current
  <2>1. Retired \in WorkerRow /\ Retired.gpus = {}
      BY DEF Retired, WorkerRow
  <2>2. /\ workers' = [workers EXCEPT ![calls[p].hotkey] = Retired]
        /\ calls' = [Moved(calls[p].hotkey) EXCEPT ![p] = Idle]
      BY <1>2 DEF ClaimConflict
  <2> QED BY <1>1, <2>1, <2>2, MovedInv
<1>3. CASE ~calls[p].current
    BY <1>1, <1>3, EndedInv DEF ClaimConflict
<1> QED BY <1>2, <1>3

(* A verdict is given only for GPUs that are backed: no other call holds   *)
(* their rows, and the one that gave it no longer takes them back.         *)
LEMMA VerdictInv ==
    ASSUME ClaimsInv, NEW p \in Processes, NEW gpus \in {calls[p].gpus, {}},
           RecordVerdict(p, gpus)
    PROVE  ClaimsInv'
<1> USE GpuAssumption DEF GpuAssumption, Generations
<1> DEFINE h == calls[p].hotkey
           row == [workers[h] EXCEPT !.gpus = gpus]
           call == [Moved(h)[p] EXCEPT !.phase = "recorded"]
<1>1. /\ calls[p].phase = "claimed" /\ calls[p].current
      /\ UNCHANGED <<claims, generation, recovered, running>>
      /\ CallOK(p) /\ calls[p] \in CallRow
    BY DEF RecordVerdict, registryVars, ClaimsInv, CallsOK
<1>2. /\ h \in Hotkeys /\ ~workers[h].retired
      /\ \A g \in calls[p].gpus : Backs(g, calls[p])
    BY <1>1 DEF CallOK
<1>3. /\ row \in WorkerRow /\ row.gpus = gpus /\ ~row.retired
    BY <1>1, <1>2, SMTT(40) DEF ClaimsInv, WorkerRow, CallRow
<1>4. /\ call \in CallRow /\ call.phase = "recorded" /\ call.hotkey = h
      /\ call.token = calls[p].token /\ ~call.current
  <2>1. /\ Moved(h)[p] \in CallRow /\ Moved(h)[p].hotkey = h
        /\ Moved(h)[p].token = calls[p].token /\ ~Moved(h)[p].current
      BY <1>2, MovedCalls
  <2> QED BY <2>1 DEF CallRow, Phases
<1>5. workers' = [workers EXCEPT ![h] = row] /\ calls' = [Moved(h) EXCEPT ![p] = call]
    BY <1>2, MovedCalls DEF RecordVerdict, ClaimsInv
<1> HIDE DEF row, call
<1>6. /\ workers' \in [Hotkeys -> WorkerRow] /\ workers'[h] = row
      /\ \A k \in Hotkeys : k # h => workers'[k] = workers[k]
    BY <1>2, <1>3, <1>5 DEF ClaimsInv
<1>7. /\ calls' \in [Processes -> CallRow] /\ calls'[p] = call
      /\ \A q \in Processes : q # p => calls'[q] = Moved(h)[q]
    BY <1>2, <1>4, <1>5, MovedCalls
<1>8. \A q \in Processes : q # p =>
          /\ calls'[q].phase = calls[q].phase /\ calls'[q].hotkey = calls[q].hotkey
          /\ calls'[q].gpus = calls[q].gpus /\ calls'[q].token = calls[q].token
          /\ calls'[q].current => calls[q].current /\ calls[q].hotkey # h
    BY <1>2, <1>7, MovedCalls, SMTT(40)
<1> HIDE DEF h
<1>9. ASSUME NEW q \in Processes
      PROVE  CallOK(q)'
  <2>1. CASE q = p
      BY <1>1, <1>2, <1>4, <1>7, <2>1 DEF CallOK, Holding, h
  <2>2. CASE q # p
    <3>1. CallOK(q)
        BY DEF ClaimsInv, CallsOK
    <3>2. calls'[q].current =>
              calls'[q].hotkey \in Hotkeys /\ ~workers'[calls'[q].hotkey].retired
        BY <1>6, <1>8, <2>2, <3>1, ZenonT(60) DEF CallOK
    <3>3. calls'[q].phase = "claimed" /\ calls'[q].current =>
              \A g \in calls'[q].gpus : Backs(g, calls[q])'
        BY <1>1, <1>8, <2>2, <3>1, ZenonT(60) DEF CallOK, Backs
    <3>4. /\ calls'[q].phase = "reserved" /\ calls'[q].token \notin recovered' =>
                 \A g \in calls'[q].gpus :
                     claims'[g] = [hotkey |-> Canary, token |-> calls'[q].token,
                                   kind |-> "canary"]
          /\ calls'[q].phase \in Holding =>
                 calls'[q].token \in Generations /\ calls'[q].token <= generation'
          /\ calls'[q].phase \in {"probing", "claimed", "recorded", "rejected"} =>
                 calls'[q].hotkey \in Hotkeys
          /\ calls'[q].phase = "reserved" => calls'[q].hotkey = Canary
          /\ q \notin running' => calls'[q].phase = "idle"
        BY <1>1, <1>8, <2>2, <3>1, ZenonT(60) DEF CallOK
    <3> QED BY <3>2, <3>3, <3>4 DEF CallOK
  <2> QED BY <2>1, <2>2
<1>10. CallsOK'
    BY <1>7, <1>9 DEF CallsOK
<1>11. TokensApart'
  <2>1. \A q \in Processes : /\ calls'[q].token = calls[q].token
                             /\ calls'[q].phase \in Holding => calls[q].phase \in Holding
      BY <1>1, <1>4, <1>7, <1>8 DEF Holding
  <2> QED BY <2>1 DEF ClaimsInv, TokensApart
<1>12. RowsOK'
    BY <1>1 DEF ClaimsInv, RowsOK
<1>13. VerdictsOK'
  <2>1. ASSUME NEW q \in Processes, calls'[q].phase \in {"claimed", "rejected"}
        PROVE  /\ calls[q].phase \in {"claimed", "rejected"} /\ q # p
               /\ calls'[q].token = calls[q].token
               /\ calls[q].token \in Generations /\ calls[q].token # calls[p].token
    <3>1. q # p
        BY <1>4, <1>7, <2>1
    <3>2. calls[q].phase \in {"claimed", "rejected"} /\ calls'[q].token = calls[q].token
        BY <1>8, <2>1, <3>1
    <3>3. calls[q].phase \in Holding /\ calls[p].phase \in Holding /\ CallOK(q)
        BY <1>1, <3>2 DEF Holding, ClaimsInv, CallsOK
    <3> QED BY <3>1, <3>2, <3>3 DEF CallOK, ClaimsInv, TokensApart
  <2>2. ASSUME NEW k \in Hotkeys, k # h
        PROVE  /\ workers'[k].retired => workers'[k].gpus = {}
               /\ \A g \in workers'[k].gpus :
                      /\ claims[g] # None /\ claims[g].hotkey = k
                      /\ \A q \in Processes :
                             calls'[q].phase \in {"claimed", "rejected"} =>
                                 claims[g].token # calls'[q].token
      BY <1>6, <2>1, <2>2, SMTT(40) DEF ClaimsInv, VerdictsOK
  <2>3. ASSUME NEW g \in workers'[h].gpus
        PROVE  /\ claims[g] # None /\ claims[g].hotkey = h
               /\ \A q \in Processes :
                      calls'[q].phase \in {"claimed", "rejected"} =>
                          claims[g].token # calls'[q].token
    <3>1. g \in calls[p].gpus
        BY <1>3, <1>6, <2>3
    <3>2. Backs(g, calls[p])
        BY <1>2, <3>1
    <3>3. claims[g] # None /\ claims[g].hotkey = h /\ claims[g].token \in {None, calls[p].token}
        BY <3>2 DEF Backs, h
    <3> QED BY <2>1, <3>3, SMTT(40)
  <2>4. ~workers'[h].retired
      BY <1>3, <1>6
  <2> QED BY <1>1, <2>2, <2>3, <2>4, ZenonT(60) DEF VerdictsOK
<1> QED BY <1>1, <1>6, <1>10, <1>11, <1>12, <1>13 DEF ClaimsInv
-----------------------------------------------------------------------------
(* The writes.                                                             *)

LEMMA BeginClaimInv ==
    ASSUME ClaimsInv, NEW p \in Processes, BeginClaim(p)
    PROVE  ClaimsInv'
<1> USE GpuAssumption DEF GpuAssumption, Generations
<1> DEFINE new == [hotkey |-> calls[p].hotkey, token |-> generation + 1,
                   kind |-> "worker"]
           a == [calls[p] EXCEPT !.phase = "claimed"]
           row == [a EXCEPT !.token = generation + 1]
<1>1. /\ calls[p] \in CallRow /\ calls[p].phase = "probing"
      /\ calls[p].hotkey \in Hotkeys /\ CallOK(p)
      /\ generation \in Nat /\ generation + 1 \in Generations
      /\ generation' = generation + 1 /\ p \in running
      /\ UNCHANGED <<recovered, running, workers>>
  <2>1. /\ calls[p] \in CallRow /\ CallOK(p) /\ generation \in Nat
        /\ calls[p].phase = "probing"
      BY SMTT(40) DEF ClaimsInv, CallsOK, BeginClaim
  <2>2. calls[p].hotkey \in Hotkeys /\ p \in running
      BY <2>1 DEF CallOK
  <2>3. /\ generation + 1 \in Generations /\ generation' = generation + 1
        /\ UNCHANGED <<recovered, running, workers>>
      BY <2>1, SMTT(40) DEF BeginClaim, Commit, Write
  <2> QED BY <2>1, <2>2, <2>3
<1>2. new \in ClaimRow /\ new.token = generation + 1 /\ new.kind = "worker"
      /\ new.hotkey = calls[p].hotkey
    BY <1>1 DEF ClaimRow
<1>3. a \in CallRow /\ a.phase = "claimed" /\ a.hotkey = calls[p].hotkey
      /\ a.gpus = calls[p].gpus /\ a.current = calls[p].current
    BY <1>1 DEF CallRow, Phases
<1>4. row \in CallRow /\ row.phase = "claimed" /\ row.hotkey = calls[p].hotkey
      /\ row.gpus = calls[p].gpus /\ row.current = calls[p].current
      /\ row.token = generation + 1
  <2> HIDE DEF a
  <2> QED BY <1>1, <1>3 DEF CallRow
<1>5. /\ claims' = [g \in Gpus |-> IF g \in calls[p].gpus /\ Free(g)
                                   THEN new ELSE claims[g]]
      /\ calls' = [calls EXCEPT ![p] = row]
    BY <1>1 DEF BeginClaim, Commit, Write, ClaimsInv, CallsOK
<1> HIDE DEF new, row
<1>6. /\ claims' \in [Gpus -> ClaimRow \cup {None}]
      /\ \A g \in Gpus : IF claims[g] # None THEN claims'[g] = claims[g]
                         ELSE claims'[g] \in {None, new}
      /\ \A g \in calls[p].gpus : claims[g] = None => claims'[g] = new
    BY <1>1, <1>2, <1>5 DEF ClaimsInv, Free, CallRow
<1>7. calls'[p] = row
    BY <1>5 DEF ClaimsInv, CallsOK
<1>8. ASSUME NEW g \in calls[p].gpus
      PROVE  Backs(g, calls[p])'
  <2>1. g \in Gpus
      BY <1>1 DEF CallRow
  <2>2. CASE claims[g] = None
    <3>1. claims'[g] = new /\ new # None
        BY <1>2, <1>6, <2>2, NoClaimAssumption
    <3> QED BY <1>2, <1>4, <1>7, <3>1 DEF Backs
  <2>3. CASE claims[g] # None
    <3>1. claims'[g] = claims[g]
        BY <1>6, <2>1, <2>3
    <3>2. claims[g] = [hotkey |-> calls[p].hotkey, token |-> None, kind |-> "worker"]
        BY <2>3 DEF BeginClaim, Free, Settled
    <3> QED BY <1>4, <1>7, <2>3, <3>1, <3>2, SMTT(40) DEF Backs
  <2> QED BY <2>2, <2>3
<1>9. CallOK(p)'
  <2>1. calls[p].current => ~workers[calls[p].hotkey].retired
      BY <1>1 DEF CallOK
  <2> QED BY <1>1, <1>4, <1>7, <1>8, <2>1, SMTT(40) DEF CallOK
<1>10. \A g \in Gpus :
           IF claims[g] # None THEN claims'[g] = claims[g]
           ELSE \/ claims'[g] = None
                \/ /\ claims'[g].token = generation + 1
                   /\ claims'[g].kind = "canary" => claims'[g].hotkey = Canary
    BY <1>2, <1>6
<1>11. row.phase \in {"claimed", "reserved"} /\ row.token = generation + 1
    BY <1>4
<1> QED BY <1>1, <1>4, <1>5, <1>6, <1>9, <1>10, <1>11, RowsAdded

LEMMA ReserveInv ==
    ASSUME ClaimsInv, NEW p \in Processes, NEW gpus \in GpuSets, Reserve(p, gpus)
    PROVE  ClaimsInv'
<1> USE GpuAssumption DEF GpuAssumption, Generations
<1> DEFINE new == [hotkey |-> Canary, token |-> generation + 1, kind |-> "canary"]
           row == [phase |-> "reserved", hotkey |-> Canary, gpus |-> gpus,
                   token |-> generation + 1, current |-> FALSE]
<1>1. /\ generation \in Nat /\ generation + 1 \in Generations
      /\ generation' = generation + 1 /\ p \in running
      /\ UNCHANGED <<recovered, running, workers>> /\ gpus \subseteq Gpus
      /\ \A g \in gpus : claims[g] = None
    BY SMTT(40) DEF ClaimsInv, Reserve, Commit, Write, Free, GpuSets
<1>2. new \in ClaimRow /\ new.token = generation + 1 /\ new.hotkey = Canary
    BY <1>1 DEF ClaimRow
<1>3. row \in CallRow /\ row.phase = "reserved" /\ row.hotkey = Canary
      /\ row.gpus = gpus /\ row.current = FALSE /\ row.token = generation + 1
    BY <1>1 DEF CallRow, Phases
<1>4. /\ claims' = [g \in Gpus |-> IF g \in gpus THEN new ELSE claims[g]]
      /\ calls' = [calls EXCEPT ![p] = row]
    BY DEF Reserve, Commit, Write
<1>5. \A g \in gpus : claims'[g] = [hotkey |-> Canary, token |-> row.token,
                                    kind |-> "canary"]
    BY <1>1, <1>3, <1>4
<1> HIDE DEF new, row
<1>6. /\ claims' \in [Gpus -> ClaimRow \cup {None}]
      /\ \A g \in Gpus : IF claims[g] # None THEN claims'[g] = claims[g]
                         ELSE claims'[g] \in {None, new}
    BY <1>1, <1>2, <1>4 DEF ClaimsInv
<1>7. calls'[p] = row
    BY <1>4 DEF ClaimsInv, CallsOK
<1>8. CallOK(p)'
    BY <1>1, <1>3, <1>5, <1>7, SMTT(40) DEF CallOK
<1>9. \A g \in Gpus :
          IF claims[g] # None THEN claims'[g] = claims[g]
          ELSE \/ claims'[g] = None
               \/ /\ claims'[g].token = generation + 1
                  /\ claims'[g].kind = "canary" => claims'[g].hotkey = Canary
    BY <1>2, <1>6
<1>10. row.phase \in {"claimed", "reserved"} /\ row.token = generation + 1
    BY <1>3
<1> QED BY <1>1, <1>3, <1>4, <1>6, <1>8, <1>9, <1>10, RowsAdded

(* What every write does to the generation.                                *)
LEMMA Written ==
    ASSUME ClaimsInv, NEW p \in Processes, NEW rows, Write(p, rows)
    PROVE  /\ generation' = generation + 1 /\ generation + 1 \in Generations
           /\ claims' = rows
BY GpuAssumption, SMTT(40) DEF GpuAssumption, Generations, ClaimsInv, Write

(* The row a commit leaves.                                                *)
LEMMA SettledRow ==
    ASSUME NEW row \in ClaimRow
    PROVE  LET new == [row EXCEPT !.token = None]
           IN  /\ new \in ClaimRow /\ new # None /\ new.hotkey = row.hotkey
               /\ new.token = None /\ new.kind = row.kind
               /\ row.token = None => new = row
BY NoClaimAssumption DEF ClaimRow

(* A reservation's rows are the canary's, none of them settled.            *)
LEMMA ReservedRow ==
    ASSUME ClaimsInv, NEW q \in Processes, calls[q].phase = "reserved",
           calls[q].token \notin recovered, NEW g \in calls[q].gpus
    PROVE  /\ g \in Gpus /\ claims[g] # None
           /\ claims[g].hotkey = Canary /\ claims[g].kind = "canary"
           /\ claims[g].token = calls[q].token /\ claims[g].token # None
<1>1. calls[q] \in CallRow /\ CallOK(q)
    BY DEF ClaimsInv, CallsOK
<1>2. g \in Gpus
    BY <1>1 DEF CallRow
<1>3. /\ claims[g] = [hotkey |-> Canary, token |-> calls[q].token, kind |-> "canary"]
      /\ calls[q].token \in Generations
    BY <1>1 DEF CallOK, Holding
<1>4. calls[q].token # None
    BY <1>3, GpuAssumption, SMTT(40) DEF GpuAssumption, Generations
<1>5. claims[g] \in ClaimRow
    BY <1>3, SMTT(40) DEF ClaimRow
<1> QED BY <1>2, <1>3, <1>4, <1>5, NoClaimAssumption, SMTT(40)

LEMMA CommitInv ==
    ASSUME ClaimsInv, NEW p \in Processes, CommitClaim(p)
    PROVE  ClaimsInv'
<1> DEFINE rows == [g \in Gpus |-> IF g \in calls[p].gpus
                                   THEN [claims[g] EXCEPT !.token = None]
                                   ELSE claims[g]]
<1>1. /\ calls[p].phase = "recorded" /\ Committable(calls[p])
      /\ Write(p, rows) /\ UNCHANGED <<recovered, running, workers>>
      /\ calls' = [calls EXCEPT ![p] = Idle]
    BY DEF CommitClaim, Commit
<1> HIDE DEF rows
<1>2. generation' = generation + 1 /\ generation + 1 \in Generations /\ claims' = rows
    BY <1>1, Written
<1>3. ASSUME NEW g \in Gpus
      PROVE  /\ claims'[g] \in ClaimRow \cup {None}
             /\ \/ claims'[g] = claims[g]
                \/ /\ g \in calls[p].gpus
                   /\ claims[g] # None /\ claims'[g] # None
                   /\ claims'[g].hotkey = claims[g].hotkey
                   /\ claims'[g].token = None /\ claims'[g].kind = "worker"
  <2>1. CASE g \in calls[p].gpus
    <3>1. claims[g] # None /\ claims[g].kind = "worker"
        BY <1>1, <2>1 DEF Committable
    <3>2. claims[g] \in ClaimRow
        BY <3>1 DEF ClaimsInv
    <3>3. claims'[g] = [claims[g] EXCEPT !.token = None]
        BY <1>2, <2>1 DEF rows
    <3> QED BY <2>1, <3>1, <3>2, <3>3, SettledRow
  <2>2. CASE g \notin calls[p].gpus
      BY <1>2, <2>2 DEF rows, ClaimsInv
  <2> QED BY <2>1, <2>2
<1>4. claims' \in [Gpus -> ClaimRow \cup {None}]
    BY <1>2, <1>3 DEF rows
<1>5. /\ calls' \in [Processes -> CallRow]
      /\ \A q \in Processes : calls'[q] = Idle \/ calls'[q] = calls[q]
    BY <1>1, IdleCall DEF ClaimsInv, CallsOK
<1>6. \A g \in Gpus : claims[g] # None => claims'[g] # None
    BY <1>3
<1>7. ASSUME NEW q \in Processes, calls'[q].phase = "claimed", calls'[q].current,
             NEW g \in calls'[q].gpus
      PROVE  claims'[g] # None
  <2>1. calls'[q] = calls[q] /\ calls[q] \in CallRow /\ CallOK(q)
      BY <1>5, <1>7, IdleCall DEF ClaimsInv, CallsOK
  <2>2. g \in Gpus /\ Backs(g, calls[q])
      BY <1>7, <2>1 DEF CallRow, CallOK
  <2> QED BY <1>6, <2>2 DEF Backs
<1>8. ASSUME NEW q \in Processes, calls'[q].phase = "reserved",
             calls'[q].token \notin recovered', NEW g \in calls'[q].gpus
      PROVE  claims'[g] = claims[g]
  <2>1. /\ calls'[q] = calls[q] /\ calls[q].phase = "reserved"
        /\ calls[q].token \notin recovered /\ g \in calls[q].gpus
      BY <1>1, <1>5, <1>8, IdleCall
  <2>2. g \in Gpus /\ claims[g].kind = "canary"
      BY <2>1, ReservedRow
  <2>3. g \notin calls[p].gpus
      BY <1>1, <2>2 DEF Committable
  <2> QED BY <1>3, <2>2, <2>3
<1>9. \A h \in Hotkeys : \A g \in workers[h].gpus : claims'[g] # None
    BY <1>6 DEF ClaimsInv, VerdictsOK, WorkerRow
<1>10. \A g \in Gpus :
           \/ claims'[g] \in {claims[g], None}
           \/ /\ claims[g] # None /\ claims'[g] # None
              /\ claims'[g].hotkey = claims[g].hotkey
              /\ claims'[g].token = None /\ claims'[g].kind = "worker"
    BY <1>3
<1>11. recovered \subseteq recovered' /\ recovered' \subseteq Generations
    BY <1>1 DEF ClaimsInv
<1> QED BY <1>1, <1>2, <1>4, <1>5, <1>7, <1>8, <1>9, <1>10, <1>11, RowsChanged

(* Only the rows of this call's token go, and no claimed call, verdict or  *)
(* reservation of another rests on one.                                    *)
LEMMA RollbackInv ==
    ASSUME ClaimsInv, NEW p \in Processes, RollbackClaim(p)
    PROVE  ClaimsInv'
<1> DEFINE rows == [g \in Gpus |-> IF g \in OwnRows(calls[p]) THEN None ELSE claims[g]]
<1>1. /\ calls[p].phase \in {"rejected", "reserved"}
      /\ Write(p, rows) /\ UNCHANGED <<recovered, running, workers>>
      /\ calls' = [calls EXCEPT ![p] = Idle]
    BY DEF RollbackClaim, Commit
<1> HIDE DEF rows
<1>2. generation' = generation + 1 /\ generation + 1 \in Generations /\ claims' = rows
    BY <1>1, Written
<1>3. /\ claims' \in [Gpus -> ClaimRow \cup {None}]
      /\ \A g \in Gpus :
             /\ claims'[g] \in {claims[g], None}
             /\ g \notin OwnRows(calls[p]) => claims'[g] = claims[g]
    BY <1>2 DEF rows, ClaimsInv
<1>4. /\ calls' \in [Processes -> CallRow] /\ calls'[p] = Idle
      /\ \A q \in Processes : q # p => calls'[q] = calls[q]
    BY <1>1, IdleCall DEF ClaimsInv, CallsOK
<1>5. /\ calls[p].phase \in Holding /\ calls[p].token # None
      /\ calls[p].phase = "reserved" => calls[p].hotkey = Canary
  <2>1. calls[p].phase \in Holding /\ CallOK(p)
      BY <1>1 DEF Holding, ClaimsInv, CallsOK
  <2>2. calls[p].token \in Generations
      BY <2>1 DEF CallOK
  <2>3. calls[p].token # None
      BY <2>2, GpuAssumption, SMTT(40) DEF GpuAssumption, Generations
  <2> QED BY <2>1, <2>3 DEF CallOK
<1>6. ASSUME NEW q \in Processes, calls'[q].phase \in Holding
      PROVE  q # p /\ calls'[q] = calls[q] /\ calls[q].token # calls[p].token
  <2>1. q # p /\ calls'[q] = calls[q]
      BY <1>4, <1>6, IdleCall DEF Holding
  <2> QED BY <1>5, <1>6, <2>1 DEF ClaimsInv, TokensApart
<1>7. ASSUME NEW q \in Processes, calls'[q].phase = "claimed", calls'[q].current,
             NEW g \in calls'[q].gpus
      PROVE  claims'[g] # None
  <2>1. calls'[q] = calls[q] /\ calls[q].token # calls[p].token
      BY <1>6, <1>7 DEF Holding
  <2>2. calls[q] \in CallRow /\ CallOK(q)
      BY DEF ClaimsInv, CallsOK
  <2>3. g \in Gpus /\ Backs(g, calls[q])
      BY <1>7, <2>1, <2>2 DEF CallRow, CallOK
  <2>4. g \notin OwnRows(calls[p])
      BY <1>5, <2>1, <2>3 DEF OwnRows, Backs
  <2> QED BY <1>3, <2>3, <2>4 DEF Backs
<1>8. ASSUME NEW q \in Processes, calls'[q].phase = "reserved",
             calls'[q].token \notin recovered', NEW g \in calls'[q].gpus
      PROVE  claims'[g] = claims[g]
  <2>1. calls'[q] = calls[q] /\ calls[q].token # calls[p].token
      BY <1>6, <1>8 DEF Holding
  <2>2. /\ calls[q].phase = "reserved" /\ calls[q].token \notin recovered
        /\ g \in calls[q].gpus
      BY <1>1, <1>8, <2>1, SMTT(40)
  <2>3. g \in Gpus /\ claims[g].token = calls[q].token
      BY <2>2, ReservedRow
  <2>4. g \notin OwnRows(calls[p])
      BY <2>1, <2>3 DEF OwnRows
  <2> QED BY <1>3, <2>3, <2>4
<1>9. ASSUME NEW h \in Hotkeys, NEW g \in workers[h].gpus
      PROVE  claims'[g] # None
  <2>1. /\ g \in Gpus /\ claims[g] # None /\ claims[g].hotkey = h
        /\ calls[p].phase = "rejected" => claims[g].token # calls[p].token
      BY <1>9, SMTT(40) DEF ClaimsInv, VerdictsOK, WorkerRow
  <2>2. g \notin OwnRows(calls[p])
      BY <1>1, <1>5, <2>1, GpuAssumption DEF OwnRows, GpuAssumption
  <2> QED BY <1>3, <2>1, <2>2
<1>10. \A q \in Processes : calls'[q] = Idle \/ calls'[q] = calls[q]
    BY <1>4
<1>11. recovered \subseteq recovered' /\ recovered' \subseteq Generations
    BY <1>1 DEF ClaimsInv
<1> QED BY <1>1, <1>2, <1>3, <1>4, <1>7, <1>8, <1>9, <1>10, <1>11, RowsChanged

(* What a verdict or a claimed call rests on is a worker's row, which the  *)
(* recovery keeps; the reservations it releases are in its event.          *)
LEMMA RecoverInv ==
    ASSUME ClaimsInv, NEW p \in Processes, Recover(p)
    PROVE  ClaimsInv'
<1>1. /\ Write(p, Recovered) /\ UNCHANGED <<running, calls, workers>>
      /\ recovered' = recovered \cup {claims[g].token : g \in {g \in Gpus : Pending(g)}}
    BY DEF Recover
<1>2. generation' = generation + 1 /\ generation + 1 \in Generations
      /\ claims' = Recovered
    BY <1>1, Written
<1>3. ASSUME NEW g \in Gpus
      PROVE  /\ claims'[g] \in ClaimRow \cup {None}
             /\ \/ claims'[g] = claims[g]
                \/ claims'[g] = None /\ claims[g].kind # "worker" /\ claims[g] # None
                \/ /\ claims[g] # None /\ claims'[g] # None
                   /\ claims'[g].hotkey = claims[g].hotkey
                   /\ claims'[g].token = None /\ claims'[g].kind = "worker"
  <2>1. CASE ~Pending(g)
      BY <1>2, <2>1 DEF Recovered, ClaimsInv
  <2>2. CASE Pending(g) /\ claims[g].kind = "worker"
    <3>1. claims[g] # None /\ claims[g] \in ClaimRow
        BY <2>2 DEF Pending, ClaimsInv
    <3>2. claims'[g] = [claims[g] EXCEPT !.token = None]
        BY <1>2, <2>2 DEF Recovered
    <3> QED BY <2>2, <3>1, <3>2, SettledRow
  <2>3. CASE Pending(g) /\ claims[g].kind # "worker"
    <3>1. claims'[g] = None /\ claims[g] # None
        BY <1>2, <2>3 DEF Recovered, Pending
    <3> QED BY <2>3, <3>1
  <2> QED BY <2>1, <2>2, <2>3
<1>4. claims' \in [Gpus -> ClaimRow \cup {None}]
    BY <1>2, <1>3 DEF Recovered
<1>5. /\ calls' \in [Processes -> CallRow]
      /\ \A q \in Processes : calls'[q] = calls[q] /\ calls[q] \in CallRow /\ CallOK(q)
    BY <1>1 DEF ClaimsInv, CallsOK
<1>6. ASSUME NEW g \in Gpus, claims[g] # None, claims[g].hotkey \in Hotkeys
      PROVE  claims'[g] # None
  <2>1. claims[g] \in ClaimRow /\ (claims[g].kind = "canary" => claims[g].hotkey = Canary)
      BY <1>6 DEF ClaimsInv, RowsOK
  <2>2. claims[g].kind = "worker"
      BY <1>6, <2>1, GpuAssumption DEF ClaimRow, GpuAssumption
  <2> QED BY <1>3, <1>6, <2>2
<1>7. ASSUME NEW h \in Hotkeys, NEW g \in workers[h].gpus
      PROVE  claims'[g] # None
    BY <1>6, <1>7 DEF ClaimsInv, VerdictsOK, WorkerRow
<1>8. ASSUME NEW q \in Processes, calls'[q].phase = "claimed", calls'[q].current,
             NEW g \in calls'[q].gpus
      PROVE  claims'[g] # None
  <2>1. g \in Gpus /\ Backs(g, calls[q]) /\ calls[q].hotkey \in Hotkeys
      BY <1>5, <1>8 DEF CallRow, CallOK
  <2> QED BY <1>6, <2>1 DEF Backs
<1>9. ASSUME NEW q \in Processes, calls'[q].phase = "reserved",
             calls'[q].token \notin recovered', NEW g \in calls'[q].gpus
      PROVE  claims'[g] = claims[g]
  <2>1. calls[q].phase = "reserved" /\ calls[q].token \notin recovered /\ g \in calls[q].gpus
      BY <1>1, <1>5, <1>9
  <2>2. g \in Gpus /\ Pending(g) /\ claims[g].token = calls[q].token
      BY <2>1, ReservedRow DEF Pending
  <2>3. calls[q].token \in recovered'
      BY <1>1, <2>2
  <2> QED BY <1>5, <1>9, <2>3
<1>10. \A g \in Gpus :
           \/ claims'[g] \in {claims[g], None}
           \/ /\ claims[g] # None /\ claims'[g] # None
              /\ claims'[g].hotkey = claims[g].hotkey
              /\ claims'[g].token = None /\ claims'[g].kind = "worker"
    BY <1>3
<1>11. recovered \subseteq recovered' /\ recovered' \subseteq Generations
  <2>1. \A g \in Gpus : Pending(g) => claims[g].token \in Generations
      BY DEF ClaimsInv, ClaimRow, Pending
  <2> QED BY <1>1, <2>1 DEF ClaimsInv
<1>12. \A q \in Processes : calls'[q] = Idle \/ calls'[q] = calls[q]
    BY <1>5
<1> QED BY <1>1, <1>2, <1>4, <1>5, <1>7, <1>8, <1>9, <1>10, <1>11, <1>12, RowsChanged

(* A retired worker has no verdict and no call whose token holds.          *)
LEMMA ReleaseInv ==
    ASSUME ClaimsInv, NEW p \in Processes, NEW h \in Hotkeys, ReleaseWorker(p, h)
    PROVE  ClaimsInv'
<1> DEFINE rows == [g \in Gpus |-> IF Settled(g, h) THEN None ELSE claims[g]]
<1>1. /\ workers[h].retired /\ Write(p, rows)
      /\ UNCHANGED <<recovered, running, calls, workers>>
    BY DEF ReleaseWorker, Commit
<1> HIDE DEF rows
<1>2. generation' = generation + 1 /\ generation + 1 \in Generations /\ claims' = rows
    BY <1>1, Written
<1>3. /\ claims' \in [Gpus -> ClaimRow \cup {None}]
      /\ \A g \in Gpus :
             /\ claims'[g] \in {claims[g], None}
             /\ ~Settled(g, h) => claims'[g] = claims[g]
    BY <1>2 DEF rows, ClaimsInv
<1>4. \A g \in Gpus : Settled(g, h) => claims[g].hotkey = h /\ claims[g].kind = "worker"
    BY SMTT(40) DEF Settled
<1>5. ASSUME NEW q \in Processes, calls'[q].phase = "claimed", calls'[q].current,
             NEW g \in calls'[q].gpus
      PROVE  claims'[g] # None
  <2>1. calls[q] \in CallRow /\ CallOK(q) /\ calls'[q] = calls[q]
      BY <1>1 DEF ClaimsInv, CallsOK
  <2>2. g \in Gpus /\ Backs(g, calls[q]) /\ ~workers[calls[q].hotkey].retired
      BY <1>5, <2>1 DEF CallRow, CallOK
  <2>3. calls[q].hotkey # h /\ claims[g].hotkey = calls[q].hotkey /\ claims[g] # None
      BY <1>1, <2>2 DEF Backs
  <2> QED BY <1>3, <1>4, <2>2, <2>3
<1>6. ASSUME NEW q \in Processes, calls'[q].phase = "reserved",
             calls'[q].token \notin recovered', NEW g \in calls'[q].gpus
      PROVE  claims'[g] = claims[g]
  <2>1. g \in Gpus /\ claims[g].kind = "canary"
      BY <1>1, <1>6, ReservedRow
  <2> QED BY <1>3, <1>4, <2>1
<1>7. ASSUME NEW k \in Hotkeys, NEW g \in workers[k].gpus
      PROVE  claims'[g] # None
  <2>1. /\ g \in Gpus /\ claims[g] # None /\ claims[g].hotkey = k
        /\ workers[k].retired => workers[k].gpus = {}
      BY <1>7 DEF ClaimsInv, VerdictsOK, WorkerRow
  <2>2. k # h
      BY <1>1, <1>7, <2>1
  <2> QED BY <1>3, <1>4, <2>1, <2>2
<1>8. /\ calls' \in [Processes -> CallRow]
      /\ \A q \in Processes : calls'[q] = Idle \/ calls'[q] = calls[q]
    BY <1>1 DEF ClaimsInv, CallsOK
<1>9. recovered \subseteq recovered' /\ recovered' \subseteq Generations
    BY <1>1 DEF ClaimsInv
<1> QED BY <1>1, <1>2, <1>3, <1>5, <1>6, <1>7, <1>8, <1>9, RowsChanged
-----------------------------------------------------------------------------
LEMMA ClaimsInit == Init => ClaimsInv
<1> SUFFICES ASSUME Init PROVE ClaimsInv
    OBVIOUS
<1> USE GpuAssumption DEF GpuAssumption, Generations, Init
<1>1. CallsOK
  <2>1. \A p \in Processes : calls[p] = Idle /\ p \in running
      OBVIOUS
  <2> QED BY <2>1, IdleCall DEF CallsOK, CallOK, Holding
<1>2. TokensApart
    BY IdleCall DEF TokensApart, Holding
<1>3. RowsOK /\ VerdictsOK
    BY DEF RowsOK, VerdictsOK
<1>4. workers \in [Hotkeys -> WorkerRow] /\ claims \in [Gpus -> ClaimRow \cup {None}]
    BY DEF WorkerRow
<1> QED BY <1>1, <1>2, <1>3, <1>4, SMTT(40) DEF ClaimsInv

LEMMA ClaimsNext == ClaimsInv /\ [Next]_vars => ClaimsInv'
<1> SUFFICES ASSUME ClaimsInv, [Next]_vars PROVE ClaimsInv'
    OBVIOUS
<1>1. ASSUME NEW p \in Processes, Refuse(p)
      PROVE  ClaimsInv'
    BY <1>1, EndedInv DEF Refuse, Reconcile
<1>2. ASSUME NEW p \in Processes, Admission(p)
      PROVE  ClaimsInv'
  <2>1. CASE \E h \in Hotkeys, gpus \in GpuSets : Probe(p, h, gpus)
      BY <2>1, ProbeInv
  <2>2. CASE BeginClaim(p) \/ CommitClaim(p) \/ RollbackClaim(p)
      BY <2>2, BeginClaimInv, CommitInv, RollbackInv
  <2>3. CASE ClaimConflict(p) \/ RecordRaises(p)
      BY <2>3, ConflictInv, RaisesInv
  <2>4. CASE ClaimRefused(p) \/ CommitRefused(p) \/ RollbackRefused(p)
      BY <2>4, <1>1 DEF ClaimRefused, CommitRefused, RollbackRefused
  <2>5. CASE \E gpus \in {calls[p].gpus, {}} : RecordVerdict(p, gpus)
      BY <2>5, VerdictInv
  <2> QED BY <1>2, <2>1, <2>2, <2>3, <2>4, <2>5 DEF Admission
<1>3. ASSUME NEW p \in Processes, AppendAnchor(p)
      PROVE  ClaimsInv'
  <2>1. running' \subseteq Processes
      BY <1>3 DEF AppendAnchor, ClaimsInv
  <2> QED BY <1>3, <2>1, QuietInv DEF AppendAnchor
<1>4. ASSUME NEW p \in Processes, NEW gpus \in GpuSets, Reserve(p, gpus)
      PROVE  ClaimsInv'
    BY <1>4, ReserveInv
<1>5. ASSUME NEW p \in Processes, NEW outcome \in {"unwritten", "torn"},
             AppendFails(p, outcome)
      PROVE  ClaimsInv'
    BY <1>5, EndedInv DEF AppendFails
<1>6. ASSUME NEW p \in Processes, NEW outcome \in {"unwritten", "torn", "written"},
             Crash(p, outcome)
      PROVE  ClaimsInv'
    BY <1>6, EndedInv DEF Crash
<1>7. ASSUME NEW p \in Processes, Start(p)
      PROVE  ClaimsInv'
  <2>1. running \subseteq running' /\ running' \subseteq Processes
      BY <1>7 DEF Start, ClaimsInv
  <2> QED BY <1>7, <2>1, QuietInv DEF Start
<1>8. ASSUME NEW p \in Processes, Recover(p)
      PROVE  ClaimsInv'
    BY <1>8, RecoverInv
<1>9. ASSUME NEW p \in Processes, NEW h \in Hotkeys, ReleaseWorker(p, h)
      PROVE  ClaimsInv'
    BY <1>9, ReleaseInv
<1>10. ASSUME NEW h \in Hotkeys, Retire(h) \/ Reenroll(h) \/ Lapse(h)
       PROVE  ClaimsInv'
    BY <1>10, LifecycleInv
<1>11. CASE UNCHANGED vars
  <2>1. running' \subseteq Processes
      BY <1>11 DEF vars, ClaimsInv
  <2> QED BY <1>11, <2>1, QuietInv DEF vars, registryVars
<1> QED BY <1>2, <1>3, <1>4, <1>5, <1>6, <1>7, <1>8, <1>9, <1>10, <1>11 DEF Next

LEMMA ClaimsHolds == Spec => []ClaimsInv
BY ClaimsInit, ClaimsNext, PTL DEF Spec

(* Every row of the claims, the anchor and the calls is well formed, and a *)
(* canary's row is always pending.                                         *)
THEOREM WellFormed == Spec => []TypeOK
<1>1. ASSUME AnchorInv, ClaimsInv PROVE TypeOK
  <2>1. \A p \in Processes : calls[p].phase \in Phases
      BY <1>1 DEF ClaimsInv, CallsOK, CallRow
  <2>2. \A g \in Gpus : ~Free(g) /\ claims[g].kind = "canary" =>
            claims[g].hotkey = Canary /\ Pending(g)
      BY <1>1 DEF ClaimsInv, RowsOK, Free, Pending
  <2> QED BY <1>1, <2>1, <2>2 DEF TypeOK, AnchorInv, ClaimsInv
<1> QED BY <1>1, AnchorHolds, ClaimsHolds, PTL

(* A GPU has one holder: the GPUs of every verdict in force are claimed by *)
(* its worker, and those an epoch reserved are the canary's and in no      *)
(* verdict unless a recovery event lists the reservation (begin_claim,     *)
(* record_verdict, commit_claim, rollback_claim and recover_interrupted in *)
(* any order, by any number of processes that may stop).                   *)
THEOREM HolderIsUnique == Spec => []OneGpuOneHolder
<1>1. ASSUME ClaimsInv PROVE OneGpuOneHolder
  <2>1. ASSUME NEW h \in Hotkeys, NEW g \in workers[h].gpus
        PROVE  claims[g] # None /\ claims[g].hotkey = h
      BY <1>1 DEF ClaimsInv, VerdictsOK
  <2>2. ASSUME NEW p \in running, calls[p].phase = "reserved",
               calls[p].token \notin recovered, NEW g \in calls[p].gpus
        PROVE  /\ claims[g] = [hotkey |-> Canary, token |-> calls[p].token,
                               kind |-> "canary"]
               /\ \A h \in Hotkeys : g \notin workers[h].gpus
    <3>1. p \in Processes /\ CallOK(p)
        BY <1>1 DEF ClaimsInv, CallsOK
    <3>2. claims[g] = [hotkey |-> Canary, token |-> calls[p].token, kind |-> "canary"]
        BY <2>2, <3>1 DEF CallOK
    <3>3. claims[g].hotkey \notin Hotkeys
        BY <3>2, GpuAssumption, SMTT(40) DEF GpuAssumption
    <3> QED BY <2>1, <3>2, <3>3
  <2> QED BY <2>1, <2>2 DEF OneGpuOneHolder
<1> QED BY <1>1, ClaimsHolds, PTL

(* Nothing but the operator's release of a retired worker removes or       *)
(* changes a committed claim: not a recovery, nor a rollback, nor another  *)
(* worker's claim.                                                         *)
THEOREM CommitsLast == Spec => CommittedForever
<1>1. ASSUME ClaimsInv, [Next]_vars, NEW g \in Gpus, NEW h \in Hotkeys,
             Settled(g, h)
      PROVE  claims'[g] = claims[g] \/ workers[h].retired
  <2>1. /\ claims[g] # None /\ claims[g].token = None /\ claims[g].hotkey = h
        /\ claims[g] \in ClaimRow
      BY <1>1, SMTT(40) DEF Settled, Free, ClaimsInv
  <2>2. CASE UNCHANGED claims
      BY <2>2
  <2>3. ASSUME NEW p \in Processes, BeginClaim(p)
        PROVE  claims'[g] = claims[g]
      BY <2>1, <2>3 DEF BeginClaim, Commit, Write, Free
  <2>4. ASSUME NEW p \in Processes, NEW gpus \in GpuSets, Reserve(p, gpus)
        PROVE  claims'[g] = claims[g]
      BY <2>1, <2>4 DEF Reserve, Commit, Write, Free
  <2>5. ASSUME NEW p \in Processes, CommitClaim(p)
        PROVE  claims'[g] = claims[g]
    <3>1. [claims[g] EXCEPT !.token = None] = claims[g]
        BY <2>1, SettledRow
    <3> QED BY <2>5, <3>1 DEF CommitClaim, Commit, Write
  <2>6. ASSUME NEW p \in Processes, RollbackClaim(p)
        PROVE  claims'[g] = claims[g]
    <3>1. calls[p].phase \in Holding /\ CallOK(p)
        BY <1>1, <2>6 DEF RollbackClaim, Holding, ClaimsInv, CallsOK
    <3>2. calls[p].token \in Generations
        BY <3>1 DEF CallOK
    <3>3. calls[p].token # None
        BY <3>2, GpuAssumption, SMTT(40) DEF GpuAssumption, Generations
    <3>4. g \notin OwnRows(calls[p])
        BY <2>1, <3>3 DEF OwnRows
    <3> QED BY <2>6, <3>4 DEF RollbackClaim, Commit, Write
  <2>7. ASSUME NEW p \in Processes, Recover(p)
        PROVE  claims'[g] = claims[g]
      BY <2>1, <2>7 DEF Recover, Write, Recovered, Pending
  <2>8. ASSUME NEW p \in Processes, NEW k \in Hotkeys, ReleaseWorker(p, k)
        PROVE  claims'[g] = claims[g] \/ workers[h].retired
    <3>1. CASE k = h
        BY <2>8, <3>1 DEF ReleaseWorker
    <3>2. CASE k # h
      <4>1. ~Settled(g, k)
          BY <2>1, <3>2, SMTT(40) DEF Settled
      <4> QED BY <2>8, <4>1 DEF ReleaseWorker, Commit, Write
    <3> QED BY <3>1, <3>2
  <2>9. ASSUME NEW p \in Processes, Admission(p)
        PROVE  claims'[g] = claims[g]
    <3>1. CASE BeginClaim(p) \/ CommitClaim(p) \/ RollbackClaim(p)
        BY <3>1, <2>3, <2>5, <2>6
    <3>2. CASE ClaimConflict(p) \/ ClaimRefused(p) \/ CommitRefused(p) \/ RollbackRefused(p)
        BY <3>2, <2>2
           DEF ClaimConflict, ClaimRefused, CommitRefused, RollbackRefused,
               Refuse, Reconcile
    <3>3. CASE \/ \E k \in Hotkeys, gpus \in GpuSets : Probe(p, k, gpus)
               \/ RecordRaises(p) \/ \E gpus \in {calls[p].gpus, {}} : RecordVerdict(p, gpus)
        BY <3>3, <2>2 DEF Probe, RecordRaises, RecordVerdict, registryVars
    <3> QED BY <2>9, <3>1, <3>2, <3>3 DEF Admission
  <2>10. ASSUME NEW p \in Processes,
                \/ AppendAnchor(p) \/ Start(p)
                \/ \E outcome \in {"unwritten", "torn"} : AppendFails(p, outcome)
                \/ \E outcome \in {"unwritten", "torn", "written"} : Crash(p, outcome)
         PROVE  claims'[g] = claims[g]
      BY <2>10 DEF AppendAnchor, Start, AppendFails, Crash
  <2>11. ASSUME NEW k \in Hotkeys, Retire(k) \/ Reenroll(k) \/ Lapse(k)
         PROVE  claims'[g] = claims[g]
      BY <2>11 DEF Retire, Reenroll, Lapse, registryVars
  <2>12. CASE UNCHANGED vars
      BY <2>12 DEF vars, registryVars
  <2> QED BY <1>1, <2>4, <2>7, <2>8, <2>9, <2>10, <2>11, <2>12 DEF Next
<1>2. ClaimsInv /\ [Next]_vars =>
          [\A g \in Gpus, h \in Hotkeys :
              Settled(g, h) => claims'[g] = claims[g] \/ workers[h].retired]_vars
    BY <1>1
<1> QED BY <1>2, ClaimsHolds, PTL DEF Spec, CommittedForever
=============================================================================
