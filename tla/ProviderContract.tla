--------------------------- MODULE ProviderContract ---------------------------
(***************************************************************************)
(* One customer Worker under the provider contract                         *)
(* (cathedral/provider_contract.py, provider_transcript.py): a cap         *)
(* reservation, provider attempts with their permits, state events,        *)
(* results and cleanup, and the settlement.                                *)
(*                                                                         *)
(* The code validates records, each on its own and all of them together    *)
(* in WorkerExecutionTranscript.validate.  A transcript is valid only if   *)
(* every prefix of it in time order passes the checks that concern it, so  *)
(* the model adds one record at a time, stamped with the time of the       *)
(* clock, under the checks that concern that record.  Its behaviours are   *)
(* the prefixes of valid transcripts.  Records are added by a dispatcher   *)
(* and by providers that are not part of the repository.                   *)
(***************************************************************************)
EXTENDS Integers, Sequences, FiniteSets

CONSTANTS
    Requests,       \* request digests
    Nonces,         \* provider nonces
    Cap,            \* reserved micros
    MaxAttempts,    \* MAX_WORKER_ATTEMPTS
    MaxPermits,     \* bound on the permits of an attempt
    MaxTime,        \* bound on the clock
    None

(* ProviderAbsenceStatus.                                                  *)
AbsenceStatus == {"PROVEN_ABSENT", "PRESENT", "NOT_PROVEN"}

ASSUME ProviderAssumption ==
    /\ Cap \in Nat \ {0}
    /\ MaxAttempts \in Nat \ {0} /\ MaxPermits \in Nat \ {0}
    /\ MaxTime \in Nat
    /\ None \notin Requests \cup Nonces \cup AbsenceStatus

VARIABLES
    now,            \* the clock
    submission,     \* SubmissionIdempotencyBinding: the request of the key
    reservation,    \* CustomerCapReservation
    attempts,       \* assignment, permits, events, result and cleanup of each
    present,        \* attempts whose guest is still at the provider
    unassigned,     \* UnassignedDispatchOutcome recorded
    settlements     \* WorkerSettlementDecision of sequence 1 and 2

vars == <<now, submission, reservation, attempts, present, unassigned,
          settlements>>
-----------------------------------------------------------------------------
Times == 0 .. MaxTime
Deadlines == 1 .. MaxTime + 1
AttemptIds == 1 .. MaxAttempts

(* AttemptState.                                                           *)
CleanupPending == {"SUCCESS_CLEANUP_PENDING", "FAILURE_CLEANUP_PENDING",
                   "CANCEL_CLEANUP_PENDING", "INTERRUPT_CLEANUP_PENDING"}
Terminal == {"SUCCEEDED", "FAILED", "CANCELLED", "INTERRUPTED"}
Active == {"DISPATCH_PENDING", "SLOT_CLAIMED", "ASSIGNMENT_SENT",
           "ACKNOWLEDGED", "ATTESTING", "RUNNING", "RESULT_RECEIVED",
           "EVIDENCE_VERIFIED", "EVIDENCE_REJECTED"}

(* ALLOWED_ATTEMPT_TRANSITIONS.                                            *)
Abortable == Active \cup {"SUCCESS_CLEANUP_PENDING"}

Onward ==
    {<<"DISPATCH_PENDING", "SLOT_CLAIMED">>,
     <<"SLOT_CLAIMED", "ASSIGNMENT_SENT">>,
     <<"ASSIGNMENT_SENT", "ACKNOWLEDGED">>,
     <<"ACKNOWLEDGED", "ATTESTING">>,
     <<"ATTESTING", "RUNNING">>,
     <<"RUNNING", "RESULT_RECEIVED">>,
     <<"RESULT_RECEIVED", "EVIDENCE_VERIFIED">>,
     <<"RESULT_RECEIVED", "EVIDENCE_REJECTED">>,
     <<"EVIDENCE_VERIFIED", "SUCCESS_CLEANUP_PENDING">>,
     <<"EVIDENCE_REJECTED", "FAILURE_CLEANUP_PENDING">>,
     <<"SUCCESS_CLEANUP_PENDING", "SUCCEEDED">>,
     <<"FAILURE_CLEANUP_PENDING", "FAILED">>,
     <<"CANCEL_CLEANUP_PENDING", "CANCELLED">>,
     <<"INTERRUPT_CLEANUP_PENDING", "INTERRUPTED">>}

Allowed ==
    Onward \cup (Abortable \X (CleanupPending \ {"SUCCESS_CLEANUP_PENDING"}))

(* An attempt.  Of its permits: how many, when the last was issued, and    *)
(* when the last of them to expire expires.  quoted: its guest has run,    *)
(* and made a quote.  result: the attempt whose quote the result carries.  *)
Unused == [state |-> "UNUSED", nonce |-> None, permits |-> 0, issued |-> 0,
           until |-> 0, quoted |-> FALSE, result |-> None, cleanup |-> None,
           overdue |-> FALSE]

Assigned == {a \in AttemptIds : attempts[a].state # "UNUSED"}
Ended == {a \in Assigned : attempts[a].state \in Terminal}
Winners == {a \in Assigned : attempts[a].state = "SUCCEEDED"}

Init ==
    /\ now = 0
    /\ submission = None
    /\ reservation = None
    /\ attempts = [a \in AttemptIds |-> Unused]
    /\ present = {}
    /\ unassigned = FALSE
    /\ settlements = <<>>

Tick ==
    /\ now < MaxTime
    /\ now' = now + 1
    /\ UNCHANGED <<submission, reservation, attempts, present, unassigned,
                   settlements>>
-----------------------------------------------------------------------------
(* The customer's side: submission and cap.                                *)

(* resolve_submission_idempotency: the first request of the key counts;    *)
(* the same again is a replay, another one a conflict.                     *)
Submit(r) ==
    /\ submission' = IF submission = None THEN r ELSE submission
    /\ UNCHANGED <<now, reservation, attempts, present, unassigned,
                   settlements>>

(* CustomerCapReservation, under resolve_reservation_duplicate: the        *)
(* reservation id names one reservation forever.                           *)
Reserve(expires) ==
    /\ submission # None /\ expires > now
    /\ reservation' =
        IF reservation = None
        THEN [request |-> submission, at |-> now, expires |-> expires]
        ELSE reservation
    /\ UNCHANGED <<now, submission, attempts, present, unassigned,
                   settlements>>
-----------------------------------------------------------------------------
(* Attempts.                                                               *)

Put(a, record) == attempts' = [attempts EXCEPT ![a] = record]

(* No final decision binds the attempts so far.                            *)
Unsettled == settlements = <<>>

(* Faulty variant: the finalizer does not compare provider nonces.         *)
AssignAnyNonce(a, nonce, expires) ==
    /\ reservation # None /\ Unsettled /\ ~unassigned
    /\ attempts[a].state = "UNUSED"
    /\ \A b \in AttemptIds : b < a => b \in Ended
    /\ Winners = {}
    /\ now < expires /\ expires <= reservation.expires
    /\ Put(a, [Unused EXCEPT !.state = "DISPATCH_PENDING", !.nonce = nonce,
                             !.permits = 1, !.issued = now,
                             !.until = expires])
    /\ UNCHANGED <<now, submission, reservation, present, unassigned,
                   settlements>>

(* AttemptAssignment, its ledger binding and its first permit              *)
(* (validate_assignment_reservation): the next attempt number, the attempt *)
(* before it ended and did not succeed, a nonce not used before, a permit  *)
(* inside the reservation.                                                 *)
Assign(a, nonce, expires) ==
    /\ reservation # None /\ Unsettled /\ ~unassigned
    /\ attempts[a].state = "UNUSED"
    /\ \A b \in AttemptIds : b < a => b \in Ended
    /\ Winners = {}
    /\ \A b \in Assigned : attempts[b].nonce # nonce
    /\ now < expires /\ expires <= reservation.expires
    /\ Put(a, [Unused EXCEPT !.state = "DISPATCH_PENDING", !.nonce = nonce,
                             !.permits = 1, !.issued = now,
                             !.until = expires])
    /\ UNCHANGED <<now, submission, reservation, present, unassigned,
                   settlements>>

(* validate_permit_renewal, before cleanup begins.                         *)
Renew(a, expires) ==
    /\ attempts[a].state \in Active
    /\ attempts[a].permits < MaxPermits
    /\ attempts[a].issued < now
    /\ now < expires /\ expires <= reservation.expires
    /\ Put(a, [attempts[a] EXCEPT !.permits = @ + 1, !.issued = now,
                   !.until = IF expires > @ THEN expires ELSE @])
    /\ UNCHANGED <<now, submission, reservation, present, unassigned,
                   settlements>>

(* Some permit covers the time of a dispatch event.                        *)
Permitted(a) == now < attempts[a].until

(* A state event without a record of its own.  The guest is at the         *)
(* provider from the claim of the slot on.                                 *)
Advance(a, target) ==
    /\ <<attempts[a].state, target>> \in Allowed
    /\ target \notin CleanupPending \cup Terminal \cup {"RESULT_RECEIVED"}
    /\ target \in {"ASSIGNMENT_SENT", "ACKNOWLEDGED"} => Permitted(a)
    /\ Put(a, [attempts[a] EXCEPT
                   !.state = target, !.quoted = @ \/ target = "RUNNING"])
    /\ present' = IF target = "SLOT_CLAIMED" THEN present \cup {a} ELSE present
    /\ UNCHANGED <<now, submission, reservation, unassigned, settlements>>

(* AttemptResult under validate_result_assignment: the quote comes from    *)
(* attempt b, which ran, and attests b's nonce.                            *)
ReceiveResult(a, b) ==
    /\ <<attempts[a].state, "RESULT_RECEIVED">> \in Allowed
    /\ attempts[b].quoted
    /\ attempts[b].nonce = attempts[a].nonce
    /\ Put(a, [attempts[a] EXCEPT !.state = "RESULT_RECEIVED", !.result = b])
    /\ UNCHANGED <<now, submission, reservation, present, unassigned,
                   settlements>>

(* Cleanup begins, with an InterruptionOutcome on the interrupt path: no   *)
(* permit was renewed at this time, and the cleanup record is still to     *)
(* come.  Nothing asks for a permit from here on.                          *)
EnterCleanup(a, target) ==
    /\ <<attempts[a].state, target>> \in Allowed
    /\ target \in CleanupPending
    /\ attempts[a].permits > 1 => attempts[a].issued < now
    /\ Put(a, [attempts[a] EXCEPT !.state = target, !.cleanup = None,
                   !.overdue = FALSE, !.permits = 0, !.issued = 0, !.until = 0])
    /\ UNCHANGED <<now, submission, reservation, present, unassigned,
                   settlements>>

(* The provider removes the guest of attempt a.                            *)
Teardown(a) ==
    /\ a \in present
    /\ present' = present \ {a}
    /\ UNCHANGED <<now, submission, reservation, attempts, unassigned,
                   settlements>>

(* Faulty variant: the observation may be of another attempt's guest.      *)
ObserveAnyCleanup(a, b, status, overdue) ==
    /\ attempts[a].state \in CleanupPending
    /\ status = "PROVEN_ABSENT" => b \notin present
    /\ status = "PRESENT" => b \in present
    /\ Put(a, [attempts[a] EXCEPT !.cleanup = status, !.overdue = overdue])
    /\ UNCHANGED <<now, submission, reservation, present, unassigned,
                   settlements>>

(* CleanupOutcome under validate_cleanup_assignment: an observation of the *)
(* guest of attempt b, past the customer's deadline or not.  Observations  *)
(* are taken to be true; the contract cannot check them.                   *)
ObserveCleanup(a, b, status, overdue) ==
    /\ attempts[a].state \in CleanupPending
    /\ b = a
    /\ status = "PROVEN_ABSENT" => b \notin present
    /\ status = "PRESENT" => b \in present
    /\ Put(a, [attempts[a] EXCEPT !.cleanup = status, !.overdue = overdue])
    /\ UNCHANGED <<now, submission, reservation, present, unassigned,
                   settlements>>

(* The terminal event under validate_terminal_transition: by provider      *)
(* absence, or at the cleanup deadline, which never makes a success.       *)
Finish(a, target) ==
    /\ <<attempts[a].state, target>> \in Allowed
    /\ target \in Terminal
    /\ \/ attempts[a].cleanup = "PROVEN_ABSENT"
       \/ /\ attempts[a].cleanup \in {"PRESENT", "NOT_PROVEN"}
          /\ attempts[a].overdue /\ target # "SUCCEEDED"
    /\ Put(a, [attempts[a] EXCEPT !.state = target])
    /\ UNCHANGED <<now, submission, reservation, present, unassigned,
                   settlements>>

(* UnassignedDispatchOutcome: no attempt was or will be assigned.          *)
GiveUp ==
    /\ reservation # None /\ Assigned = {} /\ ~unassigned
    /\ unassigned' = TRUE
    /\ UNCHANGED <<now, submission, reservation, attempts, present,
                   settlements>>
-----------------------------------------------------------------------------
(* Settlement.                                                             *)

(* What the decision binds: the unassigned outcome, or the last attempt,   *)
(* all of them ended.                                                      *)
Outcome ==
    /\ reservation # None
    /\ Assigned = Ended /\ (unassigned <=> Assigned = {})

Expired == now >= reservation.expires

Decide(action, amount, winner) ==
    /\ settlements' = Append(settlements, [action |-> action, amount |-> amount,
                                          winner |-> winner, at |-> now])
    /\ UNCHANGED <<now, submission, reservation, attempts, present, unassigned>>

(* validate_settlement, and the finalizer's rules: a charge is the first   *)
(* decision, within the cap and before the reservation expires, for the    *)
(* last attempt, which succeeded.                                          *)
Charge(winner, amount) ==
    /\ Outcome /\ settlements = <<>> /\ ~Expired
    /\ Winners = {winner} /\ \A a \in Assigned : a <= winner
    /\ attempts[winner].cleanup = "PROVEN_ABSENT"
    /\ Decide("charged", amount, winner)

(* Faulty variant: the cap of a Worker that succeeded may be held.         *)
HoldSuccess ==
    /\ Outcome /\ settlements = <<>> /\ ~Expired
    /\ ~unassigned
    /\ Decide("held_pending_cleanup", 0, None)

(* A Worker that succeeded settles against its winner: its cap is neither  *)
(* held nor released.  One without attempts is never held.                 *)
Hold ==
    /\ Outcome /\ settlements = <<>> /\ ~Expired
    /\ ~unassigned /\ Winners = {}
    /\ Decide("held_pending_cleanup", 0, None)

Release ==
    /\ Outcome /\ settlements = <<>> /\ Winners = {}
    /\ Decide("released", 0, None)

(* validate_settlement_supersession: the one resolution of a held          *)
(* decision, later than it.                                                *)
Resolve ==
    /\ Len(settlements) = 1
    /\ settlements[1].action = "held_pending_cleanup"
    /\ settlements[1].at < now
    /\ Decide("released", 0, None)

(* A decision delivered again, unchanged or not                            *)
(* (resolve_settlement_duplicate, resolve_held_settlement): a replay or a  *)
(* conflict, and nothing is added.                                         *)
Redeliver ==
    /\ settlements # <<>>
    /\ UNCHANGED vars
-----------------------------------------------------------------------------
Next ==
    \/ Tick
    \/ \E r \in Requests : Submit(r)
    \/ \E t \in Deadlines : Reserve(t)
    \/ \E a \in AttemptIds :
        \/ \E n \in Nonces, t \in Deadlines : Assign(a, n, t)
        \/ \E t \in Deadlines : Renew(a, t)
        \/ \E s \in Active : Advance(a, s)
        \/ \E b \in AttemptIds : ReceiveResult(a, b)
        \/ \E s \in CleanupPending : EnterCleanup(a, s)
        \/ Teardown(a)
        \/ \E b \in AttemptIds, s \in AbsenceStatus, o \in BOOLEAN :
               ObserveCleanup(a, b, s, o)
        \/ \E s \in Terminal : Finish(a, s)
    \/ GiveUp
    \/ \E w \in AttemptIds, m \in 1 .. Cap : Charge(w, m)
    \/ Hold \/ Release \/ Resolve \/ Redeliver

Spec == Init /\ [][Next]_vars
-----------------------------------------------------------------------------
(* The bill that the transcript stands for.                                *)
Charged == {i \in DOMAIN settlements : settlements[i].action = "charged"}

Funds ==
    IF reservation = None THEN "none"
    ELSE IF settlements = <<>> THEN "reserved"
    ELSE CASE settlements[Len(settlements)].action = "charged" -> "charged"
           [] settlements[Len(settlements)].action = "released" -> "released"
           [] OTHER -> "held"

Amount == IF settlements = <<>> THEN 0 ELSE settlements[1].amount

Bill == INSTANCE CustomerBill WITH
            funds <- Funds, charged <- Amount, delivered <- Winners # {}

(* The records of a Worker implement the customer's bill: one reservation, *)
(* then one charge within the cap for a Worker that delivered, or one      *)
(* release; a cap is held only for a Worker that has not delivered and     *)
(* never will, and then only released (WorkerExecutionTranscript.validate).*)
BillKept == Bill!Spec

(* Every variable has its type, and a Worker has at most two decisions     *)
(* (resolve_held_settlement).                                              *)
Attempt ==
    [state : {"UNUSED"} \cup Active \cup CleanupPending \cup Terminal,
     nonce : Nonces \cup {None}, permits : 0 .. MaxPermits, issued : Times,
     until : Times \cup Deadlines, quoted : BOOLEAN,
     result : AttemptIds \cup {None}, cleanup : AbsenceStatus \cup {None},
     overdue : BOOLEAN]

Decision ==
    [action : {"charged", "released", "held_pending_cleanup"},
     amount : 0 .. Cap, winner : AttemptIds \cup {None}, at : Times]

TypeOK ==
    /\ now \in Times
    /\ submission \in Requests \cup {None}
    /\ reservation \in {None} \cup
           [request : Requests, at : Times, expires : Deadlines]
    /\ attempts \in [AttemptIds -> Attempt]
    /\ present \subseteq AttemptIds
    /\ unassigned \in BOOLEAN
    /\ settlements \in Seq(Decision) /\ Len(settlements) <= 2

(* A charge rests on the last attempt alone: the only one that succeeded,  *)
(* on a result whose quote its own guest made, with that guest gone, for   *)
(* the request the customer's key named first (validate_result_assignment, *)
(* validate_terminal_transition, the winner rules of the finalizer).       *)
ChargeBacked ==
    \A i \in Charged :
        LET w == settlements[i].winner
        IN  /\ Len(settlements) = 1
            /\ Winners = {w} /\ \A a \in Assigned : a <= w
            /\ attempts[w].result = w
            /\ w \notin present
            /\ settlements[i].at < reservation.expires
            /\ reservation.request = submission

(* A guest that is still at a provider belongs to the attempt under way,   *)
(* or to one that the customer's cleanup deadline ended, which did not     *)
(* succeed (validate_cleanup_assignment, validate_terminal_transition).    *)
GuestsAccounted ==
    \A a \in present :
        a \in Ended => /\ attempts[a].cleanup # "PROVEN_ABSENT"
                       /\ attempts[a].overdue
                       /\ attempts[a].state # "SUCCEEDED"
=============================================================================
