---------------------------- MODULE ProviderProofs ----------------------------
(***************************************************************************)
(* Proofs about ProviderContract for every number of attempts, permits and *)
(* points in time: a charge is backed by the attempt that won, and the     *)
(* records of a Worker implement CustomerBill.                             *)
(***************************************************************************)
EXTENDS ProviderContract, TLAPS

(* A step that names no prover goes to Zenon.                              *)
USE ZenonT(30)

(* An attempt is assigned only after every earlier one ended without       *)
(* success.                                                                *)
Ordered ==
    \A a, b \in AttemptIds :
        a < b /\ attempts[b].state # "UNUSED"
            => attempts[a].state \in Terminal \ {"SUCCEEDED"}

(* The nonces of the attempts differ, and a quote is of an attempt that    *)
(* was assigned; so a result carries its own attempt's quote.              *)
OwnQuotes ==
    /\ \A a, b \in AttemptIds :
        a # b /\ attempts[a].state # "UNUSED" /\ attempts[b].state # "UNUSED"
            => attempts[a].nonce # attempts[b].nonce
    /\ \A a \in AttemptIds :
        /\ attempts[a].quoted => attempts[a].state # "UNUSED"
        /\ attempts[a].state \in {"RESULT_RECEIVED", "EVIDENCE_VERIFIED",
                                  "SUCCESS_CLEANUP_PENDING", "SUCCEEDED"}
            => attempts[a].result = a

(* An attempt proven absent has no guest, and gets none: only an attempt   *)
(* without a cleanup record claims a slot.                                 *)
Absent ==
    \A a \in AttemptIds :
        /\ attempts[a].state \in Active \cup {"UNUSED"} => attempts[a].cleanup = None
        /\ attempts[a].state = "SUCCEEDED" => attempts[a].cleanup = "PROVEN_ABSENT"
        /\ attempts[a].cleanup = "PROVEN_ABSENT" => a \notin present
        /\ attempts[a].state = "UNUSED" => a \notin present

(* A reservation is for the request named first, and comes before every    *)
(* attempt and every decision.                                             *)
Reserved ==
    IF reservation = None
    THEN settlements = <<>> /\ \A a \in AttemptIds : attempts[a].state = "UNUSED"
    ELSE submission # None /\ reservation.request = submission

(* A decision comes after every attempt ended; a charge is the only one,   *)
(* and names an attempt that succeeded; otherwise none succeeded.          *)
Decided ==
    settlements # <<>> =>
        /\ \A a \in AttemptIds : attempts[a].state \in Terminal \cup {"UNUSED"}
        /\ settlements[1].action = "charged" =>
            /\ Len(settlements) = 1
            /\ settlements[1].winner \in AttemptIds
            /\ attempts[settlements[1].winner].state = "SUCCEEDED"
            /\ settlements[1].at < reservation.expires
        /\ settlements[1].action # "charged" =>
            /\ \A a \in AttemptIds : attempts[a].state # "SUCCEEDED"
            /\ settlements[1].amount = 0
        /\ Len(settlements) = 2 =>
            /\ settlements[1].action = "held_pending_cleanup"
            /\ settlements[2].action = "released"

IInv == TypeOK /\ Ordered /\ OwnQuotes /\ Absent /\ Reserved /\ Decided
-----------------------------------------------------------------------------
(* Replacing one attempt's record, of the right type, keeps TypeOK.        *)
LEMMA PutTyped ==
    ASSUME NEW a \in AttemptIds, NEW rec \in Attempt,
           attempts \in [AttemptIds -> Attempt], Put(a, rec)
    PROVE  /\ attempts' \in [AttemptIds -> Attempt]
           /\ attempts'[a] = rec
           /\ \A b \in AttemptIds \ {a} : attempts'[b] = attempts[b]
BY DEF Put

(* The initial state satisfies the invariant.                              *)
LEMMA InitInv == Init => IInv
<1> SUFFICES ASSUME Init PROVE IInv
    OBVIOUS
<1> USE ProviderAssumption DEF ProviderAssumption, Init
<1>1. Unused \in Attempt
    BY SMTT(40) DEF Unused, Attempt, Times, Deadlines, AttemptIds
<1>2. \A a \in AttemptIds : attempts[a] = Unused
    OBVIOUS
<1>3. TypeOK
    <2>1. attempts \in [AttemptIds -> Attempt]
        BY <1>1
    <2>2. settlements \in Seq(Decision) /\ Len(settlements) <= 2
        BY SMTT(40)
    <2>3. now \in Times
        BY SMTT(40) DEF Times
    <2> QED
        BY <2>1, <2>2, <2>3 DEF TypeOK
<1>4. Ordered /\ OwnQuotes /\ Absent
    BY <1>2 DEF Ordered, OwnQuotes, Absent, Unused
<1>5. Reserved /\ Decided
    BY <1>2 DEF Reserved, Decided, Unused
<1> QED
    BY <1>3, <1>4, <1>5 DEF IInv

(* A new record of the attempt under way, with its nonce, disturbs neither *)
(* the order of the attempts nor the reservation; and while an attempt is  *)
(* under way there is no decision.                                         *)
LEMMA LiveStep ==
    ASSUME IInv, NEW a \in AttemptIds, NEW rec \in Attempt, Put(a, rec),
           attempts[a].state \notin Terminal \cup {"UNUSED"},
           rec.state # "UNUSED", rec.nonce = attempts[a].nonce,
           UNCHANGED <<submission, reservation, settlements>>
    PROVE  /\ settlements = <<>> /\ reservation # None
           /\ \A b \in AttemptIds \ {a} : attempts[b].state # "SUCCEEDED"
           /\ Ordered' /\ Reserved' /\ Decided'
           /\ \A b, c \in AttemptIds :
                b # c /\ attempts'[b].state # "UNUSED"
                      /\ attempts'[c].state # "UNUSED"
                => attempts'[b].nonce # attempts'[c].nonce
<1>1. /\ attempts'[a] = rec
      /\ \A b \in AttemptIds \ {a} : attempts'[b] = attempts[b]
    BY PutTyped DEF IInv, TypeOK
<1>2. settlements = <<>>
    BY DEF IInv, Decided
<1>3. reservation # None
    BY DEF IInv, Reserved
<1>4. \A b \in AttemptIds : a < b => attempts[b].state = "UNUSED"
    BY DEF IInv, Ordered
<1>5. \A b \in AttemptIds \ {a} : attempts[b].state # "SUCCEEDED"
    BY <1>4, SMTT(40) DEF IInv, Ordered, AttemptIds
<1>6. Ordered'
    BY <1>1, <1>4 DEF IInv, Ordered, AttemptIds
<1>7. Reserved'
    BY <1>3 DEF IInv, Reserved
<1>8. Decided'
    BY <1>2 DEF Decided
<1>9. \A b, c \in AttemptIds :
        b # c /\ attempts'[b].state # "UNUSED" /\ attempts'[c].state # "UNUSED"
        => attempts'[b].nonce # attempts'[c].nonce
    BY <1>1, SMTT(40) DEF IInv, OwnQuotes
<1> QED
    BY <1>2, <1>3, <1>5, <1>6, <1>7, <1>8, <1>9

(* A decision added when every attempt has ended keeps the invariant.      *)
LEMMA DecideStep ==
    ASSUME IInv, NEW d \in Decision, settlements' = Append(settlements, d),
           Len(settlements) < 2, reservation # None,
           UNCHANGED <<now, submission, reservation, attempts, present,
                       unassigned>>,
           Decided'
    PROVE  IInv'
<1>1. TypeOK'
    <2>1. settlements' \in Seq(Decision) /\ Len(settlements') <= 2
        BY SMTT(40) DEF IInv, TypeOK
    <2> QED
        BY <2>1 DEF IInv, TypeOK
<1>2. Ordered' /\ OwnQuotes' /\ Absent'
    BY DEF IInv, Ordered, OwnQuotes, Absent
<1>3. Reserved'
    BY DEF IInv, Reserved
<1> QED
    BY <1>1, <1>2, <1>3 DEF IInv

(* Renewing a permit keeps the invariant.                                  *)
LEMMA RenewInv ==
    ASSUME IInv, NEW a \in AttemptIds, NEW t \in Deadlines, Renew(a, t)
    PROVE  IInv'
<1> DEFINE rec == [attempts[a] EXCEPT !.permits = @ + 1, !.issued = now,
                   !.until = IF t > @ THEN t ELSE @]
<1>1. attempts[a] \in Attempt
    BY DEF IInv, TypeOK
<1>2. /\ Put(a, rec)
      /\ UNCHANGED <<submission, reservation, settlements>>
    BY DEF Renew
<1>3. rec \in Attempt
    <2>1. attempts[a].permits + 1 \in 0 .. MaxPermits
        BY <1>1, ProviderAssumption, SMTT(40)
           DEF Renew, Attempt, ProviderAssumption
    <2>2. now \in Times /\ (IF t > attempts[a].until THEN t ELSE attempts[a].until)
                            \in Times \cup Deadlines
        BY <1>1 DEF IInv, TypeOK, Attempt
    <2> DEFINE old == attempts[a]
               n == attempts[a].permits + 1
               u == IF t > attempts[a].until THEN t ELSE attempts[a].until
    <2>3. old \in Attempt /\ n \in 0 .. MaxPermits /\ u \in Times \cup Deadlines
        BY <1>1, <2>1, <2>2
    <2> DEFINE x == [old EXCEPT !.permits = n]
               y == [x EXCEPT !.issued = now]
               z == [y EXCEPT !.until = u]
    <2>4. rec = z
        BY <1>1 DEF Attempt
    <2> HIDE DEF old, n, u, rec
    <2>5. x \in Attempt
        BY <2>3 DEF Attempt
    <2> HIDE DEF x
    <2>6. y \in Attempt
        BY <2>2, <2>5 DEF Attempt
    <2> HIDE DEF y
    <2>7. z \in Attempt
        BY <2>3, <2>6, SMTT(40) DEF Attempt
    <2> QED
        BY <2>4, <2>7
<1>4. /\ rec.state = attempts[a].state /\ rec.nonce = attempts[a].nonce
      /\ rec.quoted = attempts[a].quoted /\ rec.result = attempts[a].result
      /\ rec.cleanup = attempts[a].cleanup
    BY <1>1 DEF Attempt
<1> HIDE DEF rec
<1>5. attempts[a].state \in Active
    BY <1>1 DEF Renew
<1>6. /\ attempts' \in [AttemptIds -> Attempt] /\ attempts'[a] = rec
      /\ \A b \in AttemptIds \ {a} : attempts'[b] = attempts[b]
    BY <1>2, <1>3, PutTyped DEF IInv, TypeOK
<1>7. TypeOK'
    BY <1>6 DEF IInv, TypeOK, Renew
<1>8. /\ attempts[a].state \notin Terminal \cup {"UNUSED"}
      /\ rec.state # "UNUSED"
    BY <1>4, <1>5 DEF Active, Terminal, CleanupPending
<1>9. /\ Ordered' /\ Reserved' /\ Decided'
      /\ \A b, c \in AttemptIds :
            b # c /\ attempts'[b].state # "UNUSED"
                  /\ attempts'[c].state # "UNUSED"
            => attempts'[b].nonce # attempts'[c].nonce
    BY <1>2, <1>3, <1>4, <1>8, LiveStep
<1>10. OwnQuotes'
    BY <1>4, <1>5, <1>6, <1>8, <1>9, SMTT(40) DEF IInv, OwnQuotes, Active
<1>11. Absent'
    BY <1>4, <1>5, <1>6, SMTT(40)
       DEF IInv, Absent, Renew, Active, CleanupPending, Terminal
<1> QED
    BY <1>7, <1>9, <1>10, <1>11 DEF IInv

(* An event without a record keeps the invariant: a slot is claimed only   *)
(* by an attempt without a cleanup record.                                 *)
LEMMA AdvanceInv ==
    ASSUME IInv, NEW a \in AttemptIds, NEW s \in Active, Advance(a, s)
    PROVE  IInv'
<1> DEFINE rec == [attempts[a] EXCEPT
                   !.state = s, !.quoted = @ \/ s = "RUNNING"]
<1>1. attempts[a] \in Attempt
    BY DEF IInv, TypeOK
<1>2. /\ Put(a, rec)
      /\ UNCHANGED <<submission, reservation, settlements>>
    BY DEF Advance
<1>3. rec \in Attempt
    BY <1>1, ZenonT(60) DEF Attempt
<1>4. /\ rec.state = s
      /\ rec.nonce = attempts[a].nonce
      /\ rec.result = attempts[a].result /\ rec.cleanup = attempts[a].cleanup
    BY <1>1 DEF Attempt
<1> HIDE DEF rec
<1>5. /\ attempts[a].state \in Active
      /\ s \in {"EVIDENCE_VERIFIED", "SUCCESS_CLEANUP_PENDING", "SUCCEEDED"}
            => attempts[a].state = "RESULT_RECEIVED"
      /\ s # "RESULT_RECEIVED"
    BY <1>1 DEF Advance, Allowed, Onward, Abortable, Active,
        CleanupPending, Terminal
<1>6. /\ attempts' \in [AttemptIds -> Attempt] /\ attempts'[a] = rec
      /\ \A b \in AttemptIds \ {a} : attempts'[b] = attempts[b]
    BY <1>2, <1>3, PutTyped DEF IInv, TypeOK
<1>7. TypeOK'
    BY <1>6 DEF IInv, TypeOK, Advance
<1>8. /\ attempts[a].state \notin Terminal \cup {"UNUSED"}
      /\ rec.state # "UNUSED"
    BY <1>4, <1>5 DEF Active, Terminal, CleanupPending
<1>9. /\ Ordered' /\ Reserved' /\ Decided'
      /\ \A b, c \in AttemptIds :
            b # c /\ attempts'[b].state # "UNUSED"
                  /\ attempts'[c].state # "UNUSED"
            => attempts'[b].nonce # attempts'[c].nonce
    BY <1>2, <1>3, <1>4, <1>8, LiveStep
<1>10. OwnQuotes'
    BY <1>4, <1>5, <1>6, <1>8, <1>9, SMTT(40) DEF IInv, OwnQuotes, Active
<1>11. Absent'
    <2>1. rec.cleanup # "PROVEN_ABSENT" /\ attempts[a].cleanup = None
        BY <1>4, <1>5, ProviderAssumption DEF IInv, Absent, ProviderAssumption,
            AbsenceStatus
    <2>2. present' \subseteq present \cup {a}
        BY DEF Advance
    <2> QED
        BY <1>4, <1>5, <1>6, <2>1, <2>2, SMTT(40)
           DEF IInv, Absent, Advance, Active, CleanupPending, Terminal
<1> QED
    BY <1>7, <1>9, <1>10, <1>11 DEF IInv

(* A result keeps the invariant: its quote attests the nonce of its        *)
(* attempt, which no other attempt has.                                    *)
LEMMA ReceiveResultInv ==
    ASSUME IInv, NEW a \in AttemptIds, NEW b \in AttemptIds, ReceiveResult(a, b)
    PROVE  IInv'
<1> DEFINE rec == [attempts[a] EXCEPT !.state = "RESULT_RECEIVED", !.result = b]
<1>1. attempts[a] \in Attempt
    BY DEF IInv, TypeOK
<1>2. /\ Put(a, rec)
      /\ UNCHANGED <<submission, reservation, settlements>>
    BY DEF ReceiveResult
<1>3. rec \in Attempt
    BY <1>1 DEF Attempt, Active
<1>4. /\ rec.state = "RESULT_RECEIVED" /\ rec.result = b
      /\ rec.nonce = attempts[a].nonce /\ rec.quoted = attempts[a].quoted
      /\ rec.cleanup = attempts[a].cleanup
    BY <1>1 DEF Attempt
<1> HIDE DEF rec
<1>5. attempts[a].state = "RUNNING" /\ attempts[b].quoted
      /\ attempts[b].nonce = attempts[a].nonce
    BY <1>1 DEF ReceiveResult, Allowed, Onward, Abortable, Active,
        CleanupPending, Terminal
<1>6. /\ attempts' \in [AttemptIds -> Attempt] /\ attempts'[a] = rec
      /\ \A d \in AttemptIds \ {a} : attempts'[d] = attempts[d]
    BY <1>2, <1>3, PutTyped DEF IInv, TypeOK
<1>7. TypeOK'
    BY <1>6 DEF IInv, TypeOK, ReceiveResult
<1>8. /\ attempts[a].state \notin Terminal \cup {"UNUSED"}
      /\ rec.state # "UNUSED"
    BY <1>4, <1>5 DEF Active, Terminal, CleanupPending
<1>9. /\ Ordered' /\ Reserved' /\ Decided'
      /\ \A d, e \in AttemptIds :
            d # e /\ attempts'[d].state # "UNUSED"
                  /\ attempts'[e].state # "UNUSED"
            => attempts'[d].nonce # attempts'[e].nonce
    BY <1>2, <1>3, <1>4, <1>8, LiveStep
<1>10. OwnQuotes'
    BY <1>4, <1>5, <1>6, <1>8, <1>9, SMTT(40) DEF IInv, OwnQuotes, Active
<1>11. Absent'
    BY <1>4, <1>5, <1>6, SMTT(40)
       DEF IInv, Absent, ReceiveResult, Active, CleanupPending, Terminal
<1> QED
    BY <1>7, <1>9, <1>10, <1>11 DEF IInv

(* Entering cleanup keeps the invariant.                                   *)
LEMMA EnterCleanupInv ==
    ASSUME IInv, NEW a \in AttemptIds, NEW s \in CleanupPending, EnterCleanup(a, s)
    PROVE  IInv'
<1> DEFINE rec == [attempts[a] EXCEPT !.state = s, !.cleanup = None,
                   !.overdue = FALSE, !.permits = 0, !.issued = 0, !.until = 0]
<1>1. attempts[a] \in Attempt
    BY DEF IInv, TypeOK
<1>2. /\ Put(a, rec)
      /\ UNCHANGED <<submission, reservation, settlements>>
    BY DEF EnterCleanup
<1>3. rec \in Attempt
    <2>1. 0 \in 0 .. MaxPermits /\ 0 \in Times
        BY ProviderAssumption, SMTT(40) DEF ProviderAssumption, Times
    <2> QED
        BY <1>1, <2>1 DEF Attempt
<1>4. /\ rec.state = s /\ rec.cleanup = None
      /\ rec.nonce = attempts[a].nonce /\ rec.quoted = attempts[a].quoted
      /\ rec.result = attempts[a].result
    BY <1>1 DEF Attempt
<1> HIDE DEF rec
<1>5. /\ attempts[a].state \in Active \cup CleanupPending
      /\ s \in {"EVIDENCE_VERIFIED", "SUCCESS_CLEANUP_PENDING", "SUCCEEDED"}
            => attempts[a].state = "EVIDENCE_VERIFIED"
    BY <1>1 DEF EnterCleanup, Allowed, Onward, Abortable, Active,
        CleanupPending, Terminal
<1>6. /\ attempts' \in [AttemptIds -> Attempt] /\ attempts'[a] = rec
      /\ \A b \in AttemptIds \ {a} : attempts'[b] = attempts[b]
    BY <1>2, <1>3, PutTyped DEF IInv, TypeOK
<1>7. TypeOK'
    BY <1>6 DEF IInv, TypeOK, EnterCleanup
<1>8. /\ attempts[a].state \notin Terminal \cup {"UNUSED"}
      /\ rec.state # "UNUSED"
    BY <1>4, <1>5 DEF Active, Terminal, CleanupPending
<1>9. /\ Ordered' /\ Reserved' /\ Decided'
      /\ \A b, c \in AttemptIds :
            b # c /\ attempts'[b].state # "UNUSED"
                  /\ attempts'[c].state # "UNUSED"
            => attempts'[b].nonce # attempts'[c].nonce
    BY <1>2, <1>3, <1>4, <1>8, LiveStep
<1>10. OwnQuotes'
    BY <1>4, <1>5, <1>6, <1>8, <1>9, SMTT(40)
       DEF IInv, OwnQuotes, Active, CleanupPending
<1>11. Absent'
    BY <1>4, <1>5, <1>6, ProviderAssumption, SMTT(40)
       DEF IInv, Absent, EnterCleanup, Active, CleanupPending, Terminal,
           ProviderAssumption, AbsenceStatus
<1> QED
    BY <1>7, <1>9, <1>10, <1>11 DEF IInv

(* A cleanup observation keeps the invariant: it is true of the guest of   *)
(* the attempt.                                                            *)
LEMMA ObserveCleanupInv ==
    ASSUME IInv, NEW a \in AttemptIds, NEW b \in AttemptIds,
           NEW s \in AbsenceStatus, NEW o \in BOOLEAN, ObserveCleanup(a, b, s, o)
    PROVE  IInv'
<1> DEFINE rec == [attempts[a] EXCEPT !.cleanup = s, !.overdue = o]
<1>1. attempts[a] \in Attempt
    BY DEF IInv, TypeOK
<1>2. /\ Put(a, rec)
      /\ UNCHANGED <<submission, reservation, settlements>>
    BY DEF ObserveCleanup
<1>3. rec \in Attempt
    BY <1>1 DEF Attempt
<1>4. /\ rec.cleanup = s
      /\ rec.nonce = attempts[a].nonce /\ rec.quoted = attempts[a].quoted
      /\ rec.state = attempts[a].state /\ rec.result = attempts[a].result
    BY <1>1 DEF Attempt
<1> HIDE DEF rec
<1>5. attempts[a].state \in CleanupPending
    BY <1>1 DEF ObserveCleanup
<1>6. /\ attempts' \in [AttemptIds -> Attempt] /\ attempts'[a] = rec
      /\ \A d \in AttemptIds \ {a} : attempts'[d] = attempts[d]
    BY <1>2, <1>3, PutTyped DEF IInv, TypeOK
<1>7. TypeOK'
    BY <1>6 DEF IInv, TypeOK, ObserveCleanup
<1>8. /\ attempts[a].state \notin Terminal \cup {"UNUSED"}
      /\ rec.state # "UNUSED"
    BY <1>4, <1>5 DEF Active, Terminal, CleanupPending
<1>9. /\ Ordered' /\ Reserved' /\ Decided'
      /\ \A d, e \in AttemptIds :
            d # e /\ attempts'[d].state # "UNUSED"
                  /\ attempts'[e].state # "UNUSED"
            => attempts'[d].nonce # attempts'[e].nonce
    BY <1>2, <1>3, <1>4, <1>8, LiveStep
<1>10. OwnQuotes'
    BY <1>4, <1>5, <1>6, <1>8, <1>9, SMTT(40) DEF IInv, OwnQuotes, Active
<1>11. Absent'
    BY <1>4, <1>5, <1>6, SMTT(40)
       DEF IInv, Absent, ObserveCleanup, Active, CleanupPending, Terminal
<1> QED
    BY <1>7, <1>9, <1>10, <1>11 DEF IInv

(* A terminal event keeps the invariant: a success is proven absent.       *)
LEMMA FinishInv ==
    ASSUME IInv, NEW a \in AttemptIds, NEW s \in Terminal, Finish(a, s)
    PROVE  IInv'
<1> DEFINE rec == [attempts[a] EXCEPT !.state = s]
<1>1. attempts[a] \in Attempt
    BY DEF IInv, TypeOK
<1>2. /\ Put(a, rec)
      /\ UNCHANGED <<submission, reservation, settlements>>
    BY DEF Finish
<1>3. rec \in Attempt
    BY <1>1 DEF Attempt
<1>4. /\ rec.state = s
      /\ rec.nonce = attempts[a].nonce /\ rec.quoted = attempts[a].quoted
      /\ rec.cleanup = attempts[a].cleanup /\ rec.result = attempts[a].result
    BY <1>1 DEF Attempt
<1> HIDE DEF rec
<1>5. /\ attempts[a].state \in CleanupPending
      /\ s = "SUCCEEDED" => /\ attempts[a].state = "SUCCESS_CLEANUP_PENDING"
                            /\ attempts[a].cleanup = "PROVEN_ABSENT"
    BY <1>1 DEF Finish, Allowed, Onward, Abortable, Active,
        CleanupPending, Terminal
<1>6. /\ attempts' \in [AttemptIds -> Attempt] /\ attempts'[a] = rec
      /\ \A b \in AttemptIds \ {a} : attempts'[b] = attempts[b]
    BY <1>2, <1>3, PutTyped DEF IInv, TypeOK
<1>7. TypeOK'
    BY <1>6 DEF IInv, TypeOK, Finish
<1>8. /\ attempts[a].state \notin Terminal \cup {"UNUSED"}
      /\ rec.state # "UNUSED"
    BY <1>4, <1>5 DEF Active, Terminal, CleanupPending
<1>9. /\ Ordered' /\ Reserved' /\ Decided'
      /\ \A b, c \in AttemptIds :
            b # c /\ attempts'[b].state # "UNUSED"
                  /\ attempts'[c].state # "UNUSED"
            => attempts'[b].nonce # attempts'[c].nonce
    BY <1>2, <1>3, <1>4, <1>8, LiveStep
<1>10. OwnQuotes'
    BY <1>4, <1>5, <1>6, <1>8, <1>9, SMTT(40)
       DEF IInv, OwnQuotes, Active, Terminal
<1>11. Absent'
    BY <1>4, <1>5, <1>6, SMTT(40)
       DEF IInv, Absent, Finish, Active, CleanupPending, Terminal
<1> QED
    BY <1>7, <1>9, <1>10, <1>11 DEF IInv

(* Assigning the next attempt keeps the invariant: its nonce is new, every *)
(* earlier attempt failed, and there is no decision.                       *)
LEMMA AssignInv ==
    ASSUME IInv, NEW a \in AttemptIds, NEW n \in Nonces, NEW t \in Deadlines,
           Assign(a, n, t)
    PROVE  IInv'
<1> DEFINE rec == [Unused EXCEPT !.state = "DISPATCH_PENDING", !.nonce = n,
                                 !.permits = 1, !.issued = now, !.until = t]
<1>1. Put(a, rec) /\ reservation # None /\ settlements = <<>>
    BY DEF Assign, Unsettled
<1>2. rec \in Attempt
    <2>1. now \in Times /\ 1 \in 0 .. MaxPermits
        BY ProviderAssumption, SMTT(40) DEF ProviderAssumption, IInv, TypeOK
    <2> QED
        BY <2>1 DEF Attempt, Unused, Active
<1>3. /\ rec.state = "DISPATCH_PENDING" /\ rec.nonce = n
      /\ rec.quoted = FALSE /\ rec.cleanup = None
    BY DEF Unused
<1> HIDE DEF rec
<1>4. /\ attempts' \in [AttemptIds -> Attempt] /\ attempts'[a] = rec
      /\ \A b \in AttemptIds \ {a} : attempts'[b] = attempts[b]
    BY <1>1, <1>2, PutTyped DEF IInv, TypeOK
<1>5. TypeOK'
    BY <1>4 DEF IInv, TypeOK, Assign
<1>6. /\ attempts[a].state = "UNUSED"
      /\ \A b \in AttemptIds : b < a => attempts[b].state \in Terminal \ {"SUCCEEDED"}
      /\ \A b \in AttemptIds : attempts[b].state # "UNUSED"
            => attempts[b].nonce # n
    BY DEF Assign, Ended, Assigned, Winners
<1>7. Ordered'
    BY <1>3, <1>4, <1>6 DEF IInv, Ordered, AttemptIds, Terminal
<1>8. OwnQuotes'
    BY <1>3, <1>4, <1>6, SMTT(40) DEF IInv, OwnQuotes
<1>9. Absent'
    BY <1>3, <1>4, <1>6, ProviderAssumption, SMTT(40)
       DEF IInv, Absent, Assign, ProviderAssumption, AbsenceStatus
<1>10. Reserved'
    BY <1>1 DEF IInv, Reserved, Assign
<1>11. Decided'
    BY <1>1 DEF Decided, Assign
<1> QED
    BY <1>5, <1>7, <1>8, <1>9, <1>10, <1>11 DEF IInv

(* The customer's steps keep the invariant.                                *)
LEMMA CustomerInv ==
    ASSUME IInv, (\E r \in Requests : Submit(r)) \/ \E t \in Deadlines : Reserve(t)
    PROVE  IInv'
<1>1. UNCHANGED <<now, attempts, present, unassigned, settlements>>
    BY DEF Submit, Reserve
<1>2. Ordered' /\ OwnQuotes' /\ Absent'
    BY <1>1 DEF IInv, Ordered, OwnQuotes, Absent
<1>3. CASE \E r \in Requests : Submit(r)
    <2> PICK r \in Requests : Submit(r)
        BY <1>3
    <2>1. submission' \in Requests \cup {None} /\ reservation' = reservation
        BY DEF IInv, TypeOK, Submit
    <2>2. TypeOK'
        BY <1>1, <2>1 DEF IInv, TypeOK
    <2>3. submission # None => submission' = submission
        BY DEF Submit
    <2>4. Reserved' /\ Decided'
        BY <1>1, <2>1, <2>3 DEF IInv, Reserved, Decided
    <2> QED
        BY <1>2, <2>2, <2>4 DEF IInv
<1>4. CASE \E t \in Deadlines : Reserve(t)
    <2> PICK t \in Deadlines : Reserve(t)
        BY <1>4
    <2>1. /\ submission # None /\ submission' = submission
          /\ submission \in Requests /\ now \in Times
        BY DEF Reserve, IInv, TypeOK
    <2>2. CASE reservation = None
        <3>1. reservation' = [request |-> submission, at |-> now, expires |-> t]
            BY <2>2 DEF Reserve
        <3>2. TypeOK'
            BY <1>1, <2>1, <3>1 DEF IInv, TypeOK
        <3>3. settlements' = <<>>
              /\ \A a \in AttemptIds : attempts'[a].state = "UNUSED"
            BY <1>1, <2>2 DEF IInv, Reserved
        <3>4. Reserved' /\ Decided'
            BY <2>1, <3>1, <3>3 DEF Reserved, Decided
        <3> QED
            BY <1>2, <3>2, <3>4 DEF IInv
    <2>3. CASE reservation # None
        <3>1. UNCHANGED reservation
            BY <2>3 DEF Reserve
        <3>2. TypeOK' /\ Reserved' /\ Decided'
            BY <1>1, <2>1, <3>1 DEF IInv, TypeOK, Reserved, Decided
        <3> QED
            BY <1>2, <3>2 DEF IInv
    <2> QED
        BY <2>2, <2>3
<1> QED
    BY <1>3, <1>4

(* The clock, a teardown, giving up on dispatch and a redelivery keep the  *)
(* invariant.                                                              *)
LEMMA QuietInv ==
    ASSUME IInv,
           \/ Tick
           \/ \E a \in AttemptIds : Teardown(a)
           \/ GiveUp
           \/ UNCHANGED vars
    PROVE  IInv'
<1>1. /\ UNCHANGED <<submission, reservation, attempts, settlements>>
      /\ present' \subseteq present /\ unassigned' \in BOOLEAN
    BY DEF IInv, TypeOK, Tick, Teardown, GiveUp, vars
<1>2. now' \in Times
    BY ProviderAssumption, SMTT(40)
       DEF ProviderAssumption, IInv, TypeOK, Times, Tick, Teardown, GiveUp,
           vars
<1>3. TypeOK'
    BY <1>1, <1>2 DEF IInv, TypeOK
<1>4. Ordered' /\ OwnQuotes' /\ Absent'
    BY <1>1 DEF IInv, Ordered, OwnQuotes, Absent
<1>5. Reserved' /\ Decided'
    BY <1>1 DEF IInv, Reserved, Decided
<1> QED
    BY <1>3, <1>4, <1>5 DEF IInv

(* The decisions keep the invariant: they bind attempts that have all      *)
(* ended.                                                                  *)
LEMMA SettleInv ==
    ASSUME IInv,
           \/ \E w \in AttemptIds, m \in 1 .. Cap : Charge(w, m)
           \/ Hold \/ Release \/ Resolve
    PROVE  IInv'
<1> USE ProviderAssumption DEF ProviderAssumption
<1>1. now \in Times /\ settlements \in Seq(Decision)
    BY DEF IInv, TypeOK
<1>2. ASSUME Outcome
      PROVE  /\ reservation # None
             /\ \A a \in AttemptIds : attempts[a].state \in Terminal \cup {"UNUSED"}
    BY <1>2 DEF Outcome, Assigned, Ended
<1>3. ASSUME NEW w \in AttemptIds, NEW m \in 1 .. Cap, Charge(w, m)
      PROVE  IInv'
    <2> DEFINE d == [action |-> "charged", amount |-> m, winner |-> w, at |-> now]
    <2>1. /\ Outcome /\ settlements = <<>> /\ now < reservation.expires
          /\ attempts[w].state = "SUCCEEDED"
          /\ settlements' = Append(settlements, d)
          /\ UNCHANGED <<now, submission, reservation, attempts, present,
                         unassigned>>
        <3>1. now \in Int /\ reservation.expires \in Int
            BY <1>1, <1>2, <1>3, SMTT(40)
               DEF Charge, IInv, TypeOK, Times, Deadlines
        <3> QED
            BY <1>3, <3>1, SMTT(40) DEF Charge, Decide, Expired, Winners
    <2>2. d \in Decision
        BY <1>1, SMTT(40) DEF Decision
    <2>3. Len(settlements') = 1 /\ settlements'[1] = d
        BY <2>1, SMTT(40)
    <2>4. Decided'
        BY <1>2, <2>1, <2>3, SMTT(40) DEF Decided
    <2> HIDE DEF d
    <2> QED
        BY <1>2, <2>1, <2>2, <2>4, DecideStep, SMTT(40)
<1>4. ASSUME Hold \/ Release
      PROVE  IInv'
    <2> DEFINE act == IF Hold THEN "held_pending_cleanup" ELSE "released"
               d == [action |-> act, amount |-> 0, winner |-> None, at |-> now]
    <2>1. /\ Outcome /\ settlements = <<>> /\ Winners = {}
          /\ settlements' = Append(settlements, d)
          /\ UNCHANGED <<now, submission, reservation, attempts, present,
                         unassigned>>
        <3>1. CASE Hold
            BY <3>1 DEF Hold, Decide
        <3>2. CASE ~Hold
            BY <1>4, <3>2 DEF Release, Decide
        <3> QED
            BY <3>1, <3>2
    <2>2. act \in {"held_pending_cleanup", "released"}
        OBVIOUS
    <2> HIDE DEF act
    <2>3. d \in Decision /\ d.action # "charged" /\ d.amount = 0
        BY <1>1, <2>2, SMTT(40) DEF Decision
    <2>4. Len(settlements') = 1 /\ settlements'[1] = d
        BY <2>1, SMTT(40)
    <2>5. \A a \in AttemptIds : attempts[a].state # "SUCCEEDED"
        BY <2>1 DEF Winners, Assigned
    <2> HIDE DEF d
    <2>6. Decided'
        BY <1>2, <2>1, <2>3, <2>4, <2>5, SMTT(40) DEF Decided
    <2> QED
        BY <1>2, <2>1, <2>3, <2>6, DecideStep, SMTT(40)
<1>5. ASSUME Resolve
      PROVE  IInv'
    <2> DEFINE d == [action |-> "released", amount |-> 0, winner |-> None,
                     at |-> now]
    <2>1. /\ Len(settlements) = 1
          /\ settlements[1].action = "held_pending_cleanup"
          /\ settlements' = Append(settlements, d)
          /\ UNCHANGED <<now, submission, reservation, attempts, present,
                         unassigned>>
        BY <1>5 DEF Resolve, Decide
    <2>2. d \in Decision /\ d.action = "released"
        BY <1>1, SMTT(40) DEF Decision
    <2> HIDE DEF d
    <2>3. /\ Len(settlements') = 2 /\ settlements'[1] = settlements[1]
          /\ settlements'[2] = d
        <3>1. /\ Len(Append(settlements, d)) = Len(settlements) + 1
              /\ \A i \in 1 .. Len(settlements) :
                    Append(settlements, d)[i] = settlements[i]
              /\ Append(settlements, d)[Len(settlements) + 1] = d
            BY <1>1, <2>2, SMTT(40)
        <3> QED
            BY <2>1, <3>1, SMTT(40)
    <2>6. settlements # <<>>
        BY <2>1, SMTT(40)
    <2>4. Decided'
        BY <2>1, <2>2, <2>3, <2>6 DEF IInv, Decided
    <2>5. reservation # None
        BY <2>6 DEF IInv, Reserved
    <2> QED
        BY <2>1, <2>2, <2>4, <2>5, DecideStep, SMTT(40)
<1> QED
    BY <1>3, <1>4, <1>5

(* Every step keeps the invariant.                                         *)
LEMMA NextInv == IInv /\ [Next]_vars => IInv'
<1> SUFFICES ASSUME IInv, [Next]_vars PROVE IInv'
    OBVIOUS
<1>1. CASE UNCHANGED vars
    BY <1>1, QuietInv
<1>2. CASE Tick \/ GiveUp \/ Redeliver
    BY <1>2, QuietInv DEF Redeliver
<1>3. CASE (\E r \in Requests : Submit(r)) \/ \E t \in Deadlines : Reserve(t)
    BY <1>3, CustomerInv
<1>4. CASE \/ \E w \in AttemptIds, m \in 1 .. Cap : Charge(w, m)
           \/ Hold \/ Release \/ Resolve
    BY <1>4, SettleInv
<1>5. ASSUME NEW a \in AttemptIds,
             \/ \E n \in Nonces, t \in Deadlines : Assign(a, n, t)
             \/ \E t \in Deadlines : Renew(a, t)
             \/ \E s \in Active : Advance(a, s)
             \/ \E b \in AttemptIds : ReceiveResult(a, b)
             \/ \E s \in CleanupPending : EnterCleanup(a, s)
             \/ Teardown(a)
             \/ \E b \in AttemptIds, s \in AbsenceStatus, o \in BOOLEAN :
                    ObserveCleanup(a, b, s, o)
             \/ \E s \in Terminal : Finish(a, s)
      PROVE  IInv'
    BY <1>5, AssignInv, RenewInv, AdvanceInv, ReceiveResultInv,
        EnterCleanupInv, QuietInv, ObserveCleanupInv, FinishInv
<1> QED
    BY <1>1, <1>2, <1>3, <1>4, <1>5 DEF Next

LEMMA InvHolds == Spec => []IInv
BY InitInv, NextInv, PTL DEF Spec

(* Every charge is backed by the last attempt, its own quote and the       *)
(* absence of its guest, whatever the attempts and the clock did.          *)
THEOREM ChargesAreBacked == Spec => []ChargeBacked
<1>1. IInv => ChargeBacked
    <2> SUFFICES ASSUME IInv, NEW i \in Charged
                 PROVE  LET w == settlements[i].winner
                        IN  /\ Len(settlements) = 1
                            /\ Winners = {w} /\ \A a \in Assigned : a <= w
                            /\ attempts[w].result = w
                            /\ w \notin present
                            /\ settlements[i].at < reservation.expires
                            /\ reservation.request = submission
        BY DEF ChargeBacked
    <2>1. settlements \in Seq(Decision) /\ Len(settlements) \in {1, 2}
        <3>1. settlements \in Seq(Decision) /\ i \in DOMAIN settlements
            BY DEF IInv, TypeOK, Charged
        <3>2. Len(settlements) \in Nat /\ i \in 1 .. Len(settlements)
            BY <3>1, SMTT(40)
        <3>3. Len(settlements) <= 2
            BY DEF IInv, TypeOK
        <3>4. \A k \in Nat : \A j \in 1 .. k : k <= 2 => k = 1 \/ k = 2
            BY SMTT(40)
        <3> QED
            BY <3>1, <3>2, <3>3, <3>4
    <2>2. i = 1 /\ Len(settlements) = 1 /\ settlements # <<>>
        BY <2>1, SMTT(40) DEF IInv, Decided, Charged
    <2> DEFINE w == settlements[1].winner
    <2>3. /\ w \in AttemptIds /\ attempts[w].state = "SUCCEEDED"
          /\ settlements[1].at < reservation.expires
        BY <2>2 DEF IInv, Decided, Charged
    <2>4. reservation.request = submission
        BY <2>2 DEF IInv, Reserved
    <2>5. \A a \in AttemptIds : attempts[a].state # "UNUSED" => a <= w
        BY <2>3, SMTT(40) DEF IInv, Ordered, AttemptIds
    <2>6. \A a \in AttemptIds : attempts[a].state = "SUCCEEDED" => a = w
        BY <2>3, <2>5, SMTT(40) DEF IInv, Ordered, AttemptIds
    <2>7. attempts[w].result = w /\ w \notin present
        BY <2>3 DEF IInv, OwnQuotes, Absent
    <2> QED
        BY <2>2, <2>3, <2>4, <2>5, <2>6, <2>7 DEF Winners, Assigned
<1> QED
    BY <1>1, InvHolds, PTL
-----------------------------------------------------------------------------
(* Guests.                                                                 *)

(* An attempt ended because its guest was proven gone, or at the           *)
(* customer's cleanup deadline.  GuestsAccounted alone is not inductive:   *)
(* it says nothing of how an attempt without a guest ended.                *)
Endings ==
    \A a \in AttemptIds : attempts[a].state \in Terminal =>
        attempts[a].cleanup = "PROVEN_ABSENT" \/ attempts[a].overdue

(* A new record of one attempt, not ended or ended in one of the two ways. *)
LEMMA PutEndings ==
    ASSUME Endings, attempts \in [AttemptIds -> Attempt],
           NEW a \in AttemptIds, NEW rec, Put(a, rec),
           rec.state \in Terminal => rec.cleanup = "PROVEN_ABSENT" \/ rec.overdue
    PROVE  Endings'
<1>1. attempts'[a] = rec /\ \A b \in AttemptIds \ {a} : attempts'[b] = attempts[b]
    BY DEF Put
<1> QED
    BY <1>1 DEF Endings

(* Every step on an attempt keeps how the attempts ended.                  *)
LEMMA EndingsKept ==
    ASSUME IInv, Endings, [Next]_vars
    PROVE  Endings'
<1>0. attempts \in [AttemptIds -> Attempt]
    BY DEF IInv, TypeOK
<1>1. CASE UNCHANGED attempts
    BY <1>1 DEF Endings
<1>2. ASSUME NEW a \in AttemptIds, NEW n \in Nonces, NEW t \in Deadlines,
             Assign(a, n, t)
      PROVE  Endings'
    <2> DEFINE rec == [Unused EXCEPT !.state = "DISPATCH_PENDING", !.nonce = n,
                                     !.permits = 1, !.issued = now, !.until = t]
    <2>1. Put(a, rec) /\ rec.state \notin Terminal
        BY <1>2 DEF Assign, Unused, Terminal
    <2> QED
        BY <1>0, <2>1, PutEndings
<1>3. ASSUME NEW a \in AttemptIds, NEW t \in Deadlines, Renew(a, t)
      PROVE  Endings'
    <2> DEFINE rec == [attempts[a] EXCEPT !.permits = @ + 1, !.issued = now,
                       !.until = IF t > @ THEN t ELSE @]
    <2>1. Put(a, rec) /\ rec.state = attempts[a].state
        BY <1>0, <1>3 DEF Renew, Attempt
    <2>2. attempts[a].state \notin Terminal
        BY <1>3 DEF Renew, Active, Terminal
    <2> HIDE DEF rec
    <2> QED
        BY <1>0, <2>1, <2>2, PutEndings
<1>4. ASSUME NEW a \in AttemptIds, NEW s \in Active, Advance(a, s)
      PROVE  Endings'
    <2> DEFINE rec == [attempts[a] EXCEPT !.state = s, !.quoted = @ \/ s = "RUNNING"]
    <2>1. Put(a, rec) /\ rec.state = s
        BY <1>0, <1>4 DEF Advance, Attempt
    <2>2. s \notin Terminal
        BY <1>4 DEF Advance
    <2> HIDE DEF rec
    <2> QED
        BY <1>0, <2>1, <2>2, PutEndings
<1>5. ASSUME NEW a \in AttemptIds, NEW b \in AttemptIds, ReceiveResult(a, b)
      PROVE  Endings'
    <2> DEFINE rec == [attempts[a] EXCEPT !.state = "RESULT_RECEIVED", !.result = b]
    <2>1. Put(a, rec) /\ rec.state \notin Terminal
        BY <1>0, <1>5, SMTT(40) DEF ReceiveResult, Attempt, Terminal
    <2> HIDE DEF rec
    <2> QED
        BY <1>0, <2>1, PutEndings
<1>6. ASSUME NEW a \in AttemptIds, NEW s \in CleanupPending, EnterCleanup(a, s)
      PROVE  Endings'
    <2> DEFINE rec == [attempts[a] EXCEPT !.state = s, !.cleanup = None,
                   !.overdue = FALSE, !.permits = 0, !.issued = 0, !.until = 0]
    <2>1. Put(a, rec) /\ rec.state = s
        BY <1>0, <1>6 DEF EnterCleanup, Attempt
    <2>2. s \notin Terminal
        BY DEF CleanupPending, Terminal
    <2> HIDE DEF rec
    <2> QED
        BY <1>0, <2>1, <2>2, PutEndings
<1>7. ASSUME NEW a \in AttemptIds, NEW b \in AttemptIds, NEW s \in AbsenceStatus,
             NEW o \in BOOLEAN, ObserveCleanup(a, b, s, o)
      PROVE  Endings'
    <2> DEFINE rec == [attempts[a] EXCEPT !.cleanup = s, !.overdue = o]
    <2>1. Put(a, rec) /\ rec.state = attempts[a].state
        BY <1>0, <1>7 DEF ObserveCleanup, Attempt
    <2>2. attempts[a].state \notin Terminal
        BY <1>7 DEF ObserveCleanup, CleanupPending, Terminal
    <2> HIDE DEF rec
    <2> QED
        BY <1>0, <2>1, <2>2, PutEndings
<1>8. ASSUME NEW a \in AttemptIds, NEW s \in Terminal, Finish(a, s)
      PROVE  Endings'
    <2> DEFINE rec == [attempts[a] EXCEPT !.state = s]
    <2>1. /\ Put(a, rec) /\ rec.cleanup = attempts[a].cleanup
          /\ rec.overdue = attempts[a].overdue
        BY <1>0, <1>8 DEF Finish, Attempt
    <2>2. attempts[a].cleanup = "PROVEN_ABSENT" \/ attempts[a].overdue
        BY <1>8 DEF Finish
    <2> HIDE DEF rec
    <2> QED
        BY <1>0, <2>1, <2>2, PutEndings
<1>9. CASE \/ Tick \/ GiveUp \/ Hold \/ Release \/ Resolve \/ Redeliver
           \/ \E r \in Requests : Submit(r)
           \/ \E t \in Deadlines : Reserve(t)
           \/ \E w \in AttemptIds, m \in 1 .. Cap : Charge(w, m)
           \/ \E a \in AttemptIds : Teardown(a)
           \/ UNCHANGED vars
    BY <1>1, <1>9
       DEF Tick, GiveUp, Hold, Release, Resolve, Redeliver, Submit, Reserve,
           Charge, Teardown, Decide, vars
<1> QED
    BY <1>2, <1>3, <1>4, <1>5, <1>6, <1>7, <1>8, <1>9 DEF Next

(* No guest is forgotten: one that is still at its provider belongs to an  *)
(* attempt under way, or to one that the customer's deadline ended without *)
(* success, for any number of attempts and any order of the observations.  *)
THEOREM NoGuestForgotten == Spec => []GuestsAccounted
<1>1. Init => Endings
    BY SMTT(40) DEF Init, Endings, Unused, Terminal
<1>2. IInv /\ Endings /\ [Next]_vars => Endings'
    BY EndingsKept
<1>3. IInv /\ Endings => GuestsAccounted
    BY DEF IInv, Absent, Endings, GuestsAccounted, Ended, Assigned, TypeOK
<1> QED
    BY <1>1, <1>2, <1>3, InvHolds, PTL DEF Spec
-----------------------------------------------------------------------------
(* The refinement.                                                         *)

(* A step that decides nothing and ends no attempt with success leaves the *)
(* bill as it is.                                                          *)
LEMMA BillStutters ==
    ASSUME UNCHANGED <<reservation, settlements>>,
           \A a \in AttemptIds :
               attempts'[a].state = "SUCCEEDED" <=> attempts[a].state = "SUCCEEDED"
    PROVE  UNCHANGED Bill!vars
<1>1. UNCHANGED <<Funds, Amount>>
    BY DEF Funds, Amount
<1>2. (Winners # {})' = (Winners # {})
    BY DEF Winners, Assigned
<1> QED
    BY <1>1, <1>2 DEF Bill!vars

(* A step of an attempt under way is a delivery or leaves the bill alone.  *)
LEMMA LiveBill ==
    ASSUME IInv, NEW a \in AttemptIds, NEW rec, Put(a, rec),
           attempts[a].state \notin Terminal \cup {"UNUSED"},
           UNCHANGED <<reservation, settlements>>
    PROVE  [Bill!Next]_(Bill!vars)
<1>1. /\ attempts'[a] = rec
      /\ \A b \in AttemptIds \ {a} : attempts'[b] = attempts[b]
    BY DEF IInv, TypeOK, Put
<1>2. settlements = <<>> /\ reservation # None
    BY DEF IInv, Decided, Reserved
<1>3. \A b \in AttemptIds : attempts[b].state # "SUCCEEDED"
    BY SMTT(40) DEF IInv, Ordered, Terminal, AttemptIds
<1>4. CASE rec.state = "SUCCEEDED"
    <2>1. Funds = "reserved" /\ Funds' = "reserved" /\ Amount' = Amount
        BY <1>2 DEF Funds, Amount
    <2>2. (Winners # {}) = FALSE
        BY <1>3 DEF Winners, Assigned
    <2>3. (Winners # {})' = TRUE
        BY <1>1, <1>4 DEF Winners, Assigned
    <2> QED
        BY <2>1, <2>2, <2>3 DEF Bill!Next, Bill!Deliver
<1>5. CASE rec.state # "SUCCEEDED"
    BY <1>1, <1>3, <1>5, BillStutters
<1> QED
    BY <1>4, <1>5

(* A decision is the matching step of the bill.                            *)
LEMMA SettleBill ==
    ASSUME IInv,
           \/ \E w \in AttemptIds, m \in 1 .. Cap : Charge(w, m)
           \/ Hold \/ Release \/ Resolve
    PROVE  Bill!Next
<1>1. settlements \in Seq(Decision) /\ reservation # None
    BY SMTT(40)
       DEF IInv, TypeOK, Reserved, Charge, Hold, Release, Resolve, Outcome
<1>2. UNCHANGED <<reservation, attempts>>
    BY DEF Charge, Hold, Release, Resolve, Decide
<1>3. (Winners # {})' = (Winners # {})
    BY <1>2 DEF Winners, Assigned
<1>4. ASSUME NEW w \in AttemptIds, NEW m \in 1 .. Cap, Charge(w, m)
      PROVE  Bill!Charge
    <2>1. settlements = <<>> /\ Winners # {}
        BY <1>4 DEF Charge
    <2> DEFINE d == [action |-> "charged", amount |-> m, winner |-> w, at |-> now]
    <2>2. settlements' = <<d>>
        BY <1>4, <2>1, SMTT(40) DEF Charge, Decide
    <2>3. Funds = "reserved" /\ Funds' = "charged" /\ Amount' = m
        BY <1>1, <1>2, <2>1, <2>2 DEF Funds, Amount
    <2> QED
        BY <1>3, <2>1, <2>3 DEF Bill!Charge
<1>5. ASSUME Hold
      PROVE  Bill!Hold
    <2>1. settlements = <<>> /\ Winners = {}
        BY <1>5 DEF Hold
    <2>2. settlements' = <<[action |-> "held_pending_cleanup", amount |-> 0,
                            winner |-> None, at |-> now]>>
        BY <1>5, <2>1, SMTT(40) DEF Hold, Decide
    <2>3. Funds = "reserved" /\ Funds' = "held" /\ Amount = 0 /\ Amount' = 0
        BY <1>1, <1>2, <2>1, <2>2 DEF Funds, Amount
    <2> QED
        BY <1>3, <2>1, <2>3 DEF Bill!Hold
<1>6. ASSUME Release
      PROVE  Bill!Release
    <2>1. settlements = <<>> /\ Winners = {}
        BY <1>6 DEF Release
    <2>2. settlements' = <<[action |-> "released", amount |-> 0,
                            winner |-> None, at |-> now]>>
        BY <1>6, <2>1, SMTT(40) DEF Release, Decide
    <2>3. Funds = "reserved" /\ Funds' = "released" /\ Amount = 0 /\ Amount' = 0
        BY <1>1, <1>2, <2>1, <2>2 DEF Funds, Amount
    <2> QED
        BY <1>3, <2>1, <2>3 DEF Bill!Release
<1>7. ASSUME Resolve
      PROVE  Bill!Release
    <2> DEFINE d == [action |-> "released", amount |-> 0, winner |-> None,
                     at |-> now]
    <2>1. /\ Len(settlements) = 1 /\ settlements # <<>>
          /\ settlements[1].action = "held_pending_cleanup"
        BY <1>7, SMTT(40) DEF Resolve
    <2>2. settlements' = Append(settlements, d)
        BY <1>7 DEF Resolve, Decide
    <2>3. d \in Decision
        BY ProviderAssumption, SMTT(40)
           DEF IInv, TypeOK, Decision, ProviderAssumption
    <2>4. /\ Len(settlements') = 2 /\ settlements'[1] = settlements[1]
          /\ settlements'[2] = d /\ settlements' # <<>>
        <3>1. /\ Len(Append(settlements, d)) = Len(settlements) + 1
              /\ \A i \in 1 .. Len(settlements) :
                    Append(settlements, d)[i] = settlements[i]
              /\ Append(settlements, d)[Len(settlements) + 1] = d
            BY <1>1, <2>3, SMTT(40)
        <3> QED
            BY <2>1, <2>2, <3>1, SMTT(40)
    <2>5. Funds = "held" /\ Funds' = "released" /\ Amount' = Amount
        BY <1>1, <1>2, <2>1, <2>4, SMTT(40) DEF Funds, Amount
    <2>6. Winners = {}
        BY <2>1 DEF IInv, Decided, Winners, Assigned
    <2> QED
        BY <1>3, <2>5, <2>6 DEF Bill!Release
<1> QED
    BY <1>4, <1>5, <1>6, <1>7 DEF Bill!Next

(* The reservation is the bill's first step; a repeated one changes        *)
(* nothing.                                                                *)
LEMMA ReserveBill ==
    ASSUME IInv, NEW t \in Deadlines, Reserve(t)
    PROVE  [Bill!Next]_(Bill!vars)
<1>1. UNCHANGED <<attempts, settlements>>
    BY DEF Reserve
<1>2. CASE reservation' = reservation
    BY <1>1, <1>2, BillStutters
<1>3. CASE reservation' # reservation
    <2>1. reservation = None /\ reservation' # None /\ settlements = <<>>
        BY <1>3 DEF Reserve, IInv, Reserved
    <2>2. Funds = "none" /\ Funds' = "reserved" /\ Amount' = Amount
        BY <1>1, <2>1 DEF Funds, Amount
    <2>3. (Winners # {})' = (Winners # {})
        BY <1>1 DEF Winners, Assigned
    <2> QED
        BY <2>2, <2>3 DEF Bill!Next, Bill!Reserve
<1> QED
    BY <1>2, <1>3

(* Every step of a Worker is a step of the customer's bill or leaves it    *)
(* unchanged.                                                              *)
LEMMA StepBill == IInv /\ [Next]_vars => [Bill!Next]_(Bill!vars)
<1> SUFFICES ASSUME IInv, [Next]_vars PROVE [Bill!Next]_(Bill!vars)
    OBVIOUS
<1>1. CASE \/ Tick \/ GiveUp \/ Redeliver \/ UNCHANGED vars
           \/ \E r \in Requests : Submit(r)
           \/ \E a \in AttemptIds : Teardown(a)
    <2>1. UNCHANGED <<reservation, attempts, settlements>>
        BY <1>1 DEF Tick, GiveUp, Redeliver, Submit, Teardown, vars
    <2> QED
        BY <2>1, BillStutters
<1>2. ASSUME NEW t \in Deadlines, Reserve(t)
      PROVE  [Bill!Next]_(Bill!vars)
    BY <1>2, ReserveBill
<1>3. CASE \/ \E w \in AttemptIds, m \in 1 .. Cap : Charge(w, m)
           \/ Hold \/ Release \/ Resolve
    BY <1>3, SettleBill
<1>4. ASSUME NEW a \in AttemptIds, NEW n \in Nonces, NEW t \in Deadlines,
             Assign(a, n, t)
      PROVE  [Bill!Next]_(Bill!vars)
    <2>1. /\ UNCHANGED <<reservation, settlements>>
          /\ attempts[a].state = "UNUSED"
          /\ attempts'[a].state = "DISPATCH_PENDING"
          /\ \A b \in AttemptIds \ {a} : attempts'[b] = attempts[b]
        BY <1>4 DEF Assign, Put, Unused, IInv, TypeOK
    <2> QED
        BY <2>1, BillStutters
<1>5. ASSUME NEW a \in AttemptIds,
             \/ \E t \in Deadlines : Renew(a, t)
             \/ \E s \in Active : Advance(a, s)
             \/ \E b \in AttemptIds : ReceiveResult(a, b)
             \/ \E s \in CleanupPending : EnterCleanup(a, s)
             \/ \E b \in AttemptIds, s \in AbsenceStatus, o \in BOOLEAN :
                    ObserveCleanup(a, b, s, o)
             \/ \E s \in Terminal : Finish(a, s)
      PROVE  [Bill!Next]_(Bill!vars)
    <2>1. attempts[a].state \notin Terminal \cup {"UNUSED"}
        BY <1>5, ZenonT(60)
           DEF Renew, Advance, ReceiveResult, EnterCleanup, ObserveCleanup,
               Finish, Allowed, Onward, Abortable, Active, CleanupPending,
               Terminal
    <2>2. UNCHANGED <<reservation, settlements>> /\ \E rec : Put(a, rec)
        BY <1>5
           DEF Renew, Advance, ReceiveResult, EnterCleanup, ObserveCleanup,
               Finish
    <2> QED
        BY <2>1, <2>2, LiveBill
<1> QED
    BY <1>1, <1>2, <1>3, <1>4, <1>5 DEF Next

(* The records of a Worker implement the customer's bill, for every number *)
(* of attempts, permits and points in time.                                *)
THEOREM BillIsKept == Spec => BillKept
<1>1. Init => Bill!Init
    BY SMTT(40) DEF Init, Bill!Init, Funds, Amount, Winners, Assigned, Unused
<1> QED
    BY <1>1, InvHolds, StepBill, PTL DEF Spec, BillKept, Bill!Spec
=============================================================================
