--------------------------- MODULE ExecutionProofs ---------------------------
(* Proofs about Execution, for any number of processes, calls, executions, *)
(* requests and answers and any times: the three properties of its run.    *)
EXTENDS Execution, TLAPS

(* A step that names no prover goes to Zenon.                              *)
USE ZenonT(30)

Held == {"claiming", "invoking", "answered", "failed"}
Bound == {"invoking", "answered", "failed"}

CallRow == [phase : Phases, request : Requests \cup {None},
            permit : Permit \cup {None},
            claim_until : 0 .. MaxTime + ClaimTime,
            result : Results \cup {None}]

(* What a call holds at each phase: its permit, an answer, and from its    *)
(* claim on a row of its own request.                                      *)
CallsOK ==
    /\ calls \in [Callers -> CallRow]
    /\ \A c \in Callers :
          /\ calls[c].phase # "idle" =>
                calls[c].request \in Requests /\ calls[c].permit \in Permit
          /\ calls[c].phase = "answered" => calls[c].result \in Results
          /\ calls[c].phase \in Bound =>
                /\ bindings[calls[c].permit.id] \in BindingRow
                /\ bindings[calls[c].permit.id].request = calls[c].request

ReturnedOK ==
    /\ returned \subseteq [id : Executions, request : Requests, result : Results]
    /\ \A r \in returned : bindings[r.id] \in BindingRow

(* The sample that found a permit expired is in the durable mark.          *)
ClockOK == \A q \in expired : q.expires_at <= high_water

IInv == /\ TypeOK /\ CallsOK /\ ReturnedOK /\ OneResult
        /\ ClockOK /\ ExpiredStaysExpired
-----------------------------------------------------------------------------
LEMMA InitInv == Init => IInv
<1> SUFFICES ASSUME Init PROVE IInv
    OBVIOUS
<1> USE ExecutionAssumption DEF Init, Idle
<1>1. TypeOK
    BY SMTT(40) DEF TypeOK, ExecutionAssumption, Times, Phases
<1>2. CallsOK
    BY SMTT(40) DEF CallsOK, CallRow, ExecutionAssumption, Phases, Bound
<1> QED
    BY <1>1, <1>2 DEF IInv, ReturnedOK, OneResult, ClockOK, ExpiredStaysExpired

(* A step that leaves the tables of bindings and clocks alone keeps what   *)
(* is said of them.                                                        *)
LEMMA TablesKept ==
    ASSUME IInv, UNCHANGED <<bindings, historyVars, high_water>>
    PROVE  ReturnedOK' /\ OneResult' /\ ClockOK' /\ ExpiredStaysExpired'
BY DEF IInv, ReturnedOK, OneResult, ClockOK, ExpiredStaysExpired, historyVars

(* Ending a call leaves the other calls and the adapters they hold.        *)
LEMMA EndedCall ==
    ASSUME IInv, NEW c \in Callers, EndCall(c)
    PROVE  /\ locks' \in [Processes -> Callers \cup {None}]
           /\ calls' \in [Callers -> CallRow]
           /\ calls'[c] = Idle
           /\ \A d \in Callers :
                 /\ d # c => calls'[d] = calls[d]
                 /\ calls'[d].phase \in Phases
                 /\ calls'[d].phase \in Held <=> locks'[ProcessOf[d]] = d
<1> USE ExecutionAssumption DEF ExecutionAssumption
<1>1. Idle \in CallRow /\ Idle.phase \notin Held
    BY SMTT(40) DEF Idle, CallRow, Phases, Held
<1>2. calls \in [Callers -> CallRow] /\ locks \in [Processes -> Callers \cup {None}]
    BY DEF IInv, CallsOK, TypeOK
<1>3. calls' \in [Callers -> CallRow] /\ calls'[c] = Idle
      /\ \A d \in Callers : d # c => calls'[d] = calls[d]
    BY <1>1, <1>2 DEF EndCall
<1>4. locks' \in [Processes -> Callers \cup {None}]
    BY <1>2 DEF EndCall
<1>5. ASSUME NEW d \in Callers
      PROVE  calls'[d].phase \in Held <=> locks'[ProcessOf[d]] = d
  <2>1. ProcessOf[d] \in Processes /\ ProcessOf[c] \in Processes
      OBVIOUS
  <2>2. calls[d].phase \in Held <=> locks[ProcessOf[d]] = d
      BY DEF IInv, TypeOK, Held
  <2>3. CASE d = c
      BY <1>1, <1>2, <1>3, <2>1, <2>3 DEF EndCall
  <2>4. CASE d # c
      BY <1>2, <1>3, <2>1, <2>2, <2>4 DEF EndCall
  <2> QED BY <2>3, <2>4
<1>6. \A d \in Callers : calls'[d].phase \in Phases
    BY <1>3 DEF CallRow
<1> QED BY <1>3, <1>4, <1>5, <1>6

(* A call that ends without touching the tables.                           *)
LEMMA EndedInv ==
    ASSUME IInv, NEW c \in Callers, EndCall(c),
           UNCHANGED <<now, clockVars, bindings, historyVars>>
    PROVE  IInv'
<1>1. TypeOK'
    BY EndedCall DEF IInv, TypeOK, Held, clockVars, historyVars
<1>2. CallsOK'
    BY EndedCall, SMTT(40) DEF IInv, CallsOK, Idle, Bound
<1> QED BY <1>1, <1>2, TablesKept DEF IInv, clockVars

(* A call that moves on: to the phase and with the fields of another row,  *)
(* the adapter being held before and after or neither.                     *)
LEMMA MovedInv ==
    ASSUME IInv, NEW c \in Callers, NEW row \in CallRow,
           calls' = [calls EXCEPT ![c] = row],
           UNCHANGED <<bindings, locks>>,
           row.phase \in Held <=> calls[c].phase \in Held,
           row.phase # "idle" => row.request \in Requests /\ row.permit \in Permit,
           row.phase = "answered" => row.result \in Results,
           row.phase \in Bound => /\ bindings[row.permit.id] \in BindingRow
                                  /\ bindings[row.permit.id].request = row.request
    PROVE  /\ CallsOK'
           /\ \A d \in Callers :
                 /\ calls'[d].phase \in Phases
                 /\ calls'[d].phase \in Held <=> locks'[ProcessOf[d]] = d
<1>1. calls \in [Callers -> CallRow]
    BY DEF IInv, CallsOK
<1>2. calls' \in [Callers -> CallRow] /\ calls'[c] = row
      /\ \A d \in Callers : d # c => calls'[d] = calls[d]
    BY <1>1
<1>3. CallsOK'
    BY <1>2 DEF IInv, CallsOK
<1>4. \A d \in Callers : calls[d].phase \in Held <=> locks[ProcessOf[d]] = d
    BY DEF IInv, TypeOK, Held
<1>5. \A d \in Callers : /\ calls'[d].phase \in Phases
                         /\ calls'[d].phase \in Held <=> locks'[ProcessOf[d]] = d
    BY <1>2, <1>4 DEF CallRow
<1> QED BY <1>3, <1>5

LEMMA ClockInv == IInv /\ (Tick \/ SetBack) => IInv'
<1> SUFFICES ASSUME IInv, Tick \/ SetBack PROVE IInv'
    OBVIOUS
<1>1. TypeOK'
    BY ExecutionAssumption, SMTT(40)
       DEF IInv, TypeOK, Tick, SetBack, Times, clockVars, historyVars,
           ExecutionAssumption
<1>2. CallsOK'
    BY DEF IInv, CallsOK, Tick, SetBack
<1> QED BY <1>1, <1>2, TablesKept DEF IInv, Tick, SetBack, clockVars

LEMMA RestartInv ==
    ASSUME IInv, NEW p \in Processes, Restart(p)
    PROVE  IInv'
<1> USE ExecutionAssumption DEF ExecutionAssumption
<1>1. Idle \in CallRow /\ Idle.phase \notin Held
    BY SMTT(40) DEF Idle, CallRow, Phases, Held
<1>2. calls' \in [Callers -> CallRow]
    BY <1>1 DEF IInv, CallsOK, Restart
<1>3. \A c \in Callers : calls'[c] = IF ProcessOf[c] = p THEN Idle ELSE calls[c]
    BY DEF Restart
<1>4. CallsOK'
    BY <1>2, <1>3 DEF IInv, CallsOK, Restart, Idle, Bound
<1>5. \A c \in Callers : calls'[c].phase \in Held <=> locks'[ProcessOf[c]] = c
  <2> SUFFICES ASSUME NEW c \in Callers
               PROVE  calls'[c].phase \in Held <=> locks'[ProcessOf[c]] = c
      OBVIOUS
  <2>1. locks \in [Processes -> Callers \cup {None}] /\ ProcessOf[c] \in Processes
      BY DEF IInv, TypeOK
  <2>2. calls[c].phase \in Held <=> locks[ProcessOf[c]] = c
      BY DEF IInv, TypeOK, Held
  <2> QED BY <1>1, <1>3, <2>1, <2>2 DEF Restart
<1>6. \A c \in Callers : calls'[c].phase \in Phases
    BY <1>2 DEF CallRow
<1>7. TypeOK'
    BY <1>5, <1>6, SMTT(40) DEF IInv, TypeOK, Restart, Times, Held, historyVars
<1> QED BY <1>4, <1>7, TablesKept DEF IInv, Restart

LEMMA DispatchInv ==
    ASSUME IInv, NEW c \in Callers, NEW x \in Executions, NEW request \in Requests,
           Dispatch(c, x, request)
    PROVE  IInv'
<1> USE ExecutionAssumption DEF ExecutionAssumption
<1> DEFINE permit == [id |-> x, issued_at |-> now,
                      expires_at |-> Least(AssignmentExpiry[x], now + PermitTTL)]
           row == [Idle EXCEPT !.phase = "dispatched", !.request = request,
                               !.permit = permit]
<1>1. now \in Times /\ ProcessOf[c] \in Processes
    BY DEF IInv, TypeOK
<1>2. Least(AssignmentExpiry[x], now + PermitTTL) \in 1 .. MaxTime + PermitTTL
    BY <1>1, SMTT(40) DEF Least, Times, Dispatch
<1>3. permit \in Permit
    BY <1>1, <1>2 DEF Permit
<1>4. /\ row \in CallRow /\ row.phase = "dispatched"
      /\ row.request = request /\ row.permit = permit
  <2> DEFINE a == [Idle EXCEPT !.phase = "dispatched"]
             b == [a EXCEPT !.request = request]
  <2>1. a \in CallRow /\ a.phase = "dispatched"
      BY SMTT(40) DEF Idle, CallRow, Phases
  <2>2. b \in CallRow /\ b.phase = "dispatched" /\ b.request = request
    <3> HIDE DEF a
    <3> QED BY <2>1 DEF CallRow
  <2>3. LET r == [b EXCEPT !.permit = permit] IN
        /\ r \in CallRow /\ r.phase = "dispatched"
        /\ r.request = request /\ r.permit = permit
    <3> HIDE DEF b, permit
    <3> QED BY <1>3, <2>2 DEF CallRow
  <2> QED BY <2>3
<1>5. calls' = [calls EXCEPT ![c] = row] /\ calls[c].phase = "idle"
    BY DEF Dispatch
<1> HIDE DEF row, permit
<1>6. /\ CallsOK'
      /\ \A d \in Callers : /\ calls'[d].phase \in Phases
                            /\ calls'[d].phase \in Held <=> locks'[ProcessOf[d]] = d
  <2>1. row.phase \notin Held /\ row.phase \notin Bound /\ calls[c].phase \notin Held
      BY <1>4, <1>5 DEF Held, Bound
  <2>2. row.phase # "answered" /\ row.request \in Requests /\ row.permit \in Permit
      BY <1>3, <1>4
  <2>3. UNCHANGED <<bindings, locks>>
      BY DEF Dispatch
  <2> QED BY <1>4, <1>5, <2>1, <2>2, <2>3, MovedInv
<1>7. TypeOK'
    BY <1>1, <1>6 DEF IInv, TypeOK, Dispatch, Held, historyVars
<1> QED BY <1>6, <1>7, TablesKept DEF IInv, Dispatch

LEMMA VerifyInv ==
    ASSUME IInv, NEW c \in Callers, VerifyAuthorization(c)
    PROVE  IInv'
<1> USE ExecutionAssumption DEF ExecutionAssumption
<1> DEFINE call == calls[c]
           valid == call.permit.issued_at <= now /\ now < call.permit.expires_at
           row == IF valid THEN [call EXCEPT !.phase = "authorized"] ELSE Idle
<1>1. /\ now \in Times /\ high_water \in Times /\ ProcessOf[c] \in Processes
      /\ call \in CallRow /\ call.phase = "dispatched"
      /\ call.request \in Requests /\ call.permit \in Permit
    BY DEF IInv, TypeOK, CallsOK, VerifyAuthorization
<1>2. /\ row \in CallRow /\ row.phase \in {"authorized", "idle"}
      /\ row.phase = "authorized" =>
            row.request = call.request /\ row.permit = call.permit
    BY <1>1, SMTT(40) DEF CallRow, Phases, Idle
<1>3. calls' = [calls EXCEPT ![c] = row]
    BY DEF VerifyAuthorization
<1>4. /\ CallsOK'
      /\ \A d \in Callers : /\ calls'[d].phase \in Phases
                            /\ calls'[d].phase \in Held <=> locks'[ProcessOf[d]] = d
  <2> HIDE DEF row
  <2>1. row.phase \notin Held /\ row.phase \notin Bound /\ calls[c].phase \notin Held
      BY <1>1, <1>2 DEF Held, Bound
  <2>2. /\ row.phase # "answered"
        /\ row.phase # "idle" => row.request \in Requests /\ row.permit \in Permit
      BY <1>1, <1>2
  <2>3. UNCHANGED <<bindings, locks>>
      BY DEF VerifyAuthorization
  <2> QED BY <1>2, <1>3, <2>1, <2>2, <2>3, MovedInv
<1>5. high_water' = now /\ now >= high_water
    BY DEF VerifyAuthorization, AuthorizationNow
<1>6. adapter_seen' \in [Processes -> Times]
    BY <1>1 DEF IInv, TypeOK, VerifyAuthorization, AuthorizationNow
<1>7. expired' \subseteq Permit
    BY <1>1 DEF IInv, TypeOK, VerifyAuthorization
<1>8. TypeOK'
    BY <1>1, <1>4, <1>5, <1>6, <1>7 DEF IInv, TypeOK, VerifyAuthorization, Held
<1>9. ClockOK'
  <2> SUFFICES ASSUME NEW q \in expired' PROVE q.expires_at <= high_water'
      BY DEF ClockOK
  <2>1. q.expires_at \in Int
      BY <1>7, SMTT(40) DEF Permit
  <2>2. CASE q \in expired
      BY <1>1, <1>5, <2>1, <2>2, SMTT(40) DEF IInv, ClockOK, Times
  <2>3. CASE q \notin expired
      BY <1>1, <1>5, <2>1, <2>3 DEF VerifyAuthorization, Times
  <2> QED BY <2>2, <2>3
<1>10. ExpiredStaysExpired'
  <2>1. call.permit \in expired => ~valid
      BY <1>1, <1>5, SMTT(40) DEF IInv, ClockOK, Times, Permit
  <2> QED BY <2>1 DEF IInv, ExpiredStaysExpired, VerifyAuthorization
<1>11. ReturnedOK' /\ OneResult'
    BY DEF IInv, ReturnedOK, OneResult, VerifyAuthorization
<1> QED BY <1>4, <1>8, <1>9, <1>10, <1>11 DEF IInv

LEMMA LockInv ==
    ASSUME IInv, NEW c \in Callers, Lock(c)
    PROVE  IInv'
<1> USE ExecutionAssumption DEF ExecutionAssumption
<1>1. /\ now \in Times /\ ProcessOf[c] \in Processes
      /\ calls \in [Callers -> CallRow] /\ calls[c].phase = "authorized"
      /\ calls[c].request \in Requests /\ calls[c].permit \in Permit
      /\ locks \in [Processes -> Callers \cup {None}]
    BY DEF IInv, TypeOK, CallsOK, Lock
<1>2. now + ClaimTime \in 0 .. MaxTime + ClaimTime
    BY <1>1, SMTT(40) DEF Times
<1>3. /\ calls' \in [Callers -> CallRow]
      /\ calls'[c].phase = "claiming" /\ calls'[c].request = calls[c].request
      /\ calls'[c].permit = calls[c].permit
      /\ \A d \in Callers : d # c => calls'[d] = calls[d]
  <2> DEFINE row == [calls[c] EXCEPT !.phase = "claiming",
                                     !.claim_until = now + ClaimTime]
  <2>1. calls' = [calls EXCEPT ![c] = row]
      BY <1>1 DEF Lock
  <2>2. /\ row \in CallRow /\ row.phase = "claiming"
        /\ row.request = calls[c].request /\ row.permit = calls[c].permit
    <3> DEFINE old == calls[c]
               until == now + ClaimTime
    <3>1. old \in CallRow /\ until \in 0 .. MaxTime + ClaimTime /\ "claiming" \in Phases
        BY <1>1, <1>2 DEF Phases
    <3> DEFINE a == [old EXCEPT !.phase = "claiming"]
               b == [a EXCEPT !.claim_until = until]
    <3> HIDE DEF old, until
    <3>2. /\ a \in CallRow /\ a.phase = "claiming"
          /\ a.request = old.request /\ a.permit = old.permit
        BY <3>1 DEF CallRow
    <3>3. row = b
        BY DEF old, until
    <3> HIDE DEF a, row
    <3>4. /\ b \in CallRow /\ b.phase = a.phase
          /\ b.request = a.request /\ b.permit = a.permit
        BY <3>1, <3>2 DEF CallRow
    <3> QED BY <3>2, <3>3, <3>4 DEF old
  <2> HIDE DEF row
  <2> QED BY <1>1, <2>1, <2>2
<1>4. CallsOK'
    BY <1>1, <1>3 DEF IInv, CallsOK, Lock, Bound
<1>5. \A d \in Callers : calls'[d].phase \in Held <=> locks'[ProcessOf[d]] = d
  <2> SUFFICES ASSUME NEW d \in Callers
               PROVE  calls'[d].phase \in Held <=> locks'[ProcessOf[d]] = d
      OBVIOUS
  <2>1. calls[d].phase \in Held <=> locks[ProcessOf[d]] = d
      BY DEF IInv, TypeOK, Held
  <2>2. locks[ProcessOf[c]] = None /\ ProcessOf[d] \in Processes
      BY DEF Lock
  <2>3. locks' = [locks EXCEPT ![ProcessOf[c]] = c]
      BY DEF Lock
  <2>4. CASE d = c
      BY <1>1, <1>3, <2>3, <2>4 DEF Held
  <2>5. CASE d # c
      BY <1>1, <1>3, <2>1, <2>2, <2>3, <2>5
  <2> QED BY <2>4, <2>5
<1>6. locks' \in [Processes -> Callers \cup {None}]
    BY <1>1 DEF Lock
<1>7. \A d \in Callers : calls'[d].phase \in Phases
    BY <1>3 DEF CallRow
<1>8. TypeOK'
    BY <1>5, <1>6, <1>7 DEF IInv, TypeOK, Lock, Held, clockVars, historyVars
<1> QED BY <1>4, <1>8, TablesKept DEF IInv, Lock, clockVars

LEMMA ClaimInv ==
    ASSUME IInv, NEW c \in Callers, Claim(c)
    PROVE  IInv'
<1> USE ExecutionAssumption DEF ExecutionAssumption
<1> DEFINE x == calls[c].permit.id
           fresh == [request |-> calls[c].request, result |-> None,
                     claim_token |-> c, claim_until |-> calls[c].claim_until]
<1>1. /\ calls \in [Callers -> CallRow] /\ calls[c].phase = "claiming"
      /\ calls[c].request \in Requests /\ calls[c].permit \in Permit
      /\ bindings \in [Executions -> BindingRow \cup {None}]
    BY DEF IInv, TypeOK, CallsOK, Claim
<1>2. x \in Executions
    BY <1>1 DEF Permit
<1>3. fresh \in BindingRow /\ fresh.request = calls[c].request
      /\ fresh.result = None
    BY <1>1 DEF BindingRow, CallRow
<1>4. /\ bindings' = [bindings EXCEPT ![x] = fresh]
      /\ calls' = [calls EXCEPT ![c].phase = "invoking"]
      /\ bindings[x] # None =>
            bindings[x].request = calls[c].request /\ bindings[x].result = None
    BY DEF Claim
<1> HIDE DEF fresh
<1>5. /\ bindings' \in [Executions -> BindingRow \cup {None}]
      /\ bindings'[x] = fresh
      /\ \A y \in Executions : y # x => bindings'[y] = bindings[y]
    BY <1>1, <1>2, <1>3, <1>4
<1>6. /\ calls' \in [Callers -> CallRow] /\ calls'[c].phase = "invoking"
      /\ calls'[c].request = calls[c].request /\ calls'[c].permit = calls[c].permit
      /\ \A d \in Callers : d # c => calls'[d] = calls[d]
    BY <1>1, <1>4, SMTT(40) DEF CallRow, Phases
<1>7. \A d \in Callers : calls[d].phase \in Bound =>
          /\ calls[d].permit.id \in Executions
          /\ bindings[calls[d].permit.id] \in BindingRow
          /\ bindings[calls[d].permit.id].request = calls[d].request
    BY DEF IInv, CallsOK, Bound, Permit
<1>8. ASSUME NEW d \in Callers, calls'[d].phase \in Bound
      PROVE  /\ bindings'[calls'[d].permit.id] \in BindingRow
             /\ bindings'[calls'[d].permit.id].request = calls'[d].request
  <2>1. CASE d = c
      BY <1>3, <1>5, <1>6, <2>1
  <2>2. CASE d # c
    <3>1. calls'[d] = calls[d] /\ calls[d].phase \in Bound
        BY <1>6, <1>8, <2>2
    <3>2. CASE calls[d].permit.id = x
      <4>1. bindings[x] \in BindingRow /\ bindings[x].request = calls[d].request
          BY <1>7, <3>1, <3>2
      <4>2. bindings[x] # None
          BY <4>1, NoRowAssumption
      <4> QED BY <1>3, <1>4, <1>5, <3>1, <3>2, <4>1, <4>2, SMTT(40)
    <3>3. CASE calls[d].permit.id # x
        BY <1>5, <1>7, <3>1, <3>3, SMTT(40)
    <3> QED BY <3>2, <3>3
  <2> QED BY <2>1, <2>2
<1>9. CallsOK'
    BY <1>1, <1>6, <1>8 DEF IInv, CallsOK
<1>10. TypeOK'
  <2>1. \A y \in Executions : bindings'[y] # None =>
            (bindings'[y].result # None => bindings'[y].claim_token = None)
      BY <1>3, <1>5, SMTT(40) DEF IInv, TypeOK
  <2>2. \A d \in Callers : /\ calls'[d].phase \in Phases
                           /\ calls'[d].phase \in Held <=> calls[d].phase \in Held
      BY <1>1, <1>6 DEF CallRow, Held
  <2> QED BY <1>5, <2>1, <2>2
          DEF IInv, TypeOK, Claim, Held, clockVars, historyVars
<1>11. ASSUME NEW r \in returned
       PROVE  r.id # x /\ r.id \in Executions /\ bindings'[r.id] = bindings[r.id]
  <2>1. /\ r.id \in Executions /\ r.result # None
        /\ bindings[r.id] \in BindingRow /\ bindings[r.id].result = r.result
      BY DEF IInv, ReturnedOK, OneResult
  <2>2. bindings[r.id] # None
      BY <2>1, NoRowAssumption
  <2> QED BY <1>4, <1>5, <2>1, <2>2
<1>12. ReturnedOK' /\ OneResult'
    BY <1>11, SMTT(40) DEF IInv, ReturnedOK, OneResult, Claim, historyVars
<1>13. ClockOK' /\ ExpiredStaysExpired'
    BY DEF IInv, ClockOK, ExpiredStaysExpired, Claim, historyVars, clockVars
<1> QED BY <1>9, <1>10, <1>12, <1>13 DEF IInv

(* A row of an execution that a call has claimed, rewritten in place: the  *)
(* request stays, and a result does not come beside a claim.               *)
LEMMA RewrittenRow ==
    ASSUME IInv, NEW c \in Callers, EndCall(c), NEW x \in Executions,
           NEW row \in BindingRow, bindings[x] \in BindingRow,
           bindings' = [bindings EXCEPT ![x] = row],
           row.request = bindings[x].request,
           row.result # None => row.claim_token = None,
           UNCHANGED <<now, clockVars, expired, accepted>>
    PROVE  TypeOK' /\ CallsOK' /\ ClockOK' /\ ExpiredStaysExpired'
<1>1. /\ bindings' \in [Executions -> BindingRow \cup {None}]
      /\ bindings'[x] = row
      /\ \A y \in Executions : y # x => bindings'[y] = bindings[y]
    BY DEF IInv, TypeOK
<1>2. TypeOK'
  <2>1. \A y \in Executions : bindings'[y] # None =>
            (bindings'[y].result # None => bindings'[y].claim_token = None)
      BY <1>1 DEF IInv, TypeOK
  <2> QED BY <1>1, <2>1, EndedCall
          DEF IInv, TypeOK, Held, clockVars
<1>3. CallsOK'
  <2>1. calls'[c] = Idle /\ calls' \in [Callers -> CallRow]
        /\ \A d \in Callers : d # c => calls'[d] = calls[d]
      BY EndedCall
  <2>2. \A y \in Executions : bindings[y] \in BindingRow =>
            bindings'[y] \in BindingRow /\ bindings'[y].request = bindings[y].request
      BY <1>1
  <2>3. ASSUME NEW d \in Callers
        PROVE  /\ calls'[d].phase # "idle" =>
                     calls'[d].request \in Requests /\ calls'[d].permit \in Permit
               /\ calls'[d].phase = "answered" => calls'[d].result \in Results
               /\ calls'[d].phase \in Bound =>
                     /\ bindings'[calls'[d].permit.id] \in BindingRow
                     /\ bindings'[calls'[d].permit.id].request = calls'[d].request
    <3>1. CASE d = c
        BY <2>1, <3>1, SMTT(40) DEF Idle, Bound
    <3>2. CASE d # c
      <4>1. calls'[d] = calls[d]
          BY <2>1, <3>2
      <4>2. calls[d].phase \in Bound => calls[d].permit.id \in Executions
          BY DEF IInv, CallsOK, Bound, Permit
      <4> QED BY <2>2, <4>1, <4>2, SMTT(40) DEF IInv, CallsOK
    <3> QED BY <3>1, <3>2
  <2> QED BY <2>1, <2>3 DEF CallsOK
<1>4. ClockOK' /\ ExpiredStaysExpired'
    BY DEF IInv, ClockOK, ExpiredStaysExpired, clockVars
<1> QED BY <1>2, <1>3, <1>4

LEMMA ReleaseInv ==
    ASSUME IInv, NEW c \in Callers, ReleaseClaim(c)
    PROVE  IInv'
<1> USE ExecutionAssumption DEF ExecutionAssumption
<1> DEFINE x == calls[c].permit.id
           a == [bindings[x] EXCEPT !.claim_token = None]
           row == [a EXCEPT !.claim_until = 0]
<1>1. /\ x \in Executions /\ bindings[x] \in BindingRow
      /\ bindings \in [Executions -> BindingRow \cup {None}]
    BY DEF IInv, TypeOK, CallsOK, ReleaseClaim, Bound, Permit
<1>2. CASE bindings[x].claim_token = c /\ bindings[x].result = None
  <2>1. a \in BindingRow /\ a.request = bindings[x].request
        /\ a.claim_token = None /\ a.result = None
      BY <1>1, <1>2 DEF BindingRow
  <2>2. row \in BindingRow /\ row.request = bindings[x].request
        /\ row.claim_token = None /\ row.result = None
    <3> HIDE DEF a
    <3>1. 0 \in 0 .. MaxTime + ClaimTime
        BY SMTT(40)
    <3> QED BY <2>1, <3>1 DEF BindingRow
  <2>3. bindings' = [bindings EXCEPT ![x] = row]
      BY <1>1, <1>2 DEF ReleaseClaim
  <2>4. UNCHANGED <<now, clockVars, historyVars>> /\ EndCall(c)
      BY DEF ReleaseClaim
  <2> HIDE DEF row
  <2>5. TypeOK' /\ CallsOK' /\ ClockOK' /\ ExpiredStaysExpired'
      BY <1>1, <2>2, <2>3, <2>4, RewrittenRow DEF historyVars
  <2>6. \A r \in returned : r.id # x /\ r.id \in Executions
      BY <1>2, SMTT(40) DEF IInv, ReturnedOK, OneResult
  <2>7. \A y \in Executions : y # x => bindings'[y] = bindings[y]
      BY <1>1, <2>3
  <2>8. ReturnedOK' /\ OneResult'
      BY <2>4, <2>6, <2>7 DEF IInv, ReturnedOK, OneResult, historyVars
  <2> QED BY <2>5, <2>8 DEF IInv
<1>3. CASE ~(bindings[x].claim_token = c /\ bindings[x].result = None)
    BY <1>3, EndedInv DEF ReleaseClaim
<1> QED BY <1>2, <1>3

LEMMA StoreInv ==
    ASSUME IInv, NEW c \in Callers, StoreResult(c)
    PROVE  IInv'
<1> USE ExecutionAssumption DEF ExecutionAssumption
<1> DEFINE x == calls[c].permit.id
           a == [bindings[x] EXCEPT !.result = calls[c].result]
           b == [a EXCEPT !.claim_token = None]
           row == [b EXCEPT !.claim_until = 0]
           answer == [id |-> x, request |-> calls[c].request,
                      result |-> calls[c].result]
<1>1. /\ x \in Executions /\ bindings[x] \in BindingRow
      /\ bindings \in [Executions -> BindingRow \cup {None}]
      /\ calls[c].request \in Requests /\ calls[c].result \in Results
      /\ bindings[x].request = calls[c].request
    BY DEF IInv, TypeOK, CallsOK, StoreResult, Bound, Permit
<1>2. CASE bindings[x].claim_token = c
  <2>1. a \in BindingRow /\ a.request = bindings[x].request
        /\ a.result = calls[c].result
      BY <1>1 DEF BindingRow
  <2>2. b \in BindingRow /\ b.request = bindings[x].request
        /\ b.result = calls[c].result /\ b.claim_token = None
    <3> HIDE DEF a
    <3> QED BY <2>1 DEF BindingRow
  <2>3. row \in BindingRow /\ row.request = bindings[x].request
        /\ row.result = calls[c].result /\ row.claim_token = None
    <3> HIDE DEF b
    <3>1. 0 \in 0 .. MaxTime + ClaimTime
        BY SMTT(40)
    <3> QED BY <2>2, <3>1 DEF BindingRow
  <2>4. bindings' = [bindings EXCEPT ![x] = row] /\ returned' = returned \cup {answer}
      BY <1>1, <1>2 DEF StoreResult
  <2>5. UNCHANGED <<now, clockVars, expired, accepted>> /\ EndCall(c)
      BY DEF StoreResult
  <2> HIDE DEF row
  <2>6. TypeOK' /\ CallsOK' /\ ClockOK' /\ ExpiredStaysExpired'
      BY <1>1, <2>3, <2>4, <2>5, RewrittenRow
  <2>7. bindings[x].result = None
    <3>1. bindings[x] # None
        BY <1>1, NoRowAssumption
    <3> QED BY <1>1, <1>2, <3>1 DEF IInv, TypeOK
  <2>8. \A r \in returned : r.id # x /\ r.id \in Executions
      BY <2>7 DEF IInv, ReturnedOK, OneResult
  <2>9. bindings'[x] = row /\ \A y \in Executions : y # x => bindings'[y] = bindings[y]
      BY <1>1, <2>4
  <2>10. /\ answer \in [id : Executions, request : Requests, result : Results]
         /\ answer.id = x /\ answer.request = calls[c].request
         /\ answer.result = calls[c].result
      BY <1>1
  <2> HIDE DEF answer
  <2>11. ReturnedOK' /\ OneResult'
      BY <1>1, <2>3, <2>4, <2>8, <2>9, <2>10, SMTT(40)
         DEF IInv, ReturnedOK, OneResult
  <2> QED BY <2>6, <2>11 DEF IInv
<1>3. CASE bindings[x].claim_token # c
    BY <1>3, EndedInv DEF StoreResult, historyVars
<1> QED BY <1>2, <1>3

LEMMA AnswerInv ==
    ASSUME IInv, NEW c \in Callers, NEW result,
           (result \in Results /\ Answer(c, result)) \/ Fail(c)
    PROVE  IInv'
<1> DEFINE a == [calls[c] EXCEPT !.phase = "answered"]
           row == IF ~Fail(c) THEN [a EXCEPT !.result = result]
                  ELSE [calls[c] EXCEPT !.phase = "failed"]
<1>1. /\ calls[c] \in CallRow /\ calls[c].phase = "invoking"
      /\ calls[c].request \in Requests /\ calls[c].permit \in Permit
      /\ calls \in [Callers -> CallRow]
      /\ bindings[calls[c].permit.id] \in BindingRow
      /\ bindings[calls[c].permit.id].request = calls[c].request
    BY DEF IInv, CallsOK, Answer, Fail, Bound
<1>2. /\ a \in CallRow /\ a.phase = "answered"
      /\ a.request = calls[c].request /\ a.permit = calls[c].permit
    BY <1>1 DEF CallRow, Phases
<1>3. /\ row \in CallRow /\ row.phase \in {"answered", "failed"}
      /\ row.request = calls[c].request /\ row.permit = calls[c].permit
      /\ row.phase = "answered" => row.result \in Results
  <2>1. CASE ~Fail(c)
    <3> HIDE DEF a
    <3> QED BY <1>2, <2>1 DEF CallRow
  <2>2. CASE Fail(c)
      BY <1>1, <2>2 DEF CallRow, Phases
  <2> QED BY <2>1, <2>2
<1>4. calls' = [calls EXCEPT ![c] = row]
    BY <1>1 DEF Answer, Fail
<1>5. UNCHANGED <<now, clockVars, bindings, locks, historyVars>>
    BY DEF Answer, Fail
<1> HIDE DEF row
<1>6. /\ CallsOK'
      /\ \A d \in Callers : /\ calls'[d].phase \in Phases
                            /\ calls'[d].phase \in Held <=> locks'[ProcessOf[d]] = d
  <2>1. row.phase \in Held /\ calls[c].phase \in Held /\ row.phase # "idle"
      BY <1>1, <1>3 DEF Held
  <2> QED BY <1>1, <1>3, <1>4, <1>5, <2>1, MovedInv
<1>7. TypeOK'
    BY <1>5, <1>6 DEF IInv, TypeOK, Held, clockVars, historyVars
<1> QED BY <1>5, <1>6, <1>7, TablesKept DEF IInv, clockVars

LEMMA CachedInv ==
    ASSUME IInv, NEW c \in Callers, Cached(c)
    PROVE  IInv'
<1> DEFINE x == calls[c].permit.id
           answer == [id |-> x, request |-> calls[c].request,
                      result |-> bindings[x].result]
<1>1. /\ x \in Executions /\ calls[c].request \in Requests
      /\ bindings[x] \in BindingRow /\ bindings[x].result \in Results
      /\ bindings[x].request = calls[c].request
    BY SMTT(40) DEF IInv, TypeOK, CallsOK, Cached, Permit, BindingRow
<1>2. UNCHANGED <<now, clockVars, bindings, expired, accepted>> /\ EndCall(c)
      /\ returned' = returned \cup {answer}
    BY DEF Cached
<1>3. TypeOK'
    BY <1>2, EndedCall DEF IInv, TypeOK, Held, clockVars
<1>4. CallsOK'
    BY <1>2, EndedCall, SMTT(40) DEF IInv, CallsOK, Idle, Bound
<1>5. ReturnedOK' /\ OneResult'
  <2>1. /\ answer \in [id : Executions, request : Requests, result : Results]
        /\ answer.id = x /\ answer.request = bindings[x].request
        /\ answer.result = bindings[x].result
      BY <1>1
  <2> HIDE DEF answer
  <2> QED BY <1>1, <1>2, <2>1 DEF IInv, ReturnedOK, OneResult
<1>6. ClockOK' /\ ExpiredStaysExpired'
    BY <1>2 DEF IInv, ClockOK, ExpiredStaysExpired, clockVars
<1> QED BY <1>3, <1>4, <1>5, <1>6 DEF IInv

LEMMA NextInv == IInv /\ [Next]_vars => IInv'
<1> SUFFICES ASSUME IInv, [Next]_vars PROVE IInv'
    OBVIOUS
<1>1. CASE Tick \/ SetBack
    BY <1>1, ClockInv
<1>2. CASE \E p \in Processes : Restart(p)
    BY <1>2, RestartInv
<1>3. ASSUME NEW c \in Callers,
             \/ \E x \in Executions, request \in Requests : Dispatch(c, x, request)
             \/ \E result \in Results : Answer(c, result)
             \/ VerifyAuthorization(c) \/ Lock(c) \/ Claim(c) \/ Cached(c)
             \/ ReleaseClaim(c) \/ StoreResult(c)
      PROVE  IInv'
    BY <1>3, DispatchInv, AnswerInv, VerifyInv, LockInv, ClaimInv, CachedInv,
       ReleaseInv, StoreInv
<1>4. ASSUME NEW c \in Callers, Refused(c) \/ Raise(c)
      PROVE  IInv'
    BY <1>4, EndedInv DEF Refused, Raise
<1>5. ASSUME NEW c \in Callers, Fail(c)
      PROVE  IInv'
    BY <1>5, AnswerInv
<1>6. CASE UNCHANGED vars
  <2>1. TypeOK' /\ CallsOK'
      BY <1>6 DEF IInv, TypeOK, CallsOK, vars, clockVars, historyVars
  <2> QED BY <1>6, <2>1, TablesKept DEF IInv, vars, clockVars
<1> QED BY <1>1, <1>2, <1>3, <1>4, <1>5, <1>6 DEF Next
-----------------------------------------------------------------------------
LEMMA InvHolds == Spec => []IInv
BY InitInv, NextInv, PTL DEF Spec

(* Rows and calls are well formed, a stored result has no claim beside it, *)
(* and one call at a time has a process's adapter.                         *)
THEOREM WellFormed == Spec => []TypeOK
<1>1. IInv => TypeOK
    BY DEF IInv
<1> QED BY <1>1, InvHolds, PTL

(* Whatever claims run out and whichever calls answer late, every caller   *)
(* of an execution gets the stored result, for the request it was first    *)
(* bound to (_execute_authorized).                                         *)
THEOREM ResultsAgree == Spec => []OneResult
<1>1. IInv => OneResult
    BY DEF IInv
<1> QED BY <1>1, InvHolds, PTL

(* A permit that was found expired is accepted by no adapter again,        *)
(* whatever restarts and however the clock is set (_authorization_now).    *)
THEOREM ExpiryIsFinal == Spec => []ExpiredStaysExpired
<1>1. IInv => ExpiredStaysExpired
    BY DEF IInv
<1> QED BY <1>1, InvHolds, PTL

(* A claim that still has time ends only with the call that made it.       *)
THEOREM ClaimsAreKept == Spec => ClaimEndsWithItsCall
<1> DEFINE A == \A x \in Executions :
                    bindings[x] # None /\ ClaimActive(bindings[x])
                          /\ bindings'[x].claim_token # bindings[x].claim_token
                    => calls[bindings[x].claim_token].phase \in {"answered", "failed"}
                          /\ calls'[bindings[x].claim_token].phase = "idle"
<1>1. ASSUME IInv, Next PROVE A
  <2> SUFFICES ASSUME NEW x \in Executions, bindings[x] # None,
                      ClaimActive(bindings[x]),
                      bindings'[x].claim_token # bindings[x].claim_token
               PROVE  /\ calls[bindings[x].claim_token].phase \in {"answered", "failed"}
                      /\ calls'[bindings[x].claim_token].phase = "idle"
      OBVIOUS
  <2>0. bindings \in [Executions -> BindingRow \cup {None}]
      BY <1>1 DEF IInv, TypeOK
  <2>1. PICK c \in Callers : Claim(c) \/ ReleaseClaim(c) \/ StoreResult(c)
    <3>1. bindings' # bindings
        OBVIOUS
    <3> QED BY <1>1, <3>1
               DEF Next, Tick, SetBack, Restart, Dispatch, Answer,
                   VerifyAuthorization, Lock, Cached, Refused, Fail, Raise
  <2>2. ~Claim(c)
    <3> SUFFICES ASSUME Claim(c) PROVE FALSE
        OBVIOUS
    <3>1. x = calls[c].permit.id
        BY <2>0 DEF Claim
    <3> QED BY <3>1 DEF Claim
  <2>3. /\ x = calls[c].permit.id /\ bindings[x].claim_token = c
        /\ calls[c].phase \in {"answered", "failed"} /\ EndCall(c)
      BY <2>0, <2>1, <2>2 DEF ReleaseClaim, StoreResult
  <2>4. calls'[c].phase = "idle"
      BY <1>1, <2>3, EndedCall, SMTT(40) DEF Idle
  <2> QED BY <2>3, <2>4
<1>2. IInv /\ [Next]_vars => [A]_vars
    BY <1>1
<1> QED BY <1>2, InvHolds, PTL DEF Spec, ClaimEndsWithItsCall
=============================================================================
