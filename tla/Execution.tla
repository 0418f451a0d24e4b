------------------------------ MODULE Execution ------------------------------
(***************************************************************************)
(* Dispatch of an admitted workload to the external execution provider:    *)
(* WorkloadAssignmentAuthority.dispatch_execution issues a short permit,   *)
(* ExternalExecutionAdapter._execute_authorized verifies it against a      *)
(* durable clock, claims the execution in a shared SQLite table, calls the *)
(* provider with no transaction open and stores the answer.                *)
(*                                                                         *)
(* Callers are threads; the threads of a process share its adapter, whose  *)
(* lock one of them holds from the claim to the end of the call.  Several  *)
(* processes share the table.  An assignment id is the execution id; a     *)
(* request stands for its digest.  A claim's token is unique to a call and *)
(* is modelled by the caller: a dead call of the caller never uses it      *)
(* again.                                                                  *)
(***************************************************************************)
EXTENDS Integers

CONSTANTS
    Callers, Processes, ProcessOf,
    Executions,         \* assignment ids, each an execution id
    Requests,           \* digests of manifest and configuration
    Results,            \* answers of the provider
    None,
    AssignmentExpiry,   \* when the assignment behind an execution expires
    PermitTTL,          \* 30 s in the code
    ClaimTime,          \* the provider's timeout and 5 s
    MaxTime

ASSUME ExecutionAssumption ==
    /\ ProcessOf \in [Callers -> Processes]
    /\ AssignmentExpiry \in [Executions -> Nat]
    /\ {PermitTTL, ClaimTime} \subseteq Nat \ {0}
    /\ MaxTime \in Nat
    /\ None \notin Callers \cup Results \cup Nat

VARIABLES
    now,            \* the wall clock
    high_water,     \* table workload_execution_clock_v1
    bindings,       \* table workload_execution_bindings_v1
    authority_seen, \* a process's assignment authority's last sample
    adapter_seen,   \* a process's adapter's last sample
    locks,          \* who holds a process's adapter
    calls,          \* calls in flight
    expired,        \* history: permits some adapter found expired
    accepted,       \* history: whether the last permit accepted was one of them
    returned        \* history: the results returned

historyVars == <<expired, accepted, returned>>
clockVars == <<high_water, authority_seen, adapter_seen>>
vars == <<now, clockVars, bindings, locks, calls, historyVars>>
-----------------------------------------------------------------------------
Times == 0 .. MaxTime

Permit == [id : Executions, issued_at : Times, expires_at : 1 .. MaxTime + PermitTTL]

BindingRow == [request : Requests, result : Results \cup {None},
               claim_token : Callers \cup {None},
               claim_until : 0 .. MaxTime + ClaimTime]

(* An execution without a row is not one with a row.                       *)
ASSUME NoRowAssumption == None \notin BindingRow

Phases == {"idle", "dispatched", "authorized", "claiming", "invoking",
           "answered", "failed"}

Idle == [phase |-> "idle", request |-> None, permit |-> None,
         claim_until |-> 0, result |-> None]

Init ==
    /\ now = 0 /\ high_water = 0
    /\ bindings = [x \in Executions |-> None]
    /\ authority_seen = [p \in Processes |-> 0]
    /\ adapter_seen = [p \in Processes |-> 0]
    /\ locks = [p \in Processes |-> None]
    /\ calls = [c \in Callers |-> Idle]
    /\ expired = {} /\ accepted = "fresh" /\ returned = {}
-----------------------------------------------------------------------------
Tick ==
    /\ now < MaxTime
    /\ now' = now + 1
    /\ UNCHANGED <<clockVars, bindings, locks, calls, historyVars>>

SetBack ==
    /\ now > 0
    /\ now' = now - 1
    /\ UNCHANGED <<clockVars, bindings, locks, calls, historyVars>>

Least(a, b) == IF a <= b THEN a ELSE b

(* dispatch_execution, up to the adapter: a permit within the assignment.  *)
Dispatch(c, x, request) ==
    LET p == ProcessOf[c]
        expires == Least(AssignmentExpiry[x], now + PermitTTL)
    IN  /\ calls[c].phase = "idle"
        /\ now >= authority_seen[p]
        /\ now < AssignmentExpiry[x]
        /\ authority_seen' = [authority_seen EXCEPT ![p] = now]
        /\ calls' = [calls EXCEPT ![c] =
               [Idle EXCEPT !.phase = "dispatched", !.request = request,
                            !.permit = [id |-> x, issued_at |-> now,
                                        expires_at |-> expires]]]
        /\ UNCHANGED <<now, high_water, adapter_seen, bindings, locks,
                       historyVars>>

(* Faulty variant: only the process remembers the clock.                   *)
AuthorizationNowInMemory(p) ==
    /\ now >= adapter_seen[p]
    /\ high_water' = now
    /\ adapter_seen' = [adapter_seen EXCEPT ![p] = now]

(* _authorization_now: the sample is behind neither the process's last one *)
(* nor the stored one, and becomes both.                                   *)
AuthorizationNow(p) ==
    /\ now >= adapter_seen[p]
    /\ now >= high_water
    /\ high_water' = now
    /\ adapter_seen' = [adapter_seen EXCEPT ![p] = now]

(* _verify_authorization.  A permit found expired is refused.              *)
VerifyAuthorization(c) ==
    LET call == calls[c]
        valid == call.permit.issued_at <= now /\ now < call.permit.expires_at
    IN  /\ call.phase = "dispatched"
        /\ AuthorizationNow(ProcessOf[c])
        /\ calls' = [calls EXCEPT ![c] =
               IF valid THEN [call EXCEPT !.phase = "authorized"] ELSE Idle]
        /\ expired' = IF now >= call.permit.expires_at
                      THEN expired \cup {call.permit} ELSE expired
        /\ accepted' = IF valid /\ call.permit \in expired THEN "expired" ELSE accepted
        /\ UNCHANGED <<now, authority_seen, bindings, locks, returned>>
-----------------------------------------------------------------------------
(* The call ends and, where it had the adapter, gives it back.             *)
EndCall(c) ==
    /\ calls' = [calls EXCEPT ![c] = Idle]
    /\ locks' = [locks EXCEPT ![ProcessOf[c]] = IF @ = c THEN None ELSE @]

(* with self._state_lock: the end of the claim is computed before the      *)
(* database is opened.                                                     *)
Lock(c) ==
    /\ calls[c].phase = "authorized"
    /\ locks[ProcessOf[c]] = None
    /\ locks' = [locks EXCEPT ![ProcessOf[c]] = c]
    /\ calls' = [calls EXCEPT ![c].phase = "claiming",
                              ![c].claim_until = now + ClaimTime]
    /\ UNCHANGED <<now, clockVars, bindings, historyVars>>

(* A claim that another call still has time for.                           *)
ClaimActive(row) == row.claim_token # None /\ row.claim_until > now

(* The claim transaction: takes the execution, or takes it over from a     *)
(* call whose time is up.                                                  *)
Claim(c) ==
    LET call == calls[c]
        x == call.permit.id
        row == bindings[x]
        fresh == [request |-> call.request, result |-> None,
                  claim_token |-> c, claim_until |-> call.claim_until]
    IN  /\ call.phase = "claiming"
        /\ row # None =>
              row.request = call.request /\ row.result = None /\ ~ClaimActive(row)
        /\ bindings' = [bindings EXCEPT ![x] = fresh]
        /\ calls' = [calls EXCEPT ![c].phase = "invoking"]
        /\ UNCHANGED <<now, clockVars, locks, historyVars>>

(* A stored result is returned as it is.                                   *)
Cached(c) ==
    LET x == calls[c].permit.id
    IN  /\ calls[c].phase = "claiming"
        /\ bindings[x] # None
        /\ bindings[x].request = calls[c].request
        /\ bindings[x].result # None
        /\ returned' = returned \cup {[id |-> x, request |-> calls[c].request,
                                       result |-> bindings[x].result]}
        /\ EndCall(c)
        /\ UNCHANGED <<now, clockVars, bindings, expired, accepted>>

(* idempotency_conflict and in_progress.                                   *)
Refused(c) ==
    LET row == bindings[calls[c].permit.id]
    IN  /\ calls[c].phase = "claiming"
        /\ row # None
        /\ \/ row.request # calls[c].request
           \/ row.result = None /\ ClaimActive(row)
        /\ EndCall(c)
        /\ UNCHANGED <<now, clockVars, bindings, historyVars>>

(* The provider answers: it may report more of the job every time.         *)
Answer(c, result) ==
    /\ calls[c].phase = "invoking"
    /\ calls' = [calls EXCEPT ![c].phase = "answered", ![c].result = result]
    /\ UNCHANGED <<now, clockVars, bindings, locks, historyVars>>

(* A timeout, a lost connection, a malformed or a mismatched answer.       *)
Fail(c) ==
    /\ calls[c].phase = "invoking"
    /\ calls' = [calls EXCEPT ![c].phase = "failed"]
    /\ UNCHANGED <<now, clockVars, bindings, locks, historyVars>>

(* Faulty variant: a failed call frees the execution whoever holds it.     *)
ReleaseAnyClaim(c) ==
    LET x == calls[c].permit.id
    IN  /\ calls[c].phase = "failed"
        /\ bindings' = IF bindings[x].result = None
                       THEN [bindings EXCEPT ![x].claim_token = None,
                                             ![x].claim_until = 0]
                       ELSE bindings
        /\ EndCall(c)
        /\ UNCHANGED <<now, clockVars, historyVars>>

ReleaseClaim(c) ==
    LET x == calls[c].permit.id
    IN  /\ calls[c].phase = "failed"
        /\ bindings' = IF bindings[x].claim_token = c /\ bindings[x].result = None
                       THEN [bindings EXCEPT ![x].claim_token = None,
                                             ![x].claim_until = 0]
                       ELSE bindings
        /\ EndCall(c)
        /\ UNCHANGED <<now, clockVars, historyVars>>

(* Faulty variant: the answer is stored unless another call has the claim. *)
StoreUnlessClaimed(c) ==
    LET x == calls[c].permit.id
        held == bindings[x].claim_token \in {c, None}
    IN  /\ calls[c].phase = "answered"
        /\ bindings' = IF held
                       THEN [bindings EXCEPT ![x].result = calls[c].result,
                                             ![x].claim_token = None,
                                             ![x].claim_until = 0]
                       ELSE bindings
        /\ returned' = IF held
                       THEN returned \cup {[id |-> x, request |-> calls[c].request,
                                           result |-> calls[c].result]}
                       ELSE returned
        /\ EndCall(c)
        /\ UNCHANGED <<now, clockVars, expired, accepted>>

(* The answer is stored by the holder of the claim only; a call that lost  *)
(* its claim raises.                                                       *)
StoreResult(c) ==
    LET x == calls[c].permit.id
        held == bindings[x].claim_token = c
    IN  /\ calls[c].phase = "answered"
        /\ bindings' = IF held
                       THEN [bindings EXCEPT ![x].result = calls[c].result,
                                             ![x].claim_token = None,
                                             ![x].claim_until = 0]
                       ELSE bindings
        /\ returned' = IF held
                       THEN returned \cup {[id |-> x, request |-> calls[c].request,
                                           result |-> calls[c].result]}
                       ELSE returned
        /\ EndCall(c)
        /\ UNCHANGED <<now, clockVars, expired, accepted>>

(* A clock that ran backwards, or a database that is not available: before *)
(* the claim nothing is left behind, after it the claim stays.             *)
Raise(c) ==
    /\ calls[c].phase # "idle"
    /\ EndCall(c)
    /\ UNCHANGED <<now, clockVars, bindings, historyVars>>

(* A process stops with whatever it was doing.                             *)
Restart(p) ==
    /\ calls' = [c \in Callers |-> IF ProcessOf[c] = p THEN Idle ELSE calls[c]]
    /\ locks' = [locks EXCEPT ![p] = None]
    /\ authority_seen' = [authority_seen EXCEPT ![p] = 0]
    /\ adapter_seen' = [adapter_seen EXCEPT ![p] = 0]
    /\ UNCHANGED <<now, high_water, bindings, historyVars>>

Next ==
    \/ Tick \/ SetBack
    \/ \E p \in Processes : Restart(p)
    \/ \E c \in Callers :
          \/ \E x \in Executions, request \in Requests : Dispatch(c, x, request)
          \/ \E result \in Results : Answer(c, result)
          \/ VerifyAuthorization(c) \/ Lock(c) \/ Claim(c) \/ Cached(c)
          \/ Refused(c) \/ Fail(c) \/ ReleaseClaim(c) \/ StoreResult(c) \/ Raise(c)

Spec == Init /\ [][Next]_vars
-----------------------------------------------------------------------------
(* Properties.                                                             *)

(* Rows are well formed: a stored result has no claim beside it, and a     *)
(* process's adapter is held only by a call past its permit check.         *)
TypeOK ==
    /\ now \in Times /\ high_water \in Times
    /\ bindings \in [Executions -> BindingRow \cup {None}]
    /\ authority_seen \in [Processes -> Times]
    /\ adapter_seen \in [Processes -> Times]
    /\ locks \in [Processes -> Callers \cup {None}]
    /\ expired \subseteq Permit
    /\ \A x \in Executions : bindings[x] # None =>
           (bindings[x].result # None => bindings[x].claim_token = None)
    /\ \A c \in Callers :
           /\ calls[c].phase \in Phases
           /\ calls[c].phase \in {"claiming", "invoking", "answered", "failed"}
                 <=> locks[ProcessOf[c]] = c

(* Every caller of an execution gets the same result, the stored one, even *)
(* when a slow call answers after another call took its claim over, and    *)
(* only for the request the execution was first bound to.                  *)
OneResult ==
    \A r \in returned : /\ bindings[r.id].result = r.result
                        /\ bindings[r.id].request = r.request

(* A claim that still has time ends only with the call that made it: no    *)
(* other call takes it over or frees it.                                   *)
ClaimEndsWithItsCall ==
    [][\A x \in Executions :
          bindings[x] # None /\ ClaimActive(bindings[x])
                /\ bindings'[x].claim_token # bindings[x].claim_token
          => calls[bindings[x].claim_token].phase \in {"answered", "failed"}
                /\ calls'[bindings[x].claim_token].phase = "idle"]_vars

(* A permit that any adapter has found expired is accepted by none again,  *)
(* across processes, restarts and clocks set back: the sample that found   *)
(* it expired is the durable high-water mark.                              *)
ExpiredStaysExpired == accepted = "fresh"
=============================================================================
