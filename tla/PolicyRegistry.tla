---------------------------- MODULE PolicyRegistry ----------------------------
(***************************************************************************)
(* The signed policy registry: the writers that install its releases       *)
(* (scripts/cathedral_measurement_approval.py), the anti-rollback state of *)
(* the runtimes that accept them (cathedral/policy_registry.py), and the   *)
(* receipts issued and verified under them (cathedral/receipt.py).         *)
(*                                                                         *)
(* A release is a record of its number, its publication time, its entries  *)
(* (profiles and receipt keys) and its approved measurements; two releases *)
(* have the same digest exactly when they are the same record.  The        *)
(* validity windows contain every time of the model.                       *)
(***************************************************************************)
EXTENDS Integers, FiniteSets

CONSTANTS
    Profiles,       \* ids of CPU-TDX profiles
    Keys,           \* ids of receipt signing keys
    Materials,      \* key material with its validity window
    First,          \* the release installed at the start
    Edits,          \* what an operator may sign: an id and its entry
    Operators,      \* operators, who install reviewed candidates
    Timers,         \* timers, which install reissues
    Runtimes,       \* runs of the runtime
    MinRelease,     \* minimum_release
    MaxRelease,     \* bound on the release number
    MaxTime,        \* bound on the clock
    MaxAge,         \* max_age_seconds
    MaxReceipts,    \* bound on the receipts
    MaxFails,       \* bound on the failures of writers
    None

Writers == Operators \cup Timers
Ids == Profiles \cup Keys
Times == 0 .. MaxTime
Statuses == {"active", "retiring", "retired", "revoked"}
Entries == [status : Statuses, since : Times, material : Materials]
Releases == 1 .. MaxRelease
Documents ==
    [release : Nat, at : Times, entries : [Ids -> Entries \cup {None}],
     approved : Nat]

ASSUME PolicyAssumption ==
    /\ First \in Documents /\ First.release <= MaxRelease
    /\ Edits \subseteq Ids \X (Entries \cup {None})
    /\ Profiles \cap Keys = {} /\ Operators \cap Timers = {}
    /\ MinRelease \in Nat /\ MaxRelease \in Nat /\ MaxTime \in Nat
    /\ MaxAge \in Nat /\ MaxReceipts \in Nat /\ MaxFails \in Nat
    /\ None \notin Entries \cup Documents \cup Writers

VARIABLES
    now,        \* the clock
    live,       \* the installed registry file
    archive,    \* the history directory: the files that are whole
    torn,       \* and those cut short, by the release they are named after
    journal,    \* install_prepared and install_committed records
    lock,       \* holder of the policy-writer lock
    pc,         \* where each writer is
    current,    \* what each writer read as the installed registry
    candidate,  \* the successor each writer has made
    reviewed,   \* what each operator reviewed it against
    fails,      \* failures of writers so far
    accepted,   \* the row of policy_registry_state
    loaded,     \* the release each runtime loaded
    running,    \* runtimes whose loaded release was accepted
    bound,      \* releases that epochs are bound to
    receipts    \* receipts issued

files == <<live, archive, torn, journal>>
writer == <<lock, pc, current, candidate, reviewed, fails>>
runtime == <<accepted, loaded, running, bound, receipts>>
vars == <<now, files, writer, runtime>>
-----------------------------------------------------------------------------
(* What a release is, and when one may follow another.                     *)

(* _TRANSITIONS and _RECEIPT_KEY_TRANSITIONS.                              *)
Transitions(i, status) ==
    CASE status = "active" -> IF i \in Profiles
                              THEN {"active", "retiring", "revoked"}
                              ELSE {"active", "retired", "revoked"}
      [] status = "retiring" -> {"retiring", "retired", "revoked"}
      [] status = "retired" -> IF i \in Profiles THEN {"retired"}
                               ELSE {"retired", "revoked"}
      [] OTHER -> {"revoked"}

(* Faulty variant: the key material is not compared.                       *)
SucceedsAnyMaterial(i, old, new) ==
    IF old = None
    THEN new # None => new.status = "active"
    ELSE /\ new # None
         /\ new.status \in Transitions(i, old.status)
         /\ IF new.status = old.status THEN new.since = old.since
                                       ELSE new.since > old.since

(* The rules of PolicyRegistryState.accept for one entry.                  *)
Succeeds(i, old, new) ==
    IF old = None
    THEN new # None => new.status = "active"
    ELSE /\ new # None
         /\ new.status \in Transitions(i, old.status)
         /\ IF new.status = old.status THEN new.since = old.since
                                       ELSE new.since > old.since
         /\ i \in Keys => new.material = old.material

(* Faulty variant: a lower release is not refused.                         *)
AcceptableAnyRelease(state, d, minimum) ==
    /\ d.release >= minimum
    /\ state # None /\ d # state =>
        /\ d.at >= state.at
        /\ \A i \in Ids : Succeeds(i, state.entries[i], d.entries[i])

(* PolicyRegistryState.accept of document d on the row state.              *)
Acceptable(state, d, minimum) ==
    /\ d.release >= minimum
    /\ state # None /\ d # state =>
        /\ d.release > state.release
        /\ d.at >= state.at
        /\ \A i \in Ids : Succeeds(i, state.entries[i], d.entries[i])

(* _receipt_key: a receipt key is not retired gradually.                   *)
KeyReadable(entry) == entry.status # "retiring"

(* verify_registry: published, no status change still to come, and, unless *)
(* it is read as history, fresh.                                           *)
Verified(d, historical) ==
    /\ d.at <= now
    /\ historical \/ now - d.at <= MaxAge
    /\ \A i \in Ids : d.entries[i] # None =>
           /\ d.entries[i].since <= now
           /\ i \in Keys => KeyReadable(d.entries[i])
    /\ \E p \in Profiles : d.entries[p] # None

(* PolicyRegistrySnapshot.to_policy: some profile is eligible.             *)
Usable(d) ==
    \E p \in Profiles :
        d.entries[p] # None /\ d.entries[p].status \in {"active", "retiring"}

(* _prove_registry_successor, on a copy of the runtimes' state.            *)
Proven(d, successor) ==
    /\ Acceptable(accepted, d, d.release)
    /\ Acceptable(d, successor, d.release)
-----------------------------------------------------------------------------
Init ==
    /\ now = 0
    /\ live = First /\ archive = {} /\ torn = {} /\ journal = {}
    /\ lock = None
    /\ pc = [w \in Writers |-> "idle"]
    /\ current = [w \in Writers |-> None]
    /\ candidate = [w \in Writers |-> None]
    /\ reviewed = [w \in Writers |-> None]
    /\ fails = 0
    /\ accepted = None
    /\ loaded = [v \in Runtimes |-> None]
    /\ running = {} /\ bound = {} /\ receipts = {}

Tick ==
    /\ now < MaxTime
    /\ now' = now + 1
    /\ UNCHANGED <<files, writer, runtime>>
-----------------------------------------------------------------------------
(* Making a candidate, without the lock.                                   *)

Prepare(w, d) ==
    /\ pc[w] = "idle" /\ candidate[w] = None
    /\ candidate' = [candidate EXCEPT ![w] = d]
    /\ reviewed' = [reviewed EXCEPT ![w] = live]
    /\ UNCHANGED <<now, files, lock, pc, current, fails, runtime>>

(* cmd_approve: one more measurement in an active profile.                 *)
Approve(w) ==
    /\ live.release < MaxRelease
    /\ \E p \in Profiles :
           live.entries[p] # None /\ live.entries[p].status = "active"
    /\ LET d == [live EXCEPT !.release = @ + 1, !.at = now, !.approved = @ + 1]
       IN  Verified(d, FALSE) /\ Prepare(w, d)

(* cmd_rollover: a new profile cloned from an active one, and a new        *)
(* receipt key of new material; everything else is kept.                   *)
Rollover(w, source, p, k, m) ==
    /\ live.release < MaxRelease
    /\ Verified(live, TRUE)
    /\ live.entries[p] = None /\ live.entries[k] = None
    /\ live.entries[source] # None /\ live.entries[source].status = "active"
    /\ \A i \in Keys : live.entries[i] # None => live.entries[i].material # m
    /\ LET fresh == [status |-> "active", since |-> now, material |-> m]
           d == [live EXCEPT !.release = @ + 1, !.at = now,
                             !.entries = [@ EXCEPT ![p] = fresh, ![k] = fresh]]
       IN  /\ Verified(d, FALSE) /\ Usable(d) /\ Proven(live, d)
           /\ Prepare(w, d)

(* An operator signs a release that changes one entry, or drops it, with   *)
(* sign_registry; nothing but the installation checks it.                  *)
Sign(w, release, i, entry) ==
    Prepare(w, [live EXCEPT !.release = release, !.at = now, !.entries[i] = entry])
-----------------------------------------------------------------------------
(* Installing it, under the lock.                                          *)

Goto(w, place) == pc' = [pc EXCEPT ![w] = place]

(* The process ends and its lock is free again.  A candidate that was      *)
(* refused or installed is not tried again.                                *)
Leave(w) ==
    /\ Goto(w, "idle")
    /\ lock' = IF lock = w THEN None ELSE lock
    /\ current' = [current EXCEPT ![w] = None]
    /\ candidate' = [candidate EXCEPT ![w] = None]
    /\ reviewed' = [reviewed EXCEPT ![w] = None]

(* Faulty variant: the timer does not wait for the lock.                   *)
StartRepublishUnlocked(w) ==
    /\ pc[w] = "idle" /\ Verified(live, TRUE)
    /\ lock' = w
    /\ current' = [current EXCEPT ![w] = live]
    /\ Goto(w, "renew")
    /\ UNCHANGED <<now, files, candidate, reviewed, fails, runtime>>

(* _open_lock and the first lines of cmd_republish_install.                *)
StartRepublish(w) ==
    /\ pc[w] = "idle" /\ lock = None /\ Verified(live, TRUE)
    /\ lock' = w
    /\ current' = [current EXCEPT ![w] = live]
    /\ Goto(w, "renew")
    /\ UNCHANGED <<now, files, candidate, reviewed, fails, runtime>>

(* cmd_renew, and the checks of its output.                                *)
Renew(w) ==
    /\ pc[w] = "renew"
    /\ LET d == [live EXCEPT !.release = @ + 1, !.at = now]
       IN  IF /\ live.release < MaxRelease
              /\ Verified(live, TRUE) /\ Verified(d, FALSE) /\ Proven(live, d)
              /\ d.release = current[w].release + 1
           THEN /\ candidate' = [candidate EXCEPT ![w] = d]
                /\ Goto(w, "install")
                /\ UNCHANGED <<lock, current, reviewed>>
           ELSE Leave(w)
    /\ UNCHANGED <<now, files, fails, runtime>>

(* Faulty variant: the candidate is not proven against the state.          *)
StartInstallUnproven(w) ==
    /\ pc[w] = "idle" /\ candidate[w] # None /\ lock = None
    /\ IF /\ live = reviewed[w]
          /\ candidate[w].release = live.release + 1
          /\ Verified(live, TRUE) /\ Verified(candidate[w], FALSE)
       THEN /\ lock' = w
            /\ current' = [current EXCEPT ![w] = live]
            /\ Goto(w, "install")
            /\ UNCHANGED <<candidate, reviewed>>
       ELSE Leave(w)
    /\ UNCHANGED <<now, files, fails, runtime>>

(* cmd_install_candidate up to the staged file: the installed registry and *)
(* the candidate are the reviewed ones, and one follows the other.         *)
StartInstall(w) ==
    /\ pc[w] = "idle" /\ candidate[w] # None /\ lock = None
    /\ IF /\ live = reviewed[w]
          /\ candidate[w].release = live.release + 1
          /\ Verified(live, TRUE) /\ Verified(candidate[w], FALSE)
          /\ Proven(live, candidate[w])
       THEN /\ lock' = w
            /\ current' = [current EXCEPT ![w] = live]
            /\ Goto(w, "install")
            /\ UNCHANGED <<candidate, reviewed>>
       ELSE Leave(w)
    /\ UNCHANGED <<now, files, fails, runtime>>

(* _install_registry_successor, one durable step at a time.                *)
Journal(w, what) ==
    journal' = journal \cup
        {[what |-> what, previous |-> current[w], new |-> candidate[w]]}

(* An archive file of other content under the name stops the installation. *)
WritePrepared(w) ==
    /\ pc[w] = "install"
    /\ IF live = current[w] /\ current[w] \notin torn
       THEN /\ Journal(w, "prepared")
            /\ Goto(w, "archive")
            /\ UNCHANGED <<lock, current, candidate, reviewed>>
       ELSE Leave(w) /\ UNCHANGED journal
    /\ UNCHANGED <<now, live, archive, torn, fails, runtime>>

(* Faulty variant: a reissue is not archived.                              *)
ArchiveReviewed(w) ==
    /\ pc[w] = "archive"
    /\ archive' = archive \cup (IF w \in Timers THEN {} ELSE {current[w]})
    /\ Goto(w, "replace")
    /\ UNCHANGED <<now, live, torn, journal, lock, current, candidate, reviewed,
                   fails, runtime>>

Archive(w) ==
    /\ pc[w] = "archive"
    /\ archive' = archive \cup {current[w]}
    /\ Goto(w, "replace")
    /\ UNCHANGED <<now, live, torn, journal, lock, current, candidate, reviewed,
                   fails, runtime>>

Replace(w) ==
    /\ pc[w] = "replace"
    /\ live' = candidate[w]
    /\ Goto(w, "commit")
    /\ UNCHANGED <<now, archive, torn, journal, lock, current, candidate,
                   reviewed, fails, runtime>>

WriteCommitted(w) ==
    /\ pc[w] = "commit"
    /\ IF live = candidate[w] THEN Journal(w, "committed") ELSE UNCHANGED journal
    /\ Leave(w)
    /\ UNCHANGED <<now, live, archive, torn, fails, runtime>>

(* A writer dies, or one of its file operations fails.  A reissue is gone  *)
(* with it; an operator still has the candidate, and may try it again.     *)
(* _secure_write_new writes in place, so a new archive file may stay there *)
(* cut short.                                                              *)
Fail(w) ==
    /\ pc[w] # "idle" /\ fails < MaxFails
    /\ fails' = fails + 1
    /\ Goto(w, "idle")
    /\ lock' = None
    /\ current' = [current EXCEPT ![w] = None]
    /\ candidate' = [candidate EXCEPT ![w] = IF w \in Timers THEN None ELSE @]
    /\ \/ UNCHANGED torn
       \/ /\ pc[w] = "archive" /\ current[w] \notin archive
          /\ torn' = torn \cup {current[w]}
    /\ UNCHANGED <<now, live, archive, journal, reviewed, runtime>>
-----------------------------------------------------------------------------
(* The runtimes.                                                           *)

(* _verified_registry_snapshot_and_policy up to the high-water mark.       *)
Load(v) ==
    /\ v \notin running
    /\ Verified(live, FALSE) /\ Usable(live)
    /\ loaded' = [loaded EXCEPT ![v] = live]
    /\ UNCHANGED <<now, files, writer, accepted, running, bound, receipts>>

(* PolicyRegistryState.accept; the epoch that follows is bound to it.      *)
Accept(v) ==
    /\ v \notin running /\ loaded[v] # None
    /\ IF Acceptable(accepted, loaded[v], MinRelease)
       THEN /\ accepted' = loaded[v]
            /\ running' = running \cup {v}
            /\ bound' = bound \cup {loaded[v]}
            /\ UNCHANGED loaded
       ELSE /\ loaded' = [loaded EXCEPT ![v] = None]
            /\ UNCHANGED <<accepted, running, bound>>
    /\ UNCHANGED <<now, files, writer, receipts>>

(* ReceiptVerificationKey.can_sign_at.                                     *)
CanSign(entry, at) == entry # None /\ entry.status = "active" /\ entry.since <= at

(* The signed document: the release and the key it names, and the time.    *)
Receipt(d, k) ==
    [registry |-> d, key |-> k, at |-> now, material |-> d.entries[k].material]

(* ReceiptIssuer.issue under the release the runtime loaded.               *)
Issue(v, k) ==
    /\ v \in running /\ Cardinality(receipts) < MaxReceipts
    /\ CanSign(loaded[v].entries[k], now)
    /\ Usable(loaded[v])
    /\ receipts' = receipts \cup {Receipt(loaded[v], k)}
    /\ UNCHANGED <<now, files, writer, accepted, loaded, running, bound>>

End(v) ==
    /\ v \in running
    /\ running' = running \ {v}
    /\ loaded' = [loaded EXCEPT ![v] = None]
    /\ UNCHANGED <<now, files, writer, accepted, bound, receipts>>
-----------------------------------------------------------------------------
Next ==
    \/ Tick
    \/ \E w \in Operators :
        \/ Approve(w)
        \/ \E source, p \in Profiles, k \in Keys, m \in Materials :
               Rollover(w, source, p, k, m)
        \/ \E r \in {live.release, live.release + 1} \cap Releases, e \in Edits :
               Sign(w, r, e[1], e[2])
        \/ StartInstall(w)
    \/ \E w \in Timers : StartRepublish(w) \/ Renew(w)
    \/ \E w \in Writers :
        WritePrepared(w) \/ Archive(w) \/ Replace(w) \/ WriteCommitted(w) \/ Fail(w)
    \/ \E v \in Runtimes :
        Load(v) \/ Accept(v) \/ End(v) \/ \E k \in Keys : Issue(v, k)

Spec == Init /\ [][Next]_vars
-----------------------------------------------------------------------------
(* ReceiptVerificationKey.can_verify_at.                                   *)
CanVerify(entry, at) ==
    /\ entry.status # "revoked"
    /\ entry.status = "retired" => at < entry.since

(* Where a digest that an epoch or a receipt names can be found            *)
(* (_resolve_pinned_policy_registry).                                      *)
Resolvable == archive \cup {live}

(* The release a receipt names is at hand, and had a policy for it.        *)
UnderItsRegistry(r) == r.registry \in Resolvable /\ Usable(r.registry)

(* The key is the same in both releases, and can verify the signature.     *)
KeyAnchored(r, trust) ==
    LET named == r.registry.entries[r.key]
        trusted == trust.entries[r.key]
    IN  /\ trust.release >= r.registry.release
        /\ named # None /\ trusted # None
        /\ named.material = trusted.material /\ r.material = trusted.material
        /\ CanVerify(trusted, r.at)

(* verify_receipt with the release it names and a later one for its key.   *)
Verifies(r, trust) == UnderItsRegistry(r) /\ KeyAnchored(r, trust)

(* The variables have their types; a writer is at one of its steps.        *)
TypeOK ==
    /\ now \in Times
    /\ live \in Documents
    /\ archive \subseteq Documents /\ torn \subseteq Documents
    /\ journal \subseteq [what : {"prepared", "committed"},
                          previous : Documents, new : Documents]
    /\ lock \in Writers \cup {None}
    /\ pc \in [Writers -> {"idle", "renew", "install", "archive", "replace",
                           "commit"}]
    /\ current \in [Writers -> Documents \cup {None}]
    /\ candidate \in [Writers -> Documents \cup {None}]
    /\ reviewed \in [Writers -> Documents \cup {None}]
    /\ accepted \in Documents \cup {None}
    /\ loaded \in [Runtimes -> Documents \cup {None}]
    /\ fails \in 0 .. MaxFails
    /\ running \subseteq Runtimes /\ bound \subseteq Documents
    /\ receipts \subseteq [registry : Documents, key : Keys, at : Times,
                           material : Materials]

(* Every release that an epoch was ever bound to is still installed or in  *)
(* the archive, whenever a writer stops (_resolve_pinned_policy_registry   *)
(* relies on it).                                                          *)
PinnedResolvable == bound \subseteq Resolvable

(* A release number stands for one document, among those installed,        *)
(* archived and accepted (the writer lock, the exact next release).        *)
OneDigestPerRelease ==
    \A d, e \in Resolvable \cup bound : d.release = e.release => d = e

(* A runtime that accepted the installed release or the one before it can  *)
(* accept the installed one: the proof against a copy of its state is      *)
(* still good when the release is installed (_prove_registry_successor).   *)
LiveAcceptable ==
    (accepted # None => accepted.release >= live.release - 1)
        => Acceptable(accepted, live, First.release)

(* What was installed is on record before it is live, as the successor of  *)
(* a release that was installed too (_install_registry_successor).         *)
JournalCovers ==
    \A d \in Resolvable \ {First} :
        \E j \in journal :
            /\ j.what = "prepared" /\ j.new = d
            /\ j.previous.release = d.release - 1

(* A receipt stays verifiable under whatever the runtimes accept later, as *)
(* long as its key is not revoked, or retired from before it was issued    *)
(* (verify_receipt with a key registry).                                   *)
ReceiptsStand ==
    \A r \in receipts :
        (accepted.entries[r.key] # None => CanVerify(accepted.entries[r.key], r.at))
            => Verifies(r, accepted)

(* The accepted release only moves to a higher one, and neither a profile  *)
(* nor a key that was withdrawn comes back (PolicyRegistryState.accept).   *)
AcceptedAdvances ==
    [][accepted # None /\ accepted' # accepted =>
        /\ accepted'.release > accepted.release
        /\ \A i \in Ids :
            accepted.entries[i] # None
            /\ accepted.entries[i].status \in {"retired", "revoked"} =>
                /\ accepted'.entries[i] # None
                /\ accepted'.entries[i].status \in {"retired", "revoked"}]_vars
=============================================================================
