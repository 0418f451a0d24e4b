----------------------------- MODULE PolicyProofs -----------------------------
(***************************************************************************)
(* The installed releases of the policy registry form a chain with no gap  *)
(* in the archive, whatever writers interleave and wherever they fail, and *)
(* the runtimes' state only moves forward along it.                        *)
(***************************************************************************)
EXTENDS PolicyRegistry, TLAPS

(* A step that names no prover goes to Zenon.                              *)
USE ZenonT(30)

(* A writer that is not idle holds the lock, so there is one.              *)
LockHeld == \A w \in Writers : pc[w] # "idle" => lock = w

(* What the holder read is still installed until it replaces it.           *)
Current ==
    \A w \in Writers :
        /\ pc[w] \in {"renew", "install", "archive", "replace"} => current[w] = live
        /\ pc[w] = "commit" => current[w] \in Documents /\ candidate[w] \in Documents

(* What it installs is the next release, and acceptable after this one.    *)
Successor ==
    \A w \in Writers :
        pc[w] \in {"install", "archive", "replace"} =>
            /\ candidate[w] \in Documents
            /\ candidate[w].release = live.release + 1
            /\ Acceptable(live, candidate[w], live.release)

ArchivedFirst == \A w \in Writers : pc[w] = "replace" => live \in archive

(* The archive holds one document for each release, the last one the       *)
(* installed release itself, and that follows its predecessor.             *)
Chain ==
    /\ live.release >= First.release
    /\ \A d \in archive : d.release <= live.release
    /\ \A d \in archive : d.release = live.release => d = live
    /\ \A d, e \in archive : d.release = e.release => d = e
    /\ \A d \in archive : d.release = live.release - 1 =>
                              Acceptable(d, live, First.release)

(* What a runtime loaded, accepted or bound can be found.                  *)
Found ==
    /\ bound \subseteq Resolvable
    /\ \A v \in Runtimes : loaded[v] # None => loaded[v] \in Resolvable
    /\ \A v \in running : loaded[v] # None
    /\ accepted # None => accepted \in Resolvable

IInv ==
    TypeOK /\ LockHeld /\ Current /\ Successor /\ ArchivedFirst /\ Chain /\ Found
-----------------------------------------------------------------------------
(* A lower minimum accepts what a higher one accepts.                      *)
LEMMA LowerMinimum ==
    ASSUME NEW s, NEW d, NEW m \in Nat, NEW n \in Nat, d.release \in Nat,
           n <= m, Acceptable(s, d, m)
    PROVE  Acceptable(s, d, n)
BY SMTT(40) DEF Acceptable

(* A release at or above the minimum is accepted at the start, and again.  *)
LEMMA AcceptedAgain ==
    ASSUME NEW d, NEW n, d.release >= n
    PROVE  Acceptable(None, d, n) /\ Acceptable(d, d, n)
BY DEF Acceptable

LEMMA InitInv == Init => IInv
<1> SUFFICES ASSUME Init PROVE IInv
    OBVIOUS
<1> USE PolicyAssumption DEF PolicyAssumption
<1>1. TypeOK
    BY SMTT(40) DEF Init, TypeOK, Times
<1>2. First.release \in Nat
    BY DEF Documents
<1> QED
    BY <1>1, <1>2, SMTT(40)
       DEF Init, IInv, LockHeld, Current, Successor, ArchivedFirst, Chain,
           Found, Resolvable

(* Steps that leave the files and the writers alone.                       *)
LEMMA RuntimeInv ==
    ASSUME IInv, UNCHANGED <<files, writer>>, TypeOK',
           bound' \subseteq bound \cup Resolvable,
           accepted' = accepted \/ accepted' \in Resolvable,
           \A v \in Runtimes : loaded'[v] \in {loaded[v], None} \cup Resolvable,
           \A v \in running' : loaded'[v] # None
    PROVE  IInv'
BY DEF IInv, files, writer, LockHeld, Current, Successor, ArchivedFirst, Chain,
       Found, Resolvable

(* Steps of the writers that leave the files and the runtimes alone.       *)
LEMMA WriterInv ==
    ASSUME IInv, UNCHANGED <<live, archive, runtime>>, TypeOK',
           LockHeld', Current', Successor', ArchivedFirst'
    PROVE  IInv'
BY DEF IInv, runtime, Chain, Found, Resolvable
-----------------------------------------------------------------------------
(* Making a candidate.                                                     *)
LEMMA PrepareInv ==
    ASSUME IInv, NEW w \in Writers, NEW d \in Documents, Prepare(w, d)
    PROVE  IInv'
<1>1. TypeOK'
    BY DEF IInv, TypeOK, Prepare, files, runtime
<1>2. LockHeld' /\ Current' /\ Successor' /\ ArchivedFirst'
    BY DEF IInv, TypeOK, Prepare, files, LockHeld, Current, Successor,
           ArchivedFirst
<1> QED
    BY <1>1, <1>2, WriterInv DEF Prepare, files

(* A release that differs from a document in its fields is one.            *)
LEMMA EditedDocument ==
    ASSUME NEW d \in Documents, NEW r \in Nat, NEW t \in Times, NEW a \in Nat,
           NEW e \in [Ids -> Entries \cup {None}]
    PROVE  /\ [d EXCEPT !.release = r, !.at = t, !.approved = a] \in Documents
           /\ [d EXCEPT !.release = r, !.at = t, !.entries = e] \in Documents
           /\ [d EXCEPT !.release = r, !.at = t] \in Documents
<1> DEFINE f == [d EXCEPT !.release = r]
<1> DEFINE g == [f EXCEPT !.at = t]
<1>1. f \in Documents
    BY DEF Documents
<1>2. g \in Documents
    BY <1>1 DEF Documents
<1>3. [g EXCEPT !.approved = a] \in Documents /\ [g EXCEPT !.entries = e] \in Documents
    BY <1>2 DEF Documents
<1> QED
    BY <1>2, <1>3

LEMMA ApproveInv ==
    ASSUME IInv, NEW w \in Writers, Approve(w)
    PROVE  IInv'
<1> DEFINE d == [live EXCEPT !.release = @ + 1, !.at = now, !.approved = @ + 1]
<1>1. d \in Documents
  <2>1. live.release + 1 \in Nat /\ live.approved + 1 \in Nat
      BY SMTT(40) DEF IInv, TypeOK, Documents
  <2>2. live.entries \in [Ids -> Entries \cup {None}]
      BY DEF IInv, TypeOK, Documents
  <2> QED
      BY <2>1, <2>2, EditedDocument DEF IInv, TypeOK
<1>2. Prepare(w, d)
    BY DEF Approve
<1> QED
    BY <1>1, <1>2, PrepareInv

LEMMA RolloverInv ==
    ASSUME IInv, NEW w \in Writers, NEW source \in Profiles, NEW p \in Profiles,
           NEW k \in Keys, NEW m \in Materials, Rollover(w, source, p, k, m)
    PROVE  IInv'
<1> DEFINE fresh == [status |-> "active", since |-> now, material |-> m]
           entries == [live.entries EXCEPT ![p] = fresh, ![k] = fresh]
           d == [live EXCEPT !.release = @ + 1, !.at = now,
                             !.entries = [@ EXCEPT ![p] = fresh, ![k] = fresh]]
<1>1. fresh \in Entries
    BY DEF IInv, TypeOK, Entries, Statuses
<1>2. entries \in [Ids -> Entries \cup {None}]
  <2>1. live.entries \in [Ids -> Entries \cup {None}]
      BY DEF IInv, TypeOK, Documents
  <2> QED
      BY <1>1, <2>1
<1>3. d \in Documents
  <2>1. live.release + 1 \in Nat /\ live.approved \in Nat
      BY SMTT(40) DEF IInv, TypeOK, Documents
  <2> QED
      BY <1>2, <2>1, EditedDocument DEF IInv, TypeOK
<1>4. Prepare(w, d)
    BY DEF Rollover
<1> QED
    BY <1>3, <1>4, PrepareInv

LEMMA SignInv ==
    ASSUME IInv, NEW w \in Writers, NEW r \in Releases, NEW e \in Edits,
           Sign(w, r, e[1], e[2])
    PROVE  IInv'
<1> DEFINE d == [live EXCEPT !.release = r, !.at = now,
                             !.entries[e[1]] = e[2]]
<1>1. e[1] \in Ids /\ e[2] \in Entries \cup {None}
    BY PolicyAssumption DEF PolicyAssumption
<1>2. [live.entries EXCEPT ![e[1]] = e[2]] \in [Ids -> Entries \cup {None}]
    BY <1>1 DEF IInv, TypeOK, Documents
<1>3. r \in Nat
    BY SMTT(40) DEF Releases
<1>4. d \in Documents
    BY <1>2, <1>3 DEF IInv, TypeOK, Documents
<1> QED
    BY <1>4, PrepareInv DEF Sign
-----------------------------------------------------------------------------
(* Installing it.                                                          *)
LEMMA LeaveInv ==
    ASSUME IInv, NEW w \in Writers, Leave(w),
           UNCHANGED <<now, live, archive, torn, fails, runtime>>,
           journal' \subseteq [what : {"prepared", "committed"},
                              previous : Documents, new : Documents]
    PROVE  IInv'
<1>1. TypeOK'
    BY DEF IInv, TypeOK, Leave, Goto, runtime
<1>2. LockHeld' /\ Current' /\ Successor' /\ ArchivedFirst'
    BY DEF IInv, TypeOK, Leave, Goto, LockHeld, Current, Successor,
           ArchivedFirst
<1> QED
    BY <1>1, <1>2, WriterInv

LEMMA StartRepublishInv ==
    ASSUME IInv, NEW w \in Writers, StartRepublish(w)
    PROVE  IInv'
<1> USE PolicyAssumption DEF PolicyAssumption
<1>1. TypeOK'
    BY DEF IInv, TypeOK, StartRepublish, Goto, files, runtime
<1>2. \A x \in Writers : pc[x] = "idle"
    BY DEF IInv, LockHeld, StartRepublish
<1>3. LockHeld' /\ Current' /\ Successor' /\ ArchivedFirst'
    BY <1>2, SMTT(40)
       DEF IInv, TypeOK, StartRepublish, Goto, files, LockHeld, Current,
           Successor, ArchivedFirst
<1> QED
    BY <1>1, <1>3, WriterInv DEF StartRepublish, files

(* The two places where a candidate is let through to its installation.    *)
LEMMA InstallInv ==
    ASSUME IInv, NEW w \in Writers, NEW d \in Documents,
           d.release = live.release + 1, Acceptable(live, d, live.release),
           \A x \in Writers \ {w} : pc[x] = "idle",
           lock' = w, current' = [current EXCEPT ![w] = live],
           candidate' = [candidate EXCEPT ![w] = d], reviewed' = reviewed,
           Goto(w, "install"), UNCHANGED <<now, files, fails, runtime>>
    PROVE  IInv'
<1> USE DEF IInv, TypeOK, Goto, files
<1>1. TypeOK'
    BY DEF runtime
<1>2. LockHeld'
    BY DEF LockHeld
<1>3. Current' /\ ArchivedFirst'
    BY DEF Current, ArchivedFirst
<1>4. Successor'
    BY DEF Successor
<1> QED
    BY <1>1, <1>2, <1>3, <1>4, WriterInv

LEMMA RenewInv ==
    ASSUME IInv, NEW w \in Writers, Renew(w)
    PROVE  IInv'
<1> DEFINE d == [live EXCEPT !.release = @ + 1, !.at = now]
           Good == /\ live.release < MaxRelease
                   /\ Verified(live, TRUE) /\ Verified(d, FALSE)
                   /\ Proven(live, d)
                   /\ d.release = current[w].release + 1
<1>1. d \in Documents /\ d.release = live.release + 1
  <2>1. /\ live.release + 1 \in Nat /\ live.approved \in Nat
        /\ live.entries \in [Ids -> Entries \cup {None}]
      BY SMTT(40) DEF IInv, TypeOK, Documents
  <2>2. d \in Documents
      BY <2>1, EditedDocument DEF IInv, TypeOK
  <2> QED
      BY <2>2 DEF IInv, TypeOK, Documents
<1>2. CASE Good
  <2>1. /\ candidate' = [candidate EXCEPT ![w] = d] /\ Goto(w, "install")
        /\ UNCHANGED <<lock, current, reviewed>>
      BY <1>2 DEF Renew
  <2>2. pc[w] = "renew" /\ UNCHANGED <<now, files, fails, runtime>>
      BY DEF Renew
  <2>3. lock = w /\ current[w] = live
      BY <2>2 DEF IInv, LockHeld, Current
  <2>4. \A x \in Writers \ {w} : pc[x] = "idle"
      BY <2>3 DEF IInv, LockHeld
  <2>5. current' = [current EXCEPT ![w] = live]
      BY <2>1, <2>3 DEF IInv, TypeOK
  <2>6. Acceptable(live, d, live.release)
      BY <1>2 DEF Proven
  <2> HIDE DEF d
  <2> QED
      BY <1>1, <2>1, <2>2, <2>3, <2>4, <2>5, <2>6, InstallInv
<1>3. CASE ~Good
  <2>1. Leave(w) /\ UNCHANGED <<now, files, fails, runtime>>
      BY <1>3 DEF Renew
  <2> QED
      BY <2>1, LeaveInv DEF IInv, TypeOK, files
<1> QED
    BY <1>2, <1>3

LEMMA StartInstallInv ==
    ASSUME IInv, NEW w \in Writers, StartInstall(w)
    PROVE  IInv'
<1> DEFINE d == candidate[w]
           Good == /\ live = reviewed[w]
                   /\ d.release = live.release + 1
                   /\ Verified(live, TRUE) /\ Verified(d, FALSE)
                   /\ Proven(live, d)
<1>1. CASE Good
  <2>1. /\ lock' = w /\ current' = [current EXCEPT ![w] = live]
        /\ Goto(w, "install") /\ UNCHANGED <<candidate, reviewed>>
      BY <1>1 DEF StartInstall
  <2>2. /\ pc[w] = "idle" /\ d # None /\ lock = None
        /\ UNCHANGED <<now, files, fails, runtime>>
      BY DEF StartInstall
  <2>3. d \in Documents /\ candidate' = [candidate EXCEPT ![w] = d]
      BY <2>1, <2>2 DEF IInv, TypeOK
  <2>4. \A x \in Writers \ {w} : pc[x] = "idle"
      BY <2>2, PolicyAssumption DEF IInv, LockHeld, PolicyAssumption
  <2>5. Acceptable(live, d, live.release)
      BY <1>1 DEF Proven
  <2> QED
      BY <1>1, <2>1, <2>2, <2>3, <2>4, <2>5, InstallInv
<1>2. CASE ~Good
  <2>1. Leave(w) /\ UNCHANGED <<now, files, fails, runtime>>
      BY <1>2 DEF StartInstall
  <2> QED
      BY <2>1, LeaveInv DEF IInv, TypeOK, files
<1> QED
    BY <1>1, <1>2

LEMMA WritePreparedInv ==
    ASSUME IInv, NEW w \in Writers, WritePrepared(w)
    PROVE  IInv'
<1>1. CASE live = current[w] /\ current[w] \notin torn
  <2>1. /\ Journal(w, "prepared") /\ Goto(w, "archive") /\ pc[w] = "install"
        /\ UNCHANGED <<lock, current, candidate, reviewed>>
        /\ UNCHANGED <<now, live, archive, torn, fails, runtime>>
      BY <1>1 DEF WritePrepared
  <2>2. candidate[w] \in Documents /\ current[w] \in Documents
      BY <1>1, <2>1 DEF IInv, TypeOK, Successor
  <2>3. TypeOK'
      BY <2>1, <2>2, SMTT(40) DEF IInv, TypeOK, Journal, Goto, runtime
  <2>4. LockHeld' /\ Current' /\ Successor' /\ ArchivedFirst'
      BY <2>1
         DEF IInv, TypeOK, Goto, LockHeld, Current, Successor, ArchivedFirst
  <2> QED
      BY <2>1, <2>3, <2>4, WriterInv
<1>2. CASE ~(live = current[w] /\ current[w] \notin torn)
    BY <1>2, LeaveInv DEF WritePrepared, IInv, TypeOK
<1> QED
    BY <1>1, <1>2

LEMMA ArchiveInv ==
    ASSUME IInv, NEW w \in Writers, Archive(w)
    PROVE  IInv'
<1> USE DEF IInv, TypeOK, Archive, Goto
<1>1. current[w] = live /\ archive' = archive \cup {live}
    BY DEF Current
<1>2. TypeOK'
    BY <1>1 DEF runtime
<1>3. LockHeld' /\ Current' /\ Successor' /\ ArchivedFirst'
    BY <1>1 DEF LockHeld, Current, Successor, ArchivedFirst
<1>4. Chain'
    BY <1>1, SMTT(40) DEF Chain, Documents
<1>5. Found'
    BY <1>1 DEF Found, Resolvable, runtime
<1> QED
    BY <1>2, <1>3, <1>4, <1>5

LEMMA ReplaceInv ==
    ASSUME IInv, NEW w \in Writers, Replace(w)
    PROVE  IInv'
<1> USE DEF IInv
<1>1. /\ pc[w] = "replace" /\ live' = candidate[w] /\ Goto(w, "commit")
      /\ UNCHANGED <<now, archive, torn, journal, lock, current, candidate,
                      reviewed, fails, runtime>>
    BY DEF Replace
<1>2. /\ live' \in Documents /\ live'.release = live.release + 1
      /\ Acceptable(live, live', live.release) /\ live \in archive
    BY <1>1 DEF Successor, ArchivedFirst
<1>3. \A x \in Writers : x # w => pc[x] = "idle"
    BY <1>1 DEF LockHeld
<1>4. TypeOK'
    BY <1>1, <1>2 DEF TypeOK, Goto, runtime
<1>5. LockHeld' /\ Current' /\ Successor' /\ ArchivedFirst'
    BY <1>1, <1>3 DEF TypeOK, Goto, LockHeld, Current, Successor, ArchivedFirst
<1>6. /\ live.release \in Nat /\ live'.release \in Nat /\ First.release \in Nat
      /\ \A d \in archive : d.release \in Nat
    BY <1>2, PolicyAssumption DEF TypeOK, Documents, PolicyAssumption
<1>7. Acceptable(live, live', First.release)
    BY <1>2, <1>6, LowerMinimum DEF Chain
<1>8. \A d \in archive : d.release <= live.release /\ (d.release = live.release => d = live)
    BY DEF Chain
<1>9. Chain'
  <2>1. /\ live'.release >= First.release
        /\ \A d \in archive : d.release <= live'.release /\ d.release # live'.release
      BY <1>2, <1>6, <1>8, SMTT(40) DEF Chain
  <2>2. \A d \in archive : d.release = live'.release - 1 => d = live
      BY <1>2, <1>6, <1>8, SMTT(40)
  <2> QED
      BY <1>1, <1>7, <2>1, <2>2 DEF Chain
<1>10. Found'
    BY <1>1, <1>2 DEF Found, Resolvable, runtime
<1> QED
    BY <1>4, <1>5, <1>9, <1>10

LEMMA WriteCommittedInv ==
    ASSUME IInv, NEW w \in Writers, WriteCommitted(w)
    PROVE  IInv'
<1>1. journal' \subseteq [what : {"prepared", "committed"},
                          previous : Documents, new : Documents]
    BY SMTT(40) DEF IInv, TypeOK, Current, WriteCommitted, Journal
<1> QED
    BY <1>1, LeaveInv DEF WriteCommitted

LEMMA FailInv ==
    ASSUME IInv, NEW w \in Writers, Fail(w)
    PROVE  IInv'
<1> USE DEF IInv, Fail, Goto
<1>1. TypeOK'
  <2>1. current[w] \in Documents \cup {None} /\ (pc[w] = "archive" => current[w] = live)
      BY DEF TypeOK, Current
  <2>2. torn' \subseteq Documents
      BY <2>1 DEF TypeOK
  <2>3. fails' \in 0 .. MaxFails
      BY PolicyAssumption, SMTT(40) DEF TypeOK, PolicyAssumption
  <2> QED
      BY <2>2, <2>3 DEF TypeOK, runtime
<1>2. \A x \in Writers : x # w => pc[x] = "idle"
    BY DEF LockHeld
<1>3. LockHeld' /\ Current' /\ Successor' /\ ArchivedFirst'
    BY <1>2 DEF TypeOK, LockHeld, Current, Successor, ArchivedFirst
<1> QED
    BY <1>1, <1>3, WriterInv DEF files
-----------------------------------------------------------------------------
(* The runtimes.                                                           *)
LEMMA LoadInv ==
    ASSUME IInv, NEW v \in Runtimes, Load(v)
    PROVE  IInv'
<1>1. TypeOK'
    BY DEF IInv, TypeOK, Load, files, writer
<1>2. \A x \in Runtimes : loaded'[x] \in {loaded[x], live}
    BY DEF IInv, TypeOK, Load
<1>3. \A x \in running' : loaded'[x] # None
    BY <1>2, PolicyAssumption DEF IInv, TypeOK, Found, Load, PolicyAssumption
<1> QED
    BY <1>1, <1>2, <1>3, RuntimeInv DEF Load, Resolvable

LEMMA AcceptInv ==
    ASSUME IInv, NEW v \in Runtimes, Accept(v)
    PROVE  IInv'
<1>1. loaded[v] \in Documents /\ loaded[v] \in Resolvable
    BY DEF IInv, TypeOK, Found, Accept
<1>2. CASE Acceptable(accepted, loaded[v], MinRelease)
  <2>1. TypeOK'
      BY <1>1, <1>2 DEF IInv, TypeOK, Accept, files, writer
  <2> QED
      BY <1>1, <1>2, <2>1, RuntimeInv DEF Accept, IInv, Found
<1>3. CASE ~Acceptable(accepted, loaded[v], MinRelease)
  <2>1. TypeOK'
      BY <1>3 DEF IInv, TypeOK, Accept, files, writer
  <2>2. \A x \in Runtimes : loaded'[x] \in {loaded[x], None}
      BY <1>3 DEF IInv, TypeOK, Accept
  <2>3. \A x \in running' : loaded'[x] # None
      BY <1>3, SMTT(40) DEF IInv, TypeOK, Found, Accept
  <2> QED
      BY <1>3, <2>1, <2>2, <2>3, RuntimeInv DEF Accept
<1> QED
    BY <1>2, <1>3

LEMMA IssueInv ==
    ASSUME IInv, NEW v \in Runtimes, NEW k \in Keys, Issue(v, k)
    PROVE  IInv'
<1> DEFINE r == [registry |-> loaded[v], key |-> k, at |-> now,
                 material |-> loaded[v].entries[k].material]
<1>1. loaded[v] \in Documents /\ loaded[v].entries[k] \in Entries
  <2>1. loaded[v] \in Documents
      BY DEF Issue, IInv, TypeOK, Found
  <2>2. loaded[v].entries[k] \in Entries \cup {None}
      BY <2>1 DEF Documents, Ids
  <2> QED
      BY <2>1, <2>2 DEF Issue, CanSign
<1>2. r \in [registry : Documents, key : Keys, at : Times, material : Materials]
  <2>1. loaded[v].entries[k].material \in Materials
      BY <1>1 DEF Entries
  <2> QED
      BY <1>1, <2>1 DEF IInv, TypeOK
<1>3. receipts' = receipts \cup {r}
    BY DEF Issue, Receipt
<1> HIDE DEF r
<1>4. TypeOK'
    BY <1>2, <1>3 DEF IInv, TypeOK, Issue, files, writer
<1> QED
    BY <1>4, RuntimeInv DEF IInv, Found, Issue

LEMMA EndInv ==
    ASSUME IInv, NEW v \in Runtimes, End(v)
    PROVE  IInv'
<1>1. TypeOK'
    BY DEF IInv, TypeOK, End, files, writer
<1>2. \A x \in Runtimes : loaded'[x] \in {loaded[x], None}
    BY DEF IInv, TypeOK, End
<1>3. \A x \in running' : loaded'[x] # None
    BY DEF IInv, TypeOK, Found, End
<1> QED
    BY <1>1, <1>2, <1>3, RuntimeInv DEF End

LEMMA QuietInv ==
    ASSUME IInv, Tick \/ UNCHANGED vars
    PROVE  IInv'
<1>1. UNCHANGED <<files, writer, runtime>> /\ TypeOK'
    BY PolicyAssumption, SMTT(40)
       DEF IInv, TypeOK, Tick, Times, vars, files, writer, runtime,
           PolicyAssumption
<1> QED
    BY <1>1, RuntimeInv DEF runtime, IInv, Found
-----------------------------------------------------------------------------
LEMMA NextInv == IInv /\ [Next]_vars => IInv'
<1> SUFFICES ASSUME IInv, [Next]_vars PROVE IInv'
    OBVIOUS
<1>1. CASE Tick \/ UNCHANGED vars
    BY <1>1, QuietInv
<1>2. ASSUME NEW w \in Writers,
             \/ StartRepublish(w) \/ Renew(w) \/ WritePrepared(w)
             \/ Archive(w) \/ Replace(w) \/ WriteCommitted(w) \/ Fail(w)
             \/ StartInstall(w) \/ Approve(w)
      PROVE  IInv'
    BY <1>2, StartRepublishInv, RenewInv, WritePreparedInv, ArchiveInv,
       ReplaceInv, WriteCommittedInv, FailInv, StartInstallInv, ApproveInv
<1>3. ASSUME NEW w \in Writers, NEW source \in Profiles, NEW p \in Profiles,
             NEW k \in Keys, NEW m \in Materials, Rollover(w, source, p, k, m)
      PROVE  IInv'
    BY <1>3, RolloverInv
<1>4. ASSUME NEW w \in Writers, NEW r \in Releases, NEW e \in Edits,
             Sign(w, r, e[1], e[2])
      PROVE  IInv'
    BY <1>4, SignInv
<1>5. ASSUME NEW v \in Runtimes,
             Load(v) \/ Accept(v) \/ End(v) \/ \E k \in Keys : Issue(v, k)
      PROVE  IInv'
    BY <1>5, LoadInv, AcceptInv, EndInv, IssueInv
<1> QED
    BY <1>1, <1>2, <1>3, <1>4, <1>5 DEF Next, Writers

LEMMA InvHolds == Spec => []IInv
    BY InitInv, NextInv, PTL DEF Spec
-----------------------------------------------------------------------------
(* Wherever a writer stops, the release an epoch was bound to can be found *)
(* (_install_registry_successor archives before it replaces).              *)
THEOREM PinnedStaysResolvable == Spec => []PinnedResolvable
<1>1. IInv => PinnedResolvable
    BY DEF IInv, Found, PinnedResolvable
<1> QED
    BY <1>1, InvHolds, PTL

(* No two documents ever share a release number: the writer lock and the   *)
(* exact next release make the chain (_open_lock, cmd_install_candidate).  *)
THEOREM ReleaseNumbersAreUnique == Spec => []OneDigestPerRelease
<1>1. IInv => OneDigestPerRelease
    BY DEF IInv, Found, Chain, Resolvable, OneDigestPerRelease
<1> QED
    BY <1>1, InvHolds, PTL

(* A runtime at most one release behind can accept the installed release   *)
(* (_prove_registry_successor, PolicyRegistryState.accept).                *)
THEOREM InstalledIsAcceptable == Spec => []LiveAcceptable
<1>1. ASSUME IInv PROVE LiveAcceptable
  <2> SUFFICES ASSUME accepted # None => accepted.release >= live.release - 1
               PROVE  Acceptable(accepted, live, First.release)
      BY DEF LiveAcceptable
  <2>1. live.release >= First.release
      BY <1>1 DEF IInv, Chain
  <2>2. CASE accepted = None \/ accepted = live
      BY <2>1, <2>2, AcceptedAgain
  <2>3. CASE accepted # None /\ accepted # live
    <3>1. accepted \in archive
        BY <1>1, <2>3 DEF IInv, Found, Resolvable
    <3>2. accepted.release <= live.release /\ accepted.release # live.release
        BY <1>1, <2>3, <3>1 DEF IInv, Chain
    <3>3. accepted.release \in Nat /\ live.release \in Nat
        BY <1>1, <3>1 DEF IInv, TypeOK, Documents
    <3>4. accepted.release >= live.release - 1
        BY <2>3
    <3>5. accepted.release = live.release - 1
        BY <3>2, <3>3, <3>4, SMTT(40)
    <3> QED
        BY <1>1, <3>1, <3>5 DEF IInv, Chain
  <2> QED
      BY <2>2, <2>3
<1> QED
    BY <1>1, InvHolds, PTL

(* The accepted release only moves to a higher one, and what was withdrawn *)
(* does not come back, whichever runtimes load and accept in whatever      *)
(* order (PolicyRegistryState.accept).                                     *)
THEOREM AcceptedOnlyAdvances == Spec => AcceptedAdvances
<1> DEFINE Withdrawn == {"retired", "revoked"}
           Forward == accepted # None /\ accepted' # accepted =>
               /\ accepted'.release > accepted.release
               /\ \A i \in Ids :
                   accepted.entries[i] # None
                   /\ accepted.entries[i].status \in Withdrawn =>
                       /\ accepted'.entries[i] # None
                       /\ accepted'.entries[i].status \in Withdrawn
<1>1. ASSUME NEW v \in Runtimes, Accept(v) PROVE Forward
  <2> SUFFICES ASSUME accepted # None, accepted' # accepted
               PROVE  Forward
      OBVIOUS
  <2>1. Acceptable(accepted, accepted', MinRelease)
      BY <1>1 DEF Accept
  <2>2. /\ accepted'.release > accepted.release
        /\ \A i \in Ids : Succeeds(i, accepted.entries[i], accepted'.entries[i])
      BY <2>1 DEF Acceptable
  <2>3. \A i \in Ids : accepted.entries[i] # None =>
            /\ accepted'.entries[i] # None
            /\ accepted'.entries[i].status \in
                   Transitions(i, accepted.entries[i].status)
      BY <2>2 DEF Succeeds
  <2>4. \A i, status : status \in Withdrawn =>
            Transitions(i, status) \subseteq Withdrawn
      BY DEF Transitions
  <2> HIDE DEF Withdrawn
  <2> QED
      BY <2>2, <2>3, <2>4
<1>2. ASSUME [Next]_vars PROVE [Forward]_vars
  <2>1. ASSUME Tick \/ UNCHANGED vars PROVE accepted' = accepted
      BY <2>1 DEF Tick, vars, runtime
  <2>2. ASSUME NEW w \in Writers,
               \/ StartRepublish(w) \/ Renew(w) \/ WritePrepared(w)
               \/ Archive(w) \/ Replace(w) \/ WriteCommitted(w) \/ Fail(w)
               \/ StartInstall(w) \/ Approve(w)
        PROVE  accepted' = accepted
      BY <2>2
         DEF StartRepublish, Renew, WritePrepared, Archive, Replace,
             WriteCommitted, Fail, StartInstall, Approve, Prepare, runtime
  <2>3. ASSUME NEW w \in Writers, NEW source, NEW p, NEW k, NEW m,
               Rollover(w, source, p, k, m)
        PROVE  accepted' = accepted
      BY <2>3 DEF Rollover, Prepare, runtime
  <2>4. ASSUME NEW w \in Writers, NEW r, NEW e, Sign(w, r, e[1], e[2])
        PROVE  accepted' = accepted
      BY <2>4 DEF Sign, Prepare, runtime
  <2>5. ASSUME NEW v \in Runtimes, Load(v) \/ End(v) \/ \E k \in Keys : Issue(v, k)
        PROVE  accepted' = accepted
      BY <2>5 DEF Load, End, Issue
  <2>6. accepted' = accepted \/ \E v \in Runtimes : Accept(v)
      BY <1>2, <2>1, <2>2, <2>3, <2>4, <2>5 DEF Next, Writers
  <2> QED
      BY <1>1, <2>6
<1> QED
    BY <1>2, PTL DEF Spec, AcceptedAdvances
-----------------------------------------------------------------------------
(* The journal.                                                            *)

(* A writer past its first record left one that names its candidate.       *)
RecordFor(d) ==
    \E j \in journal : /\ j.what = "prepared" /\ j.new = d
                       /\ j.previous.release = d.release - 1

Recorded ==
    /\ JournalCovers
    /\ \A w \in Writers : pc[w] \in {"archive", "replace"} => RecordFor(candidate[w])

(* What is on record stays on record.                                      *)
LEMMA RecordKept ==
    ASSUME NEW d, RecordFor(d), journal \subseteq journal'
    PROVE  RecordFor(d)'
BY DEF RecordFor

(* Steps that install nothing and bring no writer past its record.         *)
LEMMA RecordedKept ==
    ASSUME Recorded, journal \subseteq journal', Resolvable' \subseteq Resolvable,
           \A w \in Writers : pc'[w] \in {"archive", "replace"} =>
               pc[w] \in {"archive", "replace"} /\ candidate'[w] = candidate[w]
    PROVE  Recorded'
<1>1. ASSUME NEW d \in Resolvable' \ {First} PROVE RecordFor(d)'
  <2>1. RecordFor(d)
      BY DEF Recorded, JournalCovers, RecordFor
  <2> QED
      BY <2>1, RecordKept
<1>2. JournalCovers'
    BY <1>1 DEF JournalCovers, RecordFor
<1>3. ASSUME NEW w \in Writers, pc'[w] \in {"archive", "replace"}
      PROVE  RecordFor(candidate[w])'
  <2>1. RecordFor(candidate[w]) /\ candidate'[w] = candidate[w]
      BY <1>3 DEF Recorded
  <2> QED
      BY <2>1 DEF RecordFor
<1> QED
    BY <1>2, <1>3 DEF Recorded

(* Every release that is installed or archived is on record as the         *)
(* successor of the one before it (_install_registry_successor writes the  *)
(* record first), wherever the writers fail.                               *)
THEOREM JournalIsComplete == Spec => []JournalCovers
<1>1. Init => Recorded
    BY DEF Init, Recorded, JournalCovers, Resolvable
<1>2. ASSUME IInv, Recorded, [Next]_vars PROVE Recorded'
  <2>0. pc \in [Writers -> {"idle", "renew", "install", "archive", "replace", "commit"}]
      BY <1>2 DEF IInv, TypeOK
  <2>1. ASSUME UNCHANGED <<live, archive, journal>>,
               \A w \in Writers : pc'[w] \in {"archive", "replace"} =>
                   pc[w] \in {"archive", "replace"} /\ candidate'[w] = candidate[w]
        PROVE  Recorded'
      BY <1>2, <2>1, RecordedKept DEF Resolvable
  <2>2. ASSUME UNCHANGED <<files, writer>> PROVE Recorded'
      BY <2>1, <2>2 DEF files, writer
  <2>3. ASSUME NEW w \in Writers, NEW d, Prepare(w, d) PROVE Recorded'
    <3>1. \A x \in Writers : pc'[x] = pc[x] /\ (candidate'[x] = candidate[x] \/ pc[x] = "idle")
        BY <1>2, <2>3 DEF Prepare, IInv, TypeOK
    <3> QED
        BY <2>1, <2>3, <3>1 DEF Prepare, files
  <2>4. ASSUME NEW w \in Writers, StartRepublish(w) \/ Fail(w)
        PROVE  Recorded'
    <3>0. /\ \E place \in {"idle", "renew"} : Goto(w, place)
          /\ candidate' = candidate \/ \E d : candidate' = [candidate EXCEPT ![w] = d]
          /\ UNCHANGED <<live, archive, journal>>
        BY <2>4 DEF StartRepublish, Fail, files
    <3>1. \A x \in Writers \ {w} : pc'[x] = pc[x] /\ candidate'[x] = candidate[x]
      <4>1. \A x \in Writers \ {w} : pc'[x] = pc[x]
          BY <2>0, <3>0 DEF Goto
      <4>2. \A x \in Writers \ {w} : candidate'[x] = candidate[x]
          BY <1>2, <3>0 DEF IInv, TypeOK
      <4> QED
          BY <4>1, <4>2
    <3>2. pc'[w] \in {"idle", "renew"}
        BY <2>0, <3>0 DEF Goto
    <3> QED
        BY <2>1, <3>0, <3>1, <3>2
  <2>5. ASSUME NEW w \in Writers, Leave(w), UNCHANGED <<live, archive>>,
               journal \subseteq journal'
        PROVE  Recorded'
    <3>1. \A x \in Writers \ {w} : pc'[x] = pc[x] /\ candidate'[x] = candidate[x]
        BY <1>2, <2>5 DEF Leave, Goto, IInv, TypeOK
    <3>2. pc'[w] = "idle"
        BY <2>0, <2>5 DEF Leave, Goto
    <3> QED
        BY <1>2, <2>5, <3>1, <3>2, RecordedKept DEF Resolvable
  <2>6. ASSUME NEW w \in Writers, Goto(w, "install"), UNCHANGED files,
               \A x \in Writers \ {w} : candidate'[x] = candidate[x]
        PROVE  Recorded'
    <3>1. pc'[w] = "install" /\ \A x \in Writers \ {w} : pc'[x] = pc[x]
        BY <2>0, <2>6 DEF Goto
    <3> QED
        BY <2>1, <2>6, <3>1 DEF files
  <2>7. ASSUME NEW w \in Writers, Renew(w) \/ StartInstall(w)
        PROVE  Recorded'
    <3>1. \/ Leave(w) /\ UNCHANGED files
          \/ /\ Goto(w, "install") /\ UNCHANGED files
             /\ candidate' = candidate \/ \E d : candidate' = [candidate EXCEPT ![w] = d]
        BY <2>7 DEF Renew, StartInstall
    <3>2. candidate' = candidate \/ (\E d : candidate' = [candidate EXCEPT ![w] = d])
          => \A x \in Writers \ {w} : candidate'[x] = candidate[x]
        BY <1>2 DEF IInv, TypeOK
    <3>3. UNCHANGED files => journal \subseteq journal' /\ UNCHANGED <<live, archive>>
        BY DEF files
    <3> QED
        BY <2>5, <2>6, <3>1, <3>2, <3>3
  <2>8. ASSUME NEW w \in Writers, WritePrepared(w) PROVE Recorded'
    <3>1. CASE ~(live = current[w] /\ current[w] \notin torn)
      <4>1. Leave(w) /\ UNCHANGED <<live, archive, journal>>
          BY <2>8, <3>1 DEF WritePrepared
      <4> QED
          BY <2>5, <4>1
    <3>2. CASE live = current[w] /\ current[w] \notin torn
      <4>1. /\ Journal(w, "prepared") /\ Goto(w, "archive") /\ pc[w] = "install"
            /\ UNCHANGED <<live, archive, candidate>>
          BY <2>8, <3>2 DEF WritePrepared
      <4>2. journal \subseteq journal' /\ Resolvable' = Resolvable
          BY <4>1 DEF Journal, Resolvable
      <4>3. /\ candidate[w] \in Documents /\ live \in Documents
            /\ candidate[w].release = live.release + 1
          BY <1>2, <4>1 DEF IInv, TypeOK, Successor
      <4>4. live.release = candidate[w].release - 1
          BY <4>3, SMTT(40) DEF Documents
      <4>5. RecordFor(candidate[w])'
        <5> DEFINE j == [what |-> "prepared", previous |-> current[w], new |-> candidate[w]]
        <5>1. j \in journal'
            BY <4>1 DEF Journal
        <5>2. j.what = "prepared" /\ j.new = candidate[w] /\ j.previous = current[w]
            OBVIOUS
        <5> HIDE DEF j
        <5>3. j.previous.release = candidate[w].release - 1
            BY <3>2, <4>4, <5>2
        <5>4. \E i \in journal' : /\ i.what = "prepared" /\ i.new = candidate[w]
                                  /\ i.previous.release = candidate[w].release - 1
            BY <5>1, <5>2, <5>3
        <5> QED
            BY <4>1, <5>4 DEF RecordFor
      <4>6. \A d : RecordFor(d) => RecordFor(d)'
          BY <4>2 DEF RecordFor
      <4>7. JournalCovers'
          BY <1>2, <4>2, <4>6 DEF Recorded, JournalCovers, RecordFor
      <4>8. ASSUME NEW x \in Writers, pc'[x] \in {"archive", "replace"}
            PROVE  RecordFor(candidate[x])'
        <5>1. CASE x = w
            BY <4>5, <5>1
        <5>2. CASE x # w
          <6>1. pc'[x] = pc[x]
              BY <2>0, <4>1, <5>2 DEF Goto
          <6>2. RecordFor(candidate[x])
              BY <1>2, <4>8, <6>1 DEF Recorded
          <6> QED
              BY <4>1, <4>2, <6>2 DEF RecordFor
        <5> QED
            BY <5>1, <5>2
      <4> QED
          BY <4>1, <4>7, <4>8 DEF Recorded
    <3> QED
        BY <3>1, <3>2
  <2>9. ASSUME NEW w \in Writers, Archive(w) PROVE Recorded'
    <3>1. current[w] = live /\ pc[w] = "archive" /\ UNCHANGED <<live, journal, candidate>>
        BY <1>2, <2>9 DEF IInv, Current, Archive
    <3>2. Resolvable' \subseteq Resolvable /\ journal \subseteq journal'
        BY <2>9, <3>1 DEF Archive, Resolvable
    <3>3. \A x \in Writers : pc'[x] \in {"archive", "replace"} => pc[x] \in {"archive", "replace"}
        BY <2>0, <2>9, <3>1 DEF Archive, Goto
    <3> QED
        BY <1>2, <3>1, <3>2, <3>3, RecordedKept
  <2>10. ASSUME NEW w \in Writers, Replace(w) PROVE Recorded'
    <3>1. /\ pc[w] = "replace" /\ live' = candidate[w] /\ Goto(w, "commit")
          /\ UNCHANGED <<archive, journal, candidate>>
        BY <2>10 DEF Replace
    <3>2. RecordFor(candidate[w])
        BY <1>2, <3>1 DEF Recorded
    <3>3. Resolvable' \subseteq Resolvable \cup {candidate[w]}
        BY <3>1 DEF Resolvable
    <3>4. \A d : RecordFor(d) => RecordFor(d)'
        BY <3>1 DEF RecordFor
    <3>5. \A d \in Resolvable' \ {First} : RecordFor(d)
        BY <1>2, <3>2, <3>3 DEF Recorded, JournalCovers, RecordFor
    <3>6. JournalCovers'
        BY <3>4, <3>5 DEF JournalCovers, RecordFor
    <3>7. \A x \in Writers : pc'[x] \in {"archive", "replace"} => pc[x] \in {"archive", "replace"}
        BY <2>0, <3>1 DEF Goto
    <3> QED
        BY <1>2, <3>1, <3>4, <3>6, <3>7 DEF Recorded
  <2>11. ASSUME NEW w \in Writers, WriteCommitted(w) PROVE Recorded'
    <3>1. Leave(w) /\ UNCHANGED <<live, archive>> /\ journal \subseteq journal'
        BY <2>11 DEF WriteCommitted, Journal
    <3> QED
        BY <2>5, <3>1
  <2>12. ASSUME NEW w \in Writers,
                \/ Approve(w)
                \/ \E source, p \in Profiles, k \in Keys, m \in Materials :
                       Rollover(w, source, p, k, m)
                \/ \E r \in {live.release, live.release + 1} \cap Releases, e \in Edits :
                       Sign(w, r, e[1], e[2])
         PROVE  Recorded'
      BY <2>3, <2>12, ZenonT(60) DEF Approve, Rollover, Sign
  <2>13. CASE \/ Tick \/ UNCHANGED vars
              \/ \E v \in Runtimes :
                     Load(v) \/ Accept(v) \/ End(v) \/ \E k \in Keys : Issue(v, k)
      BY <2>2, <2>13 DEF Tick, vars, Load, Accept, End, Issue
  <2> QED
      BY <1>2, <2>4, <2>7, <2>8, <2>9, <2>10, <2>11, <2>12, <2>13
         DEF Next, Writers
<1>3. Recorded => JournalCovers
    BY DEF Recorded
<1> QED
    BY <1>1, <1>2, <1>3, InvHolds, PTL DEF Spec
-----------------------------------------------------------------------------
(* Receipts.                                                               *)

(* Document e comes after d, or is d, and keeps the material of its keys.  *)
KeepsKeys(d, e) ==
    /\ e.release >= d.release
    /\ \A k \in Keys : d.entries[k] # None =>
           /\ e.entries[k] # None
           /\ e.entries[k].material = d.entries[k].material

Anchored(d) == accepted # None /\ d \in bound /\ KeepsKeys(d, accepted)

ReceiptOK(r) ==
    /\ Anchored(r.registry) /\ Usable(r.registry)
    /\ r.key \in Keys
    /\ r.registry.entries[r.key] # None
    /\ r.material = r.registry.entries[r.key].material

ReceiptsInv ==
    /\ \A v \in running : Anchored(loaded[v])
    /\ \A r \in receipts : ReceiptOK(r)

LEMMA KeepsKeysOn ==
    ASSUME NEW d \in Documents, NEW s \in Documents, NEW e \in Documents, NEW m,
           KeepsKeys(d, s), Acceptable(s, e, m)
    PROVE  KeepsKeys(d, e)
<1>0. d.release \in Nat /\ s.release \in Nat /\ e.release \in Nat
    BY DEF Documents
<1>1. s # None
    BY PolicyAssumption DEF PolicyAssumption
<1>2. CASE e = s
    BY <1>2
<1>3. CASE e # s
  <2>1. e.release > s.release /\ \A i \in Ids : Succeeds(i, s.entries[i], e.entries[i])
      BY <1>1, <1>3 DEF Acceptable
  <2>2. \A k \in Keys : s.entries[k] # None =>
            e.entries[k] # None /\ e.entries[k].material = s.entries[k].material
      BY <2>1 DEF Succeeds, Ids
  <2>3. e.release >= d.release
      BY <1>0, <2>1, SMTT(40) DEF KeepsKeys
  <2> QED
      BY <2>2, <2>3 DEF KeepsKeys
<1> QED
    BY <1>2, <1>3

(* A receipt verifies under whatever the runtimes accept later, unless its *)
(* key was revoked or retired from before it was issued: the release it    *)
(* names stays at hand and its key keeps its material (verify_receipt,     *)
(* PolicyRegistryState.accept).                                            *)
THEOREM ReceiptsKeepVerifying == Spec => []ReceiptsStand
<1>1. Init => ReceiptsInv
    BY DEF Init, ReceiptsInv
<1>2. ASSUME IInv, ReceiptsInv, [Next]_vars PROVE ReceiptsInv'
  <2>0. TypeOK
      BY <1>2 DEF IInv
  <2>1. ASSUME UNCHANGED <<accepted, bound, loaded, running, receipts>> PROVE ReceiptsInv'
      BY <1>2, <2>1 DEF ReceiptsInv, Anchored, ReceiptOK
  <2>10. ASSUME UNCHANGED <<accepted, bound, receipts>>,
                \A x \in running' : x \in running /\ loaded'[x] = loaded[x]
         PROVE  ReceiptsInv'
    <3>1. ASSUME NEW d, Anchored(d) PROVE Anchored(d)'
        BY <2>10, <3>1 DEF Anchored
    <3>2. \A r \in receipts' : ReceiptOK(r)'
        BY <1>2, <2>10, <3>1 DEF ReceiptsInv, ReceiptOK
    <3>3. ASSUME NEW x \in running' PROVE Anchored(loaded[x])'
      <4>1. Anchored(loaded[x]) /\ loaded'[x] = loaded[x]
          BY <1>2, <2>10 DEF ReceiptsInv
      <4> QED
          BY <2>10, <4>1 DEF Anchored
    <3> QED
        BY <3>2, <3>3 DEF ReceiptsInv
  <2>2. ASSUME NEW v \in Runtimes, Load(v) PROVE ReceiptsInv'
    <3>0. /\ v \notin running /\ loaded' = [loaded EXCEPT ![v] = live]
          /\ UNCHANGED <<accepted, running, bound, receipts>>
        BY <2>2 DEF Load
    <3>1. \A x \in running : loaded'[x] = loaded[x]
        BY <2>0, <3>0 DEF TypeOK
    <3> QED
        BY <2>10, <3>0, <3>1
  <2>3. ASSUME NEW v \in Runtimes, Accept(v) PROVE ReceiptsInv'
    <3>1. CASE ~Acceptable(accepted, loaded[v], MinRelease)
      <4>1. /\ loaded' = [loaded EXCEPT ![v] = None] /\ v \notin running
            /\ UNCHANGED <<accepted, running, bound, receipts>>
          BY <2>3, <3>1 DEF Accept
      <4>2. \A x \in running : loaded'[x] = loaded[x]
          BY <2>0, <4>1 DEF TypeOK
      <4> QED
          BY <2>10, <4>1, <4>2
    <3>2. CASE Acceptable(accepted, loaded[v], MinRelease)
      <4>1. /\ accepted' = loaded[v] /\ running' = running \cup {v}
            /\ bound' = bound \cup {loaded[v]} /\ UNCHANGED <<loaded, receipts>>
            /\ loaded[v] # None
          BY <2>3, <3>2 DEF Accept
      <4>2. loaded[v] \in Documents /\ bound \subseteq Documents
          BY <2>0, <4>1 DEF TypeOK
      <4>3. ASSUME NEW d, Anchored(d) PROVE Anchored(d)'
        <5>1. d \in Documents /\ accepted \in Documents /\ KeepsKeys(d, accepted)
            BY <2>0, <4>2, <4>3 DEF Anchored, TypeOK
        <5>2. KeepsKeys(d, loaded[v])
            BY <3>2, <4>2, <5>1, KeepsKeysOn
        <5>3. accepted' # None /\ d \in bound'
            BY <4>1, <4>3 DEF Anchored
        <5>4. KeepsKeys(d, accepted')
            BY <4>1, <5>2
        <5> QED
            BY <5>3, <5>4 DEF Anchored
      <4>4. Anchored(loaded[v])'
        <5>1. loaded[v].release \in Nat
            BY <4>2 DEF Documents
        <5>2. KeepsKeys(loaded[v], loaded[v])
            BY <5>1, SMTT(40) DEF KeepsKeys
        <5> QED
            BY <4>1, <5>2 DEF Anchored
      <4>5. \A r \in receipts' : ReceiptOK(r)'
          BY <1>2, <4>1, <4>3 DEF ReceiptsInv, ReceiptOK
      <4>6. \A x \in running' : Anchored(loaded[x])'
          BY <1>2, <4>1, <4>3, <4>4 DEF ReceiptsInv
      <4> QED
          BY <4>1, <4>5, <4>6 DEF ReceiptsInv
    <3> QED
        BY <3>1, <3>2
  <2>4. ASSUME NEW v \in Runtimes, End(v) PROVE ReceiptsInv'
    <3>0. /\ running' = running \ {v} /\ loaded' = [loaded EXCEPT ![v] = None]
          /\ UNCHANGED <<accepted, bound, receipts>>
        BY <2>4 DEF End
    <3>1. \A x \in running' : x \in running /\ loaded'[x] = loaded[x]
        BY <2>0, <3>0 DEF TypeOK
    <3> QED
        BY <2>10, <3>0, <3>1
  <2>5. ASSUME NEW v \in Runtimes, NEW k \in Keys, Issue(v, k) PROVE ReceiptsInv'
    <3> DEFINE r == Receipt(loaded[v], k)
    <3>1. /\ v \in running /\ receipts' = receipts \cup {r}
          /\ UNCHANGED <<accepted, loaded, running, bound>>
          /\ CanSign(loaded[v].entries[k], now) /\ Usable(loaded[v])
        BY <2>5 DEF Issue
    <3>2. r.registry = loaded[v] /\ r.key = k /\ r.material = loaded[v].entries[k].material
        BY DEF Receipt
    <3>3. Anchored(loaded[v])
        BY <1>2, <3>1 DEF ReceiptsInv
    <3> HIDE DEF r
    <3>4. ReceiptOK(r)
        BY <3>1, <3>2, <3>3 DEF ReceiptOK, CanSign
    <3> QED
        BY <1>2, <3>1, <3>4 DEF ReceiptsInv, Anchored, ReceiptOK
  <2>6. CASE Tick \/ UNCHANGED vars
      BY <2>1, <2>6 DEF Tick, vars, runtime
  <2>7. ASSUME NEW w \in Writers,
               \/ StartRepublish(w) \/ Renew(w) \/ WritePrepared(w)
               \/ Archive(w) \/ Replace(w) \/ WriteCommitted(w) \/ Fail(w)
               \/ StartInstall(w) \/ Approve(w)
        PROVE  UNCHANGED runtime
      BY <2>7
         DEF StartRepublish, Renew, WritePrepared, Archive, Replace,
             WriteCommitted, Fail, StartInstall, Approve, Prepare
  <2>8. ASSUME NEW w \in Writers,
               \/ \E source, p \in Profiles, k \in Keys, m \in Materials :
                      Rollover(w, source, p, k, m)
               \/ \E r \in {live.release, live.release + 1} \cap Releases, e \in Edits :
                      Sign(w, r, e[1], e[2])
        PROVE  UNCHANGED runtime
      BY <2>8, ZenonT(60) DEF Rollover, Sign, Prepare
  <2>9. ASSUME UNCHANGED runtime PROVE ReceiptsInv'
      BY <2>1, <2>9 DEF runtime
  <2> QED
      BY <1>2, <2>2, <2>3, <2>4, <2>5, <2>6, <2>7, <2>8, <2>9 DEF Next, Writers
<1>3. IInv /\ ReceiptsInv => ReceiptsStand
  <2> SUFFICES ASSUME IInv, ReceiptsInv, NEW r \in receipts,
                      accepted.entries[r.key] # None =>
                          CanVerify(accepted.entries[r.key], r.at)
               PROVE  Verifies(r, accepted)
      BY DEF ReceiptsStand
  <2>1. ReceiptOK(r)
      BY DEF ReceiptsInv
  <2>2. UnderItsRegistry(r)
      BY <2>1 DEF ReceiptOK, Anchored, UnderItsRegistry, IInv, Found
  <2>3. KeyAnchored(r, accepted)
      BY <2>1 DEF ReceiptOK, Anchored, KeepsKeys, KeyAnchored
  <2> QED
      BY <2>2, <2>3 DEF Verifies
<1> QED
    BY <1>1, <1>2, <1>3, InvHolds, PTL DEF Spec
=============================================================================
