------------------------------- MODULE MCPolicy -------------------------------
(* Instances of PolicyRegistry for TLC.                                    *)
EXTENDS PolicyRegistry, TLC

CONSTANTS p1, p2, k1, k2, m1, m2

(* One profile and one receipt key, both active.                           *)
OneOfEach ==
    [release |-> 1, at |-> 0, approved |-> 0,
     entries |-> [i \in Ids |-> IF i \in {p1, k1}
                                THEN [status |-> "active", since |-> 0,
                                      material |-> m1]
                                ELSE None]]

(* Withdrawing an entry, backdating that, reviving it, dropping it,        *)
(* changing a key, and a new key that is not active.                       *)
SomeEdits ==
    LET entry(status, since, m) ==
            [status |-> status, since |-> since, material |-> m]
    IN  {<<p1, entry("retiring", 1, m1)>>, <<p1, entry("active", 1, m1)>>,
         <<p1, None>>,
         <<k1, entry("retired", 1, m1)>>, <<k1, entry("active", 0, m2)>>,
         <<k2, entry("retired", 1, m2)>>}

(* The steps of Next: two runtimes race, or one issues receipts, or one    *)
(* later sees what a failed writer left.                                   *)
Loaded == {v \in Runtimes : loaded[v] # None}

RaceNext ==
    \/ Tick
    \/ \E w \in Operators :
        \/ Approve(w)
        \/ \E source, p \in Profiles, k \in Keys, m \in Materials :
               Rollover(w, source, p, k, m)
        \/ \E r \in {live.release, live.release + 1} \cap Releases, e \in Edits :
               fails = 0 /\ Sign(w, r, e[1], e[2])
        \/ StartInstall(w)
    \/ \E w \in Timers : StartRepublish(w) \/ Renew(w)
    \/ \E w \in Writers :
        WritePrepared(w) \/ Archive(w) \/ Replace(w) \/ WriteCommitted(w)
    \/ receipts = {} /\ Loaded = {} /\ \E w \in Writers : Fail(w)
    \/ \E v \in Runtimes :
        \/ (fails > 0 \/ receipts # {} => Loaded \subseteq {v}) /\ Load(v)
        \/ Accept(v) \/ End(v)
        \/ fails = 0 /\ Loaded = {v} /\ \E k \in Keys : Issue(v, k)

RaceSpec == Init /\ [][RaceNext]_vars

Interchangeable == Permutations(Runtimes)
=============================================================================
