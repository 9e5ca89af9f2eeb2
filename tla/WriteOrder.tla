----------------------------- MODULE WriteOrder -----------------------------
(***************************************************************************)
(* What the order of writes means to a server: per device, time and        *)
(* measurement the last write wins.  A write is a record [key, val].       *)
(***************************************************************************)
EXTENDS Integers, Sequences, FiniteSets

\* The database a sequence of writes leaves behind (server, external).
LastWrite(writes) ==
    [k \in {writes[i].key : i \in DOMAIN writes} |->
        LET same == {i \in DOMAIN writes : writes[i].key = k}
        IN  writes[CHOOSE i \in same : \A j \in same : j <= i].val]

\* Which row comes p-th in a stable sort by key (Rust's sort_by_key, external).
StableOrder(keys) ==
    [p \in DOMAIN keys |->
        CHOOSE i \in DOMAIN keys :
            Cardinality({j \in DOMAIN keys :
                keys[j] < keys[i] \/ (keys[j] = keys[i] /\ j < i)}) = p - 1]

\* A finite set of numbers in ascending order.
InOrder(S) ==
    CHOOSE f \in [1..Cardinality(S) -> S] :
        S \subseteq {f[i] : i \in DOMAIN f} /\ \A i, j \in DOMAIN f : i < j => f[i] < f[j]

\* The elements of a sequence that `order` names, in that order.
Reordered(s, order) == [p \in DOMAIN order |-> s[order[p]]]
=============================================================================
