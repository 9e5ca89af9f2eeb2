---------------------------- MODULE MCSessionPool ----------------------------
(* SessionPool for TLC: its safety on small instances. *)
EXTENDS PoolFloor, TLC

Symmetry == Permutations(Threads)

AtRest(t) == pc[t] \in {"Out", "Held", "Waiting"}

\* What the doc comment of acquire says: it blocks "when the pool is at capacity
\* with nothing idle".  So when no call is on its way to notify or to retry,
\* a blocked acquire means that no slot and no idle session is available.
BlocksOnlyAtCapacity ==
    (waiters # {} /\ \A t \in Threads : AtRest(t)) => (live >= MaxSize /\ idle = <<>>)
=============================================================================
