-------------------------- MODULE SessionPoolProofs --------------------------
(* Proofs about SessionPool, for any number of threads and any pool size. *)
EXTENDS PoolFloor, FiniteSetTheorems, SequenceTheorems, TLAPS

-----------------------------------------------------------------------------
(* the idle queue *)

\* Taking the front session out of a queue without repetitions.
LEMMA TailLemma ==
    ASSUME NEW S, NEW q \in Seq(S), q # <<>>, IsInjective(q)
    PROVE  /\ Head(q) \in S /\ Head(q) \in Range(q) /\ Tail(q) \in Seq(S)
           /\ Range(Tail(q)) = Range(q) \ {Head(q)}
           /\ IsInjective(Tail(q))
<1>1. /\ Len(q) \in Nat /\ Len(q) >= 1 /\ Head(q) = q[1] /\ DOMAIN q = 1..Len(q)
      /\ Tail(q) \in Seq(S) /\ Len(Tail(q)) = Len(q) - 1
      /\ DOMAIN Tail(q) = 1..(Len(q) - 1)
      /\ \A i \in 1..(Len(q) - 1) : Tail(q)[i] = q[i + 1]
  OBVIOUS
<1>2. Range(Tail(q)) \subseteq Range(q) \ {Head(q)}
  BY <1>1 DEF Range, IsInjective
<1>3. ASSUME NEW x \in Range(q), x # Head(q) PROVE x \in Range(Tail(q))
  <2>1. PICK i \in 1..Len(q) : q[i] = x
    BY <1>1 DEF Range
  <2>2. i - 1 \in 1..(Len(q) - 1) /\ Tail(q)[i - 1] = x
    BY <1>1, <1>3, <2>1
  <2> QED BY <1>1, <2>2 DEF Range
<1>4. IsInjective(Tail(q))
  BY <1>1 DEF IsInjective
<1>5. Head(q) \in S /\ Head(q) \in Range(q)
  BY <1>1 DEF Range
<1> QED BY <1>1, <1>2, <1>3, <1>4, <1>5

\* Putting a session at the back.
LEMMA AppendLemma ==
    ASSUME NEW S, NEW q \in Seq(S), NEW e \in S
    PROVE  /\ Append(q, e) \in Seq(S) /\ Len(Append(q, e)) = Len(q) + 1
           /\ Range(Append(q, e)) = Range(q) \cup {e}
           /\ IsInjective(q) /\ e \notin Range(q) => IsInjective(Append(q, e))
<1>1. /\ Len(q) \in Nat /\ DOMAIN q = 1..Len(q)
      /\ Append(q, e) \in Seq(S) /\ Len(Append(q, e)) = Len(q) + 1
      /\ DOMAIN Append(q, e) = 1..(Len(q) + 1)
      /\ \A i \in 1..Len(q) : Append(q, e)[i] = q[i]
      /\ Append(q, e)[Len(q) + 1] = e
  OBVIOUS
<1>2. Range(Append(q, e)) \subseteq Range(q) \cup {e}
  BY <1>1 DEF Range
<1>3. Range(q) \cup {e} \subseteq Range(Append(q, e))
  BY <1>1 DEF Range
<1>4. IsInjective(q) /\ e \notin Range(q) => IsInjective(Append(q, e))
  BY <1>1 DEF Range, IsInjective
<1> QED BY <1>1, <1>2, <1>3, <1>4

\* The queue without its session at position p, position by position.
LEMMA RemoveIndices ==
    ASSUME NEW S, NEW q \in Seq(S), NEW p \in 1..Len(q)
    PROVE  LET r == SubSeq(q, 1, p - 1) \o SubSeq(q, p + 1, Len(q))
           IN  /\ r \in Seq(S) /\ Len(r) = Len(q) - 1
               /\ \A i \in 1..(Len(q) - 1) : r[i] = IF i < p THEN q[i] ELSE q[i + 1]
<1> DEFINE a == SubSeq(q, 1, p - 1)
           b == SubSeq(q, p + 1, Len(q))
<1>1. Len(q) \in Nat /\ p \in Nat /\ 1 <= p /\ p <= Len(q) /\ \A i \in 1..Len(q) : q[i] \in S
  OBVIOUS
<1>2. /\ a \in Seq(S) /\ Len(a) = p - 1
      /\ \A i \in 1..(p - 1) : a[i] = q[i]
  <2>1. \A i \in 1..(p - 1) : q[i] \in S
    BY <1>1
  <2> QED BY <1>1, <2>1, SubSeqProperties
<1>3. /\ b \in Seq(S) /\ Len(b) = Len(q) - p
      /\ \A i \in 1..(Len(q) - p) : b[i] = q[p + i]
  <2>1. \A i \in (p + 1)..Len(q) : q[i] \in S
    BY <1>1
  <2>2. /\ b \in Seq(S) /\ Len(b) = IF p + 1 <= Len(q) THEN Len(q) - (p + 1) + 1 ELSE 0
        /\ \A i \in 1..(Len(q) - (p + 1) + 1) : b[i] = q[(p + 1) + i - 1]
    BY <1>1, <2>1, SubSeqProperties
  <2> QED BY <1>1, <2>2
<1> HIDE DEF a, b
<1>4. /\ a \o b \in Seq(S) /\ Len(a \o b) = Len(a) + Len(b)
      /\ \A i \in 1..(Len(a) + Len(b)) :
            (a \o b)[i] = IF i <= Len(a) THEN a[i] ELSE b[i - Len(a)]
  BY <1>2, <1>3, ConcatProperties
<1>5. Len(a \o b) = Len(q) - 1
  BY <1>1, <1>2, <1>3, <1>4
<1>6. ASSUME NEW i \in 1..(Len(q) - 1)
      PROVE  (a \o b)[i] = IF i < p THEN q[i] ELSE q[i + 1]
  <2>1. CASE i < p
    BY <1>1, <1>2, <1>3, <1>4, <2>1
  <2>2. CASE ~(i < p)
    <3>1. i - (p - 1) \in 1..(Len(q) - p) /\ p + (i - (p - 1)) = i + 1
      BY <1>1, <2>2
    <3>2. b[i - (p - 1)] = q[i + 1]
      BY <1>3, <3>1
    <3>3. (a \o b)[i] = b[i - (p - 1)]
      BY <1>1, <1>2, <1>3, <1>4, <2>2
    <3> QED BY <2>2, <3>2, <3>3
  <2> QED BY <2>1, <2>2
<1> QED BY <1>4, <1>5, <1>6 DEF a, b

\* Taking a session out of the middle.
LEMMA RemoveLemma ==
    ASSUME NEW S, NEW q \in Seq(S), NEW p \in 1..Len(q), IsInjective(q)
    PROVE  LET r == SubSeq(q, 1, p - 1) \o SubSeq(q, p + 1, Len(q))
           IN  /\ q[p] \in S /\ q[p] \in Range(q) /\ r \in Seq(S)
               /\ Range(r) = Range(q) \ {q[p]}
               /\ IsInjective(r)
<1> DEFINE r == SubSeq(q, 1, p - 1) \o SubSeq(q, p + 1, Len(q))
<1>2. /\ r \in Seq(S) /\ Len(r) = Len(q) - 1
      /\ \A i \in 1..(Len(q) - 1) : r[i] = IF i < p THEN q[i] ELSE q[i + 1]
  BY RemoveIndices, Zenon
<1> HIDE DEF r
<1>1. /\ Len(q) \in Nat /\ DOMAIN q = 1..Len(q)
      /\ DOMAIN r = 1..(Len(q) - 1)
      /\ \A i \in 1..(p - 1) : r[i] = q[i]
      /\ \A i \in p..(Len(q) - 1) : r[i] = q[i + 1]
  BY <1>2
<1>3. Range(r) \subseteq Range(q) \ {q[p]}
  BY <1>1 DEF Range, IsInjective
<1>4. ASSUME NEW x \in Range(q), x # q[p] PROVE x \in Range(r)
  <2>1. PICK i \in 1..Len(q) : q[i] = x
    BY <1>1, <1>4 DEF Range
  <2>2. CASE i < p
    <3>1. i \in 1..(Len(q) - 1) /\ r[i] = x
      BY <1>1, <2>1, <2>2
    <3> QED BY <1>1, <3>1 DEF Range
  <2>3. CASE i > p
    <3>1. i - 1 \in p..(Len(q) - 1) /\ r[i - 1] = x
      BY <1>1, <2>1, <2>3
    <3> QED BY <1>1, <3>1 DEF Range
  <2> QED BY <1>4, <2>1, <2>2, <2>3
<1>5. IsInjective(r)
  <2> SUFFICES ASSUME NEW i \in 1..(Len(q) - 1), NEW j \in 1..(Len(q) - 1), r[i] = r[j]
               PROVE  i = j
    BY <1>1 DEF IsInjective
  <2>1. \A m, n \in 1..Len(q) : q[m] = q[n] => m = n
    BY <1>1 DEF IsInjective
  <2>2. CASE i < p /\ j < p
    <3>1. i \in 1..Len(q) /\ j \in 1..Len(q) /\ r[i] = q[i] /\ r[j] = q[j]
      BY <1>1, <2>2
    <3> QED BY <2>1, <3>1
  <2>3. CASE i < p /\ j >= p
    <3>1. i \in 1..Len(q) /\ j + 1 \in 1..Len(q) /\ r[i] = q[i] /\ r[j] = q[j + 1]
      BY <1>1, <2>3
    <3>2. i = j + 1
      BY <2>1, <3>1
    <3> QED BY <2>3, <3>2
  <2>4. CASE i >= p /\ j < p
    <3>1. i + 1 \in 1..Len(q) /\ j \in 1..Len(q) /\ r[i] = q[i + 1] /\ r[j] = q[j]
      BY <1>1, <2>4
    <3>2. i + 1 = j
      BY <2>1, <3>1
    <3> QED BY <2>4, <3>2
  <2>5. CASE i >= p /\ j >= p
    <3>1. i + 1 \in 1..Len(q) /\ j + 1 \in 1..Len(q) /\ r[i] = q[i + 1] /\ r[j] = q[j + 1]
      BY <1>1, <2>5
    <3>2. i + 1 = j + 1
      BY <2>1, <3>1
    <3> QED BY <3>2
  <2> QED BY <1>1, <2>2, <2>3, <2>4, <2>5
<1>6. q[p] \in S /\ q[p] \in Range(q)
  BY <1>1 DEF Range
<1> QED BY <1>2, <1>3, <1>4, <1>5, <1>6 DEF r

-----------------------------------------------------------------------------
(* steps that move no session and leave `live` alone *)

\* A step that moves no session keeps every part of PoolInv that it does not restate.
LEMMA QuietStep ==
    ASSUME PoolInv, TypeOK', Blocking', Ownership', InTransitOpen',
           UNCHANGED <<idle, closed, sess, expired, status, live>>,
           \A u \in Threads :
              /\ pc[u] = "RelCloseSelf" <=> pc'[u] = "RelCloseSelf"
              /\ expired[u] # {} => (pc[u] \in RemovingPCs <=> pc'[u] \in RemovingPCs)
              /\ pc'[u] = "AcqGrow" => pc[u] = "AcqGrow"
    PROVE  PoolInv'
<1> USE DEF PoolInv
<1>1. Exclusive' /\ NoLeak' /\ IdleUsable'
  BY DEF Exclusive, NoLeak, Reachable, IdleUsable
<1>2. Counted' = Counted
  BY DEF Counted, InUse
<1>3. Accounting' /\ Bounded'
  BY <1>2 DEF Accounting, Bounded
<1> QED BY <1>1, <1>3

\* The steps of which that is true.
Quiet(t) ==
    \/ AcquireCall(t) \/ AcquireLock(t) \/ SweepStop(t) \/ Exhausted(t) \/ Wait(t) \/ Timeout(t)
    \/ OpenSession(t) \/ HandOut(t) \/ UseOk(t) \/ (\E d \in Databases : ClientUse(t, d))
    \/ ReleaseDb(t) \/ ReleaseClosed(t) \/ Notify(t) \/ NotifyAll(t)

\* Locking, waiting, notifying, reading and writing databases, and clients' calls.
LEMMA QuietInv ==
    ASSUME PoolInv, NEW t \in Threads, Quiet(t)
    PROVE  PoolInv'
<1> USE PoolAssumption DEF PoolInv, Quiet, AcquireCall, AcquireLock, SweepStop, Exhausted, Wait,
        Timeout, OpenSession, HandOut, UseOk, ClientUse, ReleaseDb, ReleaseClosed, Notify,
        NotifyAll, Goto, local
<1>1. TypeOK'
  <2>1. pc' \in [Threads -> PCs]
    BY DEF TypeOK, PCs, AcquirePCs, ReleasePCs, ClosePCs
  <2>2. poolDb' \in Dbs /\ want' \in [Threads -> Dbs] /\ sessDb' \in [Sessions -> Dbs]
    BY DEF TypeOK, Dbs, Ownership, OwningPCs
  <2>3. late' \in [Threads -> BOOLEAN]
    BY Zenon DEF TypeOK
  <2>4. waiters' \in SUBSET Threads /\ lock' \in Threads \cup {NoThread} /\ aged' \in Nat
    BY DEF TypeOK
  <2>5. UNCHANGED <<idle, closed, live, sess, expired, status>>
    OBVIOUS
  <2> QED BY <2>1, <2>2, <2>3, <2>4, <2>5 DEF TypeOK
<1>2. Blocking'
  BY DEF TypeOK, Blocking, LockedPCs
<1>3. Ownership'
  BY DEF TypeOK, Ownership, OwningPCs, RemovingPCs, ClosingPCs, Blocking, LockedPCs
<1>4. InTransitOpen'
  BY DEF TypeOK, InTransitOpen, Blocking
<1>5. UNCHANGED <<idle, closed, sess, expired, status, live>>
  OBVIOUS
<1>6. \A u \in Threads :
         /\ pc[u] = "RelCloseSelf" <=> pc'[u] = "RelCloseSelf"
         /\ expired[u] # {} => (pc[u] \in RemovingPCs <=> pc'[u] \in RemovingPCs)
         /\ pc'[u] = "AcqGrow" => pc[u] = "AcqGrow"
  BY DEF TypeOK, Ownership, RemovingPCs, ClosingPCs, Blocking
<1> HIDE DEF PoolInv
<1> QED BY <1>1, <1>2, <1>3, <1>4, <1>5, <1>6, QuietStep

-----------------------------------------------------------------------------
(* steps that stop counting sessions *)

\* Sets of sessions are finite.
LEMMA CountedFinite ==
    /\ IsFiniteSet(Sessions)
    /\ \A S \in SUBSET Sessions : IsFiniteSet(S) /\ Cardinality(S) \in Nat
<1>1. IsFiniteSet(Sessions)
  BY PoolAssumption, FS_Interval DEF Sessions
<1> QED BY <1>1, FS_Subset, FS_CardinalityType

\* Subtracting from `live` the size of a set of counted sessions keeps the books.
LEMMA UncountStep ==
    ASSUME TypeOK, Accounting, Bounded, NEW D \in SUBSET Counted,
           Counted' = Counted \ D, live' = live - Cardinality(D),
           \A u \in Threads : pc'[u] = "AcqGrow" => pc[u] = "AcqGrow"
    PROVE  Accounting' /\ Bounded'
<1>1. Counted \in SUBSET Sessions /\ D \in SUBSET Sessions /\ Counted \cap D = D
  BY DEF Counted
<1>2. IsFiniteSet(Counted) /\ Cardinality(D) \in Nat /\ Cardinality(Counted) \in Nat
  BY <1>1, CountedFinite
<1>3. Cardinality(Counted \ D) = Cardinality(Counted) - Cardinality(D)
  BY <1>1, <1>2, FS_Difference
<1>4. Accounting'
  BY <1>3 DEF Accounting
<1>5. Bounded'
  BY <1>2, PoolAssumption DEF Bounded, TypeOK
<1> QED BY <1>4, <1>5

\* A failed open, a failed USE at hand-out, and the release of a dead session.
Discarding(t) == OpenErr(t) \/ UseErr(t) \/ ReleaseDead(t)

\* Giving up a session uncounts and forgets it.
LEMMA DiscardInv ==
    ASSUME PoolInv, NEW t \in Threads, Discarding(t)
    PROVE  PoolInv'
<1> USE PoolAssumption DEF PoolInv
<1>0. /\ pc[t] \in {"Opening", "Using", "Held"} /\ Discard(t)
      /\ sess[t] \in Sessions /\ sess[t] # NoSession
  BY DEF Discarding, OpenErr, UseErr, ReleaseDead, TypeOK, Ownership, OwningPCs
<1> USE DEF Discard, Shut, Own, Goto
<1>1. TypeOK'
  BY <1>0 DEF TypeOK, PCs, Dbs
<1>2. Blocking'
  BY <1>0 DEF TypeOK, Blocking, LockedPCs
<1>3. Ownership'
  BY <1>0 DEF TypeOK, Ownership, OwningPCs, RemovingPCs, ClosingPCs
<1>4. Exclusive'
  BY <1>0 DEF TypeOK, Exclusive, Range
<1>5. NoLeak'
  BY <1>0 DEF TypeOK, NoLeak, Reachable, Exclusive
<1>6. IdleUsable'
  BY <1>0 DEF TypeOK, IdleUsable, Exclusive, Range
<1>7. InTransitOpen'
  BY <1>0 DEF TypeOK, InTransitOpen, Exclusive, Ownership, OwningPCs
<1>8. Accounting' /\ Bounded'
  <2>1. {sess[t]} \in SUBSET Counted /\ Counted' = Counted \ {sess[t]}
    BY <1>0 DEF TypeOK, Counted, InUse, Exclusive, Ownership, OwningPCs, RemovingPCs, ClosingPCs
  <2>2. live' = live - Cardinality({sess[t]})
    BY <1>0, FS_Singleton
  <2>3. \A u \in Threads : pc'[u] = "AcqGrow" => pc[u] = "AcqGrow"
    BY <1>0 DEF TypeOK
  <2> QED BY <2>1, <2>2, <2>3, UncountStep
<1> QED BY <1>1, <1>2, <1>3, <1>4, <1>5, <1>6, <1>7, <1>8

\* release of a session into a closed pool, first half: it is no longer counted.
LEMMA ReleaseUncountInv ==
    ASSUME PoolInv, NEW t \in Threads, ReleaseUncount(t)
    PROVE  PoolInv'
<1> USE PoolAssumption DEF PoolInv, ReleaseUncount, Goto, local
<1>0. sess[t] \in Sessions /\ sess[t] # NoSession
  BY DEF TypeOK, Ownership, OwningPCs
<1>1. TypeOK'
  BY DEF TypeOK, PCs, ReleasePCs
<1>2. Blocking' /\ Ownership' /\ InTransitOpen'
  BY DEF TypeOK, Blocking, LockedPCs, Ownership, OwningPCs, RemovingPCs, ClosingPCs, InTransitOpen
<1>3. Exclusive' /\ NoLeak' /\ IdleUsable'
  BY DEF Exclusive, NoLeak, Reachable, IdleUsable
<1>4. Accounting' /\ Bounded'
  <2>1. {sess[t]} \in SUBSET Counted /\ Counted' = Counted \ {sess[t]}
    BY <1>0 DEF TypeOK, Counted, InUse, Exclusive, Ownership, OwningPCs, RemovingPCs, ClosingPCs
  <2>2. live' = live - Cardinality({sess[t]})
    BY FS_Singleton
  <2>3. \A u \in Threads : pc'[u] = "AcqGrow" => pc[u] = "AcqGrow"
    BY DEF TypeOK
  <2> QED BY <2>1, <2>2, <2>3, UncountStep
<1> QED BY <1>1, <1>2, <1>3, <1>4

\* The fetch_sub of sweep_idle and of close.
LEMMA SubtractInv ==
    ASSUME PoolInv, NEW t \in Threads, SweepCommit(t) \/ CloseUncount(t)
    PROVE  PoolInv'
<1> USE PoolAssumption DEF PoolInv, SweepCommit, CloseUncount, Goto, local
<1>1. TypeOK'
  <2>1. Cardinality(expired[t]) \in Nat
    BY CountedFinite DEF TypeOK
  <2> QED BY <2>1 DEF TypeOK, PCs, AcquirePCs, ReleasePCs, ClosePCs
<1>2. Blocking' /\ Ownership' /\ InTransitOpen'
  BY DEF TypeOK, Blocking, LockedPCs, Ownership, OwningPCs, RemovingPCs, ClosingPCs, InTransitOpen
<1>3. Exclusive' /\ NoLeak' /\ IdleUsable'
  BY DEF Exclusive, NoLeak, Reachable, IdleUsable
<1>4. Accounting' /\ Bounded'
  <2>1. expired[t] \in SUBSET Counted
    BY DEF TypeOK, Counted, RemovingPCs
  <2>2. Counted' = Counted \ expired[t]
    BY DEF TypeOK, Counted, InUse, Exclusive, RemovingPCs
  <2>3. \A u \in Threads : pc'[u] = "AcqGrow" => pc[u] = "AcqGrow"
    BY DEF TypeOK
  <2> QED BY <2>1, <2>2, <2>3, UncountStep
<1> QED BY <1>1, <1>2, <1>3, <1>4

-----------------------------------------------------------------------------
(* steps that change the state of sessions a thread owns *)

\* A handshake succeeds, or a held session dies.
LEMMA OwnStatusInv ==
    ASSUME PoolInv, NEW t \in Threads, OpenOk(t) \/ ClientFail(t)
    PROVE  PoolInv'
<1> USE PoolAssumption DEF PoolInv, OpenOk, ClientFail, Goto, local
<1>0. /\ sess[t] \in Sessions /\ sess[t] # NoSession /\ pc[t] \in {"Opening", "Held"}
      /\ status[sess[t]] # "free" /\ status'[sess[t]] # "free"
      /\ \A s \in Sessions : s # sess[t] => status'[s] = status[s]
  BY DEF TypeOK, Ownership, OwningPCs, NoLeak, Reachable
<1>1. TypeOK'
  BY <1>0 DEF TypeOK, PCs, AcquirePCs
<1>2. Blocking' /\ Ownership'
  BY DEF TypeOK, Blocking, LockedPCs, Ownership, OwningPCs, RemovingPCs, ClosingPCs
<1>3. InTransitOpen'
  BY <1>0 DEF TypeOK, InTransitOpen, Exclusive, Ownership, OwningPCs
<1>4. Exclusive' /\ NoLeak'
  BY <1>0 DEF Exclusive, NoLeak, Reachable
<1>5. IdleUsable'
  BY <1>0 DEF TypeOK, IdleUsable, Exclusive, Range
<1>6. Counted' = Counted
  BY <1>0 DEF TypeOK, Counted, InUse, RemovingPCs
<1>7. Accounting' /\ Bounded'
  BY <1>6 DEF TypeOK, Accounting, Bounded
<1> QED BY <1>1, <1>2, <1>3, <1>4, <1>5, <1>7

\* Sessions taken out by a sweep or by close are closed.
LEMMA CloseTakenInv ==
    ASSUME PoolInv, NEW t \in Threads, CloseExpired(t) \/ CloseDrained(t)
    PROVE  PoolInv'
<1> USE PoolAssumption DEF PoolInv, CloseExpired, CloseDrained, Shut, Goto, local
<1>1. TypeOK'
  BY DEF TypeOK, PCs, AcquirePCs, ClosePCs, Dbs
<1>2. Blocking' /\ Ownership'
  BY DEF TypeOK, Blocking, LockedPCs, Ownership, OwningPCs, RemovingPCs, ClosingPCs
<1>3. InTransitOpen'
  BY DEF TypeOK, InTransitOpen, Exclusive, Ownership, OwningPCs
<1>4. Exclusive'
  BY DEF TypeOK, Exclusive
<1>5. NoLeak'
  BY DEF TypeOK, NoLeak, Reachable, Exclusive
<1>6. IdleUsable'
  BY DEF TypeOK, IdleUsable, Exclusive, Range
<1>7. Counted' = Counted
  BY DEF TypeOK, Counted, InUse, RemovingPCs
<1>8. Accounting' /\ Bounded'
  BY <1>7 DEF TypeOK, Accounting, Bounded
<1> QED BY <1>1, <1>2, <1>3, <1>4, <1>5, <1>6, <1>8

\* release of a session into a closed pool, second half: it is closed.
LEMMA ReleaseCloseInv ==
    ASSUME PoolInv, NEW t \in Threads, ReleaseClose(t)
    PROVE  PoolInv'
<1> USE PoolAssumption DEF PoolInv, ReleaseClose, Shut, Own, Goto, local
<1>0. sess[t] \in Sessions /\ sess[t] # NoSession
  BY DEF TypeOK, Ownership, OwningPCs
<1>1. TypeOK'
  BY DEF TypeOK, PCs, Dbs
<1>2. Blocking' /\ Ownership'
  BY DEF TypeOK, Blocking, LockedPCs, Ownership, OwningPCs, RemovingPCs, ClosingPCs
<1>3. InTransitOpen'
  BY <1>0 DEF TypeOK, InTransitOpen, Exclusive, Ownership, OwningPCs
<1>4. Exclusive'
  BY DEF TypeOK, Exclusive, Range
<1>5. NoLeak'
  BY <1>0 DEF TypeOK, NoLeak, Reachable, Exclusive
<1>6. IdleUsable'
  BY <1>0 DEF TypeOK, IdleUsable, Exclusive, Range
<1>7. Counted' = Counted
  BY <1>0 DEF TypeOK, Counted, InUse, RemovingPCs
<1>8. Accounting' /\ Bounded'
  BY <1>7 DEF TypeOK, Accounting, Bounded
<1> QED BY <1>1, <1>2, <1>3, <1>4, <1>5, <1>6, <1>8

\* acquire reserves a slot: `live` goes up, and stays within max_size.
LEMMA GrowInv ==
    ASSUME PoolInv, NEW t \in Threads, Grow(t)
    PROVE  PoolInv'
<1> USE PoolAssumption DEF PoolInv, Grow, Own, Goto, local
<1>0. PICK s \in Sessions : /\ status[s] = "free"
                            /\ sess' = [sess EXCEPT ![t] = s]
                            /\ status' = [status EXCEPT ![s] = "opening"]
  OBVIOUS
<1>a. /\ s # NoSession /\ s \notin Range(idle) /\ sess[t] = NoSession
      /\ \A u \in Threads : sess[u] # s /\ s \notin expired[u]
  BY <1>0 DEF NoLeak, Reachable, Ownership, OwningPCs
<1>1. TypeOK'
  <2>1. late' \in [Threads -> BOOLEAN]
    BY Zenon DEF TypeOK
  <2> QED BY <1>0, <2>1 DEF TypeOK, PCs, AcquirePCs
<1>2. Blocking' /\ Ownership'
  BY <1>0, <1>a DEF TypeOK, Blocking, LockedPCs, Ownership, OwningPCs, RemovingPCs, ClosingPCs
<1>3. InTransitOpen'
  BY <1>0, <1>a DEF TypeOK, InTransitOpen
<1>4. Exclusive'
  BY <1>0, <1>a DEF TypeOK, Exclusive
<1>5. NoLeak'
  BY <1>0, <1>a DEF TypeOK, NoLeak, Reachable
<1>6. IdleUsable'
  BY <1>0, <1>a DEF TypeOK, IdleUsable, Range
<1>7. Counted' = Counted \cup {s} /\ s \notin Counted
  <2>1. s \notin Counted
    BY <1>a DEF Counted, InUse
  <2>2. /\ \A u \in Threads : u # t => sess'[u] = sess[u] /\ pc'[u] = pc[u]
        /\ sess'[t] = s /\ pc'[t] = "OpenDb" /\ pc[t] = "AcqGrow"
        /\ UNCHANGED <<idle, expired>> /\ expired[t] = {}
    BY <1>0 DEF TypeOK, Ownership, RemovingPCs, ClosingPCs
  <2> HIDE DEF PoolInv, Grow
  <2>3. \A x \in Sessions : x \in Counted' <=> x \in Counted \/ x = s
    BY <1>a, <2>2 DEF Counted, InUse, RemovingPCs
  <2> QED BY <2>1, <2>3 DEF Counted
<1>8. Accounting'
  <2>1. IsFiniteSet(Counted)
    BY CountedFinite DEF Counted
  <2>2. Cardinality(Counted \cup {s}) = Cardinality(Counted) + 1
    BY <1>7, <2>1, FS_AddElement
  <2> QED BY <1>7, <2>2 DEF Accounting
<1>9. Bounded'
  BY DEF TypeOK, Bounded, Blocking, LockedPCs
<1> QED BY <1>1, <1>2, <1>3, <1>4, <1>5, <1>6, <1>8, <1>9

-----------------------------------------------------------------------------
(* steps that move a session in or out of the idle queue *)

\* Every session of the queue is open before the step, and so after it.
LEMMA StillUsable ==
    ASSUME IdleUsable, TypeOK, Range(idle') \subseteq Range(idle), idle' \in Seq(Sessions),
           UNCHANGED <<closed, status>>
    PROVE  IdleUsable'
<1>1. \A x \in Range(idle) : status[x] = "open"
  BY DEF IdleUsable, Range
<1>2. \A i \in DOMAIN idle' : idle'[i] \in Range(idle')
  BY DEF Range
<1>3. ASSUME idle = <<>> PROVE idle' = <<>>
  <2>1. DOMAIN idle = {} /\ DOMAIN idle' = 1..Len(idle') /\ Len(idle') \in Nat
    BY <1>3
  <2>2. DOMAIN idle' = {}
    BY <1>2, <2>1 DEF Range
  <2>3. Len(idle') = 0
    BY <2>1, <2>2
  <2> QED BY <2>3
<1> QED BY <1>1, <1>2, <1>3 DEF IdleUsable

\* acquire_for_device takes a session out of the middle of the queue.
LEMMA AcquireForDeviceInv ==
    ASSUME PoolInv, NEW t \in Threads, AcquireForDevice(t)
    PROVE  PoolInv'
<1> USE PoolAssumption DEF PoolInv
<1>0. PICK pos \in 1..Len(idle) :
        /\ status[idle[pos]] = "open"
        /\ Own(t, idle[pos])
        /\ idle' = SubSeq(idle, 1, pos - 1) \o SubSeq(idle, pos + 1, Len(idle))
  BY DEF AcquireForDevice
<1>a. /\ idle[pos] \in Sessions /\ idle[pos] \in Range(idle) /\ idle' \in Seq(Sessions)
      /\ Range(idle') = Range(idle) \ {idle[pos]}
      /\ IsInjective(idle')
  <2>1. idle \in Seq(Sessions) /\ IsInjective(idle)
    BY DEF TypeOK, Exclusive
  <2> HIDE DEF PoolInv
  <2>2. LET r == SubSeq(idle, 1, pos - 1) \o SubSeq(idle, pos + 1, Len(idle))
        IN  /\ idle[pos] \in Sessions /\ idle[pos] \in Range(idle) /\ r \in Seq(Sessions)
            /\ Range(r) = Range(idle) \ {idle[pos]}
            /\ IsInjective(r)
    BY <2>1, RemoveLemma, Zenon
  <2> QED BY <1>0, <2>2
<1>b. /\ pc[t] = "Out" /\ lock = NoThread /\ idle[pos] # NoSession
      /\ pc' = [pc EXCEPT ![t] = "HandOut"] /\ sess' = [sess EXCEPT ![t] = idle[pos]]
      /\ UNCHANGED <<lock, aged, expired>>
  BY <1>0, <1>a DEF AcquireForDevice, Own, Goto
<1>1. TypeOK'
  BY <1>0, <1>a DEF TypeOK, AcquireForDevice, Own, Goto, local, PCs, AcquirePCs
<1>2. Blocking'
  BY DEF TypeOK, AcquireForDevice, Goto, local, Blocking, LockedPCs
<1>3. Ownership'
  <2>1. /\ pc \in [Threads -> PCs] /\ sess \in [Threads -> Sessions \cup {NoSession}]
        /\ Ownership /\ Blocking
    BY DEF TypeOK
  <2>2. ASSUME NEW u \in Threads
        PROVE  /\ sess'[u] # NoSession <=> pc'[u] \in OwningPCs
               /\ expired'[u] # {} => pc'[u] \in RemovingPCs \cup ClosingPCs
               /\ pc'[u] \notin {"AcqSweep", "RelSweep"}
    <3> HIDE DEF PoolInv
    <3>1. CASE u = t
      BY <1>b, <2>1, <3>1 DEF Ownership, OwningPCs, RemovingPCs, ClosingPCs
    <3>2. CASE u # t
      <4>1. pc'[u] = pc[u] /\ sess'[u] = sess[u] /\ expired'[u] = expired[u]
        BY <1>b, <2>1, <3>2
      <4>2. u # NoThread
        BY PoolAssumption
      <4> QED BY <1>b, <2>1, <4>1, <4>2 DEF Ownership, Blocking, LockedPCs
    <3> QED BY <3>1, <3>2
  <2> HIDE DEF PoolInv
  <2> QED BY <2>2 DEF Ownership
<1>4. Exclusive'
  <2>1. /\ sess \in [Threads -> Sessions \cup {NoSession}] /\ Exclusive
        /\ \A u \in Threads : sess[u] # idle[pos] /\ idle[pos] \notin expired[u]
    BY <1>a DEF TypeOK, Exclusive
  <2> HIDE DEF PoolInv
  <2>2. \A u \in Threads : sess'[u] = IF u = t THEN idle[pos] ELSE sess[u]
    BY <1>b, <2>1
  <2> QED BY <1>a, <1>b, <2>1, <2>2 DEF Exclusive
<1>5. NoLeak'
  <2>1. /\ sess \in [Threads -> Sessions \cup {NoSession}] /\ sess[t] = NoSession /\ NoLeak
        /\ status' = status /\ NoSession \notin Sessions
    BY <1>b DEF TypeOK, Ownership, OwningPCs, AcquireForDevice
  <2> HIDE DEF PoolInv
  <2>2. \A u \in Threads : sess'[u] = IF u = t THEN idle[pos] ELSE sess[u]
    BY <1>b, <2>1
  <2>3. Reachable' = Reachable
    <3>1. ASSUME NEW s \in Sessions PROVE s \in Reachable' <=> s \in Reachable
      <4>1. CASE s = idle[pos]
        BY <1>a, <2>2, <4>1 DEF Reachable
      <4>2. CASE s # idle[pos]
        BY <1>a, <1>b, <2>1, <2>2, <4>2 DEF Reachable
      <4> QED BY <4>1, <4>2
    <3> QED BY <3>1 DEF Reachable
  <2> QED BY <2>1, <2>3 DEF NoLeak
<1>6. IdleUsable'
  BY <1>a, StillUsable DEF AcquireForDevice, local
<1>7. InTransitOpen'
  BY <1>0 DEF TypeOK, AcquireForDevice, Own, Goto, local, InTransitOpen
<1>8. Counted' = Counted
  BY <1>0, <1>a DEF TypeOK, AcquireForDevice, Own, Goto, local, Counted, InUse, RemovingPCs,
     Ownership, ClosingPCs, OwningPCs
<1>9. Accounting' /\ Bounded'
  BY <1>8 DEF TypeOK, AcquireForDevice, Goto, Accounting, Bounded
<1> QED BY <1>1, <1>2, <1>3, <1>4, <1>5, <1>6, <1>7, <1>9

\* A sweep takes the front session out; it stays counted until the fetch_sub.
LEMMA SweepRemoveInv ==
    ASSUME PoolInv, NEW t \in Threads, SweepRemove(t)
    PROVE  PoolInv'
<1> USE PoolAssumption DEF PoolInv, SweepRemove, local
<1>0. aged \in Nat /\ aged > 0 /\ aged <= Len(idle) /\ idle # <<>> /\ Len(idle) \in Nat
  BY DEF TypeOK, Ownership
<1>a. /\ Head(idle) \in Sessions /\ Head(idle) \in Range(idle) /\ idle' \in Seq(Sessions)
      /\ Range(idle') = Range(idle) \ {Head(idle)} /\ IsInjective(idle')
      /\ Len(idle') = Len(idle) - 1
  BY <1>0, TailLemma DEF TypeOK, Exclusive
<1>1. TypeOK'
  BY <1>0, <1>a DEF TypeOK
<1>2. Blocking' /\ InTransitOpen' /\ Bounded'
  BY DEF Blocking, InTransitOpen, Bounded
<1>3. Ownership'
  BY <1>0, <1>a DEF TypeOK, Ownership, RemovingPCs
<1>4. Exclusive'
  BY <1>a DEF TypeOK, Exclusive
<1>5. NoLeak'
  BY <1>a DEF TypeOK, NoLeak, Reachable
<1>6. IdleUsable'
  BY <1>a, StillUsable
<1>7. Counted' = Counted
  BY <1>a DEF TypeOK, Counted, InUse, RemovingPCs
<1>8. Accounting'
  BY <1>7 DEF Accounting
<1> QED BY <1>1, <1>2, <1>3, <1>4, <1>5, <1>6, <1>8

\* The loop in acquire that evicts dead sessions finds an open one at once.
LEMMA FirstOpenLemma ==
    ASSUME TypeOK, IdleUsable
    PROVE  FirstOpen = 1
<1> DEFINE Found(i) == /\ i <= Len(idle) => status[idle[i]] = "open"
                       /\ \A j \in 1..(i - 1) : status[idle[j]] # "open"
<1>0. Len(idle) \in Nat /\ DOMAIN idle = 1..Len(idle)
  BY DEF TypeOK
<1>1. 1 \in 1..(Len(idle) + 1) /\ Found(1)
  BY <1>0 DEF IdleUsable
<1>2. ASSUME NEW i \in 1..(Len(idle) + 1), Found(i) PROVE i = 1
  <2>1. CASE i > 1
    <3>1. 1 \in 1..(i - 1) /\ 1 \in DOMAIN idle
      BY <1>0, <2>1
    <3> QED BY <1>2, <3>1 DEF IdleUsable
  <2> QED BY <1>0, <2>1
<1> HIDE DEF Found
<1>3. (CHOOSE i \in 1..(Len(idle) + 1) : Found(i)) = 1
  BY <1>1, <1>2
<1>4. FirstOpen = 1
  BY <1>3 DEF FirstOpen, Found
<1> QED BY <1>4

\* Shutting no session changes nothing.
LEMMA ShutNone ==
    ASSUME TypeOK, NEW n, n = 0, Shut({idle[j] : j \in 1..n})
    PROVE  status' = status /\ sessDb' = sessDb
<1>1. {idle[j] : j \in 1..n} = {}
  OBVIOUS
<1> QED BY <1>1 DEF TypeOK, Shut

\* acquire takes the front session.
LEMMA TakeIdleInv ==
    ASSUME PoolInv, NEW t \in Threads, TakeIdle(t)
    PROVE  PoolInv'
<1> USE PoolAssumption DEF PoolInv
<1>0. /\ FirstOpen = 1 /\ idle # <<>> /\ Len(idle) \in Nat /\ Len(idle) >= 1
      /\ idle[1] = Head(idle) /\ status[idle[1]] = "open"
  BY FirstOpenLemma DEF TakeIdle, TypeOK, IdleUsable
<1>a. status' = status /\ sessDb' = sessDb /\ live' = live
  <2>1. Shut({idle[j] : j \in 1..(FirstOpen - 1)}) /\ FirstOpen - 1 = 0
    BY <1>0 DEF TakeIdle, Evict
  <2>2. status' = status /\ sessDb' = sessDb
    BY <2>1, ShutNone
  <2> QED BY <1>0, <2>2 DEF TakeIdle, TypeOK
<1>b. idle' = Tail(idle)
  BY <1>0 DEF TakeIdle, Evict, TypeOK
<1>c. /\ idle[1] \in Sessions /\ idle[1] \in Range(idle) /\ idle' \in Seq(Sessions)
      /\ Range(idle') = Range(idle) \ {idle[1]} /\ IsInjective(idle')
  BY <1>0, <1>b, TailLemma DEF TypeOK, Exclusive
<1>d. /\ pc[t] = "AcqTake" /\ sess' = [sess EXCEPT ![t] = idle[1]] /\ lock' = NoThread
      /\ pc' = [pc EXCEPT ![t] = "HandOut"]
      /\ UNCHANGED <<waiters, closed, aged, poolDb, expired, want>>
  BY <1>0 DEF TakeIdle, Own, Goto
<1>1. TypeOK'
  <2>1. late' \in [Threads -> BOOLEAN]
    BY Zenon DEF TypeOK, TakeIdle
  <2> QED BY <1>a, <1>c, <1>d, <2>1 DEF TypeOK, PCs, AcquirePCs
<1>2. Blocking'
  BY <1>d DEF TypeOK, Blocking, LockedPCs
<1>3. Ownership'
  BY <1>c, <1>d DEF TypeOK, Ownership, OwningPCs, RemovingPCs, ClosingPCs, Blocking, LockedPCs
<1>4. Exclusive'
  BY <1>c, <1>d DEF TypeOK, Exclusive, Ownership, OwningPCs
<1>5. NoLeak'
  BY <1>a, <1>c, <1>d DEF TypeOK, NoLeak, Reachable, Ownership, OwningPCs
<1>6. IdleUsable'
  BY <1>a, <1>c, <1>d, StillUsable
<1>7. InTransitOpen'
  BY <1>0, <1>a, <1>d DEF TypeOK, InTransitOpen
<1>8. Counted' = Counted
  BY <1>c, <1>d DEF TypeOK, Counted, InUse, RemovingPCs, Ownership, ClosingPCs, OwningPCs
<1>9. Accounting' /\ Bounded'
  BY <1>8, <1>a, <1>d DEF TypeOK, Accounting, Bounded
<1> QED BY <1>1, <1>2, <1>3, <1>4, <1>5, <1>6, <1>7, <1>9

\* acquire compares `live` with max_size; the outcome is valid while it holds the mutex.
LEMMA CheckCapacityInv ==
    ASSUME PoolInv, NEW t \in Threads, CheckCapacity(t)
    PROVE  PoolInv'
<1> USE PoolAssumption DEF PoolInv
<1>0. idle = <<>> /\ Len(idle) = 0
  <2>1. FirstOpen = 1 /\ FirstOpen > Len(idle) /\ idle \in Seq(Sessions)
    BY FirstOpenLemma DEF CheckCapacity, TypeOK
  <2>2. Len(idle) = 0
    BY <2>1
  <2> QED BY <2>1, <2>2
<1>a. status' = status /\ sessDb' = sessDb /\ live' = live /\ idle' = <<>>
  <2>1. Shut({idle[j] : j \in 1..Len(idle)}) /\ Len(idle) = 0
    BY <1>0 DEF CheckCapacity, Evict
  <2>2. status' = status /\ sessDb' = sessDb
    BY <2>1, ShutNone
  <2>3. idle' = SubSeq(idle, Len(idle) + 2, Len(idle))
    BY DEF CheckCapacity, Evict
  <2>4. idle' = <<>>
    BY <1>0, <2>3
  <2> QED BY <1>0, <2>2, <2>4 DEF CheckCapacity, TypeOK
<1>b. /\ pc[t] = "AcqTake" /\ UNCHANGED <<lock, waiters, closed, aged, poolDb, sess, expired, late, want>>
      /\ \/ live < MaxSize /\ pc' = [pc EXCEPT ![t] = "AcqGrow"]
         \/ live >= MaxSize /\ pc' = [pc EXCEPT ![t] = "AcqFull"]
  BY <1>a DEF CheckCapacity, Goto, local
<1>1. TypeOK'
  BY <1>a, <1>b DEF TypeOK, PCs, AcquirePCs
<1>2. Blocking' /\ Ownership' /\ InTransitOpen'
  BY <1>0, <1>a, <1>b DEF TypeOK, Blocking, LockedPCs, Ownership, OwningPCs, RemovingPCs, ClosingPCs, InTransitOpen
<1>3. Exclusive' /\ NoLeak' /\ IdleUsable'
  BY <1>0, <1>a, <1>b DEF Exclusive, NoLeak, Reachable, IdleUsable
<1>4. Counted' = Counted
  BY <1>0, <1>a, <1>b DEF TypeOK, Counted, InUse, RemovingPCs
<1>5. Accounting' /\ Bounded'
  BY <1>4, <1>a, <1>b DEF TypeOK, Accounting, Bounded
<1> QED BY <1>1, <1>2, <1>3, <1>5

\* release pushes the session at the back of the queue.
LEMMA ReleaseIdleInv ==
    ASSUME PoolInv, NEW t \in Threads, ReleaseIdle(t)
    PROVE  PoolInv'
<1> USE PoolAssumption DEF PoolInv, ReleaseIdle, Own, Goto, local
<1>0. /\ sess[t] \in Sessions /\ sess[t] # NoSession /\ sess[t] \notin Range(idle)
      /\ status[sess[t]] = "open"
  BY DEF TypeOK, Ownership, OwningPCs, Exclusive, InTransitOpen
<1>a. /\ idle' \in Seq(Sessions) /\ Len(idle') \in Nat
      /\ Range(idle') = Range(idle) \cup {sess[t]} /\ IsInjective(idle')
  BY <1>0, AppendLemma DEF TypeOK, Exclusive
<1>1. TypeOK'
  BY <1>a DEF TypeOK, PCs, ReleasePCs
<1>2. Blocking'
  BY DEF TypeOK, Blocking, LockedPCs
<1>3. Ownership'
  BY <1>0, <1>a DEF TypeOK, Ownership, OwningPCs, RemovingPCs, ClosingPCs, Blocking, LockedPCs
<1>4. Exclusive'
  <2>1. sess' = [sess EXCEPT ![t] = NoSession] /\ expired' = expired
    OBVIOUS
  <2> HIDE DEF ReleaseIdle
  <2>2. NoSession \notin Range(idle')
    BY <1>0, <1>a DEF TypeOK, Range
  <2>3. \A u \in Threads : sess'[u] = NoSession \/ (u # t /\ sess'[u] = sess[u])
    BY <2>1 DEF TypeOK
  <2> QED BY <1>0, <1>a, <2>1, <2>2, <2>3 DEF TypeOK, Exclusive
<1>5. NoLeak'
  BY <1>0, <1>a DEF TypeOK, NoLeak, Reachable
<1>6. IdleUsable'
  <2>1. \A x \in Range(idle') : status[x] = "open"
    BY <1>0, <1>a DEF IdleUsable, Range
  <2> QED BY <2>1 DEF IdleUsable, Range
<1>7. InTransitOpen'
  BY DEF TypeOK, InTransitOpen
<1>8. Counted' = Counted
  BY <1>0, <1>a DEF TypeOK, Counted, InUse, RemovingPCs, Ownership, ClosingPCs
<1>9. Accounting' /\ Bounded'
  BY <1>8 DEF TypeOK, Accounting, Bounded
<1> QED BY <1>1, <1>2, <1>3, <1>4, <1>5, <1>6, <1>7, <1>9

\* close takes the whole queue.
LEMMA CloseInv ==
    ASSUME PoolInv, NEW t \in Threads, Close(t)
    PROVE  PoolInv'
<1> USE PoolAssumption DEF PoolInv, Close, Goto, local
<1>a. /\ Range(idle) \in SUBSET Sessions /\ Range(idle') = {} /\ IsInjective(idle')
      /\ idle' \in Seq(Sessions) /\ idle' = <<>> /\ Len(idle') = 0 /\ expired[t] = {}
  BY DEF TypeOK, Range, IsInjective, Ownership, RemovingPCs, ClosingPCs
<1>1. TypeOK'
  BY <1>a DEF TypeOK, PCs, ClosePCs
<1>2. Blocking' /\ InTransitOpen'
  BY DEF TypeOK, Blocking, LockedPCs, InTransitOpen
<1>3. Ownership'
  BY <1>a DEF TypeOK, Ownership, OwningPCs, RemovingPCs, ClosingPCs, Blocking, LockedPCs
<1>4. Exclusive'
  BY <1>a DEF TypeOK, Exclusive
<1>5. NoLeak'
  BY <1>a DEF TypeOK, NoLeak, Reachable
<1>6. IdleUsable'
  BY <1>a DEF IdleUsable
<1>7. Counted' = Counted
  BY <1>a DEF TypeOK, Counted, InUse, RemovingPCs
<1>8. Accounting' /\ Bounded'
  BY <1>7 DEF TypeOK, Accounting, Bounded
<1> QED BY <1>1, <1>2, <1>3, <1>4, <1>5, <1>6, <1>8

-----------------------------------------------------------------------------
(* the invariant *)

\* SessionPool::new establishes the invariant.
LEMMA InitInv == Init => PoolInv
<1> SUFFICES ASSUME Init PROVE PoolInv
  OBVIOUS
<1> USE PoolAssumption DEF Init
<1>0. /\ idle \in Seq(Sessions) /\ Len(idle) = MinSize /\ DOMAIN idle = 1..MinSize
      /\ \A i \in 1..MinSize : idle[i] = i /\ i \in Sessions
      /\ Range(idle) = 1..MinSize
  <2>1. MinSize \in Nat /\ MinSize <= NumSessions
    <3>1. Cardinality(Threads) \in Nat
      BY FS_CardinalityType
    <3>2. \A m, n \in Nat : m * (n + 1) >= m /\ m * (n + 1) \in Nat
      OBVIOUS
    <3> QED BY <3>1, <3>2
  <2>2. 1..MinSize \subseteq Sessions
    BY <2>1 DEF Sessions
  <2> QED BY <2>1, <2>2 DEF Range
<1>1. TypeOK
  <2>1. late \in [Threads -> BOOLEAN] /\ closed \in BOOLEAN
    BY Zenon DEF TypeOK
  <2>2. /\ status \in [Sessions -> {"free", "opening", "open", "dead"}]
        /\ sessDb \in [Sessions -> Dbs]
    BY DEF Dbs
  <2> QED BY <1>0, <2>1, <2>2 DEF TypeOK, PCs, Dbs
<1>2. Blocking /\ Ownership /\ InTransitOpen
  BY DEF Blocking, LockedPCs, Ownership, OwningPCs, RemovingPCs, ClosingPCs, InTransitOpen
<1>3. Exclusive
  BY <1>0 DEF Exclusive, IsInjective
<1>4. NoLeak
  <2>1. \A s \in Sessions : s \in 1..MinSize <=> s <= MinSize
    BY DEF Sessions
  <2> QED BY <1>0, <2>1 DEF NoLeak, Reachable
<1>5. IdleUsable
  BY <1>0 DEF IdleUsable
<1>6. Counted = 1..MinSize
  BY <1>0 DEF Counted, InUse
<1>7. Accounting
  BY <1>6, FS_Interval DEF Accounting
<1>8. Bounded
  BY DEF Bounded
<1> QED BY <1>1, <1>2, <1>3, <1>4, <1>5, <1>7, <1>8 DEF PoolInv

\* Every step of every thread keeps the invariant.
LEMMA NextInv == PoolInv /\ [Next]_vars => PoolInv'
<1> SUFFICES ASSUME PoolInv, [Next]_vars PROVE PoolInv'
  OBVIOUS
<1>1. ASSUME NEW t \in Threads, AcquireStep(t) PROVE PoolInv'
  BY <1>1, QuietInv, DiscardInv, OwnStatusInv, SubtractInv, CloseTakenInv, SweepRemoveInv,
     TakeIdleInv, CheckCapacityInv, GrowInv DEF AcquireStep, Quiet, Discarding
<1>2. ASSUME NEW t \in Threads, ReleaseStep(t) PROVE PoolInv'
  BY <1>2, QuietInv, ReleaseIdleInv, ReleaseUncountInv, ReleaseCloseInv DEF ReleaseStep, Quiet
<1>3. ASSUME NEW t \in Threads, CloseStep(t) PROVE PoolInv'
  BY <1>3, QuietInv, SubtractInv, CloseTakenInv DEF CloseStep, Quiet
<1>4. ASSUME NEW t \in Threads, ClientStep(t) PROVE PoolInv'
  BY <1>4, QuietInv, DiscardInv, OwnStatusInv, AcquireForDeviceInv, CloseInv
     DEF ClientStep, Quiet, Discarding
<1>5. CASE UNCHANGED vars
  BY <1>5 DEF vars, local, PoolInv, TypeOK, Blocking, Ownership, Exclusive, NoLeak, Reachable, IdleUsable,
     InTransitOpen, Accounting, Counted, InUse, Bounded
<1> QED BY <1>1, <1>2, <1>3, <1>4, <1>5 DEF Next

\* The inductive invariant holds throughout.
THEOREM PoolInvariant == Spec => []PoolInv
BY InitInv, NextInv, PTL DEF Spec

\* All variables keep their types.
THEOREM TypeCorrect == Spec => []TypeOK
<1>1. PoolInv => TypeOK
  BY DEF PoolInv
<1> QED BY <1>1, PoolInvariant, PTL

\* `live` counts the pool's sessions exactly, although several fetch_sub calls
\* run without the mutex.
THEOREM LiveIsExact == Spec => []Accounting
<1>1. PoolInv => Accounting
  BY DEF PoolInv
<1> QED BY <1>1, PoolInvariant, PTL

\* However many threads use it, the pool never has more than max_size sessions in service.
THEOREM NeverOverCapacity == Spec => []Capacity
<1>1. ASSUME PoolInv PROVE Capacity
  <2>1. InService \in SUBSET Counted /\ Counted \in SUBSET Sessions /\ InService \in SUBSET Sessions
    BY DEF InService, Counted
  <2>2. /\ Cardinality(InService) <= Cardinality(Counted)
        /\ Cardinality(InService) \in Nat /\ Cardinality(Counted) \in Nat
    BY <2>1, CountedFinite, FS_Subset
  <2> QED BY <1>1, <2>2, PoolAssumption DEF PoolInv, Accounting, Bounded, Capacity, TypeOK
<1> QED BY <1>1, PoolInvariant, PTL

\* No subtraction from `live` wraps around.
THEOREM NeverUnderflows == Spec => []NoUnderflow
<1>1. ASSUME PoolInv PROVE NoUnderflow
  <2>0. Counted \in SUBSET Sessions /\ IsFiniteSet(Counted) /\ live = Cardinality(Counted)
    BY <1>1, CountedFinite DEF PoolInv, Accounting, Counted
  <2>1. ASSUME NEW t \in Threads, pc[t] \in RemovingPCs PROVE live >= Cardinality(expired[t])
    <3>1. expired[t] \in SUBSET Counted /\ expired[t] \in SUBSET Sessions
      BY <1>1, <2>1 DEF PoolInv, TypeOK, Counted
    <3> QED BY <2>0, <3>1, CountedFinite, FS_Subset
  <2>2. ASSUME NEW t \in Threads, NEW s \in Sessions, InUse(t, s) PROVE live >= 1
    <3>1. {s} \in SUBSET Counted /\ {s} \in SUBSET Sessions
      BY <2>2 DEF Counted
    <3>2. Cardinality({s}) = 1 /\ Cardinality({s}) <= Cardinality(Counted)
      BY <2>0, <3>1, FS_Subset, FS_Singleton
    <3> QED BY <2>0, <3>2, CountedFinite
  <2> QED BY <2>1, <2>2 DEF NoUnderflow
<1> QED BY <1>1, PoolInvariant, PTL

\* Every idle session is open, and none is left in a closed pool.
THEOREM IdleAlwaysUsable == Spec => []IdleUsable
<1>1. PoolInv => IdleUsable
  BY DEF PoolInv
<1> QED BY <1>1, PoolInvariant, PTL

-----------------------------------------------------------------------------
(* close and the waiters *)

\* A thread that went past the test of `closed` still holds the mutex close needs.
OpenWhileLocked == closed => lock = NoThread

\* close leaves no thread blocked behind: whoever waits in a closed pool is
\* still going to be woken by a notify_all.
THEOREM CloseWakesEveryone == Spec => []CloseWakesAll
<1> DEFINE Inv == CloseWakesAll /\ OpenWhileLocked
<1>1. Init => Inv
  BY DEF Init, CloseWakesAll, OpenWhileLocked
<1>2. ASSUME PoolInv, Inv, [Next]_vars PROVE Inv'
  <2> USE <1>2, PoolAssumption DEF PoolInv, CloseWakesAll, OpenWhileLocked, ClosePCs, Goto
  <2>1. ASSUME NEW t \in Threads, AcquireStep(t) PROVE Inv'
    <3>1. waiters' \subseteq waiters \/ ~closed'
      BY <2>1 DEF AcquireStep, AcquireLock, SweepRemove, SweepStop, SweepCommit, CloseExpired,
         TakeIdle, CheckCapacity, Grow, Exhausted, Wait, Timeout, OpenSession, OpenOk, OpenErr,
         HandOut, UseOk, UseErr, Discard, local, Blocking, LockedPCs, TypeOK
    <3>2. closed' = closed /\ (closed => lock' = lock)
      BY <2>1 DEF AcquireStep, AcquireLock, SweepRemove, SweepStop, SweepCommit, CloseExpired,
         TakeIdle, CheckCapacity, Grow, Exhausted, Wait, Timeout, OpenSession, OpenOk, OpenErr,
         HandOut, UseOk, UseErr, Discard, local, Blocking, LockedPCs, TypeOK
    <3>3. \A u \in Threads : pc[u] \in ClosePCs => pc'[u] = pc[u]
      BY <2>1 DEF AcquireStep, AcquireLock, SweepRemove, SweepStop, SweepCommit, CloseExpired,
         TakeIdle, CheckCapacity, Grow, Exhausted, Wait, Timeout, OpenSession, OpenOk, OpenErr,
         HandOut, UseOk, UseErr, Discard, local, TypeOK
    <3> QED BY <3>1, <3>2, <3>3
  <2>2. ASSUME NEW t \in Threads, ReleaseStep(t) PROVE Inv'
    <3>1. waiters' \subseteq waiters /\ closed' = closed /\ (closed => lock' = lock)
      BY <2>2 DEF ReleaseStep, ReleaseIdle, ReleaseClosed, ReleaseUncount, ReleaseClose, Notify, local
    <3>2. \A u \in Threads : pc[u] \in ClosePCs => pc'[u] = pc[u]
      BY <2>2 DEF ReleaseStep, ReleaseIdle, ReleaseClosed, ReleaseUncount, ReleaseClose, Notify,
         local, TypeOK, Blocking
    <3> QED BY <3>1, <3>2
  <2>3. ASSUME NEW t \in Threads, CloseStep(t) PROVE Inv'
    BY <2>3 DEF CloseStep, CloseUncount, CloseDrained, NotifyAll, local, TypeOK
  <2>4. ASSUME NEW t \in Threads, ClientStep(t) PROVE Inv'
    <3>1. CASE Close(t)
      BY <3>1 DEF Close, TypeOK
    <3>2. CASE ~Close(t)
      <4>1. UNCHANGED <<waiters, closed, lock>>
        BY <2>4, <3>2 DEF ClientStep, AcquireCall, AcquireForDevice, ClientUse, ClientFail,
           ReleaseDead, Discard, ReleaseDb, local
      <4>2. \A u \in Threads : pc[u] \in ClosePCs => pc'[u] = pc[u]
        BY <2>4, <3>2 DEF ClientStep, AcquireCall, AcquireForDevice, ClientUse, ClientFail,
           ReleaseDead, Discard, ReleaseDb, local, TypeOK
      <4> QED BY <4>1, <4>2
    <3> QED BY <3>1, <3>2
  <2>5. CASE UNCHANGED vars
    BY <2>5 DEF vars
  <2> QED BY <2>1, <2>2, <2>3, <2>4, <2>5 DEF Next
<1>3. Inv => CloseWakesAll
  OBVIOUS
<1> QED BY <1>1, <1>2, <1>3, PoolInvariant, PTL DEF Spec

-----------------------------------------------------------------------------
(* the floor of the sweep *)

\* Threads that drain the pool or return a session to a closed one.
ClosedPCs == ClosePCs \cup {"RelUncount"}
AfterClose == \A t \in Threads : pc[t] \in ClosedPCs => closed

\* Sessions in service lost at most one of their number.
LEMMA InServiceLoses ==
    ASSUME NEW s \in Sessions, InService \ {s} \subseteq InService'
    PROVE  /\ Cardinality(InService) \in Nat /\ Cardinality(InService)' \in Nat
           /\ Cardinality(InService) - 1 <= Cardinality(InService)'
<1> DEFINE A == InService
           B == InService'
<1>1. A \in SUBSET Sessions /\ B \in SUBSET Sessions /\ A \ {s} \subseteq B
  BY DEF InService
<1> HIDE DEF A, B
<1>2. IsFiniteSet(A) /\ IsFiniteSet(B) /\ Cardinality(A) \in Nat /\ Cardinality(B) \in Nat
  BY <1>1, CountedFinite
<1>3. Cardinality(A \ {s}) <= Cardinality(B)
  BY <1>1, <1>2, FS_Subset
<1>4. Cardinality(A \ {s}) = Cardinality(A) \/ Cardinality(A \ {s}) = Cardinality(A) - 1
  <2>1. CASE s \in A
    BY <1>2, <2>1, FS_RemoveElement
  <2>2. CASE s \notin A
    <3>1. A \ {s} = A
      BY <2>2
    <3> QED BY <3>1
  <2> QED BY <2>1, <2>2
<1>5. Cardinality(A) - 1 <= Cardinality(B)
  BY <1>2, <1>3, <1>4
<1> QED BY <1>2, <1>5 DEF A, B

\* Sessions in service lost none of their number.
LEMMA InServiceKeeps ==
    ASSUME InService \subseteq InService'
    PROVE  /\ Cardinality(InService) \in Nat /\ Cardinality(InService)' \in Nat
           /\ Cardinality(InService) <= Cardinality(InService)'
<1> DEFINE A == InService
           B == InService'
<1>1. A \in SUBSET Sessions /\ B \in SUBSET Sessions /\ A \subseteq B
  BY DEF InService
<1> HIDE DEF A, B
<1>2. IsFiniteSet(A) /\ IsFiniteSet(B) /\ Cardinality(A) \in Nat /\ Cardinality(B) \in Nat
  BY <1>1, CountedFinite
<1>3. Cardinality(A) <= Cardinality(B)
  BY <1>1, <1>2, FS_Subset
<1> QED BY <1>2, <1>3 DEF A, B

\* A sweep that goes on has more than min_size sessions in service: its own are
\* all that `live` counts besides.
LEMMA SweepAboveFloor ==
    ASSUME PoolInv, AfterClose, ~closed, NEW t \in Threads, pc[t] \in {"AcqSweep", "RelSweep"}, AboveFloor(t)
    PROVE  Cardinality(InService) > MinSize
<1> DEFINE A == InService
           E == expired[t]
<1>1. A \in SUBSET Sessions /\ E \in SUBSET Sessions /\ Counted \in SUBSET Sessions
  BY DEF PoolInv, TypeOK, InService, Counted
<1>2. \A u \in Threads : u # t => pc[u] \notin RemovingPCs
  <2>1. lock = t
    BY DEF PoolInv, Blocking, LockedPCs
  <2>2. \A u \in Threads : u # t => pc[u] \notin LockedPCs
    BY <2>1 DEF PoolInv, Blocking
  <2>3. \A u \in Threads : pc[u] # "Draining"
    BY DEF AfterClose, ClosedPCs, ClosePCs
  <2> QED BY <2>2, <2>3 DEF RemovingPCs, LockedPCs
<1>3. Counted \subseteq A \cup E
  BY <1>2 DEF Counted, InService
<1> HIDE DEF A, E
<1>4. /\ IsFiniteSet(A) /\ IsFiniteSet(E) /\ Cardinality(A) \in Nat /\ Cardinality(E) \in Nat
      /\ Cardinality(Counted) \in Nat /\ IsFiniteSet(A \cup E) /\ Cardinality(A \cup E) \in Nat
      /\ IsFiniteSet(A \cap E) /\ Cardinality(A \cap E) \in Nat
  <2>1. A \cup E \in SUBSET Sessions /\ A \cap E \in SUBSET Sessions
    BY <1>1
  <2> QED BY <1>1, <2>1, CountedFinite
<1>5. Cardinality(Counted) <= Cardinality(A \cup E)
  BY <1>3, <1>4, FS_Subset
<1>6. Cardinality(A \cup E) = Cardinality(A) + Cardinality(E) - Cardinality(A \cap E)
  BY <1>4, FS_Union
<1>7. live = Cardinality(Counted) /\ live - Cardinality(E) > MinSize
  BY DEF PoolInv, Accounting, AboveFloor, E
<1>8. Cardinality(A) > MinSize
  BY <1>4, <1>5, <1>6, <1>7, PoolAssumption
<1> QED BY <1>8 DEF A

\* A session in service that is not closed, swept or uncounted stays in service.
LEMMA StaysInService ==
    ASSUME PoolInv, PoolInv', NEW X,
           \A s \in InService \ X : status'[s] # "free" /\ \A u \in Threads : s \notin expired'[u],
           \A u \in Threads : pc'[u] = "RelCloseSelf" => pc[u] = "RelCloseSelf" /\ sess'[u] = sess[u]
    PROVE  InService \ X \subseteq InService'
<1> SUFFICES ASSUME NEW s \in InService \ X PROVE s \in InService'
  OBVIOUS
<1>1. s \in Sessions /\ status'[s] # "free" /\ \A u \in Threads : s \notin expired'[u]
  BY DEF InService
<1>2. s \in Reachable'
  BY <1>1 DEF PoolInv, NoLeak
<1>3. s \in Range(idle') \/ \E u \in Threads : sess'[u] = s
  BY <1>1, <1>2 DEF Reachable
<1>4. ASSUME NEW u \in Threads, sess'[u] = s PROVE pc'[u] # "RelCloseSelf"
  <2>1. SUFFICES ASSUME pc'[u] = "RelCloseSelf" PROVE FALSE
    OBVIOUS
  <2>2. pc[u] = "RelCloseSelf" /\ sess[u] = s /\ s # NoSession
    BY <1>1, <1>4, <2>1, PoolAssumption
  <2>3. s \notin Range(idle) /\ \A v \in Threads : v # u => sess[v] # s
    BY <2>2 DEF PoolInv, Exclusive
  <2> QED BY <2>2, <2>3 DEF InService, InUse
<1> QED BY <1>1, <1>3, <1>4 DEF InService, InUse

\* What is in service is not closed, and neither swept nor drained.
LEMMA InServiceIs ==
    ASSUME PoolInv, NEW s \in InService
    PROVE  /\ s \in Sessions /\ status[s] # "free" /\ \A u \in Threads : s \notin expired[u]
           /\ \A u \in Threads : pc[u] = "RelCloseSelf" => sess[u] # s
<1>1. s \in Sessions /\ s \in Reachable
  BY DEF InService, Reachable, InUse
<1>2. \A u \in Threads : s \notin expired[u]
  BY DEF PoolInv, Exclusive, InService, InUse
<1>3. ASSUME NEW u \in Threads, pc[u] = "RelCloseSelf" PROVE sess[u] # s
  BY <1>1, <1>3, PoolAssumption DEF PoolInv, Exclusive, InService, InUse
<1> QED BY <1>1, <1>2, <1>3 DEF PoolInv, NoLeak

\* Steps of acquire that take no session out of service.
LEMMA AcquireKeepsInService ==
    ASSUME PoolInv, PoolInv', NEW t \in Threads, AcquireStep(t),
           ~Discarding(t), ~SweepRemove(t)
    PROVE  InService \subseteq InService'
<1>1. \A u \in Threads : pc'[u] = "RelCloseSelf" => pc[u] = "RelCloseSelf" /\ sess'[u] = sess[u]
  BY DEF AcquireStep, AcquireLock, SweepRemove, SweepStop, SweepCommit, CloseExpired, TakeIdle,
     CheckCapacity, Grow, Exhausted, Wait, Timeout, OpenSession, OpenOk, OpenErr, HandOut, UseOk,
     UseErr, Discarding, Goto, Own, local, PoolInv, TypeOK
<1>2. \A u \in Threads : expired'[u] \subseteq expired[u]
  BY DEF AcquireStep, AcquireLock, SweepRemove, SweepStop, SweepCommit, CloseExpired, TakeIdle,
     CheckCapacity, Grow, Exhausted, Wait, Timeout, OpenSession, OpenOk, OpenErr, HandOut, UseOk,
     UseErr, Discarding, local, PoolInv, TypeOK
<1>3. ASSUME NEW s \in InService PROVE status'[s] # "free"
  <2>1. s \in Sessions /\ status[s] # "free" /\ \A u \in Threads : s \notin expired[u]
    BY InServiceIs
  <2>2. CASE TakeIdle(t)
    <3>1. FirstOpen = 1
      BY FirstOpenLemma DEF PoolInv
    <3>2. Shut({idle[j] : j \in 1..(FirstOpen - 1)}) /\ FirstOpen - 1 = 0
      BY <2>2, <3>1 DEF TakeIdle, Evict
    <3>3. status' = status
      BY <3>2, ShutNone DEF PoolInv
    <3> QED BY <2>1, <3>3
  <2>3. CASE CheckCapacity(t)
    <3>1. FirstOpen = 1 /\ FirstOpen > Len(idle) /\ idle \in Seq(Sessions)
      BY <2>3, FirstOpenLemma DEF CheckCapacity, PoolInv, TypeOK
    <3>2. Shut({idle[j] : j \in 1..Len(idle)}) /\ Len(idle) = 0
      BY <2>3, <3>1 DEF CheckCapacity, Evict
    <3>3. status' = status
      BY <3>2, ShutNone DEF PoolInv
    <3> QED BY <2>1, <3>3
  <2>4. CASE ~TakeIdle(t) /\ ~CheckCapacity(t)
    BY <2>1, <2>4 DEF AcquireStep, AcquireLock, SweepStop, SweepCommit, CloseExpired, Shut,
       Grow, Exhausted, Wait, Timeout, OpenSession, OpenOk, OpenErr, HandOut, UseOk,
       UseErr, Discarding, local, PoolInv, TypeOK
  <2> QED BY <2>2, <2>3, <2>4
<1>4. \A s \in InService \ {} : status'[s] # "free" /\ \A u \in Threads : s \notin expired'[u]
  BY <1>2, <1>3, InServiceIs
<1>5. InService \ {} \subseteq InService'
  BY <1>1, <1>4, StaysInService
<1> QED BY <1>5

\* So do the other steps of a pool that is not closed, but for what it gives up.
LEMMA OthersKeepInService ==
    ASSUME PoolInv, PoolInv', AfterClose, ~closed', NEW t \in Threads,
           ReleaseStep(t) \/ CloseStep(t) \/ ClientStep(t), ~Discarding(t)
    PROVE  InService \subseteq InService'
<1>1. ~CloseStep(t) /\ ~ReleaseUncount(t) /\ ~Close(t)
  BY DEF AfterClose, ClosedPCs, ClosePCs, CloseStep, CloseUncount, CloseDrained, NotifyAll,
     ReleaseUncount, Close
<1>2. \A u \in Threads : pc'[u] = "RelCloseSelf" => pc[u] = "RelCloseSelf" /\ sess'[u] = sess[u]
  BY <1>1 DEF ReleaseStep, ReleaseIdle, ReleaseClosed, ReleaseClose, Notify, ClientStep, AcquireCall,
     AcquireForDevice, ClientUse, ClientFail, ReleaseDb, Discarding, Goto, Own, local, PoolInv, TypeOK
<1>3. expired' = expired
  BY <1>1 DEF ReleaseStep, ReleaseIdle, ReleaseClosed, ReleaseClose, Notify, ClientStep, AcquireCall,
     AcquireForDevice, ClientUse, ClientFail, ReleaseDb, Discarding
<1>4. ASSUME NEW s \in InService PROVE status'[s] # "free"
  <2>1. s \in Sessions /\ status[s] # "free" /\ \A u \in Threads : pc[u] = "RelCloseSelf" => sess[u] # s
    BY InServiceIs
  <2> QED BY <1>1, <2>1 DEF ReleaseStep, ReleaseIdle, ReleaseClosed, ReleaseClose, Shut, Notify, ClientStep,
     AcquireCall, AcquireForDevice, ClientUse, ClientFail, ReleaseDb, Discarding, PoolInv, TypeOK
<1>5. \A s \in InService \ {} : status'[s] # "free" /\ \A u \in Threads : s \notin expired'[u]
  BY <1>3, <1>4, InServiceIs
<1>6. InService \ {} \subseteq InService'
  BY <1>2, <1>5, StaysInService
<1> QED BY <1>6

\* A sweep takes the front session out of service, and only that.
LEMMA SweepTakesOne ==
    ASSUME PoolInv, PoolInv', NEW t \in Threads, SweepRemove(t)
    PROVE  Head(idle) \in Sessions /\ InService \ {Head(idle)} \subseteq InService'
<1>1. aged > 0 /\ aged <= Len(idle) /\ idle \in Seq(Sessions) /\ aged \in Nat
  BY DEF PoolInv, TypeOK, Ownership, SweepRemove
<1>2. Head(idle) \in Sessions
  BY <1>1
<1>3. \A u \in Threads : pc'[u] = "RelCloseSelf" => pc[u] = "RelCloseSelf" /\ sess'[u] = sess[u]
  BY DEF SweepRemove
<1>4. ASSUME NEW s \in InService \ {Head(idle)}
      PROVE  status'[s] # "free" /\ \A u \in Threads : s \notin expired'[u]
  <2>1. status[s] # "free" /\ \A u \in Threads : s \notin expired[u]
    BY InServiceIs
  <2> QED BY <2>1 DEF SweepRemove, PoolInv, TypeOK
<1> QED BY <1>2, <1>3, <1>4, StaysInService

\* Giving up a session takes it out of service, and only it.
LEMMA DiscardTakesOne ==
    ASSUME PoolInv, PoolInv', NEW t \in Threads, Discarding(t)
    PROVE  /\ sess[t] \in Sessions /\ InService \ {sess[t]} \subseteq InService'
           /\ pc[t] \in {"Opening", "Using", "Held"} /\ pc'[t] = "Notify" /\ closed' = closed
<1>1. /\ pc[t] \in {"Opening", "Using", "Held"} /\ Discard(t) /\ sess[t] \in Sessions
  BY DEF Discarding, OpenErr, UseErr, ReleaseDead, PoolInv, TypeOK, Ownership, OwningPCs
<1>2. pc'[t] = "Notify" /\ closed' = closed
  BY <1>1 DEF Discard, Goto, PoolInv, TypeOK
<1>3. \A u \in Threads : pc'[u] = "RelCloseSelf" => pc[u] = "RelCloseSelf" /\ sess'[u] = sess[u]
  BY <1>1 DEF Discard, Goto, Own, PoolInv, TypeOK
<1>4. ASSUME NEW s \in InService \ {sess[t]}
      PROVE  status'[s] # "free" /\ \A u \in Threads : s \notin expired'[u]
  <2>1. s \in Sessions /\ status[s] # "free" /\ \A u \in Threads : s \notin expired[u]
    BY InServiceIs
  <2> QED BY <1>1, <2>1 DEF Discard, Shut
<1> QED BY <1>1, <1>2, <1>3, <1>4, StaysInService

\* The threads of a close, and those that found the pool closed, keep finding it so.
LEMMA AfterCloseStep ==
    ASSUME PoolInv, AfterClose, [Next]_vars
    PROVE  AfterClose'
<1> USE DEF AfterClose, ClosedPCs, ClosePCs, Goto
<1>1. ASSUME NEW t \in Threads, AcquireStep(t) PROVE AfterClose'
  <2>1. closed' = closed
    BY <1>1 DEF AcquireStep, AcquireLock, SweepRemove, SweepStop, SweepCommit, CloseExpired, TakeIdle,
       CheckCapacity, Grow, Exhausted, Wait, Timeout, OpenSession, OpenOk, OpenErr, HandOut, UseOk,
       UseErr, Discard
  <2>2. \A u \in Threads : pc'[u] \in ClosedPCs => pc[u] \in ClosedPCs
    BY <1>1 DEF AcquireStep, AcquireLock, SweepRemove, SweepStop, SweepCommit, CloseExpired, TakeIdle,
       CheckCapacity, Grow, Exhausted, Wait, Timeout, OpenSession, OpenOk, OpenErr, HandOut, UseOk,
       UseErr, Discard, PoolInv, TypeOK
  <2> QED BY <2>1, <2>2
<1>2. ASSUME NEW t \in Threads, ReleaseStep(t) \/ CloseStep(t) PROVE AfterClose'
  BY <1>2 DEF ReleaseStep, ReleaseIdle, ReleaseClosed, ReleaseUncount, ReleaseClose, Notify,
     CloseStep, CloseUncount, CloseDrained, NotifyAll, PoolInv, TypeOK
<1>3. ASSUME NEW t \in Threads, ClientStep(t) PROVE AfterClose'
  BY <1>3 DEF ClientStep, AcquireCall, AcquireForDevice, ClientUse, ClientFail, ReleaseDead, Discard,
     ReleaseDb, Close, PoolInv, TypeOK
<1>4. CASE UNCHANGED vars
  BY <1>4 DEF vars
<1> QED BY <1>1, <1>2, <1>3, <1>4 DEF Next

\* The doc of SessionPool: the lazy sweep never shrinks the pool below min_size.
\* Until close, sessions in service and sessions given up are together no fewer,
\* for any number of threads and however sweeps and releases interleave.
THEOREM SweepsKeepTheFloor == FloorSpec => []FloorKept
<1> DEFINE Inv == FloorKept /\ AfterClose /\ lost \in 0..MinSize
<1>1. FloorSpec => Spec
  <2>1. FloorInit => Init
    BY DEF FloorInit
  <2>2. [FloorNext]_floorVars => [Next]_vars
    BY DEF FloorNext, floorVars
  <2> QED BY <2>1, <2>2, PTL DEF FloorSpec, Spec
<1>2. FloorInit => Inv
  <2> SUFFICES ASSUME FloorInit PROVE Inv
    OBVIOUS
  <2>1. AfterClose /\ lost \in 0..MinSize
    BY PoolAssumption DEF FloorInit, Init, AfterClose, ClosedPCs, ClosePCs
  <2>2. PoolInv
    BY InitInv DEF FloorInit
  <2>3. InService = Counted
    BY DEF FloorInit, Init, InService, Counted
  <2>4. Cardinality(InService) = MinSize
    BY <2>2, <2>3 DEF PoolInv, Accounting, FloorInit, Init
  <2> QED BY <2>1, <2>4, PoolAssumption DEF FloorKept
<1>3. ASSUME PoolInv, PoolInv', Inv, [FloorNext]_floorVars PROVE Inv'
  <2>1. AfterClose'
    <3>1. [Next]_vars
      BY <1>3 DEF FloorNext, floorVars
    <3> QED BY <1>3, <3>1, AfterCloseStep
  <2>2. MinSize \in Nat /\ lost \in Nat /\ lost' \in 0..MinSize /\ lost <= lost'
    <3>1. lost' = lost \/ (lost < MinSize /\ lost' = lost + 1)
      BY <1>3 DEF FloorNext, floorVars
    <3> QED BY <1>3, <3>1, PoolAssumption
  <2>3. ASSUME ~closed' PROVE ~closed
    BY <1>3, <2>3 DEF FloorNext, floorVars, vars, Next, AcquireStep, AcquireLock, SweepRemove, SweepStop,
       SweepCommit, CloseExpired, TakeIdle, CheckCapacity, Grow, Exhausted, Wait, Timeout, OpenSession,
       OpenOk, OpenErr, HandOut, UseOk, UseErr, Discard, ReleaseStep, ReleaseIdle, ReleaseClosed,
       ReleaseUncount, ReleaseClose, Notify, CloseStep, CloseUncount, CloseDrained, NotifyAll, ClientStep,
       AcquireCall, AcquireForDevice, ClientUse, ClientFail, ReleaseDead, ReleaseDb, Close
  <2>4. ASSUME ~closed' PROVE Cardinality(InService)' + lost' >= MinSize
    <3>1. ~closed /\ Cardinality(InService) + lost >= MinSize
      BY <1>3, <2>3, <2>4 DEF FloorKept
    <3>2. CASE InService \subseteq InService'
      BY <2>2, <3>1, <3>2, InServiceKeeps
    <3>3. ASSUME NEW t \in Threads, SweepRemove(t) PROVE Cardinality(InService)' + lost' >= MinSize
      <4>1. Cardinality(InService) > MinSize
        BY <1>3, <3>1, <3>3, SweepAboveFloor DEF SweepRemove
      <4>2. /\ Cardinality(InService) \in Nat /\ Cardinality(InService)' \in Nat
            /\ Cardinality(InService) - 1 <= Cardinality(InService)'
        BY <1>3, <3>3, SweepTakesOne, InServiceLoses
      <4> QED BY <2>2, <4>1, <4>2
    <3>4. ASSUME NEW t \in Threads, Discarding(t), FloorNext PROVE Cardinality(InService)' + lost' >= MinSize
      <4>1. GivesUp
        BY <1>3, <3>4, DiscardTakesOne DEF GivesUp
      <4>2. lost' = MinSize \/ lost' = lost + 1
        BY <1>3, <2>2, <3>4, <4>1 DEF FloorNext
      <4>3. /\ Cardinality(InService) \in Nat /\ Cardinality(InService)' \in Nat
            /\ Cardinality(InService) - 1 <= Cardinality(InService)'
        BY <1>3, <3>4, DiscardTakesOne, InServiceLoses
      <4> QED BY <2>2, <3>1, <4>2, <4>3
    <3>5. CASE FloorNext
      <4>1. PICK t \in Threads : AcquireStep(t) \/ ReleaseStep(t) \/ CloseStep(t) \/ ClientStep(t)
        BY <3>5 DEF FloorNext, Next
      <4>2. InService \subseteq InService' \/ Discarding(t) \/ SweepRemove(t)
        BY <1>3, <2>4, <4>1, AcquireKeepsInService, OthersKeepInService
      <4> QED BY <3>2, <3>3, <3>4, <3>5, <4>2
    <3>6. CASE UNCHANGED floorVars
      <4>1. InService' = InService
        BY <3>6 DEF floorVars, vars, InService, InUse
      <4> QED BY <3>2, <4>1
    <3> QED BY <1>3, <3>5, <3>6
  <2> QED BY <2>1, <2>2, <2>4 DEF FloorKept
<1>4. Inv => FloorKept
  OBVIOUS
<1> HIDE DEF Inv
<1> QED BY <1>1, <1>2, <1>3, <1>4, PoolInvariant, PTL DEF FloorSpec
=============================================================================
