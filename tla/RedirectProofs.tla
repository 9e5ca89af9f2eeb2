---------------------------- MODULE RedirectProofs ----------------------------
(***************************************************************************)
(* The redirect cache stays within its capacity, always has a determined   *)
(* entry to evict and holds only usable endpoints, for every capacity,     *)
(* TTL, set of devices and every response of the servers.                  *)
(***************************************************************************)
EXTENDS RedirectHistory, SequenceLemmas

\* A non-empty set of naturals has a least element, so eviction finds one.
LEMMA OldestHeld ==
    ASSUME TypeOK, Held # {}
    PROVE  Oldest \in Held
<1> DEFINE seqs == {entries[d].seq : d \in Held}
<1>1. seqs \subseteq Nat /\ seqs # {}
    BY DEF TypeOK
<1>2. \E x \in seqs : \A y \in seqs : ~(<<y, x>> \in OpToRel(<, Nat))
    <2> HIDE DEF seqs
    <2> QED BY <1>1, NatLessThanWellFounded, WFMin
<1>3. PICK x \in seqs : \A y \in seqs : ~(y < x)
    BY <1>1, <1>2 DEF OpToRel
<1>4. PICK d \in Held : entries[d].seq = x
    OBVIOUS
<1>5. \A c \in Held : entries[d].seq <= entries[c].seq
    <2> TAKE c \in Held
    <2>1. entries[c].seq \in seqs /\ entries[c].seq \in Nat /\ x \in Nat
        BY <1>1
    <2>2. ~(entries[c].seq < x)
        BY <1>3, <2>1
    <2> HIDE DEF seqs
    <2>3. x <= entries[c].seq
        BY <2>1, <2>2
    <2> QED BY <1>4, <2>3
<1> QED BY <1>5 DEF Oldest

\* Room leaves a place for the new device.
LEMMA RoomFits ==
    ASSUME TypeOK, Bounded, MaxEntries > 0, NEW dev \in Devices
    PROVE  /\ Room(dev) \subseteq Held
           /\ Cardinality(Room(dev) \cup {dev}) <= MaxEntries
<1>1. IsFiniteSet(Held)
    BY FS_Subset, RedirectAssumption DEF TypeOK
<1>2. Cardinality(Held) \in Nat /\ MaxEntries \in Nat
    BY <1>1, FS_CardinalityType, RedirectAssumption
<1>3. CASE dev \in Held
    <2>1. Room(dev) = Held /\ Held \cup {dev} = Held
        BY <1>3 DEF Room
    <2> QED BY <2>1 DEF Bounded
<1>4. CASE dev \notin Held /\ Cardinality(Held) < MaxEntries
    <2>1. Room(dev) = Held
        BY <1>2, <1>4 DEF Room
    <2>2. Cardinality(Held \cup {dev}) = Cardinality(Held) + 1
        BY <1>1, <1>4, FS_AddElement
    <2> QED BY <1>2, <1>4, <2>1, <2>2
<1>5. CASE dev \notin Held /\ Cardinality(Held) >= MaxEntries
    <2>1. Room(dev) = Held \ {Oldest}
        BY <1>5 DEF Room
    <2>2. Held # {}
        BY <1>2, <1>5, FS_EmptySet
    <2>3. Cardinality(Held \ {Oldest}) = Cardinality(Held) - 1 /\ IsFiniteSet(Held \ {Oldest})
        BY <1>1, <2>2, OldestHeld, FS_RemoveElement
    <2>4. Cardinality((Held \ {Oldest}) \cup {dev}) = Cardinality(Held) - 1 + 1
        BY <1>5, <2>3, FS_AddElement
    <2> QED BY <1>2, <2>1, <2>4 DEF Bounded
<1> QED BY <1>2, <1>3, <1>4, <1>5

\* A status yields an endpoint the client can use, or none.
LEMMA RecommendedUsable ==
    ASSUME NEW r \in NodesOrNone
    PROVE  /\ Recommended(r) \in Endpoints \cup {NoHint}
           /\ Recommended(r) # NoHint => Usable(Recommended(r))
<1> DEFINE good == r.ip # EmptyIp /\ r.port \in 1..MaxPort
<1>1. CASE r # NoNode /\ good
    <2>1. r \in Nodes
        BY <1>1, Zenon DEF NodesOrNone
    <2>2. Recommended(r) = [ip |-> r.ip, port |-> r.port]
        BY <1>1, Zenon DEF Recommended, EndpointFromRedirect
    <2>3. /\ [ip |-> r.ip, port |-> r.port] \in Endpoints
          /\ Usable([ip |-> r.ip, port |-> r.port])
        <3>1. r.ip \in {n.ip : n \in Nodes} /\ r.port \in 0..MaxPort
            BY <1>1, <2>1
        <3> QED BY <1>1, <3>1 DEF Endpoints, Usable
    <2> QED BY <2>2, <2>3, Zenon
<1>2. CASE r = NoNode \/ ~good
    <2>1. Recommended(r) = NoHint
        BY <1>2, Zenon DEF Recommended, EndpointFromRedirect
    <2> QED BY <2>1, Zenon
<1> QED BY <1>1, <1>2, Zenon

LEMMA HarvestKeepsInv ==
    ASSUME CacheInv, NEW devices \in Lists(Devices, 1), NEW status \in Statuses,
           Harvest(devices, status)
    PROVE  CacheInv'
<1>1. PICK n \in 1..MaxBatch : devices \in [1..n -> Devices]
    BY DEF Lists
<1>2. DOMAIN devices = 1..n /\ Len(devices) = n /\ n \in Nat
    BY <1>1
<1>3. \A i \in 1..n : todo'[i].dev \in Devices
    BY <1>1, <1>2 DEF Harvest, Puts
<1>4. \A i \in 1..n : /\ todo'[i].ep \in Endpoints \cup {NoHint}
                      /\ todo'[i].ep # NoHint => Usable(todo'[i].ep)
    <2> SUFFICES ASSUME NEW i \in 1..n
                 PROVE  \E node \in NodesOrNone : todo'[i].ep = Recommended(node)
        BY RecommendedUsable
    <2>1. CASE status.subs # NoSubs /\ Len(status.subs) = Len(devices)
        <3>1. PICK k \in 0..MaxBatch : status.subs \in [1..k -> NodesOrNone]
            BY <2>1 DEF Statuses, Lists
        <3>2. k = n
            BY <1>2, <2>1, <3>1
        <3> QED BY <1>2, <2>1, <3>1, <3>2 DEF Harvest, Puts
    <2>2. CASE ~(status.subs # NoSubs /\ Len(status.subs) = Len(devices))
        <3>1. status.redirect \in NodesOrNone
            BY DEF Statuses
        <3> QED BY <1>2, <2>2, <3>1 DEF Harvest, Puts
    <2> QED BY <2>1, <2>2
<1>5. todo' \in Seq([dev : Devices, ep : Endpoints \cup {NoHint}]) /\ Len(todo') = n
    <2>1. \A i \in 1..n : todo'[i] = [dev |-> todo'[i].dev, ep |-> todo'[i].ep]
        BY <1>2 DEF Harvest, Puts
    <2>2. todo' = [i \in 1..n |-> todo'[i]]
        <3>1. DOMAIN todo' = 1..n
            BY <1>2 DEF Harvest, Puts
        <3>2. todo' = [i \in DOMAIN todo' |-> todo'[i]]
            BY DEF Harvest, Puts
        <3> QED BY <3>1, <3>2
    <2>3. \A i \in 1..n : todo'[i] \in [dev : Devices, ep : Endpoints \cup {NoHint}]
        <3> TAKE i \in 1..n
        <3>1. [dev |-> todo'[i].dev, ep |-> todo'[i].ep] \in [dev : Devices, ep : Endpoints \cup {NoHint}]
            BY <1>3, <1>4
        <3> QED BY <2>1, <3>1
    <2> DEFINE Items == [dev : Devices, ep : Endpoints \cup {NoHint}]
    <2> HIDE DEF Items
    <2>4. todo' \in [1..n -> Items]
        BY <2>2, <2>3 DEF Items
    <2>5. todo' \in Seq(Items) /\ Len(todo') = n
        BY <1>2, <2>4
    <2> QED BY <2>5 DEF Items
<1>6. TypeOK'
    BY <1>2, <1>5 DEF CacheInv, TypeOK, Harvest, Held
<1>7. PutsUsable'
    BY <1>4, <1>5 DEF PutsUsable
<1> QED BY <1>6, <1>7 DEF CacheInv, Bounded, EvictionDetermined, HintsUsable, Harvest, Held

LEMMA PutKeepsInv ==
    ASSUME CacheInv, Put
    PROVE  CacheInv'
<1> DEFINE item == Head(todo)
           Items == [dev : Devices, ep : Endpoints \cup {NoHint}]
<1>1. /\ todo \in Seq(Items) /\ todo # <<>> /\ item \in Items
      /\ todo' \in Seq(Items) /\ Len(todo') = Len(todo) - 1 /\ Len(todo) \in Nat
      /\ item = todo[1] /\ 1 \in DOMAIN todo
    <2>1. todo \in Seq(Items) /\ todo # <<>> /\ todo' = Tail(todo)
        BY DEF CacheInv, TypeOK, Put
    <2> HIDE DEF Items
    <2> QED BY <2>1
<1>2. PutsUsable'
    <2>1. \A i \in DOMAIN todo' : i + 1 \in DOMAIN todo /\ todo'[i] = todo[i + 1]
        BY <1>1 DEF Put
    <2> QED BY <2>1 DEF CacheInv, PutsUsable
<1>3. CASE item.ep # NoHint /\ MaxEntries > 0 /\ Store(item.dev, item.ep)
    <2>1. item.ep \in Endpoints /\ Usable(item.ep) /\ item.dev \in Devices
        BY <1>1, <1>3 DEF CacheInv, PutsUsable
    <2>2. /\ Held' = Room(item.dev) \cup {item.dev} /\ Room(item.dev) \subseteq Held
          /\ Cardinality(Held') <= MaxEntries
        BY <1>3, <2>1, RoomFits DEF CacheInv, Store, Held
    <2>3. /\ entries'[item.dev] = [ep |-> item.ep, inserted |-> now, seq |-> seq + 1]
          /\ \A d \in Held' \ {item.dev} : d \in Held /\ entries'[d] = entries[d]
          /\ seq' = seq + 1 /\ now' = now /\ item.dev \in Held'
        BY <1>3, <2>2 DEF Store, Put, Held
    <2>4. TypeOK'
        <3>1. seq \in Nat /\ now \in Nat /\ seq' + Len(todo') <= MaxSeq /\ now' \in 0..MaxTime
            BY <1>1, <2>3 DEF CacheInv, TypeOK
        <3>2. \A d \in Held' : entries'[d] \in [ep : Endpoints, inserted : 0..now, seq : 1..(seq + 1)]
            BY <2>1, <2>3, <3>1 DEF CacheInv, TypeOK
        <3>3. entries' = [d \in Held' |-> entries'[d]]
            BY <1>3 DEF Store, Held
        <3> QED BY <1>1, <2>1, <2>2, <2>3, <3>1, <3>2, <3>3 DEF CacheInv, TypeOK
    <2>5. EvictionDetermined'
        <3>1. \A d \in Held : entries[d].seq \in 1..seq /\ seq \in Nat
            BY DEF CacheInv, TypeOK
        <3> QED BY <2>3, <3>1 DEF CacheInv, EvictionDetermined
    <2>6. HintsUsable'
        BY <2>1, <2>3 DEF CacheInv, HintsUsable
    <2> QED BY <1>2, <2>2, <2>4, <2>5, <2>6 DEF CacheInv, Bounded
<1>4. CASE UNCHANGED <<entries, seq>>
    <2>1. Held' = Held /\ now' = now /\ entries' = entries /\ seq' = seq
        BY <1>4 DEF Held, Put
    <2>2. seq' + Len(todo') <= MaxSeq
        BY <1>1, <2>1, RedirectAssumption DEF CacheInv, TypeOK
    <2>3. TypeOK'
        BY <1>1, <2>1, <2>2 DEF CacheInv, TypeOK
    <2> QED BY <1>2, <2>1, <2>3 DEF CacheInv, Bounded, EvictionDetermined, HintsUsable
<1> QED BY <1>3, <1>4 DEF Put

\* get and clear keep a subset of the entries.
LEMMA RemovalKeepsInv ==
    ASSUME CacheInv, NEW kept \in SUBSET Held, entries' = [d \in kept |-> entries[d]],
           UNCHANGED <<seq, now, todo>>
    PROVE  CacheInv'
<1>1. Held' = kept /\ \A d \in kept : entries'[d] = entries[d]
    BY DEF Held
<1>2. Cardinality(Held') <= MaxEntries
    <2>1. IsFiniteSet(Held)
        BY FS_Subset, RedirectAssumption DEF CacheInv, TypeOK
    <2>2. /\ Cardinality(kept) \in Nat /\ Cardinality(Held) \in Nat
          /\ Cardinality(kept) <= Cardinality(Held)
        BY <2>1, FS_Subset, FS_CardinalityType
    <2> QED BY <1>1, <2>2, RedirectAssumption DEF CacheInv, Bounded
<1>3. TypeOK'
    <2>1. kept \subseteq Held /\ Held' \subseteq Devices
        BY <1>1 DEF CacheInv, TypeOK
    <2> QED BY <1>1, <2>1 DEF CacheInv, TypeOK
<1> QED BY <1>1, <1>2, <1>3 DEF CacheInv, Bounded, EvictionDetermined, HintsUsable, PutsUsable

LEMMA CacheStep ==
    ASSUME CacheInv, [Next]_vars
    PROVE  CacheInv'
<1>1. CASE \E devices \in Lists(Devices, 1), status \in Statuses : Harvest(devices, status)
    BY <1>1, HarvestKeepsInv
<1>2. CASE Put
    BY <1>2, PutKeepsInv
<1>3. ASSUME NEW d \in Devices, Get(d) PROVE CacheInv'
    <2>1. CASE UNCHANGED entries
        BY <1>3, <2>1 DEF Get, CacheInv, TypeOK, Bounded, EvictionDetermined, HintsUsable,
                           PutsUsable, Held
    <2>2. CASE entries' = [x \in Held \ {d} |-> entries[x]]
        BY <1>3, <2>2, RemovalKeepsInv DEF Get
    <2> QED BY <1>3, <2>1, <2>2 DEF Get
<1>4. CASE Clear
    <2>1. entries' = [x \in {} |-> entries[x]] /\ UNCHANGED <<seq, now, todo>>
        BY <1>4 DEF Clear
    <2> QED BY <2>1, RemovalKeepsInv
<1>5. CASE Tick
    BY <1>5, RedirectAssumption
       DEF Tick, CacheInv, TypeOK, Bounded, EvictionDetermined, HintsUsable, PutsUsable, Held
<1>6. CASE UNCHANGED vars
    BY <1>6 DEF vars, CacheInv, TypeOK, Bounded, EvictionDetermined, HintsUsable, PutsUsable, Held
<1> QED BY <1>1, <1>2, <1>3, <1>4, <1>5, <1>6 DEF Next

\* Every reachable state of the cache satisfies its inductive invariant.
THEOREM CacheInvariant == Spec => []CacheInv
<1>1. Init => CacheInv
    BY RedirectAssumption, FS_EmptySet
       DEF Init, CacheInv, TypeOK, Bounded, EvictionDetermined, HintsUsable, PutsUsable, Held
<1>2. CacheInv /\ [Next]_vars => CacheInv'
    BY CacheStep
<1> QED BY <1>1, <1>2, PTL DEF Spec

\* put never lets the cache exceed max_entries, whatever order of hints,
\* refreshes, expiries and clears came before.
THEOREM NeverOverfull == Spec => []Bounded
BY CacheInvariant, PTL DEF CacheInv

\* min_by_key in put never meets two entries of the same age.
THEOREM AlwaysOneOldest == Spec => []EvictionDetermined
BY CacheInvariant, PTL DEF CacheInv

\* endpoint_from_redirect keeps every useless recommendation out of the cache.
THEOREM OnlyUsableHints == Spec => []HintsUsable
BY CacheInvariant, PTL DEF CacheInv

-----------------------------------------------------------------------------
(* The history of recommendations *)

\* An endpoint passes endpoint_from_redirect unchanged or not at all.
LEMMA RecommendedIsNode ==
    ASSUME NEW r \in NodesOrNone
    PROVE  /\ Recommended(r) # NoHint <=> r \in Nodes /\ Usable(r)
           /\ Recommended(r) # NoHint => Recommended(r) = r
<1>1. CASE r = NoNode
    BY <1>1, RedirectAssumption DEF Recommended
<1>2. CASE r \in Nodes
    <2>1. /\ r # NoNode /\ r = [ip |-> r.ip, port |-> r.port]
          /\ r # NoHint
        BY <1>2, RedirectAssumption
    <2> QED BY <1>2, <2>1 DEF Recommended, EndpointFromRedirect, Usable
<1> QED BY <1>1, <1>2 DEF NodesOrNone

LEMMA HarvestKeepsHistory ==
    ASSUME HistoryInv, CacheInv', NEW devices \in Lists(Devices, 1), NEW status \in Statuses,
           Harvest(devices, status),
           latest' = [d \in Devices |-> LatestAfter(d, devices, status)]
    PROVE  HistoryInv'
<1> DEFINE paired == status.subs # NoSubs /\ Len(status.subs) = Len(devices)
           Node(i) == IF paired THEN status.subs[i] ELSE status.redirect
           Good(d) == {i \in DOMAIN devices : devices[i] = d /\ Node(i) \in Nodes /\ Usable(Node(i))}
<1>1. PICK n \in 1..MaxBatch : devices \in [1..n -> Devices]
    BY DEF Lists
<1>2. DOMAIN devices = 1..n /\ Len(devices) = n /\ n \in Nat
    BY <1>1
<1>3. \A i \in 1..n : Node(i) \in NodesOrNone
    <2>1. CASE paired
        <3>1. PICK k \in 0..MaxBatch : status.subs \in [1..k -> NodesOrNone]
            BY <2>1 DEF Statuses, Lists
        <3> QED BY <1>2, <2>1, <3>1
    <2>2. CASE ~paired
        BY <2>2 DEF Statuses
    <2> QED BY <2>1, <2>2
<1>4. /\ DOMAIN todo' = 1..n
      /\ \A i \in 1..n : todo'[i].dev = devices[i] /\ todo'[i].ep = Recommended(Node(i))
    BY <1>2 DEF Harvest, Puts
<1>5. \A d \in Devices : LatestAfter(d, devices, status) =
          IF Good(d) = {} THEN latest[d] ELSE Node(CHOOSE i \in Good(d) : \A j \in Good(d) : j <= i)
    BY DEF LatestAfter
<1> HIDE DEF Node
<1>6. \A d \in Devices : PutsFor(d)' = Good(d)
    BY <1>2, <1>3, <1>4, RecommendedIsNode DEF PutsFor
<1>7. \A d \in Devices : \A i \in Good(d) : todo'[i].ep = Node(i) /\ Node(i) \in Nodes /\ i \in 1..n
    BY <1>2, <1>3, <1>4, RecommendedIsNode
<1>8. ASSUME NEW d \in Devices, Good(d) # {}
      PROVE  /\ latest'[d] \in Nodes
             /\ \A i \in Good(d) : (\A j \in Good(d) : j <= i) => todo'[i].ep = latest'[d]
    <2>1. PICK m \in Good(d) : m = (CHOOSE i \in Good(d) : \A j \in Good(d) : j <= i)
                              /\ \A j \in Good(d) : j <= m
        <3>1. Good(d) \in SUBSET (1..n)
            BY <1>2
        <3> HIDE DEF Good
        <3>2. \E i \in Good(d) : \A j \in Good(d) : j <= i
            BY <1>2, <1>8, <3>1, LastExists
        <3> QED BY <3>2
    <2>2. latest'[d] = Node(m)
        BY <1>5, <1>8, <2>1
    <2>3. \A i \in Good(d) : (\A j \in Good(d) : j <= i) => i = m
        BY <1>2, <2>1
    <2> HIDE DEF Good
    <2> QED BY <1>7, <2>1, <2>2, <2>3
<1>9. ASSUME NEW d \in Devices, Good(d) = {}
      PROVE  /\ latest'[d] = latest[d]
             /\ d \in Held' => entries'[d].ep = latest'[d]
    <2>1. latest'[d] = latest[d]
        BY <1>5, <1>9
    <2>2. todo = <<>> /\ entries' = entries /\ Held' = Held
        BY DEF Harvest, Held
    <2>3. PutsFor(d) = {}
        BY <2>2 DEF PutsFor
    <2> QED BY <2>1, <2>2, <2>3 DEF HistoryInv, PendingIsLatest
<1> HIDE DEF Good
<1>10. latest' \in [Devices -> Nodes \cup {NoHint}]
    <2>1. \A d \in Devices : latest'[d] \in Nodes \cup {NoHint}
        BY <1>8, <1>9 DEF HistoryInv
    <2> QED BY <2>1
<1>11. PendingIsLatest'
    BY <1>6, <1>8, <1>9 DEF PendingIsLatest
<1> QED BY <1>10, <1>11 DEF HistoryInv

LEMMA PutKeepsHistory ==
    ASSUME HistoryInv, CacheInv', Put, UNCHANGED latest
    PROVE  HistoryInv'
<1> DEFINE item == Head(todo)
           Items == [dev : Devices, ep : Endpoints \cup {NoHint}]
<1>1. /\ todo \in Seq(Items) /\ todo # <<>> /\ item \in Items
      /\ item = todo[1] /\ 1 \in DOMAIN todo
      /\ \A i \in DOMAIN todo' : i + 1 \in DOMAIN todo /\ todo'[i] = todo[i + 1]
      /\ \A i \in DOMAIN todo : i # 1 => i - 1 \in DOMAIN todo' /\ todo'[i - 1] = todo[i]
      /\ DOMAIN todo \subseteq Nat \ {0} /\ DOMAIN todo' \subseteq Nat \ {0}
    <2>1. todo \in Seq(Items) /\ todo # <<>> /\ todo' = Tail(todo)
        BY DEF HistoryInv, CacheInv, TypeOK, Put
    <2> HIDE DEF Items
    <2> QED BY <2>1
<1>2. ASSUME NEW d \in Devices
      PROVE  /\ \A i \in PutsFor(d)' : i + 1 \in PutsFor(d) /\ i \in Nat \ {0}
             /\ \A i \in PutsFor(d) : i # 1 => i - 1 \in PutsFor(d)'
             /\ PutsFor(d) \subseteq Nat \ {0}
             /\ 1 \in PutsFor(d) <=> item.dev = d /\ item.ep # NoHint
    BY <1>1 DEF PutsFor
<1>3. ASSUME NEW d \in Devices, NEW i \in PutsFor(d)', \A j \in PutsFor(d)' : j <= i
      PROVE  todo'[i].ep = latest'[d]
    <2>1. i + 1 \in PutsFor(d) /\ \A j \in PutsFor(d) : j <= i + 1
        <3> SUFFICES ASSUME NEW j \in PutsFor(d), j # 1 PROVE j <= i + 1
            BY <1>2
        <3>1. j - 1 \in PutsFor(d)' /\ j - 1 <= i /\ j \in Nat /\ i \in Nat
            BY <1>2, <1>3
        <3> QED BY <3>1
    <2>2. todo[i + 1].ep = latest[d] /\ latest' = latest
        BY <2>1 DEF HistoryInv, PendingIsLatest
    <2> QED BY <1>1, <2>2 DEF PutsFor
<1>4. ASSUME NEW d \in Devices, PutsFor(d)' = {}, d \in Held'
      PROVE  entries'[d].ep = latest'[d]
    <2>1. \A i \in PutsFor(d) : i = 1
        BY <1>2, <1>4
    <2>2. CASE 1 \in PutsFor(d)
        <3>1. item.ep = latest[d] /\ item.dev = d /\ item.ep # NoHint
            BY <1>1, <1>2, <2>1, <2>2 DEF HistoryInv, PendingIsLatest
        <3>2. CASE MaxEntries > 0
            <4>1. Store(item.dev, item.ep)
                BY <3>1, <3>2, RedirectAssumption DEF Put
            <4> QED BY <3>1, <4>1 DEF Store
        <3>3. CASE MaxEntries = 0
            <4>1. Held' = {}
                <5>1. IsFiniteSet(Held') /\ Cardinality(Held') <= 0
                    BY <3>3, FS_Subset, RedirectAssumption DEF CacheInv, TypeOK, Bounded
                <5> QED BY <5>1, FS_CardinalityType, FS_EmptySet
            <4> QED BY <1>4, <4>1
        <3> QED BY <3>2, <3>3, RedirectAssumption
    <2>3. CASE 1 \notin PutsFor(d)
        <3>1. PutsFor(d) = {}
            BY <2>1, <2>3
        <3>2. d \in Held /\ entries'[d] = entries[d]
            <4>1. CASE UNCHANGED entries
                BY <1>4, <4>1 DEF Held
            <4>2. CASE item.ep # NoHint /\ MaxEntries > 0 /\ Store(item.dev, item.ep)
                <5>1. item.dev # d /\ item.dev \in Devices
                    BY <1>1, <1>2, <2>3, <4>2
                <5>2. Room(item.dev) \subseteq Held
                    BY <4>2, <5>1, RoomFits DEF HistoryInv, CacheInv
                <5> QED BY <1>4, <4>2, <5>1, <5>2 DEF Store, Held
            <4> QED BY <4>1, <4>2 DEF Put
        <3> QED BY <3>1, <3>2 DEF HistoryInv, PendingIsLatest
    <2> QED BY <2>2, <2>3
<1> QED BY <1>3, <1>4 DEF HistoryInv, PendingIsLatest

\* Lookups, clears and the clock never change a hint that stays.
LEMMA OthersKeepHistory ==
    ASSUME HistoryInv, CacheInv', UNCHANGED <<latest, todo>>,
           \A d \in Held' : d \in Held /\ entries'[d] = entries[d]
    PROVE  HistoryInv'
<1>1. \A d \in Devices : PutsFor(d)' = PutsFor(d)
    BY DEF PutsFor
<1> QED BY <1>1 DEF HistoryInv, PendingIsLatest

\* The cache with its history keeps the latest recommendation of every device
\* either in the puts to come or in the entry.
THEOREM HistoryInvariant == HSpec => []HistoryInv
<1>1. HInit => HistoryInv
    <2> SUFFICES ASSUME HInit PROVE HistoryInv
        OBVIOUS
    <2>1. CacheInv
        BY RedirectAssumption, FS_EmptySet
           DEF HInit, Init, CacheInv, TypeOK, Bounded, EvictionDetermined, HintsUsable, PutsUsable, Held
    <2> QED BY <2>1 DEF HInit, Init, HistoryInv, PendingIsLatest, PutsFor, Held
<1>2. HistoryInv /\ [HNext]_historyVars => HistoryInv'
    <2> SUFFICES ASSUME HistoryInv, [HNext]_historyVars PROVE HistoryInv'
        OBVIOUS
    <2>1. CacheInv'
        <3>1. [Next]_vars
            BY DEF HNext, HHarvest, Next, historyVars
        <3> QED BY <3>1, CacheStep DEF HistoryInv
    <2>2. CASE HHarvest
        BY <2>1, <2>2, HarvestKeepsHistory DEF HHarvest
    <2>3. CASE Put /\ UNCHANGED latest
        BY <2>1, <2>3, PutKeepsHistory
    <2>4. ASSUME NEW d \in Devices, Get(d), UNCHANGED latest PROVE HistoryInv'
        BY <2>1, <2>4, OthersKeepHistory DEF Get, Held
    <2>5. CASE Clear /\ UNCHANGED latest
        BY <2>1, <2>5, OthersKeepHistory DEF Clear, Held
    <2>6. CASE Tick /\ UNCHANGED latest
        BY <2>1, <2>6, OthersKeepHistory DEF Tick, Held
    <2>7. CASE UNCHANGED historyVars
        BY <2>1, <2>7, OthersKeepHistory DEF historyVars, vars, Held
    <2> QED BY <2>2, <2>3, <2>4, <2>5, <2>6, <2>7 DEF HNext
<1> QED BY <1>1, <1>2, PTL DEF HSpec

\* Between harvests the hint redirect_hint would return for a device is the
\* endpoint a server recommended for it last, for every sequence of responses,
\* batches that repeat a device and partial lists of sub-statuses included.
THEOREM HintsAreLatest == HSpec => []HintIsLatest
<1>1. HistoryInv => HintIsLatest
    <2> SUFFICES ASSUME HistoryInv, todo = <<>>, NEW d \in Held
                 PROVE  entries[d].ep = latest[d]
        BY DEF HintIsLatest
    <2>1. PutsFor(d) = {} /\ d \in Devices
        BY DEF PutsFor, HistoryInv, CacheInv, TypeOK
    <2> QED BY <2>1 DEF HistoryInv, PendingIsLatest
<1> QED BY <1>1, HistoryInvariant, PTL

-----------------------------------------------------------------------------
(* The cache as a queue of hints *)

Hint == [dev : Devices, ep : Endpoints, at : Nat]

\* Entries with counters of their own.
Stamped(e) ==
    /\ \A d \in DOMAIN e : e[d].seq \in Nat
    /\ \A c, d \in DOMAIN e : e[c].seq = e[d].seq => c = d

\* q holds one hint per entry of e, the oldest put first.
InLine(q, e) ==
    /\ q \in Seq(Hint)
    /\ \A i \in 1..Len(q) : q[i].dev \in DOMAIN e /\ q[i] = HintFor(e, q[i].dev)
    /\ \A d \in DOMAIN e : \E i \in 1..Len(q) : q[i].dev = d
    /\ \A i, j \in 1..Len(q) : i < j => e[q[i].dev].seq < e[q[j].dev].seq

\* There is only one such queue, the one the refinement mapping names.
LEMMA OnlyQueue ==
    ASSUME NEW e, NEW q, Stamped(e), InLine(q, e)
    PROVE  q = QueueOf(e)
<1>1. PICK n \in Nat : n = Len(q) /\ q = [i \in 1..n |-> q[i]]
    <2>1. q \in Seq(Hint)
        BY DEF InLine
    <2> QED BY <2>1
<1> DEFINE dev == [i \in 1..n |-> q[i].dev]
<1>2. /\ dev \in [1..n -> DOMAIN e]
      /\ \A d \in DOMAIN e : \E i \in 1..n : dev[i] = d
      /\ \A i, j \in 1..n : i < j => e[dev[i]].seq < e[dev[j]].seq
      /\ \A i \in 1..n : q[i] = HintFor(e, dev[i])
    BY <1>1 DEF InLine
<1> HIDE DEF dev
<1>3. \A i, j \in 1..n : e[dev[i]].seq \in Nat /\ (e[dev[i]].seq < e[dev[j]].seq => i < j)
    <2> SUFFICES ASSUME NEW i \in 1..n, NEW j \in 1..n, e[dev[i]].seq < e[dev[j]].seq, ~(i < j)
                 PROVE  FALSE
        BY <1>2 DEF Stamped
    <2>1. e[dev[i]].seq \in Nat /\ e[dev[j]].seq \in Nat
        BY <1>2 DEF Stamped
    <2>2. i = j \/ e[dev[j]].seq < e[dev[i]].seq
        BY <1>2
    <2> QED BY <2>1, <2>2
<1>4. \A i, j \in 1..n : dev[i] = dev[j] => i = j
    <2> SUFFICES ASSUME NEW i \in 1..n, NEW j \in 1..n, dev[i] = dev[j], i < j PROVE FALSE
        OBVIOUS
    <2> QED BY <1>2, <1>3
<1>5. Cardinality(DOMAIN e) = n
    <2>1. dev \in Bijection(1..n, DOMAIN e)
        BY <1>2, <1>4 DEF Bijection, Injection, Surjection, IsInjective
    <2>2. IsFiniteSet(1..n) /\ Cardinality(1..n) = n
        BY FS_Interval
    <2> QED BY <2>1, <2>2, FS_Bijection DEF ExistsBijection
<1>6. ASSUME NEW i \in 1..n PROVE Cardinality(Older(e, dev[i])) = i - 1
    <2> DEFINE before == [j \in 1..(i - 1) |-> dev[j]]
    <2>1. before \in [1..(i - 1) -> Older(e, dev[i])]
        BY <1>2 DEF Older
    <2>2. \A j, k \in 1..(i - 1) : before[j] = before[k] => j = k
        BY <1>4
    <2>3. \A d \in Older(e, dev[i]) : \E j \in 1..(i - 1) : before[j] = d
        <3> SUFFICES ASSUME NEW d \in Older(e, dev[i]) PROVE \E j \in 1..(i - 1) : dev[j] = d
            OBVIOUS
        <3>1. PICK j \in 1..n : dev[j] = d
            BY <1>2 DEF Older
        <3>2. j < i
            BY <1>3, <3>1 DEF Older
        <3> QED BY <3>1, <3>2
    <2> HIDE DEF before
    <2>4. before \in Bijection(1..(i - 1), Older(e, dev[i]))
        BY <2>1, <2>2, <2>3 DEF Bijection, Injection, Surjection, IsInjective
    <2>5. IsFiniteSet(1..(i - 1)) /\ Cardinality(1..(i - 1)) = i - 1
        <3>1. 1 \in Int /\ i - 1 \in Int /\ (IF 1 > i - 1 THEN 0 ELSE (i - 1) - 1 + 1) = i - 1
            OBVIOUS
        <3> QED BY <3>1, FS_Interval
    <2> QED BY <2>4, <2>5, FS_Bijection DEF ExistsBijection
<1>7. ASSUME NEW i \in 1..n
      PROVE  (CHOOSE d \in DOMAIN e : Cardinality(Older(e, d)) = i - 1) = dev[i]
    <2>1. dev[i] \in DOMAIN e /\ Cardinality(Older(e, dev[i])) = i - 1
        BY <1>2, <1>6
    <2>2. ASSUME NEW d \in DOMAIN e, Cardinality(Older(e, d)) = i - 1 PROVE d = dev[i]
        <3>1. PICK j \in 1..n : dev[j] = d
            BY <1>2
        <3>2. j - 1 = i - 1
            BY <1>6, <2>2, <3>1
        <3> QED BY <3>1, <3>2
    <2> QED BY <2>1, <2>2
<1>8. \A i \in 1..n : QueueOf(e)[i] = q[i]
    BY <1>2, <1>5, <1>7 DEF QueueOf
<1>9. QueueOf(e) = [i \in 1..n |-> QueueOf(e)[i]]
    BY <1>5 DEF QueueOf
<1> QED BY <1>1, <1>8, <1>9

\* A device has one place in the queue.
LEMMA OnePlace ==
    ASSUME NEW e, NEW q, Stamped(e), InLine(q, e), NEW i \in 1..Len(q), NEW p \in 1..Len(q),
           q[i].dev = q[p].dev
    PROVE  i = p
<1>1. q \in Seq(Hint)
    BY DEF InLine
<1>2. Len(q) \in Nat
    BY <1>1
<1>3. q[i].dev \in DOMAIN e /\ e[q[i].dev].seq \in Nat
    BY DEF InLine, Stamped
<1>4. ~(i < p) /\ ~(p < i)
    <2>1. PICK x \in Nat : x = e[q[i].dev].seq /\ x = e[q[p].dev].seq
        BY <1>3
    <2>2. /\ i < p => e[q[i].dev].seq < e[q[p].dev].seq
          /\ p < i => e[q[p].dev].seq < e[q[i].dev].seq
        BY Zenon DEF InLine
    <2>3. ~(x < x)
        BY <2>1
    <2> QED BY <2>1, <2>2, <2>3, Zenon
<1> QED BY <1>2, <1>4

\* One hint leaves the queue.
But(q, p) == SubSeq(q, 1, p - 1) \o SubSeq(q, p + 1, Len(q))
Closes(r, q, p) == \A i \in 1..(Len(q) - 1) : r[i] = q[IF i < p THEN i ELSE i + 1]
Drops(f, e, dev) == DOMAIN f = DOMAIN e \ {dev} /\ \A d \in DOMAIN f : f[d] = e[d]

LEMMA ButInLine ==
    ASSUME NEW e, NEW f, NEW q, InLine(q, e), Stamped(e), NEW p \in 1..Len(q), Drops(f, e, q[p].dev)
    PROVE  /\ InLine(But(q, p), f) /\ Len(But(q, p)) = Len(q) - 1
           /\ Closes(But(q, p), q, p)
<1> DEFINE r == SubSeq(q, 1, p - 1) \o SubSeq(q, p + 1, Len(q))
<1>a. \A i \in 1..Len(q) : q[i].dev = q[p].dev => i = p
    BY OnePlace
<1>b. DOMAIN f = DOMAIN e \ {q[p].dev} /\ \A d \in DOMAIN f : f[d] = e[d]
    BY DEF Drops
<1>1. q \in Seq(Hint)
    BY DEF InLine
<1>2. PICK n \in Nat : n = Len(q)
    BY <1>1
<1>3. /\ r \in Seq(Hint) /\ Len(r) = n - 1
      /\ \A i \in 1..(n - 1) : r[i] = q[IF i < p THEN i ELSE i + 1]
    <2> HIDE DEF Hint
    <2>1. PICK a \in Seq(Hint) :
            a = SubSeq(q, 1, p - 1) /\ Len(a) = p - 1 /\ \A i \in 1..(p - 1) : a[i] = q[i]
        <3>1. 1 \in 1..(n + 1) /\ p - 1 \in 0..n /\ 1 <= (p - 1) + 1 /\ (p - 1) - 1 + 1 = p - 1
            BY <1>2
        <3>2. /\ SubSeq(q, 1, p - 1) \in Seq(Hint) /\ Len(SubSeq(q, 1, p - 1)) = p - 1
              /\ \A i \in 1..(p - 1) : SubSeq(q, 1, p - 1)[i] = q[1 + i - 1]
            BY <1>1, <1>2, <3>1, SubSeqIs
        <3>3. \A i \in 1..(p - 1) : 1 + i - 1 = i
            OBVIOUS
        <3> QED BY <3>2, <3>3
    <2>2. PICK b \in Seq(Hint) :
            b = SubSeq(q, p + 1, n) /\ Len(b) = n - p /\ \A i \in 1..(n - p) : b[i] = q[p + i]
        <3>1. p + 1 \in 1..(n + 1) /\ n \in 0..n /\ p + 1 <= n + 1 /\ n - (p + 1) + 1 = n - p
            BY <1>2
        <3>2. /\ SubSeq(q, p + 1, n) \in Seq(Hint) /\ Len(SubSeq(q, p + 1, n)) = n - p
              /\ \A i \in 1..(n - p) : SubSeq(q, p + 1, n)[i] = q[(p + 1) + i - 1]
            BY <1>1, <1>2, <3>1, SubSeqIs
        <3>3. \A i \in 1..(n - p) : (p + 1) + i - 1 = p + i
            BY <1>2
        <3> QED BY <3>2, <3>3
    <2>3. /\ a \o b \in Seq(Hint) /\ Len(a \o b) = (p - 1) + (n - p)
          /\ \A i \in 1..((p - 1) + (n - p)) : (a \o b)[i] = IF i <= p - 1 THEN a[i] ELSE b[i - (p - 1)]
        <3>1. /\ a \o b \in Seq(Hint) /\ Len(a \o b) = Len(a) + Len(b)
              /\ \A i \in 1..(Len(a) + Len(b)) : (a \o b)[i] = IF i <= Len(a) THEN a[i] ELSE b[i - Len(a)]
            BY ConcatProperties
        <3> QED BY <2>1, <2>2, <3>1, Zenon
    <2>4. ASSUME NEW i \in 1..(n - 1) PROVE (a \o b)[i] = q[IF i < p THEN i ELSE i + 1]
        <3>1. i \in 1..((p - 1) + (n - p)) /\ (i <= p - 1 <=> i < p) /\ (i < p => i \in 1..(p - 1))
              /\ (~(i < p) => i - (p - 1) \in 1..(n - p) /\ p + (i - (p - 1)) = i + 1)
            BY <1>2
        <3> QED BY <2>1, <2>2, <2>3, <3>1
    <2>5. (p - 1) + (n - p) = n - 1
        BY <1>2
    <2> QED BY <1>2, <2>1, <2>2, <2>3, <2>4, <2>5
<1> HIDE DEF r
<1> DEFINE At(i) == IF i < p THEN i ELSE i + 1
<1>4. /\ \A i \in 1..(n - 1) : At(i) \in 1..n /\ At(i) # p /\ r[i] = q[At(i)]
      /\ \A i, j \in 1..(n - 1) : i < j => At(i) < At(j)
      /\ \A k \in 1..n : k # p => \E i \in 1..(n - 1) : At(i) = k
    <2>1. \A k \in 1..n : k # p => \E i \in 1..(n - 1) : At(i) = k
        <3> SUFFICES ASSUME NEW k \in 1..n, k # p PROVE \E i \in 1..(n - 1) : At(i) = k
            OBVIOUS
        <3>1. CASE k < p
            <4>1. k \in 1..(n - 1) /\ At(k) = k
                BY <1>2, <3>1
            <4> QED BY <4>1
        <3>2. CASE p < k
            <4>1. k - 1 \in 1..(n - 1) /\ At(k - 1) = k
                BY <1>2, <3>2
            <4> QED BY <4>1
        <3> QED BY <1>2, <3>1, <3>2
    <2> QED BY <1>2, <1>3, <2>1
<1> HIDE DEF At
<1>5. \A i \in 1..(n - 1) : r[i].dev \in DOMAIN f /\ r[i] = HintFor(f, r[i].dev)
    <2> TAKE i \in 1..(n - 1)
    <2>1. PICK k \in 1..n : k # p /\ r[i] = q[k]
        BY <1>4
    <2>2. q[k].dev \in DOMAIN e /\ q[k].dev # q[p].dev /\ q[k] = HintFor(e, q[k].dev)
        BY <1>2, <1>a, <2>1 DEF InLine
    <2>3. q[k].dev \in DOMAIN f /\ HintFor(f, q[k].dev) = HintFor(e, q[k].dev)
        BY <1>b, <2>2 DEF HintFor
    <2> QED BY <2>1, <2>2, <2>3
<1>6. \A d \in DOMAIN f : \E i \in 1..(n - 1) : r[i].dev = d
    <2> TAKE d \in DOMAIN f
    <2>1. PICK k \in 1..n : q[k].dev = d
        BY <1>b, <1>2 DEF InLine
    <2>2. k # p
        BY <1>b, <2>1
    <2> QED BY <1>4, <2>1, <2>2
<1>7. \A i, j \in 1..(n - 1) : i < j => f[r[i].dev].seq < f[r[j].dev].seq
    <2> SUFFICES ASSUME NEW i \in 1..(n - 1), NEW j \in 1..(n - 1), i < j
                 PROVE  f[r[i].dev].seq < f[r[j].dev].seq
        OBVIOUS
    <2>1. At(i) \in 1..n /\ At(j) \in 1..n /\ At(i) < At(j) /\ r[i] = q[At(i)] /\ r[j] = q[At(j)]
        BY <1>4
    <2>2. e[q[At(i)].dev].seq < e[q[At(j)].dev].seq
        BY <1>2, <2>1 DEF InLine
    <2>3. f[r[i].dev] = e[r[i].dev] /\ f[r[j].dev] = e[r[j].dev]
        BY <1>5, <1>b
    <2> QED BY <2>1, <2>2, <2>3
<1> QED BY <1>2, <1>3, <1>5, <1>6, <1>7 DEF InLine, But, Closes, r

\* A hint comes last.
LEMMA AppendInLine ==
    ASSUME NEW e, NEW f, NEW q, InLine(q, e), NEW d, d \notin DOMAIN e, DOMAIN f = DOMAIN e \cup {d},
           \A x \in DOMAIN e : f[x] = e[x] /\ e[x].seq < f[d].seq, HintFor(f, d) \in Hint
    PROVE  InLine(Append(q, HintFor(f, d)), f)
<1>1. q \in Seq(Hint)
    BY DEF InLine
<1>2. PICK n \in Nat : n = Len(q)
    BY <1>1
<1>3. PICK h \in Hint : h = HintFor(f, d) /\ h.dev = d
    BY DEF HintFor
<1> DEFINE r == Append(q, h)
<1>4. /\ r \in Seq(Hint) /\ Len(r) = n + 1
      /\ \A i \in 1..n : r[i] = q[i]
      /\ r[n + 1] = h
    <2> HIDE DEF Hint
    <2> QED BY <1>1, <1>2
<1> HIDE DEF r
<1>5. \A i \in 1..(n + 1) : i \in 1..n \/ i = n + 1
    OBVIOUS
<1>6. \A i \in 1..(n + 1) : r[i].dev \in DOMAIN f /\ r[i] = HintFor(f, r[i].dev)
    <2> TAKE i \in 1..(n + 1)
    <2>1. CASE i \in 1..n
        <3>1. q[i].dev \in DOMAIN e /\ q[i] = HintFor(e, q[i].dev)
            BY <1>2, <2>1 DEF InLine
        <3>2. HintFor(f, q[i].dev) = HintFor(e, q[i].dev)
            BY <3>1 DEF HintFor
        <3> QED BY <1>4, <2>1, <3>1, <3>2
    <2>2. CASE i = n + 1
        BY <1>3, <1>4, <2>2
    <2> QED BY <1>5, <2>1, <2>2
<1>7. \A x \in DOMAIN f : \E i \in 1..(n + 1) : r[i].dev = x
    <2> TAKE x \in DOMAIN f
    <2>1. CASE x \in DOMAIN e
        <3>1. PICK i \in 1..n : q[i].dev = x
            BY <1>2, <2>1 DEF InLine
        <3>2. i \in 1..(n + 1)
            OBVIOUS
        <3> QED BY <1>4, <3>1, <3>2
    <2>2. CASE x = d
        BY <1>3, <1>4, <2>2
    <2> QED BY <2>1, <2>2
<1>8. \A i, j \in 1..(n + 1) : i < j => f[r[i].dev].seq < f[r[j].dev].seq
    <2> SUFFICES ASSUME NEW i \in 1..(n + 1), NEW j \in 1..(n + 1), i < j
                 PROVE  f[r[i].dev].seq < f[r[j].dev].seq
        OBVIOUS
    <2>1. i \in 1..n /\ q[i].dev \in DOMAIN e /\ r[i] = q[i]
        BY <1>2, <1>4 DEF InLine
    <2>2. CASE j \in 1..n
        BY <1>2, <1>4, <2>1, <2>2 DEF InLine
    <2>3. CASE j = n + 1
        BY <1>3, <1>4, <2>1, <2>3
    <2> QED BY <1>5, <2>2, <2>3
<1> QED BY <1>3, <1>4, <1>6, <1>7, <1>8 DEF InLine, r

\* What CacheInv says of the entries, in this and in the next state.
LEMMA EntriesStamped ==
    ASSUME CacheInv
    PROVE  /\ Stamped(entries) /\ IsFiniteSet(Held) /\ Cardinality(Held) \in Nat
           /\ entries = [d \in Held |-> entries[d]]
           /\ \A d \in Held : HintFor(entries, d) \in Hint /\ entries[d].seq <= seq
<1>1. \A d \in Held : /\ d \in Devices /\ entries[d].ep \in Endpoints /\ entries[d].inserted \in Nat
                      /\ entries[d].seq \in Nat /\ entries[d].seq <= seq
    BY DEF CacheInv, TypeOK
<1>2. IsFiniteSet(Held)
    BY FS_Subset, RedirectAssumption DEF CacheInv, TypeOK
<1>3. \A d \in Held : HintFor(entries, d) \in Hint
    BY <1>1 DEF HintFor, Hint
<1> QED BY <1>1, <1>2, <1>3, FS_CardinalityType DEF CacheInv, TypeOK, EvictionDetermined, Stamped, Held

\* The queue without a device that is held is the queue less its place.
LEMMA WithoutIs ==
    ASSUME CacheInv, InLine(QueueOf(entries), entries), NEW q, q = QueueOf(entries), NEW p \in 1..Len(q)
    PROVE  /\ Hints!Without(q[p].dev) = But(q, p) /\ Len(But(q, p)) = Len(q) - 1
           /\ InLine(But(q, p), [d \in Held \ {q[p].dev} |-> entries[d]])
           /\ Closes(But(q, p), q, p)
<1> DEFINE f == [d \in Held \ {q[p].dev} |-> entries[d]]
<1>1. Stamped(entries) /\ InLine(q, entries)
    BY EntriesStamped
<1>2. DOMAIN q = 1..Len(q)
    <2>1. q \in Seq(Hint)
        BY <1>1 DEF InLine
    <2> QED BY <2>1
<1>3. Hints!Without(q[p].dev) = But(q, p)
    <2>1. \A i \in 1..Len(q) : q[i].dev = q[p].dev => i = p
        BY <1>1, OnePlace
    <2>2. Hints!Places(q[p].dev) = {p}
        BY <1>2, <2>1 DEF Hints!Places
    <2>3. Hints!Without(q[p].dev) = Hints!Removed(p)
        BY <2>2 DEF Hints!Without
    <2> QED BY <2>3 DEF Hints!Removed, But
<1>4. Drops(f, entries, q[p].dev)
    BY DEF Held, Drops
<1> HIDE DEF f
<1>5. /\ InLine(But(q, p), f) /\ Len(But(q, p)) = Len(q) - 1
      /\ Closes(But(q, p), q, p)
    BY <1>1, <1>4, ButInLine
<1> QED BY <1>3, <1>5 DEF f

\* A put is what the queue calls learning a hint: a device that has a place
\* moves to the end, a new one pushes the first out of a full queue.
LEMMA StoreIsLearn ==
    ASSUME CacheInv, CacheInv', InLine(QueueOf(entries), entries), NEW dev \in Devices, NEW ep,
           MaxEntries > 0, Store(dev, ep), UNCHANGED <<now, answer>>
    PROVE  InLine(QueueOf(entries)', entries') /\ Hints!Learn(dev)
<1> DEFINE e == [d \in Room(dev) \ {dev} |-> entries[d]]
           h == [dev |-> dev, ep |-> ep, at |-> now]
<1>1. PICK q \in Seq(Hint) : q = QueueOf(entries) /\ InLine(q, entries)
    BY DEF InLine
<1>2. PICK n \in Nat : n = Len(q) /\ n = Cardinality(Held)
    <2>1. DOMAIN q = 1..Cardinality(Held) /\ Cardinality(Held) \in Nat
        BY <1>1, EntriesStamped DEF QueueOf, Held
    <2>2. Len(q) = Cardinality(Held)
        BY <2>1
    <2> QED BY <2>1, <2>2
<1>3. /\ Room(dev) \subseteq Held /\ MaxEntries \in Nat /\ n <= MaxEntries
      /\ DOMAIN entries' = Room(dev) \cup {dev}
      /\ entries'[dev] = [ep |-> ep, inserted |-> now, seq |-> seq + 1]
      /\ \A d \in Room(dev) \ {dev} : entries'[d] = entries[d]
    BY <1>2, RoomFits, RedirectAssumption DEF Store, CacheInv, Bounded
<1>4. HintFor(entries', dev) = h /\ h \in Hint /\ Usable(ep)
    <2>1. HintFor(entries', dev) = h
        BY <1>3 DEF HintFor
    <2>2. ep \in Endpoints /\ Usable(ep)
        <3>1. dev \in Held' /\ entries'[dev].ep = ep
            BY <1>3 DEF Held
        <3> QED BY <3>1 DEF CacheInv, HintsUsable, TypeOK
    <2>3. now \in Nat
        BY DEF CacheInv, TypeOK
    <2> QED BY <2>1, <2>2, <2>3 DEF Hint
<1> DEFINE last == Hints!LastOnes(Append(Hints!Without(dev), h), MaxEntries)
<1>5. PICK r \in Seq(Hint) : InLine(r, e) /\ last = Append(r, h)
    <2>1. CASE dev \in Held
        <3>1. PICK p \in 1..n : q[p].dev = dev
            BY <1>1, <1>2, <2>1 DEF InLine, Held
        <3>2. Room(dev) = Held
            BY <2>1 DEF Room
        <3>3. PICK r : r = Hints!Without(dev) /\ InLine(r, e) /\ Len(r) = n - 1
            BY <1>1, <1>2, <3>1, <3>2, WithoutIs
        <3>4. r \in Seq(Hint)
            BY <3>3 DEF InLine
        <3>5. PICK s \in Seq(Hint) : s = Append(r, h) /\ Len(s) = n
            <4>1. Append(r, h) \in Seq(Hint) /\ Len(Append(r, h)) = (n - 1) + 1
                <5> HIDE DEF h, Hint
                <5> QED BY <1>4, <3>3, <3>4, AppendProperties
            <4>2. (n - 1) + 1 = n
                BY <1>2
            <4> QED BY <4>1, <4>2, Zenon
        <3>6. last = SubSeq(s, 1, Len(s))
            BY <1>3, <3>3, <3>5 DEF Hints!LastOnes
        <3>7. SubSeq(s, 1, Len(s)) = s
            <4> HIDE DEF Hint
            <4> QED BY <3>5
        <3> QED BY <3>3, <3>4, <3>5, <3>6, <3>7
    <2>2. CASE dev \notin Held
        <3>1. Hints!Without(dev) = q
            <4>1. DOMAIN q = 1..Len(q) /\ \A i \in 1..Len(q) : q[i].dev # dev
                BY <1>1, <2>2 DEF InLine, Held
            <4>2. Hints!Places(dev) = {}
                BY <1>1, <4>1 DEF Hints!Places
            <4> QED BY <1>1, <4>2 DEF Hints!Without
        <3>2. PICK s \in Seq(Hint) : /\ s = Append(q, h) /\ Len(s) = n + 1
                                     /\ s[n + 1] = h /\ \A i \in 1..n : s[i] = q[i]
            <4>1. /\ Append(q, h) \in Seq(Hint) /\ Len(Append(q, h)) = n + 1
                  /\ Append(q, h)[n + 1] = h /\ \A i \in 1..n : Append(q, h)[i] = q[i]
                <5> HIDE DEF h, Hint
                <5>1. PICK x \in Hint : x = h
                    BY <1>4
                <5>2. /\ Append(q, x) \in Seq(Hint) /\ Len(Append(q, x)) = Len(q) + 1
                      /\ Append(q, x)[Len(q) + 1] = x /\ \A i \in 1..Len(q) : Append(q, x)[i] = q[i]
                    BY AppendProperties
                <5> QED BY <1>2, <5>1, <5>2, Zenon
            <4> QED BY <4>1, Zenon
        <3>3. CASE n < MaxEntries
            <4>1. Room(dev) = Held
                BY <1>2, <1>3, <3>3 DEF Room
            <4>2. e = entries
                BY <2>2, <4>1, EntriesStamped
            <4>3. last = SubSeq(s, 1, Len(s))
                <5>1. last = Hints!LastOnes(s, MaxEntries)
                    BY <3>1, <3>2, Zenon
                <5> HIDE DEF last, h, e
                <5>2. PICK x \in Nat : x = MaxEntries
                    BY <1>3
                <5>3. ~(Len(s) > x)
                    BY <3>2, <3>3, <5>2
                <5>4. (IF Len(s) > x THEN Len(s) - x + 1 ELSE 1) = 1
                    BY <5>3, Zenon
                <5> QED BY <5>1, <5>2, <5>4, Zenon DEF Hints!LastOnes
            <4>4. SubSeq(s, 1, Len(s)) = s
                <5> HIDE DEF Hint
                <5> QED BY <3>2
            <4> QED BY <1>1, <3>2, <4>2, <4>3, <4>4
        <3>4. CASE n = MaxEntries
            <4>1. 1 \in 1..n /\ Held # {} /\ Room(dev) = Held \ {Oldest}
                <5>1. n # 0 /\ Cardinality(Held) >= MaxEntries
                    BY <1>2, <1>3, <3>4
                <5>2. Held # {}
                    BY <1>2, <5>1, FS_EmptySet
                <5> QED BY <1>2, <2>2, <5>1, <5>2 DEF Room
            <4>2. q[1].dev = Oldest
                <5>1. q[1].dev \in Held /\ Oldest \in Held
                    BY <1>1, <1>2, <4>1, OldestHeld DEF InLine, Held, CacheInv
                <5>2. PICK k \in 1..n : q[k].dev = Oldest
                    BY <1>1, <1>2, <5>1 DEF InLine, Held
                <5>3. entries[Oldest].seq <= entries[q[1].dev].seq
                    <6>1. \A d \in Held : (\A x \in Held : entries[d].seq <= entries[x].seq)
                                            \/ \E x \in Held : entries[x].seq < entries[d].seq
                        BY EntriesStamped DEF Stamped, Held
                    <6>2. \A d \in Held : entries[q[1].dev].seq <= entries[d].seq
                        <7> TAKE d \in Held
                        <7>1. PICK i \in 1..n : q[i].dev = d
                            BY <1>1, <1>2 DEF InLine, Held
                        <7>2. i = 1 \/ entries[q[1].dev].seq < entries[d].seq
                            <8>1. i = 1 \/ 1 < i
                                BY <1>2
                            <8> QED BY <1>1, <1>2, <4>1, <7>1, <8>1 DEF InLine
                        <7>3. entries[q[1].dev].seq \in Nat /\ entries[d].seq \in Nat
                            BY <5>1, EntriesStamped DEF Stamped, Held
                        <7> QED BY <7>1, <7>2, <7>3
                    <6> QED BY <5>1, <6>2 DEF Oldest
                <5>4. ~(1 < k)
                    <6>1. 1 < k => entries[q[1].dev].seq < entries[Oldest].seq
                        BY <1>1, <1>2, <4>1, <5>2 DEF InLine
                    <6>2. entries[q[1].dev].seq \in Nat /\ entries[Oldest].seq \in Nat
                        BY <5>1, EntriesStamped DEF Stamped, Held
                    <6> QED BY <5>3, <6>1, <6>2
                <5>5. k = 1
                    BY <5>4
                <5> QED BY <5>2, <5>5
            <4>3. PICK r : InLine(r, e) /\ Len(r) = n - 1 /\ Closes(r, q, 1)
                <5>1. Room(dev) \ {dev} = Held \ {q[1].dev}
                    BY <2>2, <4>1, <4>2
                <5>2. 1 \in 1..Len(q) /\ q = QueueOf(entries) /\ InLine(QueueOf(entries), entries)
                    BY <1>1, <1>2, <4>1
                <5>3. /\ Len(But(q, 1)) = Len(q) - 1 /\ Closes(But(q, 1), q, 1)
                      /\ InLine(But(q, 1), [d \in Held \ {q[1].dev} |-> entries[d]])
                    BY <5>2, WithoutIs
                <5> QED BY <1>2, <5>1, <5>3
            <4>4. r \in Seq(Hint) /\ \A i \in 1..(n - 1) : r[i] = q[i + 1]
                BY <1>2, <4>3 DEF InLine, Closes
            <4>5. last = SubSeq(s, 2, n + 1)
                <5>1. (n + 1) - n + 1 = 2 /\ n + 1 > n
                    BY <1>2
                <5> QED BY <3>1, <3>2, <3>4, <5>1 DEF Hints!LastOnes
            <4>6. PICK t \in Seq(Hint) : /\ t = SubSeq(s, 2, n + 1) /\ Len(t) = n
                                         /\ \A i \in 1..n : t[i] = s[i + 1]
                <5>1. 2 \in 1..(Len(s) + 1) /\ n + 1 \in 0..Len(s) /\ 2 <= (n + 1) + 1 /\ (n + 1) - 2 + 1 = n
                    BY <3>2, <4>1
                <5>2. /\ SubSeq(s, 2, n + 1) \in Seq(Hint) /\ Len(SubSeq(s, 2, n + 1)) = n
                      /\ \A i \in 1..n : SubSeq(s, 2, n + 1)[i] = s[2 + i - 1]
                    BY <5>1, SubSeqIs
                <5>3. \A i \in 1..n : 2 + i - 1 = i + 1
                    OBVIOUS
                <5> QED BY <5>2, <5>3
            <4>7. t = Append(r, h)
                <5>1. Len(t) = Len(r) + 1 /\ t[Len(r) + 1] = h
                    BY <3>2, <4>1, <4>3, <4>6
                <5>2. \A i \in 1..Len(r) : t[i] = r[i]
                    <6> TAKE i \in 1..Len(r)
                    <6>1. i \in 1..(n - 1) /\ i \in 1..n /\ i + 1 \in 1..n
                        BY <4>3
                    <6> QED BY <3>2, <4>4, <4>6, <6>1
                <5> HIDE DEF h, Hint
                <5> QED BY <1>4, <4>4, <5>1, <5>2, IsAppend
            <4> QED BY <4>3, <4>4, <4>5, <4>6, <4>7
        <3>5. n < MaxEntries \/ n = MaxEntries
            BY <1>2, <1>3
        <3> HIDE DEF e, last
        <3> QED BY <3>3, <3>4, <3>5
    <2> QED BY <2>1, <2>2
<1>6. InLine(last, entries')
    <2>1. dev \notin DOMAIN e /\ DOMAIN entries' = DOMAIN e \cup {dev}
        BY <1>3
    <2>2. \A x \in DOMAIN e : entries'[x] = e[x] /\ e[x].seq < entries'[dev].seq
        <3> TAKE x \in DOMAIN e
        <3>1. e[x] = entries[x] /\ entries'[x] = entries[x] /\ x \in Held
            BY <1>3
        <3>2. entries[x].seq \in Nat /\ entries[x].seq <= seq /\ seq \in Nat
            BY <3>1, EntriesStamped DEF Stamped, Held, CacheInv, TypeOK
        <3> QED BY <1>3, <3>1, <3>2
    <2> HIDE DEF e, last
    <2> QED BY <1>4, <1>5, <2>1, <2>2, AppendInLine
<1>7. Stamped(entries')
    <2>1. Stamped(entries)'
        BY EntriesStamped, PTL
    <2> QED BY <2>1 DEF Stamped
<1>8. last = QueueOf(entries')
    <2> HIDE DEF last
    <2> QED BY <1>6, <1>7, OnlyQueue
<1> DEFINE next == QueueOf(entries')
<1>9. QueueOf(entries)' = next
    BY DEF QueueOf, HintFor, Older
<1>10. next # <<>> /\ next[Len(next)] = h /\ h.ep = ep
    <2>1. next = Append(r, h) /\ h.ep = ep
        BY <1>5, <1>8
    <2> HIDE DEF next, h, Hint
    <2> QED BY <1>4, <1>5, <2>1
<1>11. Hints!Learn(dev)
    <2> HIDE DEF next, last
    <2>1. next = last
        BY <1>8 DEF next
    <2>2. QueueOf(entries)' # <<>> /\ Usable(QueueOf(entries)'[Len(QueueOf(entries)')].ep)
        BY <1>4, <1>9, <1>10
    <2>3. QueueOf(entries)' = Hints!LastOnes(Append(Hints!Without(dev),
                [dev |-> dev, ep |-> QueueOf(entries)'[Len(QueueOf(entries)')].ep, at |-> now]), MaxEntries)
        BY <1>9, <1>10, <2>1 DEF last
    <2> QED BY <2>2, <2>3 DEF Hints!Learn
<1> HIDE DEF next, last
<1> QED BY <1>6, <1>8, <1>9, <1>11 DEF next

LEMMA SameQueue ==
    ASSUME InLine(QueueOf(entries), entries), entries' = entries
    PROVE  QueueOf(entries)' = QueueOf(entries) /\ InLine(QueueOf(entries)', entries')
BY DEF QueueOf, HintFor, Older

\* A lookup answers as the queue does, and takes an outdated hint out of it.
LEMMA GetIsAsk ==
    ASSUME CacheInv, CacheInv', InLine(QueueOf(entries), entries), NEW dev \in Devices, Get(dev)
    PROVE  InLine(QueueOf(entries)', entries') /\ (Hints!AskFound(dev) \/ Hints!AskNone(dev))
<1>1. PICK q \in Seq(Hint) : q = QueueOf(entries) /\ InLine(q, entries)
    BY DEF InLine
<1>2. DOMAIN q = 1..Len(q)
    OBVIOUS
<1>3. CASE dev \in Held
    <2>1. PICK p \in 1..Len(q) : q[p].dev = dev
        BY <1>1, <1>3 DEF InLine, Held
    <2>2. q[p] = HintFor(entries, dev) /\ q[p].ep = entries[dev].ep /\ q[p].at = entries[dev].inserted
        BY <1>1, <2>1 DEF InLine, HintFor
    <2>3. Hints!HintsOf(dev) = {q[p]}
        <3>1. \A i \in 1..Len(q) : q[i].dev = dev => i = p
            BY <1>1, <2>1, EntriesStamped, OnePlace
        <3>2. Hints!Places(dev) = {p}
            BY <1>1, <1>2, <2>1, <3>1 DEF Hints!Places
        <3> QED BY <1>1, <3>2 DEF Hints!HintsOf
    <2>4. Hints!Outdated(q[p]) <=> IsExpired(now - entries[dev].inserted)
        BY <2>2 DEF Hints!Outdated, IsExpired
    <2>5. CASE ~IsExpired(now - entries[dev].inserted)
        <3>1. /\ answer' = [dev |-> dev, ep |-> entries[dev].ep] /\ entries' = entries /\ now' = now
            BY <1>3, <2>5 DEF Get
        <3>2. QueueOf(entries)' = QueueOf(entries) /\ InLine(QueueOf(entries)', entries')
            BY <3>1, SameQueue
        <3>3. \E h \in Hints!HintsOf(dev) : ~Hints!Outdated(h) /\ answer' = [dev |-> dev, ep |-> h.ep]
            BY <2>2, <2>3, <2>4, <2>5, <3>1
        <3>4. Hints!AskFound(dev)
            BY <3>1, <3>2, <3>3 DEF Hints!AskFound
        <3> QED BY <3>2, <3>4
    <2>6. CASE IsExpired(now - entries[dev].inserted)
        <3>1. /\ answer' = [dev |-> dev, ep |-> NoHint] /\ now' = now
              /\ entries' = [d \in Held \ {dev} |-> entries[d]]
            BY <1>3, <2>6 DEF Get
        <3>2. Hints!Without(dev) = But(q, p) /\ InLine(But(q, p), [d \in Held \ {dev} |-> entries[d]])
            BY <1>1, <2>1, WithoutIs
        <3>3. But(q, p) = QueueOf(entries')
            <4>1. Stamped(entries)'
                BY EntriesStamped, PTL
            <4>2. Stamped(entries')
                BY <4>1 DEF Stamped
            <4>3. InLine(But(q, p), entries')
                BY <3>1, <3>2
            <4> QED BY <4>2, <4>3, OnlyQueue
        <3>4. QueueOf(entries)' = QueueOf(entries')
            BY DEF QueueOf, HintFor, Older
        <3>5. \A h \in Hints!HintsOf(dev) : Hints!Outdated(h)
            BY <2>3, <2>4, <2>6
        <3>6. Hints!AskNone(dev)
            BY <3>1, <3>2, <3>3, <3>4, <3>5 DEF Hints!AskNone
        <3> QED BY <3>1, <3>2, <3>3, <3>4, <3>6
    <2> QED BY <2>5, <2>6
<1>4. CASE dev \notin Held
    <2>1. answer' = [dev |-> dev, ep |-> NoHint] /\ entries' = entries /\ now' = now
        BY <1>4 DEF Get
    <2>2. QueueOf(entries)' = QueueOf(entries) /\ InLine(QueueOf(entries)', entries')
        BY <2>1, SameQueue
    <2>3. Hints!Places(dev) = {}
        BY <1>1, <1>2, <1>4 DEF Hints!Places, InLine, Held
    <2>4. Hints!AskNone(dev)
        BY <2>1, <2>2, <2>3 DEF Hints!AskNone, Hints!HintsOf, Hints!Without
    <2> QED BY <2>2, <2>4
<1> QED BY <1>3, <1>4

\* No entries, no queue.
LEMMA EmptyQueue ==
    ASSUME NEW e, DOMAIN e = {}
    PROVE  QueueOf(e) = <<>> /\ InLine(QueueOf(e), e)
<1>1. <<>> \in Seq(Hint) /\ Len(<<>>) = 0
    OBVIOUS
<1>2. InLine(<<>>, e)
    BY <1>1 DEF InLine
<1>3. Stamped(e)
    BY DEF Stamped
<1> QED BY <1>2, <1>3, OnlyQueue

\* The inductive invariant of the refinement.
QueueInv == CacheInv /\ InLine(QueueOf(entries), entries)

LEMMA QueueStep ==
    ASSUME QueueInv, CacheInv', [Next]_vars
    PROVE  QueueInv' /\ [Hints!Next]_(<<QueueOf(entries), now, answer>>)
<1> DEFINE same == QueueOf(entries)' = QueueOf(entries)
           line == InLine(QueueOf(entries)', entries')
<1>0. CacheInv /\ InLine(QueueOf(entries), entries)
    BY DEF QueueInv
<1>a. entries' = entries => same /\ line
    BY <1>0, SameQueue
<1> SUFFICES line /\ (Hints!Next \/ UNCHANGED <<QueueOf(entries), now, answer>>)
    BY DEF QueueInv, InLine
<1> HIDE DEF line
<1>1. ASSUME NEW devices \in Lists(Devices, 1), NEW status \in Statuses, Harvest(devices, status)
      PROVE  line /\ Hints!Next
    <2>1. entries' = entries /\ now' = now /\ answer' = NoHint
        BY <1>1 DEF Harvest
    <2>2. Hints!Quiet
        BY <1>a, <2>1 DEF Hints!Quiet
    <2> QED BY <1>a, <2>1, <2>2 DEF Hints!Next
<1>2. CASE Put
    <2>1. CASE UNCHANGED <<entries, seq>>
        BY <1>2, <1>a, <2>1 DEF Put
    <2>2. CASE Head(todo).ep # NoHint /\ MaxEntries > 0 /\ Store(Head(todo).dev, Head(todo).ep)
        <3>1. PICK dev \in Devices, ep \in Endpoints \cup {NoHint} : dev = Head(todo).dev /\ ep = Head(todo).ep
            <4> DEFINE Items == [dev : Devices, ep : Endpoints \cup {NoHint}]
            <4>1. todo \in Seq(Items) /\ todo # <<>>
                BY <1>0, <1>2 DEF CacheInv, TypeOK, Put
            <4>2. Head(todo) \in Items
                <5> HIDE DEF Items
                <5> QED BY <4>1
            <4> QED BY <4>2
        <3>2. UNCHANGED <<now, answer>>
            BY <1>2 DEF Put
        <3>3. line /\ Hints!Learn(dev)
            BY <1>0, <2>2, <3>1, <3>2, StoreIsLearn DEF line
        <3> QED BY <3>3 DEF Hints!Next
    <2> QED BY <1>2, <2>1, <2>2 DEF Put
<1>3. ASSUME NEW dev \in Devices, Get(dev) PROVE line /\ Hints!Next
    <2>1. line /\ (Hints!AskFound(dev) \/ Hints!AskNone(dev))
        BY <1>0, <1>3, GetIsAsk DEF line
    <2> QED BY <2>1 DEF Hints!Next
<1>4. CASE Clear
    <2>1. DOMAIN entries' = {} /\ now' = now /\ answer' = NoHint
        BY <1>4 DEF Clear
    <2>2. QueueOf(entries') = <<>> /\ InLine(QueueOf(entries'), entries')
        BY <2>1, EmptyQueue
    <2>3. QueueOf(entries)' = QueueOf(entries')
        BY DEF QueueOf, HintFor, Older
    <2>4. Hints!Quiet
        BY <2>1, <2>2, <2>3 DEF Hints!Quiet
    <2> QED BY <2>2, <2>3, <2>4 DEF Hints!Next, line
<1>5. CASE Tick
    <2>1. Hints!Tick
        BY <1>a, <1>5 DEF Hints!Tick, Tick
    <2> QED BY <1>a, <1>5, <2>1 DEF Hints!Next, Tick
<1>6. CASE UNCHANGED vars
    BY <1>a, <1>6 DEF vars
<1> QED BY <1>1, <1>2, <1>3, <1>4, <1>5, <1>6 DEF Next

\* The cache implements the abstract queue of hints: whatever servers recommend
\* and whenever hints are asked for, put evicts the oldest put, a repeated
\* recommendation moves to the end, and get answers the last unexpired one.
THEOREM CacheIsAQueue == Spec => ImplementsQueue
<1>1. Init => QueueInv /\ Hints!Init
    <2> SUFFICES ASSUME Init PROVE QueueInv /\ Hints!Init
        OBVIOUS
    <2>1. CacheInv
        BY RedirectAssumption, FS_EmptySet
           DEF Init, CacheInv, TypeOK, Bounded, EvictionDetermined, HintsUsable, PutsUsable, Held
    <2>2. QueueOf(entries) = <<>> /\ InLine(QueueOf(entries), entries)
        BY EmptyQueue DEF Init
    <2> QED BY <2>1, <2>2 DEF QueueInv, Hints!Init, Init
<1>2. QueueInv /\ CacheInv' /\ [Next]_vars => QueueInv' /\ [Hints!Next]_(<<QueueOf(entries), now, answer>>)
    BY QueueStep
<1>3. Spec => []CacheInv
    BY CacheInvariant
<1> QED BY <1>1, <1>2, <1>3, PTL DEF Spec, ImplementsQueue, Hints!Spec
=============================================================================
