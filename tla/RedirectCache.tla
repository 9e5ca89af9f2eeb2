---------------------------- MODULE RedirectCache ----------------------------
(***************************************************************************)
(* The write-redirection cache of src/client/redirect.rs, owned by one     *)
(* session.  An insert response recommends endpoints; record_redirects     *)
(* harvests them, one put per device in the order of the batch, and        *)
(* redirect_hint reads them until they expire.  The steps of a harvest are *)
(* the puts of its loop: nothing else happens until `todo` is empty.       *)
(***************************************************************************)
EXTENDS Integers, Sequences, FiniteSets

CONSTANTS
    Devices,
    Nodes,          \* TEndPoints a server may send: [ip, port]
    NoNode, NoSubs, \* no redirectNode, no subStatus in a status
    EmptyIp,        \* the empty host name
    NoHint,         \* None
    MaxPort,        \* u16::MAX
    MaxEntries,     \* capacity; 0 disables the cache
    Ttl,            \* lifetime; 0 disables expiry
    MaxBatch, MaxSeq, MaxTime   \* bounds of the model: devices per insert, puts, clock

ASSUME RedirectAssumption ==
    /\ IsFiniteSet(Devices)
    /\ Nodes \subseteq [ip : {n.ip : n \in Nodes}, port : Int]
    /\ NoNode \notin Nodes /\ NoHint \notin [ip : {n.ip : n \in Nodes}, port : Int]
    /\ MaxPort \in Nat /\ MaxEntries \in Nat /\ Ttl \in Nat
    /\ MaxBatch \in Nat /\ MaxSeq \in Nat /\ MaxTime \in Nat

VARIABLES
    entries,    \* RedirectCache::entries, a function on the devices that have a hint
    seq,        \* RedirectCache::seq
    now,        \* the monotonic clock
    todo,       \* puts of the running harvest still to do
    answer      \* what the last redirect_hint returned for which device; NoHint after another call

vars == <<entries, seq, now, todo, answer>>

Held == DOMAIN entries

-----------------------------------------------------------------------------
(* record_redirects *)

\* Mutant: the port is cast to 16 bits instead of converted.
EndpointCast(node) ==
    IF node.ip = EmptyIp THEN NoHint ELSE [ip |-> node.ip, port |-> node.port % (MaxPort + 1)]

\* endpoint_from_redirect rejects an empty host and a port outside 1..u16::MAX.
EndpointFromRedirect(node) ==
    IF node.ip # EmptyIp /\ node.port \in 1..MaxPort
    THEN [ip |-> node.ip, port |-> node.port]
    ELSE NoHint

Recommended(node) == IF node = NoNode THEN NoHint ELSE EndpointFromRedirect(node)

\* A TSStatus as far as redirection reads it.
NodesOrNone == Nodes \cup {NoNode}
Lists(S, least) == UNION {[1..n -> S] : n \in least..MaxBatch}
Statuses == [redirect : NodesOrNone, subs : Lists(NodesOrNone, 0) \cup {NoSubs}]

\* Mutant: the top-level node wins over the list of sub-statuses.
PutsTopFirst(devices, status) ==
    [i \in DOMAIN devices |->
        [dev |-> devices[i],
         ep |-> IF Recommended(status.redirect) # NoHint THEN Recommended(status.redirect)
                ELSE IF status.subs # NoSubs /\ i \in DOMAIN status.subs
                     THEN Recommended(status.subs[i]) ELSE NoHint]]

\* One sub-status per device: each device gets the node of its own; otherwise
\* every device gets the top-level node.  NoHint: no put for this device.
Puts(devices, status) ==
    [i \in DOMAIN devices |->
        [dev |-> devices[i],
         ep |-> IF status.subs # NoSubs /\ Len(status.subs) = Len(devices)
                THEN Recommended(status.subs[i])
                ELSE Recommended(status.redirect)]]

\* An insert is answered.
Harvest(devices, status) ==
    /\ todo = <<>> /\ seq + Len(devices) <= MaxSeq
    /\ todo' = Puts(devices, status) /\ answer' = NoHint
    /\ UNCHANGED <<entries, seq, now>>

-----------------------------------------------------------------------------
(* put, get and clear *)

Oldest == CHOOSE d \in Held : \A x \in Held : entries[d].seq <= entries[x].seq

\* Mutants: eviction one put late; the newest entry evicted.
RoomLate(dev) ==
    IF Cardinality(Held) > MaxEntries /\ dev \notin Held THEN Held \ {Oldest} ELSE Held
RoomNewest(dev) ==
    IF Cardinality(Held) >= MaxEntries /\ dev \notin Held
    THEN Held \ {CHOOSE d \in Held : \A x \in Held : entries[d].seq >= entries[x].seq}
    ELSE Held

\* What put leaves in the cache to make room for dev.
Room(dev) ==
    IF Cardinality(Held) >= MaxEntries /\ dev \notin Held THEN Held \ {Oldest} ELSE Held

\* Mutant: the counter advances only for a new device.
StoreSameSeq(dev, ep) ==
    /\ seq' = IF dev \in Held THEN seq ELSE seq + 1
    /\ entries' = [d \in Room(dev) \cup {dev} |->
                     IF d = dev THEN [ep |-> ep, inserted |-> now, seq |-> seq'] ELSE entries[d]]

Store(dev, ep) ==
    /\ seq' = seq + 1
    /\ entries' = [d \in Room(dev) \cup {dev} |->
                     IF d = dev THEN [ep |-> ep, inserted |-> now, seq |-> seq + 1] ELSE entries[d]]

\* One iteration of the loop in record_redirects, put included.
Put ==
    /\ todo # <<>> /\ todo' = Tail(todo)
    /\ \/ /\ Head(todo).ep # NoHint /\ MaxEntries > 0
          /\ Store(Head(todo).dev, Head(todo).ep)
       \/ /\ Head(todo).ep = NoHint \/ MaxEntries = 0
          /\ UNCHANGED <<entries, seq>>
    /\ UNCHANGED <<now, answer>>

IsExpired(elapsed) == Ttl # 0 /\ elapsed > Ttl

\* redirect_hint: an expired entry is removed on the way out.
Get(dev) ==
    /\ todo = <<>>
    /\ \/ /\ dev \in Held /\ ~IsExpired(now - entries[dev].inserted)
          /\ answer' = [dev |-> dev, ep |-> entries[dev].ep]
          /\ UNCHANGED entries
       \/ /\ dev \in Held /\ IsExpired(now - entries[dev].inserted)
          /\ answer' = [dev |-> dev, ep |-> NoHint]
          /\ entries' = [d \in Held \ {dev} |-> entries[d]]
       \/ /\ dev \notin Held
          /\ answer' = [dev |-> dev, ep |-> NoHint]
          /\ UNCHANGED entries
    /\ UNCHANGED <<seq, now, todo>>

Clear ==
    /\ todo = <<>>
    /\ entries' = [d \in {} |-> entries[d]] /\ answer' = NoHint
    /\ UNCHANGED <<seq, now, todo>>

Tick ==
    /\ now < MaxTime /\ now' = now + 1
    /\ UNCHANGED <<entries, seq, todo, answer>>

-----------------------------------------------------------------------------
Init ==
    /\ entries = [d \in {} |-> NoHint] /\ seq = 0 /\ now = 0
    /\ todo = <<>> /\ answer = NoHint

Next ==
    \/ \E devices \in Lists(Devices, 1), status \in Statuses : Harvest(devices, status)
    \/ Put \/ (\E d \in Devices : Get(d)) \/ Clear \/ Tick

Spec == Init /\ [][Next]_vars

-----------------------------------------------------------------------------
\* Values of type Endpoint { host: String, port: u16 }, and those to connect to.
Endpoints == [ip : {n.ip : n \in Nodes}, port : 0..MaxPort]
Usable(ep) == ep.ip # EmptyIp /\ ep.port \in 1..MaxPort

TypeOK ==
    /\ Held \subseteq Devices
    /\ entries \in [Held -> [ep : Endpoints, inserted : 0..now, seq : 1..seq]]
    /\ todo \in Seq([dev : Devices, ep : Endpoints \cup {NoHint}])
    /\ seq \in Nat /\ seq + Len(todo) <= MaxSeq /\ now \in 0..MaxTime

\* The cache never holds more hints than its capacity; 0 disables it.
Bounded == Cardinality(Held) <= MaxEntries

\* No two entries share a counter value, so that the entry put evicts is
\* determined, "even when two inserts land on the same Instant".
EvictionDetermined == \A c, d \in Held : entries[c].seq = entries[d].seq => c = d

\* Whatever a server recommends, a hint is an endpoint one can connect to.
HintsUsable == \A d \in Held : Usable(entries[d].ep)

\* So are the endpoints of a harvest on their way into the cache.
PutsUsable == \A i \in DOMAIN todo : todo[i].ep # NoHint => Usable(todo[i].ep)

\* The inductive invariant behind the theorems of RedirectProofs.
CacheInv == TypeOK /\ Bounded /\ EvictionDetermined /\ HintsUsable /\ PutsUsable
=============================================================================
