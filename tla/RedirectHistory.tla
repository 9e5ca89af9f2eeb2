--------------------------- MODULE RedirectHistory ---------------------------
(***************************************************************************)
(* The redirect cache against what the servers recommended: `latest` is a  *)
(* history variable, the endpoint last recommended for a device, read off  *)
(* whole responses; and the cache as an abstract queue of hints.           *)
(***************************************************************************)
EXTENDS RedirectCache

VARIABLE latest
historyVars == <<vars, latest>>

\* The last usable recommendation for dev in a response, or its previous one.
LatestAfter(dev, devices, status) ==
    LET paired == status.subs # NoSubs /\ Len(status.subs) = Len(devices)
        Node(i) == IF paired THEN status.subs[i] ELSE status.redirect
        good == {i \in DOMAIN devices :
                   devices[i] = dev /\ Node(i) \in Nodes /\ Usable(Node(i))}
    IN  IF good = {} THEN latest[dev]
        ELSE Node(CHOOSE i \in good : \A j \in good : j <= i)

HInit == Init /\ latest = [d \in Devices |-> NoHint]
HHarvest ==
    \E devices \in Lists(Devices, 1), status \in Statuses :
        /\ Harvest(devices, status)
        /\ latest' = [d \in Devices |-> LatestAfter(d, devices, status)]
HNext ==
    \/ HHarvest
    \/ (Put \/ (\E d \in Devices : Get(d)) \/ Clear \/ Tick) /\ UNCHANGED latest
HSpec == HInit /\ [][HNext]_historyVars

\* The hint for a device is the endpoint recommended for it last, also when a
\* batch names the device twice or only some of its sub-statuses redirect.
HintIsLatest == todo = <<>> => \A d \in Held : entries[d].ep = latest[d]

\* The puts of the running harvest that will change the hint for dev.
PutsFor(dev) == {i \in DOMAIN todo : todo[i].dev = dev /\ todo[i].ep # NoHint}

\* During a harvest the last put to come for a device, or else its hint, is the
\* latest recommendation.
PendingIsLatest ==
    \A d \in Devices :
        /\ PutsFor(d) = {} /\ d \in Held => entries[d].ep = latest[d]
        /\ \A i \in PutsFor(d) : (\A j \in PutsFor(d) : j <= i) => todo[i].ep = latest[d]

\* The inductive invariant of the cache with its history.
HistoryInv == CacheInv /\ latest \in [Devices -> Nodes \cup {NoHint}] /\ PendingIsLatest

\* The entries of a cache from the oldest put to the newest, as an abstract queue.
Older(e, d) == {x \in DOMAIN e : e[x].seq < e[d].seq}
HintFor(e, d) == [dev |-> d, ep |-> e[d].ep, at |-> e[d].inserted]
QueueOf(e) ==
    [i \in 1..Cardinality(DOMAIN e) |->
        HintFor(e, CHOOSE d \in DOMAIN e : Cardinality(Older(e, d)) = i - 1)]

Hints == INSTANCE HintQueue WITH
    Capacity <- MaxEntries, Lifetime <- Ttl, Endpoint <- Usable, queue <- QueueOf(entries), clock <- now

\* The cache implements the queue: oldest-put eviction, refresh on a repeated
\* hint, expiry of what is asked for.
ImplementsQueue == Hints!Spec
=============================================================================
