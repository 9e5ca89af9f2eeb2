------------------------------ MODULE HintQueue ------------------------------
(***************************************************************************)
(* What a redirect cache promises: a queue of hints, one per device, the   *)
(* oldest first.  Learning a hint moves its device to the end and, beyond  *)
(* the capacity, forgets the hints at the front; asking gives the hint     *)
(* learned last if it is not older than its lifetime.                      *)
(***************************************************************************)
EXTENDS Integers, Sequences

CONSTANTS Devices, NoHint, Capacity, Lifetime, Endpoint(_)

VARIABLES queue, clock, answer

\* The queue when the hint for d, if there is one, leaves its place.
Places(d) == {i \in DOMAIN queue : queue[i].dev = d}
Removed(i) == SubSeq(queue, 1, i - 1) \o SubSeq(queue, i + 1, Len(queue))
Without(d) == IF Places(d) = {} THEN queue ELSE Removed(CHOOSE i \in Places(d) : TRUE)

LastOnes(s, n) == SubSeq(s, IF Len(s) > n THEN Len(s) - n + 1 ELSE 1, Len(s))
Outdated(h) == Lifetime # 0 /\ clock - h.at > Lifetime
HintsOf(d) == {queue[i] : i \in Places(d)}

Init == queue = <<>> /\ clock = 0 /\ answer = NoHint

\* The hint is new in the queue's last place, and it is for some endpoint.
Learn(d) ==
    /\ queue' # <<>> /\ Endpoint(queue'[Len(queue')].ep)
    /\ queue' = LastOnes(Append(Without(d),
                    [dev |-> d, ep |-> queue'[Len(queue')].ep, at |-> clock]), Capacity)
    /\ UNCHANGED <<clock, answer>>

AskFound(d) ==
    /\ \E h \in HintsOf(d) : ~Outdated(h) /\ answer' = [dev |-> d, ep |-> h.ep]
    /\ UNCHANGED <<queue, clock>>

AskNone(d) ==
    /\ \A h \in HintsOf(d) : Outdated(h)
    /\ answer' = [dev |-> d, ep |-> NoHint]
    /\ queue' = Without(d)
    /\ UNCHANGED clock

\* Calls that answer nothing: an insert, and the removal of all hints.
Quiet == answer' = NoHint /\ queue' \in {queue, <<>>} /\ UNCHANGED clock

Tick == clock' = clock + 1 /\ UNCHANGED <<queue, answer>>

Next ==
    \/ \E d \in Devices : Learn(d) \/ AskFound(d) \/ AskNone(d)
    \/ Quiet \/ Tick

Spec == Init /\ [][Next]_<<queue, clock, answer>>
=============================================================================
