--------------------------- MODULE MCPoolLiveness ---------------------------
(***************************************************************************)
(* SessionPool with fair threads, for liveness.  std::sync::Mutex is not   *)
(* fair, so no fairness of locking is assumed: each client makes at most   *)
(* MaxCalls calls, after which contention ends and weak fairness is        *)
(* enough.  Clients are never obliged to call, to USE or to drop a guard.  *)
(***************************************************************************)
EXTENDS SessionPool

CONSTANT MaxCalls
ASSUME MaxCallsAssumption == MaxCalls \in Nat

VARIABLE calls
liveVars == <<vars, calls>>

CallBegins(t) == pc[t] = "Out" /\ pc'[t] # "Out"
CountCalls ==
    /\ calls' = [t \in Threads |-> IF CallBegins(t) THEN calls[t] + 1 ELSE calls[t]]
    /\ \A t \in Threads : calls'[t] <= MaxCalls

LiveInit == Init /\ calls = [t \in Threads |-> 0]
LiveNext == Next /\ CountCalls

\* A call that has begun keeps running: locks are granted when free, RPCs
\* succeed or fail, and a timed wait ends.
Fairness ==
    \A t \in Threads : WF_liveVars((AcquireStep(t) \/ ReleaseStep(t) \/ CloseStep(t)) /\ CountCalls)

LiveSpec == LiveInit /\ [][LiveNext]_liveVars /\ Fairness

-----------------------------------------------------------------------------
\* Every acquire returns, with a guard or an error, even if no guard is ever
\* dropped and no waiter is ever notified.
AcquireReturns ==
    \A t \in Threads : pc[t] \in AcquirePCs ~> pc[t] \in {"Out", "Held"}

\* After close the pool empties itself: unless a client keeps a guard, every
\* session is closed and `live` returns to zero.
DrainsAfterClose ==
    closed ~> (\E t \in Threads : pc[t] = "Held") \/ (Reachable = {} /\ live = 0)
=============================================================================
