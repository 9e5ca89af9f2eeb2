------------------------------ MODULE PoolFloor ------------------------------
(***************************************************************************)
(* SessionPool with a count of the sessions that were given up: those      *)
(* whose open failed, whose USE failed at hand-out, or that came back      *)
(* dead.  It stops at min_size, beyond which the floor promises nothing.   *)
(***************************************************************************)
EXTENDS SessionPool

VARIABLE lost

floorVars == <<vars, lost>>

GivesUp == \E t \in Threads : pc[t] \in {"Opening", "Using", "Held"} /\ pc'[t] = "Notify"

FloorInit == Init /\ lost = 0
FloorNext == Next /\ lost' = IF GivesUp /\ lost < MinSize THEN lost + 1 ELSE lost
FloorSpec == FloorInit /\ [][FloorNext]_floorVars

-----------------------------------------------------------------------------
\* Until it is closed the pool has min_size sessions in service, less those that
\* were given up: sweeps alone never shrink it further, although they read a
\* counter that still includes what they have taken out and that releases
\* change without the mutex.
FloorKept == ~closed => Cardinality(InService) + lost >= MinSize
=============================================================================
