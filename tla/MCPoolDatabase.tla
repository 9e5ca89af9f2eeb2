--------------------------- MODULE MCPoolDatabase ---------------------------
(***************************************************************************)
(* SessionPool with a record of the `USE` statements clients execute, for  *)
(* what the pool's documentation says of its current database.             *)
(***************************************************************************)
EXTENDS SessionPool

VARIABLES
    used,     \* sessions on which a client executed USE since their hand-out
    expected  \* database of the last released session in `used`

dbVars == <<vars, used, expected>>

DbInit == Init /\ used = {} /\ expected = InitDb

DbUse(t) ==
    /\ \E d \in Databases : ClientUse(t, d)
    /\ used' = used \cup {sess[t]}
    /\ UNCHANGED expected

DbRelease(t) ==
    /\ ReleaseDb(t) \/ ReleaseDead(t)
    /\ used' = used \ {sess[t]}
    /\ expected' = IF ReleaseDb(t) /\ sess[t] \in used THEN sessDb[sess[t]] ELSE expected

DbOther(t) ==
    /\ \/ AcquireStep(t) \/ ReleaseStep(t) \/ CloseStep(t)
       \/ AcquireCall(t) \/ AcquireForDevice(t) \/ Close(t) \/ ClientFail(t)
    /\ UNCHANGED <<used, expected>>

DbSpec == DbInit /\ [][\E t \in Threads : DbUse(t) \/ DbRelease(t) \/ DbOther(t)]_dbVars

-----------------------------------------------------------------------------
\* What the documentation of SessionPool says: the pool's current database is the
\* most recent `USE <db>` seen on any released session.  Releasing a session
\* on which nobody executed USE does not change it.
TracksMostRecentUse == poolDb = expected
=============================================================================
