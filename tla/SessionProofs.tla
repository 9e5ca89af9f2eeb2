---------------------------- MODULE SessionProofs ----------------------------
(***************************************************************************)
(* A session sends current ids, stays in its database, keeps its cursor on *)
(* its server and gives up only after every endpoint, for any number of    *)
(* endpoints, passes, databases and server session ids.                    *)
(***************************************************************************)
EXTENDS Session, TLAPS

-----------------------------------------------------------------------------
(* operators *)

\* A sum of two indices below n wraps around at most once.
LEMMA Wrap ==
    ASSUME NEW n \in Nat \ {0}, NEW a \in Nat, a < 2 * n
    PROVE  a % n = IF a < n THEN a ELSE a - n
<1>1. PICK q \in Int, r \in 0..(n - 1) : a = n * q + r /\ r = a % n
    OBVIOUS
<1>2. q >= 2 => n * q >= 2 * n
    BY <1>1
<1>3. q < 0 => n * q <= -n
    BY <1>1
<1>4. q = 0 \/ q = 1
    BY <1>1, <1>2, <1>3
<1> QED BY <1>1, <1>4

\* The endpoint being tried is the one at distance `tried` from the start.
LEMMA CandidateNext ==
    ASSUME TypeOK
    PROVE  /\ Candidate \in Endpoints /\ Offset(Candidate) = tried
           /\ \A e \in Endpoints : Offset(e) \in 0..(N - 1) /\ (Offset(e) = tried => e = Candidate)
<1> DEFINE a == start + tried
<1>1. start \in 0..(N - 1) /\ tried \in 0..(N - 1) /\ N \in Nat \ {0}
    BY SessionAssumption DEF TypeOK, Endpoints
<1>2. a \in Nat /\ a < 2 * N
    BY <1>1
<1>3. Candidate = a % N
    BY DEF Candidate
<1>4. Candidate = IF a < N THEN a ELSE a - N
    <2> HIDE DEF a
    <2> QED BY <1>1, <1>2, <1>3, Wrap
<1> QED BY <1>1, <1>4 DEF Offset, Endpoints

\* Connections made, broken and dropped are connections.
LEMMA LinkTypes ==
    /\ NoLink \in Links
    /\ \A l \in Links, e \in Endpoints :
         /\ [l EXCEPT !.up = FALSE] \in Links
         /\ [NoLink EXCEPT !.ep = e, !.up = TRUE] \in Links
<1>1. NoLink \in Links
    BY SessionAssumption DEF NoLink, Links, Endpoints, SidsOrNone, Dbs
<1>2. ASSUME NEW l \in Links, NEW e \in Endpoints
      PROVE  /\ [l EXCEPT !.up = FALSE] \in Links
             /\ [NoLink EXCEPT !.ep = e, !.up = TRUE] \in Links
    <2>1. [l EXCEPT !.up = FALSE] \in Links
        BY <1>2 DEF Links
    <2>2. [NoLink EXCEPT !.ep = e] \in Links
        BY <1>1, <1>2 DEF Links
    <2>3. [[NoLink EXCEPT !.ep = e] EXCEPT !.up = TRUE] \in Links
        BY <2>2 DEF Links
    <2> QED BY <2>1, <2>3
<1> QED BY <1>1, <1>2

\* A connection attempt is counted for its endpoint and for no other.
LEMMA VisitCounts ==
    ASSUME SessionInv, pc = "Connect", visits' = [visits EXCEPT ![Candidate] = @ + 1]
    PROVE  \A e \in Endpoints : visits'[e] = pass + (IF Offset(e) <= tried THEN 1 ELSE 0)
<1> TAKE e \in Endpoints
<1>1. Offset(e) \in Int /\ tried \in Int /\ pass \in Int
    BY SessionAssumption DEF SessionInv, TypeOK, Offset, Endpoints
<1>2. visits[e] = pass + (IF Offset(e) < tried THEN 1 ELSE 0)
    BY DEF SessionInv, VisitsCounted, Handshaking
<1>3. CASE e = Candidate
    <2>1. visits'[e] = visits[e] + 1 /\ Offset(e) = tried
        BY <1>3, CandidateNext DEF SessionInv, TypeOK
    <2> QED BY <1>1, <1>2, <2>1
<1>4. CASE e # Candidate
    <2>1. visits'[e] = visits[e] /\ Offset(e) # tried
        BY <1>4, CandidateNext DEF SessionInv, TypeOK
    <2> QED BY <1>1, <1>2, <2>1
<1> QED BY <1>3, <1>4

-----------------------------------------------------------------------------
(* one lemma per action *)

LEMMA OpenKeeps ==
    ASSUME SessionInv, Open
    PROVE  SessionInv'
<1> USE SessionAssumption DEF Open, Connecting, loop, ids, call
<1>1. TypeOK'
    BY DEF SessionInv, TypeOK, Endpoints, Passes, Results, Links, NoLink
<1>2. IdsCurrent' /\ RequestCurrent' /\ DatabaseTracked' /\ CursorPinned' /\ RetryOnce' /\ UnderWay'
    BY DEF SessionInv, TypeOK, IdsCurrent, RequestCurrent, DatabaseTracked, CursorPinned, RetryOnce,
           UnderWay, Handshaking
<1>3. EveryEndpointTried' /\ VisitsCounted'
    BY DEF SessionInv, TypeOK, EveryEndpointTried, VisitsCounted, UnderWay, Handshaking, Offset,
           Endpoints
<1> QED BY <1>1, <1>2, <1>3 DEF SessionInv

LEMMA ConnectOkKeeps ==
    ASSUME SessionInv, ConnectOk
    PROVE  SessionInv'
<1> USE SessionAssumption DEF ConnectOk, ids, call
<1>1. TypeOK'
    <2>1. Candidate \in Endpoints
        BY CandidateNext DEF SessionInv
    <2>2. link' \in Links
        BY <2>1, LinkTypes DEF SessionInv, TypeOK
    <2>3. visits' \in [Endpoints -> Nat]
        BY <2>1 DEF SessionInv, TypeOK
    <2> QED BY <2>2, <2>3 DEF SessionInv, TypeOK
<1>2. IdsCurrent' /\ RequestCurrent' /\ DatabaseTracked' /\ CursorPinned' /\ RetryOnce' /\ UnderWay'
    BY DEF SessionInv, TypeOK, IdsCurrent, RequestCurrent, DatabaseTracked, CursorPinned, RetryOnce,
           UnderWay, Handshaking
<1>3. EveryEndpointTried' /\ VisitsCounted'
    <2>1. \A e \in Endpoints : visits'[e] = pass + (IF Offset(e) <= tried THEN 1 ELSE 0)
        BY VisitCounts
    <2>2. \A e \in Endpoints : Offset(e)' = Offset(e) /\ Offset(e) \in Int
        BY DEF SessionInv, TypeOK, Offset, Endpoints
    <2>3. tried' = tried /\ tried \in Int /\ pass' = pass
        BY DEF SessionInv, TypeOK, Endpoints
    <2> QED BY <2>1, <2>2, <2>3 DEF EveryEndpointTried, VisitsCounted, Handshaking
<1> QED BY <1>1, <1>2, <1>3 DEF SessionInv

LEMMA HandshakeSessionKeeps ==
    ASSUME SessionInv, HandshakeSession
    PROVE  SessionInv'
<1> USE SessionAssumption DEF HandshakeSession, ids, loop, call
<1>1. TypeOK'
    BY DEF SessionInv, TypeOK, SidsOrNone, Links, NoLink
<1>2. IdsCurrent' /\ RequestCurrent' /\ DatabaseTracked' /\ CursorPinned' /\ RetryOnce' /\ UnderWay'
    BY DEF SessionInv, TypeOK, IdsCurrent, RequestCurrent, DatabaseTracked, CursorPinned, RetryOnce,
           UnderWay, Handshaking, Links
<1>3. EveryEndpointTried' /\ VisitsCounted'
    BY DEF SessionInv, TypeOK, EveryEndpointTried, VisitsCounted, UnderWay, Handshaking, Offset,
           Endpoints
<1> QED BY <1>1, <1>2, <1>3 DEF SessionInv

LEMMA HandshakeStatementKeeps ==
    ASSUME SessionInv, HandshakeStatement
    PROVE  SessionInv'
<1> USE SessionAssumption DEF HandshakeStatement, loop, call
<1>1. TypeOK'
    BY DEF SessionInv, TypeOK, Links, Results, RetryOnce, UnderWay, Handshaking
<1>2. IdsCurrent' /\ RequestCurrent' /\ DatabaseTracked' /\ CursorPinned' /\ RetryOnce' /\ UnderWay'
    BY DEF SessionInv, TypeOK, IdsCurrent, RequestCurrent, DatabaseTracked, CursorPinned, RetryOnce,
           UnderWay, Handshaking, Links
<1>3. EveryEndpointTried' /\ VisitsCounted'
    BY DEF SessionInv, TypeOK, EveryEndpointTried, VisitsCounted, UnderWay, Handshaking, Offset,
           Endpoints
<1> QED BY <1>1, <1>2, <1>3 DEF SessionInv

LEMMA StatementKeeps ==
    ASSUME SessionInv, NEW o \in Ops, Statement(o)
    PROVE  SessionInv'
<1> USE SessionAssumption DEF Statement, ids, loop
<1>1. TypeOK'
    BY DEF SessionInv, TypeOK, Results, Ops, NoOp
<1>2. IdsCurrent' /\ RequestCurrent' /\ DatabaseTracked' /\ CursorPinned' /\ RetryOnce' /\ UnderWay'
    BY DEF SessionInv, TypeOK, IdsCurrent, RequestCurrent, DatabaseTracked, CursorPinned, RetryOnce,
           UnderWay, Handshaking
<1>3. EveryEndpointTried' /\ VisitsCounted'
    BY DEF SessionInv, EveryEndpointTried, VisitsCounted, UnderWay, Handshaking, Offset
<1> QED BY <1>1, <1>2, <1>3 DEF SessionInv

LEMMA ReplyOkKeeps ==
    ASSUME SessionInv, ReplyOk
    PROVE  SessionInv'
<1> USE SessionAssumption DEF ReplyOk, ids, loop
<1>1. TypeOK'
    BY DEF SessionInv, TypeOK, Links, Dbs, SidsOrNone, Ops, NoOp, Results, UnderWay, RetryOnce
<1>2. IdsCurrent' /\ RequestCurrent' /\ DatabaseTracked' /\ CursorPinned' /\ RetryOnce' /\ UnderWay'
    BY DEF SessionInv, TypeOK, IdsCurrent, RequestCurrent, DatabaseTracked, CursorPinned, RetryOnce,
           UnderWay, Handshaking, Links
<1>3. EveryEndpointTried' /\ VisitsCounted'
    BY DEF SessionInv, EveryEndpointTried, VisitsCounted, UnderWay, Handshaking, Offset
<1> QED BY <1>1, <1>2, <1>3 DEF SessionInv

LEMMA ReplyRefusedKeeps ==
    ASSUME SessionInv, ReplyRefused
    PROVE  SessionInv'
<1> USE SessionAssumption DEF ReplyRefused, ids, loop, call
<1>1. TypeOK'
    BY DEF SessionInv, TypeOK, Results
<1>2. IdsCurrent' /\ RequestCurrent' /\ DatabaseTracked' /\ CursorPinned' /\ RetryOnce' /\ UnderWay'
    BY DEF SessionInv, TypeOK, IdsCurrent, RequestCurrent, DatabaseTracked, CursorPinned, RetryOnce,
           UnderWay, Handshaking
<1>3. EveryEndpointTried' /\ VisitsCounted'
    BY DEF SessionInv, EveryEndpointTried, VisitsCounted, UnderWay, Handshaking, Offset
<1> QED BY <1>1, <1>2, <1>3 DEF SessionInv

LEMMA FetchKeeps ==
    ASSUME SessionInv, Fetch
    PROVE  SessionInv'
<1> USE SessionAssumption DEF Fetch, ids, loop, call
<1>1. TypeOK'
    BY LinkTypes DEF SessionInv, TypeOK, Results
<1>2. IdsCurrent' /\ RequestCurrent' /\ DatabaseTracked' /\ CursorPinned' /\ RetryOnce' /\ UnderWay'
    BY DEF SessionInv, TypeOK, IdsCurrent, RequestCurrent, DatabaseTracked, CursorPinned, RetryOnce,
           UnderWay, Handshaking, Links
<1>3. EveryEndpointTried' /\ VisitsCounted'
    BY DEF SessionInv, EveryEndpointTried, VisitsCounted, UnderWay, Handshaking, Offset
<1> QED BY <1>1, <1>2, <1>3 DEF SessionInv

LEMMA CloseCursorKeeps ==
    ASSUME SessionInv, CloseCursor
    PROVE  SessionInv'
<1> USE SessionAssumption DEF CloseCursor, ids, loop, call
<1>1. TypeOK'
    BY LinkTypes DEF SessionInv, TypeOK, SidsOrNone
<1>2. IdsCurrent' /\ RequestCurrent' /\ DatabaseTracked' /\ CursorPinned' /\ RetryOnce' /\ UnderWay'
    BY DEF SessionInv, TypeOK, IdsCurrent, RequestCurrent, DatabaseTracked, CursorPinned, RetryOnce,
           UnderWay, Handshaking, Links
<1>3. EveryEndpointTried' /\ VisitsCounted'
    BY DEF SessionInv, EveryEndpointTried, VisitsCounted, UnderWay, Handshaking, Offset
<1> QED BY <1>1, <1>2, <1>3 DEF SessionInv

LEMMA CloseKeeps ==
    ASSUME SessionInv, Close
    PROVE  SessionInv'
<1> USE SessionAssumption DEF Close, loop, call
<1>1. TypeOK'
    BY LinkTypes DEF SessionInv, TypeOK, SidsOrNone, Results
<1>2. IdsCurrent' /\ RequestCurrent' /\ DatabaseTracked' /\ CursorPinned' /\ RetryOnce' /\ UnderWay'
    BY DEF SessionInv, TypeOK, IdsCurrent, RequestCurrent, DatabaseTracked, CursorPinned, RetryOnce,
           UnderWay, Handshaking
<1>3. EveryEndpointTried' /\ VisitsCounted'
    BY DEF SessionInv, EveryEndpointTried, VisitsCounted, UnderWay, Handshaking, Offset
<1> QED BY <1>1, <1>2, <1>3 DEF SessionInv

LEMMA BreakKeeps ==
    ASSUME SessionInv, Break
    PROVE  SessionInv'
<1> USE SessionAssumption DEF Break, ids, loop, call
<1>1. TypeOK'
    BY LinkTypes DEF SessionInv, TypeOK
<1>2. IdsCurrent' /\ RequestCurrent' /\ DatabaseTracked' /\ CursorPinned' /\ RetryOnce' /\ UnderWay'
    BY DEF SessionInv, TypeOK, IdsCurrent, RequestCurrent, DatabaseTracked, CursorPinned, RetryOnce,
           UnderWay, Handshaking, Links
<1>3. EveryEndpointTried' /\ VisitsCounted'
    BY DEF SessionInv, EveryEndpointTried, VisitsCounted, UnderWay, Handshaking, Offset
<1> QED BY <1>1, <1>2, <1>3 DEF SessionInv

\* The loop goes on after an endpoint that failed, or ends.
LEMMA NextEndpointKeeps ==
    ASSUME SessionInv, Handshaking, NextEndpoint, visits' \in [Endpoints -> Nat],
           \A e \in Endpoints : visits'[e] = pass + (IF Offset(e) <= tried THEN 1 ELSE 0)
    PROVE  SessionInv'
<1> USE SessionAssumption DEF NextEndpoint, ids, call
<1>1. TypeOK'
    <2>1. link' \in Links
        BY LinkTypes
    <2>2. TypeOK /\ tried \in 0..(N - 1) /\ pass \in 0..(Passes - 1) /\ N \in Nat /\ Passes \in Nat
        BY DEF SessionInv, TypeOK, Endpoints, Passes
    <2>3. tried' \in 0..(N - 1) /\ pass' \in 0..(Passes - 1)
        <3> HIDE SessionAssumption
        <3> QED BY <2>2
    <2>4. pc' \in {"Ready", "Connect"} /\ result' \in Results
        BY <2>2 DEF TypeOK, Results
    <2>5. UNCHANGED <<why, connected, sid, stmt, database, lastEp, start, op, req, tries, execs, cursor>>
        OBVIOUS
    <2> QED
        <3> HIDE DEF NextEndpoint
        <3> QED BY <2>1, <2>2, <2>3, <2>4, <2>5 DEF TypeOK, Endpoints
<1>2. IdsCurrent' /\ RequestCurrent' /\ DatabaseTracked' /\ CursorPinned' /\ RetryOnce' /\ UnderWay'
    BY DEF SessionInv, TypeOK, IdsCurrent, RequestCurrent, DatabaseTracked, CursorPinned, RetryOnce,
           UnderWay, Handshaking
<1>3. EveryEndpointTried' /\ VisitsCounted'
    <2>1. \A e \in Endpoints : Offset(e)' = Offset(e) /\ Offset(e) \in 0..(N - 1)
        BY CandidateNext DEF SessionInv, TypeOK, Offset
    <2>2. tried \in Nat /\ pass \in Nat /\ N \in Nat /\ Passes \in Nat
        BY DEF SessionInv, TypeOK, Endpoints, Passes
    <2>3. CASE tried + 1 < N
        BY <2>1, <2>2, <2>3 DEF EveryEndpointTried, VisitsCounted, Handshaking
    <2>4. CASE tried + 1 = N
        <3>1. \A e \in Endpoints : visits'[e] = pass + 1
            BY <2>1, <2>2, <2>4
        <3>2. why = "open" => pass = 0
            BY DEF SessionInv, UnderWay
        <3> QED BY <2>1, <2>2, <2>4, <3>1, <3>2 DEF SessionInv, UnderWay, EveryEndpointTried, VisitsCounted,
                   Handshaking
    <2> QED BY <2>3, <2>4
<1> QED BY <1>1, <1>2, <1>3 DEF SessionInv

LEMMA ConnectErrKeeps ==
    ASSUME SessionInv, ConnectErr
    PROVE  SessionInv'
<1>1. visits' \in [Endpoints -> Nat]
    <2>1. Candidate \in Endpoints
        BY CandidateNext DEF SessionInv
    <2> QED BY <2>1 DEF ConnectErr, SessionInv, TypeOK
<1>2. \A e \in Endpoints : visits'[e] = pass + (IF Offset(e) <= tried THEN 1 ELSE 0)
    BY VisitCounts DEF ConnectErr
<1> QED BY <1>1, <1>2, NextEndpointKeeps DEF ConnectErr, Handshaking

LEMMA HandshakeErrKeeps ==
    ASSUME SessionInv, HandshakeErr
    PROVE  SessionInv'
<1>1. CASE why = "open"
    <2> USE <1>1 DEF HandshakeErr, ids, loop, call
    <2>1. TypeOK'
        BY LinkTypes DEF SessionInv, TypeOK, Results
    <2>2. IdsCurrent' /\ RequestCurrent' /\ DatabaseTracked' /\ CursorPinned' /\ RetryOnce' /\ UnderWay'
        BY DEF SessionInv, TypeOK, IdsCurrent, RequestCurrent, DatabaseTracked, CursorPinned, RetryOnce,
               UnderWay, Handshaking
    <2>3. EveryEndpointTried' /\ VisitsCounted'
        BY DEF EveryEndpointTried, VisitsCounted, Handshaking
    <2> QED BY <2>1, <2>2, <2>3 DEF SessionInv
<1>2. CASE why = "reconnect"
    <2>1. Handshaking /\ NextEndpoint /\ visits' = visits /\ pc # "Connect"
        BY <1>2 DEF HandshakeErr, Handshaking
    <2>2. \A e \in Endpoints : Offset(e) \in Int /\ tried \in Int
        BY SessionAssumption DEF SessionInv, TypeOK, Offset, Endpoints
    <2>3. \A e \in Endpoints : visits'[e] = pass + (IF Offset(e) <= tried THEN 1 ELSE 0)
        BY <2>1, <2>2 DEF SessionInv, VisitsCounted
    <2>4. visits' \in [Endpoints -> Nat]
        BY <2>1 DEF SessionInv, TypeOK
    <2> QED BY <2>1, <2>3, <2>4, NextEndpointKeeps
<1> QED BY <1>1, <1>2 DEF HandshakeErr

\* A failed call reconnects, or is reported and leaves the connection as `after`.
LEMMA TransportErrorKeeps ==
    ASSUME SessionInv, pc = "Call", NEW after \in Links, TransportError(after),
           after.sid = link.sid, after.up => link.up /\ after.db = link.db,
           execs' \in {execs, execs + 1}
    PROVE  SessionInv'
<1> USE SessionAssumption DEF TransportError, Connecting, ids, loop
<1>1. TypeOK'
    <2>1. link' \in Links
        BY LinkTypes
    <2>2. execs' \in Nat
        BY DEF SessionInv, TypeOK, UnderWay
    <2>3. tried' \in Endpoints /\ start' \in Endpoints /\ pass' \in 0..(Passes - 1)
          /\ visits' \in [Endpoints -> Nat]
        BY DEF SessionInv, TypeOK, Endpoints, Passes
    <2> QED BY <2>1, <2>2, <2>3 DEF SessionInv, TypeOK, Results
<1>2. IdsCurrent' /\ RequestCurrent' /\ DatabaseTracked' /\ CursorPinned'
    BY DEF SessionInv, TypeOK, IdsCurrent, RequestCurrent, DatabaseTracked, CursorPinned, UnderWay
<1>3. RetryOnce' /\ UnderWay'
    <2>1. execs' \in 0..2 /\ execs' <= tries /\ tries' = tries /\ tries \in 1..2 /\ cursor' = NoSid
        BY DEF SessionInv, TypeOK, RetryOnce, UnderWay
    <2>2. tries <= (IF AutoReconnect THEN 2 ELSE 1)
        BY DEF SessionInv, RetryOnce
    <2> QED BY <2>1, <2>2 DEF RetryOnce, UnderWay, Handshaking
<1>4. EveryEndpointTried' /\ VisitsCounted'
    <2>1. CASE pc' = "Ready"
        BY <2>1 DEF SessionInv, UnderWay, EveryEndpointTried, VisitsCounted, Handshaking
    <2>2. CASE pc' = "Connect"
        <3>1. tried' = 0 /\ pass' = 0 /\ \A e \in Endpoints : visits'[e] = 0
            BY <2>2
        <3>2. start' \in 0..(N - 1) /\ N \in Nat
            BY <1>1 DEF TypeOK, Endpoints
        <3>3. \A e \in Endpoints : Offset(e)' \in Int /\ Offset(e)' >= 0
            <4> SUFFICES ASSUME NEW e \in Endpoints
                         PROVE  Offset(e)' \in Int /\ Offset(e)' >= 0
                OBVIOUS
            <4> DEFINE first == start'
            <4>1. first \in 0..(N - 1) /\ e \in 0..(N - 1)
                BY <3>2 DEF Endpoints
            <4>2. Offset(e)' = IF e >= first THEN e - first ELSE e - first + N
                BY DEF Offset
            <4> HIDE SessionAssumption
            <4> HIDE DEF TransportError, Connecting, first
            <4> QED BY <3>2, <4>1, <4>2
        <3>4. pc' \in {"Connect"} /\ result' = result
            BY <2>2
        <3> QED
            <4> HIDE DEF TransportError
            <4>1. VisitsCounted'
                BY <2>2, <3>1, <3>3 DEF VisitsCounted
            <4>2. EveryEndpointTried'
                BY <2>2 DEF EveryEndpointTried
            <4> QED BY <4>1, <4>2
    <2> QED BY <2>1, <2>2
<1> QED BY <1>1, <1>2, <1>3, <1>4 DEF SessionInv

LEMMA CallLostKeeps ==
    ASSUME SessionInv, CallLost
    PROVE  SessionInv'
<1> DEFINE after == [link EXCEPT !.up = FALSE]
<1>1. link \in Links /\ after \in Links
    BY LinkTypes DEF SessionInv, TypeOK, Links
<1>2. after.sid = link.sid /\ ~after.up
    BY <1>1 DEF Links
<1>3. pc = "Call" /\ TransportError(after) /\ execs' \in {execs, execs + 1}
    BY DEF CallLost
<1> QED
    <2> HIDE DEF after
    <2> QED BY <1>1, <1>2, <1>3, TransportErrorKeeps

LEMMA CallExceptionKeeps ==
    ASSUME SessionInv, CallException
    PROVE  SessionInv'
BY TransportErrorKeeps DEF CallException, SessionInv, TypeOK

-----------------------------------------------------------------------------
(* theorems *)

\* Every reachable state of a session satisfies its inductive invariant.
THEOREM SessionInvariant == Spec => []SessionInv
<1>1. Init => SessionInv
    <2> SUFFICES ASSUME Init PROVE SessionInv
        OBVIOUS
    <2>1. TypeOK
        <3>1. link \in Links
            BY LinkTypes DEF Init
        <3>2. 0 \in Endpoints /\ 0 \in 0..(Passes - 1)
            BY SessionAssumption DEF Endpoints, Passes
        <3>3. visits \in [Endpoints -> Nat]
            BY DEF Init
        <3>4. /\ req \in SidsOrNone \X SidsOrNone /\ sid \in SidsOrNone /\ stmt \in SidsOrNone
              /\ cursor \in SidsOrNone /\ database \in Dbs
            BY SessionAssumption DEF Init, SidsOrNone, Dbs
        <3>5. connected \in BOOLEAN /\ op \in Ops \cup {NoOp} /\ result \in Results
            BY Zenon DEF Init, Results
        <3> QED BY <3>1, <3>2, <3>3, <3>4, <3>5 DEF Init, TypeOK
    <2> QED BY <2>1 DEF Init, SessionInv, IdsCurrent, RequestCurrent, DatabaseTracked, RetryOnce,
                   EveryEndpointTried, CursorPinned, VisitsCounted, UnderWay, Handshaking
<1>2. SessionInv /\ [Next]_vars => SessionInv'
    <2> SUFFICES ASSUME SessionInv, [Next]_vars PROVE SessionInv'
        OBVIOUS
    <2>1. CASE Step
        BY <2>1, ConnectOkKeeps, ConnectErrKeeps, HandshakeSessionKeeps, HandshakeErrKeeps,
           HandshakeStatementKeeps, ReplyOkKeeps, ReplyRefusedKeeps, CallLostKeeps, CallExceptionKeeps
           DEF Step
    <2>2. CASE \E o \in Ops : Statement(o)
        BY <2>2, StatementKeeps
    <2>3. CASE Open \/ Fetch \/ CloseCursor \/ Close \/ Break
        BY <2>3, OpenKeeps, FetchKeeps, CloseCursorKeeps, CloseKeeps, BreakKeeps
    <2>4. CASE UNCHANGED vars
        BY <2>4 DEF vars, SessionInv, TypeOK, IdsCurrent, RequestCurrent, DatabaseTracked, RetryOnce,
                    EveryEndpointTried, CursorPinned, VisitsCounted, UnderWay, Handshaking, Offset
    <2> QED BY <2>1, <2>2, <2>3, <2>4 DEF Next
<1> QED BY <1>1, <1>2, PTL DEF Spec

\* The ids a session would send are those of its connection's server session.
THEOREM IdsAlwaysCurrent == Spec => []IdsCurrent
BY SessionInvariant, PTL DEF SessionInv

\* Also the retry of with_retry is sent with the ids of the new connection.
THEOREM RetrySendsCurrentIds == Spec => []RequestCurrent
BY SessionInvariant, PTL DEF SessionInv

\* A session is in the database its last acknowledged USE selected, across
\* any number of reconnects, lost replies and reopenings.
THEOREM DatabaseSurvivesReconnect == Spec => []DatabaseTracked
BY SessionInvariant, PTL DEF SessionInv

\* with_retry never runs a statement a third time.
THEOREM NeverRetriedTwice == Spec => []RetryOnce
BY SessionInvariant, PTL DEF SessionInv

\* open and reconnect give up only after they tried every endpoint in every
\* pass, wherever the rotation began.
THEOREM AllEndpointsTried == Spec => []EveryEndpointTried
BY SessionInvariant, PTL DEF SessionInv

\* An open result set never moves to another server session.
THEOREM CursorStaysPinned == Spec => []CursorPinned
BY SessionInvariant, PTL DEF SessionInv
=============================================================================
