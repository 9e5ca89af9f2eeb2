------------------------------- MODULE Session -------------------------------
(***************************************************************************)
(* One client session of src/client/session.rs over connections that can   *)
(* break: open with endpoint rotation, the two-call handshake, statements  *)
(* with one retry after a reconnect, a query cursor pinned to its          *)
(* connection, close.  A session is used by one thread at a time, so the   *)
(* only concurrency is with the servers and the network: an RPC may be     *)
(* refused, fail before it reaches the server, be executed and lose its    *)
(* reply, or be answered with a Thrift exception.  No read timeout is set  *)
(* on the socket, so a lost reply means that the connection is gone.       *)
(*                                                                         *)
(* The server is external: it gives every handshake a new session id (two  *)
(* sessions that share an id by accident would only hide a stale one),     *)
(* puts the session in the database named in the request (the `db` key),   *)
(* and answers `USE d` with the database d.                                *)
(***************************************************************************)
EXTENDS Integers

CONSTANTS
    N,              \* number of endpoints; Session::open rejects 0
    MaxAttempts,    \* max_reconnect_attempts
    AutoReconnect,  \* enable_auto_reconnect
    Databases, NoDb,
    InitDb,         \* SessionConfig::database
    Sids,           \* session ids servers hand out
    NoSid           \* -1: no session id

ASSUME SessionAssumption ==
    /\ N \in Nat \ {0} /\ MaxAttempts \in Nat /\ AutoReconnect \in BOOLEAN
    /\ NoDb \notin Databases /\ InitDb \in Databases \cup {NoDb}
    /\ NoSid \notin Sids

Endpoints == 0..(N - 1)
Dbs == Databases \cup {NoDb}
SidsOrNone == Sids \cup {NoSid}
Passes == IF MaxAttempts = 0 THEN 1 ELSE MaxAttempts

VARIABLES
    pc,         \* what the session is doing
    why,        \* "open" or "reconnect": who runs the handshake
    connected,  \* Session::connection is Some
    link,       \* the connection held, or under way: endpoint, health, server session
    sid,        \* Session::session_id
    stmt,       \* Session::statement_id
    database,   \* Session::database
    lastEp,     \* Session::last_endpoint
    start, tried, pass,  \* the loops of open and reconnect
    op,         \* statement being executed
    req,        \* session and statement id in the request being sent
    tries,      \* runs of the retried closure
    execs,      \* times servers executed the statement
    visits,     \* connection attempts per endpoint in this open or reconnect
    cursor,     \* server session that owns the open query, or NoSid
    result      \* outcome of the last call

vars == <<pc, why, connected, link, sid, stmt, database, lastEp, start, tried, pass,
          op, req, tries, execs, visits, cursor, result>>
ids == <<sid, stmt>>
loop == <<start, tried, pass, visits>>
call == <<op, req, tries, execs>>

\* Statements: `USE d` is told apart from the others by the database it selects.
\* An "update" is any other execute_non_query, or an insert; the redirect hints
\* an insert's response carries are harvested in RedirectCache.
Ops == [kind : {"use"}, db : Databases] \cup [kind : {"update", "query"}, db : {NoDb}]
NoOp == [kind |-> "none", db |-> NoDb]
NoLink == [ep |-> 0, up |-> FALSE, sid |-> NoSid, db |-> NoDb]
Links == [ep : Endpoints, up : BOOLEAN, sid : SidsOrNone, db : Dbs]
Results == {"none", "ok", "already_open", "not_open", "no_connection", "refused", "transport"}

Init ==
    /\ pc = "Ready" /\ why = "open" /\ connected = FALSE /\ link = NoLink
    /\ sid = NoSid /\ stmt = NoSid /\ database = InitDb /\ lastEp = 0
    /\ start = 0 /\ tried = 0 /\ pass = 0 /\ visits = [e \in Endpoints |-> 0]
    /\ op = NoOp /\ req = <<NoSid, NoSid>> /\ tries = 0 /\ execs = 0
    /\ cursor = NoSid /\ result = "none"

-----------------------------------------------------------------------------
(* connecting *)

\* Start of the endpoint loop of open or of reconnect.
Connecting(reason, first) ==
    /\ pc' = "Connect" /\ why' = reason /\ start' = first
    /\ tried' = 0 /\ pass' = 0 /\ visits' = [e \in Endpoints |-> 0]

\* ENDPOINT_START_INDEX is shared by all sessions: this one sees any value of it.
Open ==
    /\ pc = "Ready"
    /\ \/ /\ connected
          /\ result' = "already_open"
          /\ UNCHANGED <<pc, why, loop>>
       \/ /\ ~connected
          /\ \E first \in Endpoints : Connecting("open", first)
          /\ UNCHANGED result
    /\ UNCHANGED <<connected, link, ids, database, lastEp, call, cursor>>

Candidate == (start + tried) % N

ConnectOk ==
    /\ pc = "Connect"
    /\ link' = [NoLink EXCEPT !.ep = Candidate, !.up = TRUE]
    /\ visits' = [visits EXCEPT ![Candidate] = @ + 1]
    /\ pc' = "OpenSession"
    /\ UNCHANGED <<why, connected, ids, database, lastEp, start, tried, pass, call, cursor, result>>

\* Mutant: the last endpoint is left out.
NextEndpointShort ==
    /\ link' = NoLink
    /\ \/ /\ tried + 2 < N
          /\ tried' = tried + 1 /\ pc' = "Connect"
          /\ UNCHANGED <<pass, result>>
       \/ /\ tried + 2 >= N /\ why = "reconnect" /\ pass + 1 < Passes
          /\ tried' = 0 /\ pass' = pass + 1 /\ pc' = "Connect"
          /\ UNCHANGED result
       \/ /\ tried + 2 >= N /\ (why = "open" \/ pass + 1 = Passes)
          /\ pc' = "Ready"
          /\ result' = IF why = "open" THEN "no_connection" ELSE "transport"
          /\ UNCHANGED <<tried, pass>>
    /\ UNCHANGED <<why, connected, ids, database, lastEp, start, call, cursor>>

\* This endpoint failed: the next one, the next pass, or the end of the loop.
\* A failed reconnect surfaces the original transport error.
NextEndpoint ==
    /\ link' = NoLink
    /\ \/ /\ tried + 1 < N
          /\ tried' = tried + 1 /\ pc' = "Connect"
          /\ UNCHANGED <<pass, result>>
       \/ /\ tried + 1 = N /\ why = "reconnect" /\ pass + 1 < Passes
          /\ tried' = 0 /\ pass' = pass + 1 /\ pc' = "Connect"
          /\ UNCHANGED result
       \/ /\ tried + 1 = N /\ (why = "open" \/ pass + 1 = Passes)
          /\ pc' = "Ready"
          /\ result' = IF why = "open" THEN "no_connection" ELSE "transport"
          /\ UNCHANGED <<tried, pass>>
    /\ UNCHANGED <<why, connected, ids, database, lastEp, start, call, cursor>>

ConnectErr ==
    /\ pc = "Connect"
    /\ visits' = [visits EXCEPT ![Candidate] = @ + 1]
    /\ NextEndpoint

\* Mutant: the handshake asks for the configured database, not the tracked one.
HandshakeSessionInitDb ==
    /\ pc = "OpenSession" /\ link.up
    /\ \E s \in Sids \ {sid, cursor, req[1]} :
         link' = [link EXCEPT !.sid = s, !.db = InitDb]
    /\ pc' = "RequestStatement"
    /\ UNCHANGED <<why, connected, ids, database, lastEp, loop, call, cursor, result>>

\* openSession: the server opens a session in the database the request names.
HandshakeSession ==
    /\ pc = "OpenSession" /\ link.up
    /\ \E s \in Sids \ {sid, cursor, req[1]} :
         link' = [link EXCEPT !.sid = s, !.db = database]
    /\ pc' = "RequestStatement"
    /\ UNCHANGED <<why, connected, ids, database, lastEp, loop, call, cursor, result>>

\* Mutant: a reconnect repeats the handshake for ever.
HandshakeErrAgain ==
    /\ pc \in {"OpenSession", "RequestStatement"}
    /\ \/ /\ why = "open"
          /\ pc' = "Ready" /\ link' = NoLink /\ result' = "refused"
       \/ /\ why = "reconnect"
          /\ pc' = "OpenSession" /\ link' = [link EXCEPT !.up = TRUE]
          /\ UNCHANGED result
    /\ UNCHANGED <<why, connected, ids, database, lastEp, loop, call, cursor>>

\* Either call of the handshake fails.  open gives up; reconnect goes on.
HandshakeErr ==
    /\ pc \in {"OpenSession", "RequestStatement"}
    /\ \/ /\ why = "open"
          /\ pc' = "Ready" /\ link' = NoLink /\ result' = "refused"
          /\ UNCHANGED <<why, connected, ids, database, lastEp, loop, call, cursor>>
       \/ /\ why = "reconnect"
          /\ NextEndpoint
          /\ UNCHANGED visits

\* Mutants: the statement id of the old connection is kept; the retried
\* closure sends the request built before the reconnect.
HandshakeStatementStale ==
    /\ pc = "RequestStatement" /\ link.up
    /\ sid' = link.sid /\ stmt' = IF why = "open" THEN link.sid ELSE stmt
    /\ lastEp' = link.ep /\ connected' = TRUE
    /\ \/ /\ why = "open"
          /\ pc' = "Ready" /\ result' = "ok"
          /\ UNCHANGED call
       \/ /\ why = "reconnect"
          /\ pc' = "Call" /\ tries' = tries + 1 /\ req' = <<sid', stmt'>>
          /\ UNCHANGED <<op, execs, result>>
    /\ UNCHANGED <<why, link, database, loop, cursor>>
HandshakeStatementOldRequest ==
    /\ pc = "RequestStatement" /\ link.up
    /\ sid' = link.sid /\ stmt' = link.sid
    /\ lastEp' = link.ep /\ connected' = TRUE
    /\ \/ /\ why = "open"
          /\ pc' = "Ready" /\ result' = "ok"
          /\ UNCHANGED call
       \/ /\ why = "reconnect"
          /\ pc' = "Call" /\ tries' = tries + 1
          /\ UNCHANGED <<req, op, execs, result>>
    /\ UNCHANGED <<why, link, database, loop, cursor>>

\* requestStatementId answers: the session has its connection, and a
\* reconnect runs the statement again with a request built from the new ids.
HandshakeStatement ==
    /\ pc = "RequestStatement" /\ link.up
    /\ sid' = link.sid /\ stmt' = link.sid
    /\ lastEp' = link.ep /\ connected' = TRUE
    /\ \/ /\ why = "open"
          /\ pc' = "Ready" /\ result' = "ok"
          /\ UNCHANGED call
       \/ /\ why = "reconnect"
          /\ pc' = "Call" /\ tries' = tries + 1 /\ req' = <<sid', stmt'>>
          /\ UNCHANGED <<op, execs, result>>
    /\ UNCHANGED <<why, link, database, loop, cursor>>

-----------------------------------------------------------------------------
(* statements, under with_retry *)

Statement(o) ==
    /\ pc = "Ready" /\ cursor = NoSid
    /\ op' = o /\ execs' = 0 /\ req' = <<sid, stmt>>
    /\ \/ /\ connected
          /\ pc' = "Call" /\ tries' = 1
          /\ UNCHANGED result
       \/ /\ ~connected
          /\ result' = "not_open" /\ tries' = 0
          /\ UNCHANGED pc
    /\ UNCHANGED <<why, connected, link, ids, database, lastEp, loop, cursor>>

\* The reply arrives; `USE` updates the tracked database, a query opens a cursor.
ReplyOk ==
    /\ pc = "Call" /\ link.up
    /\ link' = [link EXCEPT !.db = IF op.kind = "use" THEN op.db ELSE @]
    /\ execs' = execs + 1
    /\ database' = IF op.kind = "use" THEN op.db ELSE database
    /\ cursor' = IF op.kind = "query" THEN link.sid ELSE NoSid
    /\ pc' = "Ready" /\ result' = "ok"
    /\ UNCHANGED <<why, connected, ids, lastEp, loop, op, req, tries>>

\* The server answers with an error status: no retry.
ReplyRefused ==
    /\ pc = "Call" /\ link.up
    /\ pc' = "Ready" /\ result' = "refused"
    /\ UNCHANGED <<why, connected, link, ids, database, lastEp, loop, call, cursor>>

\* Mutant: every failure reconnects and retries.
TransportErrorAgain(after) ==
    /\ Connecting("reconnect", lastEp)
    /\ connected' = FALSE /\ link' = NoLink
    /\ UNCHANGED <<result, ids, database, lastEp, op, req, tries, cursor>>

\* with_retry after an Error::Thrift: reconnect and run the closure again if
\* this was its first run, else the error is the caller's.  The session keeps
\* the connection it has, dead or alive (`after`), when it does not reconnect.
TransportError(after) ==
    /\ \/ /\ tries = 1 /\ AutoReconnect
          /\ Connecting("reconnect", lastEp)
          /\ connected' = FALSE /\ link' = NoLink
          /\ UNCHANGED result
       \/ /\ tries # 1 \/ ~AutoReconnect
          /\ pc' = "Ready" /\ result' = "transport" /\ link' = after
          /\ UNCHANGED <<why, connected, loop>>
    /\ UNCHANGED <<ids, database, lastEp, op, req, tries, cursor>>

\* The connection breaks under the call, after the server executed it or before.
CallLost ==
    /\ pc = "Call"
    /\ execs' \in (IF link.up THEN {execs, execs + 1} ELSE {execs})
    /\ TransportError([link EXCEPT !.up = FALSE])

\* A live server answers with a Thrift exception, an Error::Thrift as well.
CallException ==
    /\ pc = "Call" /\ link.up
    /\ UNCHANGED execs
    /\ TransportError(link)

-----------------------------------------------------------------------------
(* the cursor, close, and the network *)

\* Mutant: a failed fetch reconnects like a statement.
FetchReconnects ==
    /\ pc = "Ready" /\ cursor # NoSid /\ connected
    /\ Connecting("reconnect", lastEp)
    /\ connected' = FALSE /\ link' = NoLink
    /\ UNCHANGED <<ids, database, lastEp, call, cursor, result>>

\* fetch_results, never retried: the query belongs to this connection.
Fetch ==
    /\ pc = "Ready" /\ cursor # NoSid /\ connected
    /\ \/ link.up /\ result' \in {"ok", "refused"} /\ UNCHANGED link
       \/ result' = "transport" /\ link' = [link EXCEPT !.up = FALSE]
    /\ UNCHANGED <<pc, why, connected, ids, database, lastEp, loop, call, cursor>>

\* close_query is best effort; the result set gives the session back.
CloseCursor ==
    /\ pc = "Ready" /\ cursor # NoSid
    /\ cursor' = NoSid
    /\ link' \in {link, [link EXCEPT !.up = FALSE]}
    /\ UNCHANGED <<pc, why, connected, ids, database, lastEp, loop, call, result>>

Close ==
    /\ pc = "Ready" /\ cursor = NoSid
    /\ connected' = FALSE /\ link' = NoLink
    /\ sid' = NoSid /\ stmt' = NoSid
    /\ result' = "ok"
    /\ UNCHANGED <<pc, why, database, lastEp, loop, call, cursor>>

\* A server stops, or the network drops the connection.
Break ==
    /\ link.up
    /\ link' = [link EXCEPT !.up = FALSE]
    /\ UNCHANGED <<pc, why, connected, ids, database, lastEp, loop, call, cursor, result>>

-----------------------------------------------------------------------------
Step ==
    \/ ConnectOk \/ ConnectErr \/ HandshakeSession \/ HandshakeErr \/ HandshakeStatement
    \/ ReplyOk \/ ReplyRefused \/ CallLost \/ CallException
Next ==
    \/ Step \/ Open \/ (\E o \in Ops : Statement(o)) \/ Fetch \/ CloseCursor \/ Close \/ Break

\* Every connection attempt ends (connect_timeout), and so does every RPC: the
\* server answers, or its connection is reset.
Spec == Init /\ [][Next]_vars /\ WF_vars(Step)

-----------------------------------------------------------------------------
TypeOK ==
    /\ pc \in {"Ready", "Connect", "OpenSession", "RequestStatement", "Call"}
    /\ why \in {"open", "reconnect"} /\ connected \in BOOLEAN /\ link \in Links
    /\ sid \in SidsOrNone /\ stmt \in SidsOrNone /\ database \in Dbs
    /\ lastEp \in Endpoints /\ start \in Endpoints /\ tried \in Endpoints
    /\ pass \in 0..(Passes - 1) /\ visits \in [Endpoints -> Nat]
    /\ op \in Ops \cup {NoOp} /\ req \in SidsOrNone \X SidsOrNone
    /\ tries \in Nat /\ execs \in Nat
    /\ cursor \in SidsOrNone /\ result \in Results

\* The ids the session would put in its next request (fetch, close, a new
\* statement) are those of the server session behind its connection.
IdsCurrent == connected => sid = link.sid /\ stmt = link.sid

\* A statement is sent with the ids of the connection it is sent on, also when
\* it is the retry after a reconnect ("Ops must rebuild their request").
RequestCurrent == pc = "Call" => connected /\ req = <<link.sid, link.sid>>

\* The tracked database is the one the server session is in: a reconnected
\* session is back in the database its last acknowledged USE selected.
DatabaseTracked == connected /\ link.up => link.db = database

\* A statement is executed at most once per sending, and sent once, or once
\* more after a reconnect.
RetryOnce == execs <= tries /\ tries <= (IF AutoReconnect THEN 2 ELSE 1)

\* open fails for want of a connection, and a reconnect gives up, only after
\* every endpoint was tried, in every pass, wherever the loop started.
EveryEndpointTried ==
    (pc = "Ready" /\ ~connected) =>
        /\ result = "no_connection" => \A e \in Endpoints : visits[e] = 1
        /\ result = "transport" => \A e \in Endpoints : visits[e] = Passes

\* An open result set stays with the server session that owns its query id.
CursorPinned == cursor # NoSid => connected /\ link.sid = cursor /\ sid = cursor

-----------------------------------------------------------------------------
(* What is true while a call is under way; with the properties above, inductive. *)

Handshaking == pc \in {"Connect", "OpenSession", "RequestStatement"}

\* Where an endpoint comes in the rotation that began at start.
Offset(e) == IF e >= start THEN e - start ELSE e - start + N

\* Before the attempt on an endpoint it has the visits of the earlier passes.
VisitsCounted ==
    Handshaking => \A e \in Endpoints :
        visits[e] = pass + (IF Offset(e) < tried \/ (Offset(e) = tried /\ pc # "Connect") THEN 1 ELSE 0)

UnderWay ==
    /\ Handshaking => ~connected
    /\ Handshaking /\ why = "open" => pass = 0
    /\ Handshaking /\ why = "reconnect" => AutoReconnect /\ tries = 1
    /\ pc = "RequestStatement" => (link.up => link.db = database)
    /\ pc = "Call" => connected /\ tries >= 1 /\ execs < tries
    /\ pc # "Ready" => cursor = NoSid

\* The inductive invariant behind the theorems of SessionProofs.
SessionInv ==
    /\ TypeOK /\ IdsCurrent /\ RequestCurrent /\ DatabaseTracked /\ RetryOnce
    /\ EveryEndpointTried /\ CursorPinned /\ VisitsCounted /\ UnderWay

\* Every call returns, with servers and network failing at any point.
CallReturns == pc # "Ready" ~> pc = "Ready"
=============================================================================
