-------------------------------- MODULE Rpc ----------------------------------
(***************************************************************************)
(* One Connection and the generated client that makes calls on it          *)
(* (src/connection/mod.rs, src/protocol/client.rs): opening, the sequence  *)
(* number, sending a call, reading its reply, and what a reply that could  *)
(* not be read leaves behind.  The framed transport hands the reader bytes *)
(* until a frame is used up and then starts the next frame, so a reader    *)
(* that gives up inside a frame leaves its rest to the next call.          *)
(***************************************************************************)
EXTENDS Integers, Sequences

CONSTANTS
    Requests,       \* the calls a caller may make: records with the method's name
    LateRequests,   \* bound: those made after the first call on a connection
    ReadArgs(_),    \* what the server's reader makes of a request
    Bodies(_),      \* the bodies a server may answer a method with
    Decode(_, _),   \* what the client's reader makes of a body: st, v and left
    MinSeq, MaxSeq, \* the range of _sequence_number, an i32
    MaxOwed,        \* bound: calls without a reply on one connection
    MaxAddrs,       \* bound: addresses an endpoint resolves to
    None

Names == {r.name : r \in Requests}
Seqs == MinSeq..MaxSeq

\* Reading gives a result, finds none (ok_or), or fails; only then, and always
\* then, part of the frame is left.
ASSUME RpcAssumption ==
    /\ MinSeq \in Int /\ MaxSeq \in Int /\ MinSeq <= 0 /\ 0 <= MaxSeq
    /\ MaxOwed \in Nat /\ MaxOwed <= MaxSeq - MinSeq /\ MaxAddrs \in Nat
    /\ LateRequests \subseteq Requests
    /\ \A n \in Names : \A b \in Bodies(n) :
        /\ Decode(n, b).st \in {"ok", "missing", "undecodable"}
        /\ Decode(n, b).left = (Decode(n, b).st = "undecodable")

VARIABLES
    pc,        \* "closed", "connecting", "connected", "idle", "reading" (blocked in a call)
    up,        \* the TCP connection works
    addrs,     \* resolved addresses not yet tried
    seq,       \* _sequence_number
    call,      \* the request under way
    sent,      \* requests the server has not handled
    inbox,     \* frames of replies the client has not started to read
    gone,      \* calls whose request or reply the network lost
    rest,      \* the frame last read from has bytes left
    result,    \* how the last operation ended
    got,       \* the reply a call read: its method, its body, the value read
    handled,   \* what the server last handled: the request, what it read of it
    failed     \* history: a call on this connection failed in transport or reading

wire == <<sent, inbox, gone, rest>>
vars == <<pc, up, addrs, seq, call, wire, result, got, handled, failed>>

\* A reply was read and belongs to the call, whatever it says.
Answered == {"ok", "missing", "exception"}
Owed == Len(sent) + Len(inbox) + gone

Init ==
    /\ pc = "closed" /\ up = FALSE /\ addrs = 0 /\ seq = 0 /\ call = None
    /\ sent = <<>> /\ inbox = <<>> /\ gone = 0 /\ rest = FALSE
    /\ result = "none" /\ got = None /\ handled = None /\ failed = FALSE

-----------------------------------------------------------------------------
(* opening *)

\* Connection::open, also in place of an earlier connection, which is dropped:
\* the endpoint resolves to some addresses, or the lookup fails.
Open ==
    /\ pc \in {"closed", "idle"}
    /\ \/ pc' = "connecting" /\ addrs' \in 0..MaxAddrs /\ result' = "none"
       \/ pc' = "closed" /\ addrs' = 0 /\ result' = "lookup"
    /\ up' = FALSE /\ seq' = 0 /\ call' = None
    /\ sent' = <<>> /\ inbox' = <<>> /\ gone' = 0 /\ rest' = FALSE
    /\ got' = None /\ handled' = None /\ failed' = FALSE

\* connect_stream tries one address after the other and reports the last error,
\* or that there was no address to try.
ConnectAddr ==
    /\ pc = "connecting"
    /\ \/ /\ addrs = 0
          /\ pc' = "closed" /\ result' = IF result = "none" THEN "unresolved" ELSE result
          /\ UNCHANGED addrs
       \/ /\ addrs > 0
          /\ addrs' = addrs - 1
          /\ \/ result' = "refused" /\ UNCHANGED pc
             \/ pc' = "connected" /\ result' = "none"
    /\ UNCHANGED <<up, seq, call, wire, got, handled, failed>>

\* set_nodelay, the TLS handshake and the split of the channel, on the first stream
\* that connects: when one fails, the remaining addresses are not tried.  The client
\* starts counting at 0.
SetUp ==
    /\ pc = "connected"
    /\ \/ pc' = "idle" /\ up' = TRUE /\ UNCHANGED result
       \/ pc' = "closed" /\ result' = "setup" /\ UNCHANGED up
    /\ UNCHANGED <<addrs, seq, call, wire, got, handled, failed>>

-----------------------------------------------------------------------------
(* a call *)

\* Mutant: the sequence number stays.
IncrementNothing(s) == s

\* increment_sequence_number: += 1 on an i32, which wraps in a release build.
IncrementSequenceNumber(s) == IF s = MaxSeq THEN MinSeq ELSE s + 1

\* Mutant: the message is written and never flushed.
FlushNothing(r) == UNCHANGED sent

\* write_message_begin .. flush: the message leaves as one frame.
Flush(r) == sent' = Append(sent, [seq |-> seq', req |-> r])

\* A method of the client up to its flush, which may fail on a dead connection.
Call(r) ==
    /\ pc = "idle" /\ Owed < MaxOwed
    /\ call # None => r \in LateRequests
    /\ seq' = IncrementSequenceNumber(seq) /\ call' = r
    /\ got' = None /\ handled' = None
    /\ \/ /\ up
          /\ Flush(r) /\ pc' = "reading" /\ result' = "none"
          /\ UNCHANGED <<gone, failed>>
       \/ /\ ~up
          /\ gone' = gone + 1 /\ UNCHANGED sent
          /\ \/ pc' = "reading" /\ result' = "none" /\ UNCHANGED failed
             \/ pc' = "idle" /\ result' = "transport" /\ failed' = TRUE
    /\ UNCHANGED <<up, addrs, inbox, rest>>

\* The server's process function: it reads the arguments and answers with the
\* handler's result, or with an exception, under the incoming sequence number.
\* Arguments it cannot read end in an exception too, or in a closed connection,
\* as in process_* here: that is Break.  A peer may also send back a message that
\* is neither a reply nor an exception.
Serve ==
    /\ up /\ sent # <<>>
    /\ LET m == Head(sent)
           reply(kind, body) == [seq |-> m.seq, name |-> m.req.name, kind |-> kind, body |-> body]
       IN  /\ handled' = [req |-> m.req, args |-> ReadArgs(m.req)]
           /\ \/ /\ ReadArgs(m.req).ok
                 /\ \E b \in Bodies(m.req.name) : inbox' = Append(inbox, reply("reply", b))
              \/ \E kind \in {"exception", "other"} : inbox' = Append(inbox, reply(kind, None))
    /\ sent' = Tail(sent)
    /\ UNCHANGED <<pc, up, addrs, seq, call, gone, rest, result, got, failed>>

\* Mutant: any reply will do.
ExpectedAny(frame) == frame.name = call.name

\* verify_expected_sequence_number and verify_expected_service_call.
Expected(frame) == frame.seq = seq /\ frame.name = call.name

\* read_message_begin finds a header, the header is checked, and then the result
\* or the exception is read.  A header that is not expected ends the call at once,
\* and so does one of another message type (verify_expected_message_type).
ReadReply ==
    /\ pc = "reading" /\ ~rest /\ inbox # <<>>
    /\ LET f == Head(inbox)
       IN  \/ /\ ~Expected(f) \/ f.kind \notin {"exception", "reply"}
              /\ result' = "mismatch" /\ rest' = TRUE /\ failed' = TRUE
              /\ UNCHANGED got
           \/ /\ Expected(f) /\ f.kind = "exception"
              /\ result' = "exception"
              /\ UNCHANGED <<rest, failed, got>>
           \/ /\ Expected(f) /\ f.kind = "reply"
              /\ LET d == Decode(f.name, f.body)
                 IN  /\ result' = d.st /\ rest' = d.left
                     /\ got' = [name |-> f.name, body |-> f.body, v |-> d.v]
                     /\ failed' = (failed \/ d.st = "undecodable")
    /\ inbox' = Tail(inbox) /\ pc' = "idle"
    /\ UNCHANGED <<up, addrs, seq, call, sent, gone, handled>>

\* read_message_begin reads what an earlier call left, and finds no header: the call
\* ends with some of the rest read, maybe all of it.
ReadRest ==
    /\ pc = "reading" /\ rest
    /\ rest' \in BOOLEAN
    /\ pc' = "idle" /\ result' = "mismatch" /\ failed' = TRUE
    /\ UNCHANGED <<up, addrs, seq, call, sent, inbox, gone, got, handled>>

\* The rest is too short for a header: read_message_begin waits for the next frame
\* and takes its start for the header's end.
ReadOver ==
    /\ pc = "reading" /\ rest /\ inbox # <<>>
    /\ inbox' = Tail(inbox)
    /\ pc' = "idle" /\ result' = "mismatch" /\ failed' = TRUE
    /\ UNCHANGED <<up, addrs, seq, call, sent, gone, rest, got, handled>>

\* The connection is closed and there is nothing left to read.
ReadEof ==
    /\ pc = "reading" /\ ~up /\ inbox = <<>>
    /\ pc' = "idle" /\ result' = "transport" /\ failed' = TRUE
    /\ UNCHANGED <<up, addrs, seq, call, wire, got, handled>>

\* The connection breaks: what was not yet received is lost.
Break ==
    /\ up
    /\ up' = FALSE
    /\ \E k \in 0..Len(inbox) :
        /\ inbox' = SubSeq(inbox, 1, k)
        /\ gone' = gone + Len(sent) + (Len(inbox) - k)
    /\ sent' = <<>>
    /\ UNCHANGED <<pc, addrs, seq, call, rest, result, got, handled, failed>>

-----------------------------------------------------------------------------
ReadStep == ReadReply \/ ReadRest \/ ReadOver \/ ReadEof
Next ==
    \/ Open \/ ConnectAddr \/ SetUp \/ (\E r \in Requests : Call(r))
    \/ Serve \/ ReadStep \/ Break

\* A server that is up answers in the end (the client sets no read timeout and
\* relies on it); the thread in the call runs.  How much of a frame is left over is
\* not known, so that ReadRest cannot be counted on: the next frame or the end of
\* the stream can.
Spec ==
    /\ Init /\ [][Next]_vars
    /\ WF_vars(Serve) /\ WF_vars(ReadReply \/ ReadOver \/ ReadEof)
    /\ WF_vars(ConnectAddr \/ SetUp)

-----------------------------------------------------------------------------
(* properties *)

\* A client method takes only its own reply: when it has one, nothing it or an
\* earlier call asked for is still to come, and no byte of a frame is left over.
TakesOwnReply == pc = "idle" /\ result \in Answered => Owed = 0 /\ ~rest

\* After a call failed in transport or reading, no client method on that connection
\* gets an answer again, although the server still answers: every later call reads
\* the remains of an earlier one.  Only Connection::open ends this.
FailureIsFinal == failed => result \notin Answered

\* Every client method returns from its read, with no timeout to help it.
CallEnds == pc = "reading" ~> pc # "reading"
==============================================================================
