------------------------------ MODULE ThriftRpc ------------------------------
(***************************************************************************)
(* Rpc with the messages of the service: what is sent are the Args structs *)
(* of RpcService as ThriftCodec writes them, what is answered its Result   *)
(* structs, and ReadArgs and Decode are what ThriftCodec reads of them.    *)
(***************************************************************************)
EXTENDS Rpc, RpcService, ThriftCodec

CONSTANTS
    ArgsOf(_),          \* the arguments of a request
    ResultOf(_, _),     \* the Result struct of a method's reply
    OrderOf(_, _),      \* the order in which its sender writes fields
    Ascending           \* the order in which this crate does

ArgsType(n) == Struct(Methods[n].args)
ResultType(n) == Struct([success |-> Opt(0, Methods[n].ret)])

\* A value of a type sent in that order, and the reading of a message: there is
\* nothing to read in an empty one.
Written(type, v, order) == Writer(order)[MaxDepth][type][v]
ReadFrom(type, w) == IF Len(w) = 0 THEN Err(1) ELSE Reader(w)[MaxDepth][type][1]

\* The arguments as the generated client writes them and the process function reads them.
ArgsRead(n, args) ==
    LET d == ReadFrom(ArgsType(n), Written(ArgsType(n), args, Ascending))
    IN  [ok |-> d.ok, v |-> d.v]

\* ok_or, of the Result struct d read in a message of that length.
OkOr(d, length) ==
    LET st == IF ~d.ok THEN "undecodable"
              ELSE IF "success" \in DOMAIN d.v THEN "ok" ELSE "missing"
    IN  [st |-> st, v |-> IF st = "ok" THEN d.v["success"] ELSE 0, left |-> d.p <= length]

\* ...Result::read_from_in_protocol, read_message_end and ok_or.
ResultRead(n, res, order) ==
    LET w == Written(ResultType(n), res, order)
    IN  OkOr(ReadFrom(ResultType(n), w), Len(w))

\* Requests come from Rust structs, which lack nothing; replies from any peer.
ASSUME MessagesAssumption ==
    /\ Ascending \in Orders
    /\ \A r \in Requests :
        LET type == ArgsType(r.name)
        IN  /\ type \in Universe /\ ArgsOf(r) \in Universe
            /\ Typed[MaxDepth][type][ArgsOf(r)] /\ Legal[MaxDepth][type][ArgsOf(r)]
            /\ ReadArgs(r) = ArgsRead(r.name, ArgsOf(r))
    /\ \A n \in Names : \A b \in Bodies(n) :
        LET type == ResultType(n)
        IN  /\ type \in Universe /\ ResultOf(n, b) \in Universe /\ OrderOf(n, b) \in Orders
            /\ Typed[MaxDepth][type][ResultOf(n, b)]
            /\ Decode(n, b) = ResultRead(n, ResultOf(n, b), OrderOf(n, b))

-----------------------------------------------------------------------------
(* properties *)

\* What the process function hands to the handler is what the caller of the client
\* method passed, whichever of its optional fields are set.
ArgsDelivered ==
    handled # None =>
        handled.args =
            [ok |-> TRUE, v |-> Meant[MaxDepth][ArgsType(handled.req.name)][ArgsOf(handled.req)]]

\* The result a client method returns is the value the handler returned, also from
\* a peer that adds or reorders fields, and never one that lacks a required field
\* or has an enum value TryFrom<i32> does not know.
ReplyIntact ==
    pc = "idle" /\ result = "ok" =>
        LET ret == Methods[got.name].ret
            sentValue == ResultOf(got.name, got.body)["success"]
        IN  /\ "success" \in DOMAIN ResultOf(got.name, got.body)
            /\ Legal[MaxDepth - 1][ret][sentValue]
            /\ got.v = Meant[MaxDepth - 1][ret][sentValue]

\* read_from_in_protocol turns down no reply that could have been read: only one
\* that lacks a required field or has a new enum value; ok_or only an empty one.
ReplyTolerated ==
    /\ result = "undecodable" =>
        ~Legal[MaxDepth][ResultType(got.name)][ResultOf(got.name, got.body)]
    /\ result = "missing" => "success" \notin DOMAIN ResultOf(got.name, got.body)
==============================================================================
