------------------------------- MODULE MCRpc ---------------------------------
(***************************************************************************)
(* ThriftRpc with the whole service: every method, with requests and       *)
(* replies whose optional fields are all set, all unset or alternately     *)
(* set, and replies from peers of other versions of the IDL.               *)
(***************************************************************************)
EXTENDS ThriftRpc, TLC

MCUniverse == Any
MCDepth == 10

\* A newer peer adds a struct and a map of lists.
MCExtra ==
    [later |-> Opt(18, Struct([numbers |-> Opt(1, List(I32))])),
     even_later |-> Opt(19, Map(TEXT, List(I64)))]

\* Every id up to the largest, upwards and downwards.
MCAscending == [i \in 1..21 |-> i - 2]
MCOrders == {MCAscending, [i \in 1..21 |-> 20 - i]}

Shapes == {"full", "bare", "odd"}
Filled(field, shape) ==
    field.required \/ shape \in {"full", "newer"} \/ (shape = "odd" /\ field.id % 2 = 1)

\* A value of a type; n tells fields and elements apart.  A newer peer adds fields to
\* every struct but the bare ones: sub-statuses and the second elements of lists.
RECURSIVE Sample(_, _, _)
SampleStruct(fields, shape, n) ==
    [f \in {g \in DOMAIN fields : Filled(fields[g], shape)} |->
        Sample(fields[f].type, shape, n + fields[f].id)]
    @@ IF shape # "newer" THEN <<>>
       ELSE [f \in DOMAIN MCExtra |-> Sample(MCExtra[f].type, "full", n + MCExtra[f].id)]
Sample(type, shape, n) ==
    CASE type.k = "struct" -> SampleStruct(type.fields, shape, n)
      [] type.k = "status" -> SampleStruct(TSStatus, "bare", n)
      [] type.k = "list" ->
            IF shape = "bare" THEN <<>> ELSE <<Sample(type.of, shape, n), Sample(type.of, "bare", n + 1)>>
      [] type.k = "map" ->
            IF shape = "bare" THEN <<>> ELSE <<n + 1, Sample(type.of, shape, n + 1), n, Sample(type.of, shape, n)>>
      [] type.k = "enum" -> n % Cardinality(type.numbers)
      [] OTHER -> n

MCRequests == [name : DOMAIN Methods, shape : Shapes]
MCLateRequests == [name : {"closeOperation"}, shape : {"full"}]
MCMinSeq == -1

\* A reply lacks the required field `lacks` of its struct, has a number no enum knows
\* in the enum field `lacks`, or has no result at all.
Reply(shape, order, lacks, enum) == [shape |-> shape, order |-> order, lacks |-> lacks, enum |-> enum]
Nothing == Reply("bare", MCAscending, "success", "")
FieldsWith(n, Cond(_)) ==
    LET ret == Methods[n].ret
    IN  IF ret.k = "struct" THEN {f \in DOMAIN ret.fields : Cond(ret.fields[f])} ELSE {}
BodiesOf(n) ==
    {Reply(shape, order, "", "") : shape \in Shapes \cup {"newer"}, order \in MCOrders}
    \cup {Reply(shape, MCAscending, f, "") :
            shape \in {"odd", "newer"}, f \in FieldsWith(n, LAMBDA x : x.required)}
    \cup {Reply("full", MCAscending, "", f) : f \in FieldsWith(n, LAMBDA x : x.type.k = "enum")}
    \cup {Nothing}

MCOrderOf(n, b) == b.order
MCResultOf(n, b) ==
    LET full == Sample(Methods[n].ret, b.shape, 0)
        value == IF b.lacks # "" THEN [f \in DOMAIN full \ {b.lacks} |-> full[f]]
                 ELSE IF b.enum # "" THEN [full EXCEPT ![b.enum] = @ + 100]
                 ELSE full
        more == IF b.shape = "newer" THEN [f \in DOMAIN MCExtra |-> Sample(MCExtra[f].type, "full", 7)] ELSE <<>>
    IN  IF b = Nothing THEN <<>> ELSE (("success" :> value) @@ more)

MCArgsOf(r) == SampleStruct(Methods[r.name].args, r.shape, 0)

\* As tables, which TLC computes once: @@ makes it evaluate a function.
Table(f) == f @@ <<>>
Replies == UNION {{<<n, b>> : b \in BodiesOf(n)} : n \in DOMAIN Methods}
BodiesTable == Table([n \in DOMAIN Methods |-> BodiesOf(n)])
ArgsTable == Table([r \in MCRequests |-> ArgsRead(r.name, MCArgsOf(r))])
ResultTable == Table([x \in Replies |-> ResultRead(x[1], MCResultOf(x[1], x[2]), x[2].order)])
MCBodies(n) == BodiesTable[n]
MCReadArgs(r) == ArgsTable[r]
MCDecode(n, b) == ResultTable[<<n, b>>]
==============================================================================
