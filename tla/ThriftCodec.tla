----------------------------- MODULE ThriftCodec -----------------------------
(***************************************************************************)
(* What the generated read_from_in_protocol and write_to_out_protocol      *)
(* functions do, for any struct of ThriftStructs.  A message is a sequence *)
(* of tokens: a field header (id, wire type), the stop byte, a list or map *)
(* header, a scalar.  The bytes of a scalar do not matter here.            *)
(* A struct value is a function from the names of its present fields, a    *)
(* list a sequence, a map as its sender iterates it the sequence of its    *)
(* keys and values in turn.  Values nest: each function of this module is  *)
(* defined level by level, from what it is for the parts of a value.       *)
(***************************************************************************)
EXTENDS ThriftStructs, FiniteSets, SequencesExt

CONSTANTS
    Universe,   \* all types and all that a field may hold
    Extra,      \* the fields that newer peers add to structs
    Orders,     \* the orders, by id, in which peers write the fields of a struct
    MaxDepth    \* bound: how deep values are nested

\* A function, and what another one adds to it; a function with one more entry.
Over(f, g) == [x \in DOMAIN f \cup DOMAIN g |-> IF x \in DOMAIN f THEN f[x] ELSE g[x]]
With(f, x, y) == Over(f, [z \in {x} |-> y])

Field(id, wire) == [t |-> "field", id |-> id, wire |-> wire]
Stop == [t |-> "stop"]
Scalar(wire, v) == [t |-> "scalar", wire |-> wire, v |-> v]
ListBegin(wire, n) == [t |-> "list", wire |-> wire, n |-> n]
MapBegin(key, wire, n) == [t |-> "map", key |-> key, wire |-> wire, n |-> n]

Wires == {"bool", "i8", "i16", "i32", "i64", "string", "list", "map", "struct"}

\* What skip reads: something of which only the wire type is known.
AnyOf(wire) == [k |-> "any", wire |-> wire]

Wire(type) ==
    CASE type.k = "enum" -> "i32"
      [] type.k = "binary" -> "string"
      [] type.k = "status" -> "struct"
      [] type.k = "any" -> type.wire
      [] OTHER -> type.k
FieldsOf(type) ==
    CASE type.k = "status" -> TSStatus
      [] type.k = "any" -> <<>>
      [] OTHER -> type.fields

\* The type of the i-th part of a list or, keys and values in turn, of a map.
ItemType(type, i) == IF type.k = "map" /\ i % 2 = 1 THEN type.key ELSE type.of

\* The fields that may come with a struct: a newer peer's too, but not to a
\* reader that would take any field for the one it knows.
Sendable(fields) ==
    IF \E n \in DOMAIN fields : fields[n].id = -1 THEN fields ELSE Over(fields, Extra)

\* The match on field_id: the arm of this id, or the arm that takes every id.
Arms(fields, id) == {n \in DOMAIN fields : fields[n].id \in {id, -1}}

\* A type whose parts are types; ids tell the fields of a struct apart.
WellFormed(type) ==
    /\ type.k # "any" /\ Wire(type) \in Wires
    /\ Wire(type) = "list" => type.of \in Universe
    /\ Wire(type) = "map" => type.key \in Universe /\ type.of \in Universe
    /\ Wire(type) = "struct" =>
        LET known == FieldsOf(type)
            all == Sendable(known)
        IN  \A n \in DOMAIN all :
                /\ all[n].type \in Universe
                /\ Arms(known, all[n].id) = {n} \cap DOMAIN known
                /\ \A m \in DOMAIN all : all[m].id = all[n].id => m = n
                /\ \A order \in Orders : \E i \in DOMAIN order : order[i] = all[n].id

ASSUME CodecAssumption ==
    /\ MaxDepth \in Nat
    /\ \A x \in Wires : AnyOf(x) \in Universe
    /\ \A order \in Orders :
        /\ order \in Seq(Int)
        /\ \A i, j \in DOMAIN order : order[i] = order[j] => i = j

-----------------------------------------------------------------------------
(* values *)

\* Which values are of a type, when T says so of their parts.
TypedBy(T, type, v) ==
    WellFormed(type) /\
    CASE Wire(type) = "struct" ->
            LET fields == Sendable(FieldsOf(type))
            IN  /\ DOMAIN v \subseteq DOMAIN fields
                /\ \A n \in DOMAIN v : v[n] \in Universe /\ T[fields[n].type][v[n]]
      [] Wire(type) \in {"list", "map"} ->
            /\ v \in Seq(Universe)
            /\ Wire(type) = "map" => Len(v) % 2 = 0
            /\ \A i \in 1..Len(v) : T[ItemType(type, i)][v[i]]
      [] OTHER -> TRUE
Typed[d \in 0..MaxDepth] ==
    [type \in Universe |-> [v \in Universe |->
        IF d = 0 THEN FALSE ELSE TypedBy(Typed[d - 1], type, v)]]

\* The map that insert after insert makes of keys and values in turn.
MapOf(items) ==
    [x \in {items[i] : i \in {j \in DOMAIN items : j % 2 = 1}} |->
        items[1 + CHOOSE i \in DOMAIN items :
                    /\ i % 2 = 1 /\ items[i] = x
                    /\ \A j \in DOMAIN items : j > i /\ j % 2 = 1 => items[j] # x]]

\* What a value means to a reader that knows this version of the IDL: its known
\* fields, and 0 for those the reader presets.
MeantBy(M, type, v) ==
    CASE Wire(type) = "struct" ->
            LET fields == FieldsOf(type)
            IN  [n \in {m \in DOMAIN fields : m \in DOMAIN v \/ fields[m].default} |->
                    IF n \in DOMAIN v THEN M[fields[n].type][v[n]] ELSE 0]
      [] Wire(type) = "list" -> [i \in 1..Len(v) |-> M[ItemType(type, i)][v[i]]]
      [] Wire(type) = "map" -> MapOf([i \in 1..Len(v) |-> M[ItemType(type, i)][v[i]]])
      [] OTHER -> v
Meant[d \in 0..MaxDepth] ==
    [type \in Universe |-> [v \in Universe |-> IF d = 0 THEN 0 ELSE MeantBy(Meant[d - 1], type, v)]]

\* A reader can make sense of a value: no struct in it, at any depth, lacks a
\* required field, and no enum has a number that is not known.
LegalBy(L, type, v) ==
    CASE Wire(type) = "struct" ->
            LET fields == FieldsOf(type)
            IN  \A n \in DOMAIN fields :
                    IF n \in DOMAIN v THEN L[fields[n].type][v[n]] ELSE ~fields[n].required
      [] Wire(type) \in {"list", "map"} -> \A i \in 1..Len(v) : L[ItemType(type, i)][v[i]]
      [] type.k = "enum" -> v \in type.numbers
      [] OTHER -> TRUE
Legal[d \in 0..MaxDepth] ==
    [type \in Universe |-> [v \in Universe |-> IF d = 0 THEN FALSE ELSE LegalBy(Legal[d - 1], type, v)]]

-----------------------------------------------------------------------------
(* writing *)

\* Mutant: optional fields are not written.
SomeRequired(fields, v) == {n \in DOMAIN v : fields[n].required}

\* The fields that are not None.
Some(fields, v) == DOMAIN v

\* The field of this id, unless it is None.
WriteField(W, fields, v, id) ==
    LET here == {n \in Some(fields, v) : fields[n].id = id}
        name == CHOOSE n \in here : TRUE
    IN  IF here = {} THEN <<>>
        ELSE <<Field(id, Wire(fields[name].type))>> \o W[fields[name].type][v[name]]
WriteStruct(W, fields, v, order) ==
    FlattenSeq([i \in 1..Len(order) |-> WriteField(W, fields, v, order[i])]) \o <<Stop>>

\* write_list_begin or write_map_begin, and the elements or the keys and values.
Begin(type, n) ==
    IF type.k = "map" THEN MapBegin(Wire(type.key), Wire(type.of), n \div 2)
    ELSE ListBegin(Wire(type.of), n)
WriteItems(W, type, v) ==
    <<Begin(type, Len(v))>> \o FlattenSeq([i \in 1..Len(v) |-> W[ItemType(type, i)][v[i]]])

WriteBy(W, type, v, order) ==
    CASE Wire(type) = "struct" -> WriteStruct(W, Sendable(FieldsOf(type)), v, order)
      [] Wire(type) \in {"list", "map"} -> WriteItems(W, type, v)
      [] OTHER -> <<Scalar(Wire(type), v)>>

\* write_to_out_protocol; this crate's writes the fields in ascending order.
Writer(order) ==
    LET W[d \in 0..MaxDepth] ==
            [type \in Universe |-> [v \in Universe |->
                IF d = 0 THEN <<>> ELSE WriteBy(W[d - 1], type, v, order)]]
    IN  W

-----------------------------------------------------------------------------
(* reading: a value and the position after it, or where the reader gave up *)

Ok(v, p) == [ok |-> TRUE, v |-> v, p |-> p]
Err(p) == [ok |-> FALSE, v |-> 0, p |-> p]
At(w, p, t) == p \in 1..Len(w) /\ w[p].t = t

\* Mutant: the reader does not insist.
AllRequiredNot(fields, v) == TRUE

\* verify_required_field_exists, for every field of the struct that has it.
AllRequired(fields, v) == \A n \in DOMAIN fields : fields[n].required => n \in DOMAIN v

\* One turn of the loop of read_from_in_protocol: a field that has an arm is read,
\* another one skipped; `after` is what the turns after it make of the rest.
ReadField(R, fields, w, q, after) ==
    LET arms == Arms(fields, w[q].id)
        name == CHOOSE n \in arms : TRUE
        r == R[IF arms = {} THEN AnyOf(w[q].wire) ELSE fields[name].type][q + 1]
        s == after[r.p]
    IN  IF ~r.ok THEN Err(r.p)
        ELSE IF ~s.ok \/ arms = {} THEN s
        ELSE Ok(With(s.v, name, r.v), s.p)

\* The loop, for at most k turns: until the stop field.  A field that comes again
\* overwrites.
FieldLoop(R, fields, w) ==
    LET F[k \in 0..Len(w)] ==
            [q \in Nat |->
                IF k = 0 THEN Err(q)
                ELSE IF At(w, q, "stop") THEN Ok(<<>>, q + 1)
                ELSE IF ~At(w, q, "field") THEN Err(q)
                ELSE ReadField(R, fields, w, q, F[k - 1])]
    IN  F

\* After the loop: the struct, with its presets, if it lacks nothing.
Complete(fields, r) ==
    LET presets == [n \in {m \in DOMAIN fields : fields[m].default} |-> 0]
    IN  IF ~r.ok THEN r
        ELSE IF AllRequired(fields, r.v) THEN Ok(Over(r.v, presets), r.p)
        ELSE Err(r.p)
ReadStruct(R, fields, w, p) == Complete(fields, FieldLoop(R, fields, w)[Len(w)][p])

\* Mutant: a map is taken for half of what it is.
CountEntries(h) == h.n

\* How many values follow a list or map header.
Count(h) == IF h.t = "map" THEN 2 * h.n ELSE h.n

\* The type the i-th of them is read as; skip goes by the header alone.
ItemRead(type, h, i) ==
    IF type.k # "any" THEN ItemType(type, i)
    ELSE AnyOf(IF h.t = "map" /\ i % 2 = 1 THEN h.key ELSE h.wire)

\* The loop over a list or a map, with n of its values left to read.
ItemLoop(R, type, w, p) ==
    LET I[n \in 0..Count(w[p])] ==
            [q \in Nat |->
                IF n = 0 THEN Ok(<<>>, q)
                ELSE LET i == Count(w[p]) - n + 1
                         r == R[ItemRead(type, w[p], i)][q]
                         s == I[n - 1][r.p]
                     IN  IF ~r.ok THEN Err(r.p)
                         ELSE IF ~s.ok THEN s
                         ELSE Ok(With(s.v, i, r.v), s.p)]
    IN  I

\* A map keeps the last value of each key.
Collect(type, r) == IF r.ok /\ Wire(type) = "map" THEN Ok(MapOf(r.v), r.p) ELSE r
ReadItems(R, type, w, p) == Collect(type, ItemLoop(R, type, w, p)[Count(w[p])][p + 1])

\* An enum's TryFrom<i32> takes the numbers it knows.
ReadScalar(type, w, p) ==
    IF ~At(w, p, "scalar") \/ w[p].wire # Wire(type) THEN Err(p)
    ELSE IF type.k = "enum" /\ w[p].v \notin type.numbers THEN Err(p + 1)
    ELSE Ok(w[p].v, p + 1)

\* What skip keeps of what it read: the position.
Keep(type, r) == IF r.ok /\ type.k = "any" THEN Ok(0, r.p) ELSE r
ReadBy(R, type, w, p) ==
    Keep(type,
        CASE Wire(type) = "struct" -> ReadStruct(R, FieldsOf(type), w, p)
          [] Wire(type) \in {"list", "map"} ->
                IF At(w, p, Wire(type)) THEN ReadItems(R, type, w, p) ELSE Err(p)
          [] OTHER -> ReadScalar(type, w, p))

\* read_from_in_protocol, and TInputProtocol::skip for the types AnyOf.
Reader(w) ==
    LET R[d \in 0..MaxDepth] ==
            [type \in Universe |-> [p \in Nat |->
                IF d = 0 THEN Err(p) ELSE ReadBy(R[d - 1], type, w, p)]]
    IN  R
==============================================================================
