------------------------------- MODULE TsBlock -------------------------------
(***************************************************************************)
(* TsBlock::decode of src/data/tsblock.rs: header, time column and value   *)
(* columns read from a bounds-checked cursor, in five column encodings,    *)
(* with the MSB-first bit arrays of src/data/bitmap.rs.                    *)
(*                                                                         *)
(* A buffer is a sequence of numbers: a byte, an i32 or an i64 takes one   *)
(* place each, so a cut falls between numbers.  A cell is [type, v] with   *)
(* the number, truth value or bytes it carries in v, or Null.              *)
(*                                                                         *)
(* The server is external: it writes a block column by column in a choice  *)
(* of encodings.  What arrives may be cut short, or differ in a number.    *)
(***************************************************************************)
EXTENDS Integers, Sequences, FiniteSets, SequencesExt

CONSTANTS
    Blocks,         \* what servers send: [types, times, columns, encodings, flags]
    Null,
    MaxCorrupt,     \* bound: columns of a block whose buffer may arrive changed
    Corruptions,    \* numbers that may replace one of the buffer
    NonUtf8         \* bytes that make a string invalid

\* TSDataType codes, and the column encodings.
Boolean == 0
Int32 == 1
Int64 == 2
Float == 3
Double == 4
Text == 5
TypeCodes == 0..11
Timestamp == 8
Date == 9
Blob == 10
String == 11

ByteArray == 0
Int32Array == 1
Int64Array == 2
BinaryArray == 3
Rle == 4

VARIABLES
    pc,         \* "Send", "Header", "Time", "Column", "Done" or "Error"
    block,      \* the block the server sends
    damage,     \* "none", "cut" or "corrupt"
    buf, pos,   \* Reader; pos is the index of the next number
    header,     \* types, position_count and encodings read so far
    timestamps, columns     \* columns decoded so far

vars == <<pc, block, damage, buf, pos, header, timestamps, columns>>

CeilDiv8(n) == (n + 7) \div 8

\* 0x80 >> k, for k + 1.
Weight == <<128, 64, 32, 16, 8, 4, 2, 1>>

-----------------------------------------------------------------------------
(* the server *)

\* Bit k of byte b, and the bytes, of bits packed most significant first.
Bit(bits, b, k) ==
    IF 8 * (b - 1) + k < Len(bits) /\ bits[8 * (b - 1) + k + 1] THEN Weight[k + 1] ELSE 0
PackedByte(bits, b) ==
    Bit(bits, b, 0) + Bit(bits, b, 1) + Bit(bits, b, 2) + Bit(bits, b, 3) +
    Bit(bits, b, 4) + Bit(bits, b, 5) + Bit(bits, b, 6) + Bit(bits, b, 7)
Packed(bits) == [b \in 1..CeilDiv8(Len(bits)) |-> PackedByte(bits, b)]

PlainEncoding(type) ==
    CASE type = Boolean -> ByteArray
      [] type \in {Int32, Date, Float} -> Int32Array
      [] type \in {Int64, Timestamp, Double} -> Int64Array
      [] type \in {Text, Blob, String} -> BinaryArray

\* The types of columns, and the cells of a type: one number, a truth value, or
\* bytes, which are UTF-8 in a STRING.
ServerTypes == TypeCodes \ {6, 7}
Payloads(type) ==
    CASE type = Boolean -> {<<0>>, <<1>>}
      [] type \in {Text, Blob} -> Seq(0..255)
      [] type = String -> Seq((0..255) \ NonUtf8)
      [] type \in {Int32, Date, Float, Int64, Timestamp, Double} -> [1..1 -> Int]
CellsOf(type) == {Null} \cup [type : {type}, v : Payloads(type)]

\* Only a column of one value can be a run.
Uniform(s) == \A i, j \in DOMAIN s : s[i] = s[j]
Expressible(cells, encoding, plain) ==
    encoding = plain \/ (encoding = Rle /\ Uniform(cells))

ServerBlock(b) ==
    /\ b.types \in Seq(ServerTypes) /\ b.times \in Seq(Int)
    /\ b.flags \in [DOMAIN b.types -> BOOLEAN]
    /\ b.encodings \in Seq(0..4) /\ Len(b.encodings) = Len(b.types) + 1
    /\ Expressible(b.times, b.encodings[1], Int64Array)
    /\ DOMAIN b.columns = DOMAIN b.types
    /\ \A c \in DOMAIN b.types :
         /\ b.columns[c] \in [DOMAIN b.times -> CellsOf(b.types[c])]
         /\ Expressible(b.columns[c], b.encodings[c + 1], PlainEncoding(b.types[c]))

ASSUME TsBlockAssumption ==
    /\ \A b \in Blocks : ServerBlock(b)
    /\ Corruptions \subseteq Int
    /\ \A type \in ServerTypes : Null \notin [type : {type}, v : Payloads(type)]

\* A column body in its type's plain encoding: null indicators and values.
\* `flag` is mayHaveNull, which may be set without a null.
NullsOf(cells) == [i \in DOMAIN cells |-> cells[i] = Null]
NullPart(cells, flag) ==
    IF flag \/ TRUE \in Range(NullsOf(cells)) THEN <<1>> \o Packed(NullsOf(cells)) ELSE <<0>>
ValueOf(type, cell) ==
    CASE cell = Null -> <<>>
      [] cell # Null /\ type \in {Text, Blob, String} -> <<Len(cell.v)>> \o cell.v
      [] cell # Null /\ type \notin {Text, Blob, String} -> cell.v
ValuePart(type, cells) ==
    IF type = Boolean
    THEN Packed([i \in DOMAIN cells |-> cells[i] # Null /\ cells[i].v = <<1>>])
    ELSE FlattenSeq([i \in DOMAIN cells |-> ValueOf(type, cells[i])])
PlainBody(type, cells, flag) == NullPart(cells, flag) \o ValuePart(type, cells)

\* Run-length encoding keeps one value, also of a column without positions.
Body(type, cells, encoding, flag) ==
    IF encoding = Rle
    THEN <<PlainEncoding(type)>> \o
         PlainBody(type, IF cells = <<>> THEN <<Null>> ELSE <<cells[1]>>, flag)
    ELSE PlainBody(type, cells, flag)

TimeCells(b) == [i \in DOMAIN b.times |-> [type |-> Int64, v |-> <<b.times[i]>>]]

HeaderPart(b) == <<Len(b.types)>> \o b.types \o <<Len(b.times)>> \o b.encodings
TimePart(b) == Body(Int64, TimeCells(b), b.encodings[1], FALSE)
ColumnParts(b) ==
    [c \in DOMAIN b.types |-> Body(b.types[c], b.columns[c], b.encodings[c + 1], b.flags[c])]
Encoded(b) == HeaderPart(b) \o TimePart(b) \o FlattenSeq(ColumnParts(b))

NoHeader == [types |-> <<>>, count |-> 0, encodings |-> <<>>]

Init ==
    /\ pc = "Send" /\ block \in Blocks /\ damage = "none" /\ buf = <<>> /\ pos = 1
    /\ header = NoHeader /\ timestamps = <<>> /\ columns = <<>>

\* The buffer arrives whole, cut, or with one number changed.
Send ==
    /\ pc = "Send" /\ pc' = "Header"
    /\ LET whole == Encoded(block)
       IN  \/ buf' = whole /\ UNCHANGED damage
           \/ \E n \in 0..(Len(whole) - 1) : buf' = SubSeq(whole, 1, n) /\ damage' = "cut"
           \/ \E i \in DOMAIN whole, x \in Corruptions :
                Len(block.types) <= MaxCorrupt /\ x # whole[i] /\ buf' = [whole EXCEPT ![i] = x] /\ damage' = "corrupt"
    /\ UNCHANGED <<block, pos, header, timestamps, columns>>

-----------------------------------------------------------------------------
(* reading *)

\* What a read leaves: whether it succeeded, the next position, the values.
Failed == [ok |-> FALSE, next |-> 0, vals |-> <<>>]
Read(next, vals) == [ok |-> TRUE, next |-> next, vals |-> vals]
Has(p, n) == p + n - 1 <= Len(buf)

\* unpack_bits_msb_first: bit i is 0x80 >> (i & 7) of byte i >> 3.
BitSet(p, i) == (buf[p + i \div 8] \div Weight[(i % 8) + 1]) % 2 = 1

ReadPackedBits(p, n) ==
    IF Has(p, CeilDiv8(n))
    THEN Read(p + CeilDiv8(n), [i \in 1..n |-> BitSet(p, i - 1)])
    ELSE Failed

ReadNullIndicators(p, n) ==
    IF ~Has(p, 1) THEN Failed
    ELSE IF buf[p] = 0 THEN Read(p + 1, [i \in 1..n |-> FALSE])
    ELSE ReadPackedBits(p + 1, n)

\* Values before position i.
Before(nulls, i) == Cardinality({j \in 1..(i - 1) : ~nulls[j]})

\* Mutant: the bits of null positions are left out, as in the other encodings.
ByteArrayDense(p, nulls) ==
    LET n == Len(nulls)
        bits == ReadPackedBits(p, Before(nulls, n + 1))
    IN  IF ~bits.ok THEN Failed
        ELSE Read(bits.next, [i \in 1..n |->
                IF nulls[i] THEN Null
                ELSE [type |-> Boolean, v |-> <<IF bits.vals[Before(nulls, i) + 1] THEN 1 ELSE 0>>]])

\* BOOLEAN values: one bit per position, nulls included.
ByteArrayValues(p, nulls) ==
    LET n == Len(nulls)
        bits == ReadPackedBits(p, n)
    IN  IF ~bits.ok THEN Failed
        ELSE Read(bits.next, [i \in 1..n |->
                IF nulls[i] THEN Null
                ELSE [type |-> Boolean, v |-> <<IF bits.vals[i] THEN 1 ELSE 0>>]])

\* Numbers: null positions take no place; an incompatible type fails at the
\* first value.
NumberValues(p, nulls, type, types) ==
    LET n == Len(nulls)
        used == Before(nulls, n + 1)
    IN  IF ~Has(p, used) \/ (used > 0 /\ type \notin types) THEN Failed
        ELSE Read(p + used, [i \in 1..n |->
                IF nulls[i] THEN Null ELSE [type |-> type, v |-> <<buf[p + Before(nulls, i)]>>]])

\* A TEXT that is no UTF-8 becomes a BLOB, a STRING that is none an error.
BinaryValue(type, bytes) ==
    [type |-> IF type = Text /\ NonUtf8 \cap Range(bytes) # {} THEN Blob ELSE type, v |-> bytes]
BadBinary(type, bytes) ==
    type \notin {Blob, Text, String} \/ (type = String /\ NonUtf8 \cap Range(bytes) # {})

\* Binaries: a length and as many bytes.
HasBinary(q) == q > 0 /\ Has(q, 1) /\ buf[q] >= 0 /\ Has(q + 1, buf[q])
BytesAt(q) == SubSeq(buf, q + 1, q + buf[q])

\* Where each value begins and the last one ends, 0 once the reader has failed.
BinaryStarts(p, nulls, type) ==
    LET at[i \in 1..(Len(nulls) + 1)] ==
            IF i = 1 THEN p
            ELSE IF nulls[i - 1] THEN at[i - 1]
            ELSE IF HasBinary(at[i - 1]) /\ ~BadBinary(type, BytesAt(at[i - 1]))
                 THEN at[i - 1] + 1 + buf[at[i - 1]] ELSE 0
    IN  at

BinaryValues(p, nulls, type) ==
    LET n == Len(nulls)
        at == BinaryStarts(p, nulls, type)
    IN  IF at[n + 1] = 0 THEN Failed
        ELSE Read(at[n + 1], [i \in 1..n |->
                IF nulls[i] THEN Null ELSE BinaryValue(type, BytesAt(at[i]))])

\* decode_column for an encoding other than RLE.
PlainColumn(p, encoding, type, n) ==
    LET nulls == ReadNullIndicators(p, n)
    IN  IF encoding \notin {ByteArray, Int32Array, Int64Array, BinaryArray} \/ ~nulls.ok THEN Failed
        ELSE CASE encoding = ByteArray -> ByteArrayValues(nulls.next, nulls.vals)
               [] encoding = Int32Array -> NumberValues(nulls.next, nulls.vals, type, {Int32, Date, Float})
               [] encoding = Int64Array -> NumberValues(nulls.next, nulls.vals, type, {Int64, Timestamp, Double})
               [] encoding = BinaryArray -> BinaryValues(nulls.next, nulls.vals, type)

\* Mutants: a run of no positions is not read; a run is not replicated.
DecodeColumnSkipsEmpty(p, encoding, type, n) ==
    IF encoding # Rle THEN PlainColumn(p, encoding, type, n)
    ELSE IF n = 0 THEN Read(p, <<>>)
    ELSE IF ~Has(p, 1) THEN Failed
    ELSE LET single == PlainColumn(p + 1, buf[p], type, 1)
         IN  IF single.ok THEN Read(single.next, [i \in 1..n |-> single.vals[1]]) ELSE Failed

DecodeColumnOnce(p, encoding, type, n) ==
    IF encoding # Rle THEN PlainColumn(p, encoding, type, n)
    ELSE IF ~Has(p, 1) THEN Failed
    ELSE PlainColumn(p + 1, buf[p], type, 1)

\* decode_column: one inner value, not run-length encoded itself, for a run.
DecodeColumn(p, encoding, type, n) ==
    IF encoding # Rle THEN PlainColumn(p, encoding, type, n)
    ELSE IF ~Has(p, 1) THEN Failed
    ELSE LET single == PlainColumn(p + 1, buf[p], type, 1)
         IN  IF single.ok THEN Read(single.next, [i \in 1..n |-> single.vals[1]]) ELSE Failed

-----------------------------------------------------------------------------
(* decode *)

\* The header is complete and its counts and type codes make sense.
HeaderFits ==
    /\ Has(1, 1) /\ buf[1] >= 0 /\ Has(2, buf[1])
    /\ \A c \in 2..(buf[1] + 1) : buf[c] \in TypeCodes
    /\ Has(buf[1] + 2, 1) /\ buf[buf[1] + 2] >= 0
    /\ Has(buf[1] + 3, buf[1] + 1)

ReadHeader ==
    /\ pc = "Header"
    /\ \/ /\ HeaderFits
          /\ LET k == buf[1]
             IN  /\ header' = [types |-> SubSeq(buf, 2, k + 1), count |-> buf[k + 2],
                               encodings |-> SubSeq(buf, k + 3, 2 * k + 3)]
                 /\ pos' = 2 * k + 4
          /\ pc' = "Time"
       \/ /\ ~HeaderFits
          /\ pc' = "Error"
          /\ UNCHANGED <<header, pos>>
    /\ UNCHANGED <<block, damage, buf, timestamps, columns>>

\* The time column is decoded as INT64; nothing else may come of it.
ReadTime ==
    /\ pc = "Time"
    /\ LET r == DecodeColumn(pos, header.encodings[1], Int64, header.count)
           good == r.ok /\ \A i \in DOMAIN r.vals : r.vals[i] # Null /\ r.vals[i].type = Int64
       IN  \/ /\ good
              /\ pos' = r.next /\ timestamps' = [i \in DOMAIN r.vals |-> r.vals[i].v[1]]
              /\ pc' = "Column"
           \/ /\ ~good
              /\ pc' = "Error"
              /\ UNCHANGED <<pos, timestamps>>
    /\ UNCHANGED <<block, damage, buf, header, columns>>

ReadColumn ==
    /\ pc = "Column" /\ Len(columns) < Len(header.types)
    /\ LET c == Len(columns) + 1
           r == DecodeColumn(pos, header.encodings[c + 1], header.types[c], header.count)
       IN  \/ /\ r.ok
              /\ pos' = r.next /\ columns' = Append(columns, r.vals)
              /\ UNCHANGED pc
           \/ /\ ~r.ok
              /\ pc' = "Error"
              /\ UNCHANGED <<pos, columns>>
    /\ UNCHANGED <<block, damage, buf, header, timestamps>>

Finish ==
    /\ pc = "Column" /\ Len(columns) = Len(header.types)
    /\ pc' = "Done"
    /\ UNCHANGED <<block, damage, buf, pos, header, timestamps, columns>>

Next == Send \/ ReadHeader \/ ReadTime \/ ReadColumn \/ Finish

Spec == Init /\ [][Next]_vars

-----------------------------------------------------------------------------
\* What a client may see of a block: a TEXT that is no UTF-8 is a BLOB.
Seen(cell) == IF cell = Null THEN Null ELSE BinaryValue(cell.type, cell.v)

\* A whole buffer decodes to the block that was sent, in every encoding, and to
\* its last number.
RoundTrip ==
    damage = "none" =>
        /\ pc # "Error"
        /\ pc = "Done" =>
             /\ timestamps = block.times /\ header.types = block.types
             /\ columns = [c \in DOMAIN block.columns |->
                             [i \in DOMAIN block.columns[c] |-> Seen(block.columns[c][i])]]
             /\ pos = Len(buf) + 1

\* No cut of a buffer is taken for a shorter block.
CutDetected == damage = "cut" => pc # "Done"

\* Whatever was received, the cursor stays in the buffer; and row assembly, which
\* indexes times and columns by row, finds position_count entries in all of them.
WellShaped ==
    /\ buf # <<>> => pos \in 1..(Len(buf) + 1)
    /\ pc = "Done" => /\ Len(timestamps) = header.count
                      /\ Len(columns) = Len(header.types)
                      /\ \A c \in DOMAIN columns : Len(columns[c]) = header.count

\* The inductive invariant of the shape: what arrived, the cursor, and what was
\* read of it so far.
AnyCells == {Null} \cup [type : Int, v : Seq(Int)]
ShapeInv ==
    /\ block \in Blocks /\ buf \in Seq(Int) /\ pos \in 1..(Len(buf) + 1)
    /\ pc \in {"Send", "Header", "Time"} => columns = <<>>
    /\ pc \in {"Send", "Header"} => pos = 1
    /\ pc \in {"Time", "Column", "Done"} =>
         /\ header.types \in Seq(Int) /\ header.count \in Nat /\ header.encodings \in Seq(Int)
         /\ Len(header.encodings) = Len(header.types) + 1
    /\ pc \in {"Column", "Done"} =>
         /\ Len(timestamps) = header.count
         /\ columns \in Seq([1..header.count -> AnyCells]) /\ Len(columns) <= Len(header.types)
    /\ pc = "Done" => Len(columns) = Len(header.types)

\* From place p on the buffer holds s, as far as it goes.
Matches(p, s) == \A j \in 1..Len(s) : Has(p, j) => buf[p + j - 1] = s[j]

HeaderOf(b) == [types |-> b.types, count |-> Len(b.times), encodings |-> b.encodings]
SeenColumn(cells) == [i \in DOMAIN cells |-> Seen(cells[i])]

\* The buffer is what was sent, or less of it.
Arrived ==
    /\ Matches(1, Encoded(block))
    /\ damage = "none" => Len(buf) = Len(Encoded(block))
    /\ damage # "none" => Len(buf) < Len(Encoded(block))

\* What has been read is what the server wrote, up to the cursor.
ReadSoFar ==
    /\ pc \in {"Time", "Column", "Done"} => header = HeaderOf(block)
    /\ pc = "Time" => pos = Len(HeaderPart(block)) + 1
    /\ pc \in {"Column", "Done"} =>
         /\ timestamps = block.times
         /\ columns = [c \in 1..Len(columns) |-> SeenColumn(block.columns[c])]
         /\ pos = Len(HeaderPart(block)) + Len(TimePart(block)) +
                  Len(FlattenSeq(SubSeq(ColumnParts(block), 1, Len(columns)))) + 1
    /\ pc = "Error" => damage # "none"

\* The inductive invariant of a buffer whose numbers are those sent.
DecodeInv ==
    /\ ShapeInv
    /\ pc = "Send" => damage = "none"
    /\ pc # "Send" /\ damage # "corrupt" => Arrived /\ ReadSoFar
=============================================================================
