----------------------------- MODULE MCTsBlock -----------------------------
EXTENDS TsBlock

\* Values a column of each type holds; 255 is no UTF-8.
Samples(type) ==
    CASE type = Boolean -> {<<0>>, <<1>>}
      [] type \in {Text, Blob} -> {<<>>, <<7, 255>>}
      [] type = String -> {<<>>, <<7>>}
      [] OTHER -> {<<7>>}
SampleCells(type) == {Null} \cup {[type |-> type, v |-> v] : v \in Samples(type)}

\* Columns of n cells with the encodings that can express them.
ColumnsOf(types, n) ==
    UNION {{[type |-> t, cells |-> cells, encoding |-> e, flag |-> f] :
              cells \in [1..n -> SampleCells(t)], e \in {PlainEncoding(t), Rle}, f \in BOOLEAN} : t \in types}

BlocksOf(types, n, width) ==
    {[types |-> [c \in 1..width |-> cols[c].type], times |-> [i \in 1..n |-> 5],
      columns |-> [c \in 1..width |-> cols[c].cells],
      encodings |-> <<te>> \o [c \in 1..width |-> cols[c].encoding],
      flags |-> [c \in 1..width |-> cols[c].flag]] :
         te \in {Int64Array, Rle}, cols \in [1..width -> {x \in ColumnsOf(types, n) : Expressible(x.cells, x.encoding, PlainEncoding(x.type))}]}

\* Two columns of up to two rows.
MCPairs == UNION {BlocksOf({Boolean, Float, Text}, n, 2) : n \in 0..2}

\* One column of every kind.
MCSingles == UNION {BlocksOf({Boolean, Date, Timestamp, Text, Blob, String}, n, 1) : n \in 0..2}
               \cup BlocksOf({}, 1, 0)

\* A boolean column around the byte boundary, every null pattern and values
\* that alternate.
MCBits ==
    {[types |-> <<Boolean, Int32>>, times |-> [i \in 1..n |-> i],
      columns |-> <<[i \in 1..n |-> IF i \in nulls THEN Null ELSE [type |-> Boolean, v |-> <<i % 2>>]],
                    [i \in 1..n |-> IF i \in nulls THEN [type |-> Int32, v |-> <<i>>] ELSE Null]>>,
      encodings |-> <<Int64Array, ByteArray, Int32Array>>, flags |-> <<TRUE, FALSE>>] :
         n \in {7, 8, 9}, nulls \in SUBSET (1..9)}
MCBlocks == MCPairs \cup MCSingles \cup MCBits
MCCorruptions == {-1, 0, 1, 2, 4, 12}
=============================================================================
