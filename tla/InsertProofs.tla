---------------------------- MODULE InsertProofs ----------------------------
(***************************************************************************)
(* Inserts, of records and of tablets.  Records: through every list of     *)
(* rows, retry and answer, what the servers store is what the caller gave, *)
(* and what the client concludes from an answer is what the server meant.  *)
(* Tablets: columns stay as long as their times, and the server stores     *)
(* what the rows mean, at every size.                                      *)
(***************************************************************************)
EXTENDS Records, Tablet, SequenceLemmas

-----------------------------------------------------------------------------
(* Records: the request *)

\* The cells that are not null, by position.
LEMMA NonNullIs ==
    ASSUME NEW vs \in Seq({Null} \cup Values)
    PROVE  /\ NonNull(vs) \in Seq(1..Len(vs)) /\ DOMAIN NonNull(vs) = 1..Len(NonNull(vs))
           /\ Len(NonNull(vs)) \in Nat
           /\ \A j \in 1..Len(NonNull(vs)) :
                NonNull(vs)[j] \in 1..Len(vs) /\ vs[NonNull(vs)[j]] \in Values
<1> DEFINE S == {i \in 1..Len(vs) : vs[i] # Null}
           f == NonNull(vs)
<1>1. S \in SUBSET (1..Len(vs)) /\ Len(vs) \in Nat /\ DOMAIN vs = 1..Len(vs)
    OBVIOUS
<1>2. InOrderOf(f, S)
    <2>1. f = InOrder(S)
        BY <1>1 DEF NonNull
    <2> HIDE DEF f, S
    <2> QED BY <1>1, <2>1, InOrderIs
<1>3. PICK n \in Nat : n = Cardinality(S) /\ f \in [1..n -> S]
    BY <1>2 DEF InOrderOf
<1> HIDE DEF f
<1>4. f \in Seq(S) /\ Len(f) = n /\ DOMAIN f = 1..n
    BY <1>3, FunctionIsSeq
<1>5. f \in Seq(1..Len(vs))
    BY <1>1, <1>4, SeqMonotonic
<1>6. ASSUME NEW j \in 1..n PROVE f[j] \in 1..Len(vs) /\ vs[f[j]] \in Values
    <2>1. f[j] \in S
        BY <1>3
    <2>2. f[j] \in 1..Len(vs) /\ vs[f[j]] # Null
        BY <2>1
    <2> QED BY <2>2
<1> QED BY <1>3, <1>4, <1>5, <1>6 DEF f

\* serialize_record_values: a marker and a payload per value.
LEMMA SerializedIs ==
    ASSUME NEW vs \in Seq(Values)
    PROVE  /\ Len(SerializeRecordValues(vs)) = 2 * Len(vs)
           /\ \A j \in 1..Len(vs) : /\ SerializeRecordValues(vs)[2 * j - 1] = vs[j].type
                                    /\ SerializeRecordValues(vs)[2 * j] = vs[j].data
<1>0. PICK n \in Nat : n = Len(vs) /\ DOMAIN vs = 1..n
    OBVIOUS
<1>1. \A j \in 1..n : vs[j] \in Values /\ vs[j].type \in STRING /\ vs[j].data \in STRING /\ vs[j] # Null
    <2> TAKE j \in 1..n
    <2>1. vs[j] \in Values
        BY <1>0
    <2> QED BY <2>1, RecordsAssumption DEF Values
<1> DEFINE seqs == [j \in 1..n |-> <<vs[j].type, vs[j].data>>]
<1>2. SerializeRecordValues(vs) = FlattenSeq(seqs)
    <2>1. \A j \in 1..n : (IF vs[j] = Null THEN <<"TYPE_NULL">> ELSE <<vs[j].type, vs[j].data>>)
                          = <<vs[j].type, vs[j].data>>
        BY <1>1
    <2> QED BY <1>0, <2>1 DEF SerializeRecordValues
<1>3. seqs \in Seq(Seq(STRING)) /\ Len(seqs) = n
    <2>1. \A j \in 1..n : <<vs[j].type, vs[j].data>> \in Seq(STRING)
        BY <1>1
    <2> DEFINE T == Seq(STRING)
    <2>2. seqs \in [1..n -> T]
        BY <2>1
    <2> HIDE DEF seqs, T
    <2>3. seqs \in Seq(T) /\ Len(seqs) = n
        BY <2>2, FunctionIsSeq
    <2> QED BY <2>3 DEF T
<1>4. \A j \in 1..n : /\ Len(seqs[j]) = 2 /\ seqs[j][1] = vs[j].type /\ seqs[j][2] = vs[j].data
    OBVIOUS
<1> HIDE DEF seqs
<1>5. /\ Offset(seqs, 0) = 0 /\ Offset(seqs, n) = Len(FlattenSeq(seqs))
      /\ \A j \in 1..n : /\ Offset(seqs, j - 1) \in Nat /\ Offset(seqs, j) = Offset(seqs, j - 1) + 2
                         /\ FlattenSeq(seqs)[Offset(seqs, j - 1) + 1] = vs[j].type
                         /\ FlattenSeq(seqs)[Offset(seqs, j - 1) + 2] = vs[j].data
    <2>1. /\ Offset(seqs, 0) = 0 /\ Offset(seqs, n) = Len(FlattenSeq(seqs))
          /\ \A j \in 1..n : /\ Offset(seqs, j - 1) \in Nat /\ Offset(seqs, j) = Offset(seqs, j - 1) + Len(seqs[j])
                             /\ \A c \in 1..Len(seqs[j]) : FlattenSeq(seqs)[Offset(seqs, j - 1) + c] = seqs[j][c]
        BY <1>3, FlattenSeqOffsets
    <2>2. 1 \in 1..2 /\ 2 \in 1..2
        OBVIOUS
    <2> QED BY <1>4, <2>1, <2>2
<1> DEFINE Good == {k \in Nat : k <= n => Offset(seqs, k) = 2 * k}
<1>6. 0 \in Good
    BY <1>5
<1>7. ASSUME NEW k \in Nat, k \in Good PROVE k + 1 \in Good
    <2> SUFFICES ASSUME k + 1 <= n PROVE Offset(seqs, k + 1) = 2 * (k + 1)
        OBVIOUS
    <2>1. k + 1 \in 1..n /\ (k + 1) - 1 = k
        OBVIOUS
    <2>2. Offset(seqs, k + 1) = Offset(seqs, k) + 2
        BY <1>5, <2>1
    <2> QED BY <1>7, <2>2
<1>8. Nat \subseteq Good
    <2> HIDE DEF Good
    <2> QED BY <1>6, <1>7, SetInduction
<1>9. \A k \in 0..n : Offset(seqs, k) = 2 * k
    BY <1>8
<1> HIDE DEF Good
<1>10. Len(FlattenSeq(seqs)) = 2 * n
    BY <1>5, <1>9
<1>11. ASSUME NEW j \in 1..n
       PROVE  FlattenSeq(seqs)[2 * j - 1] = vs[j].type /\ FlattenSeq(seqs)[2 * j] = vs[j].data
    <2>1. j - 1 \in 0..n /\ 2 * (j - 1) + 1 = 2 * j - 1 /\ 2 * (j - 1) + 2 = 2 * j
        OBVIOUS
    <2>2. Offset(seqs, j - 1) = 2 * (j - 1)
        BY <1>9, <2>1
    <2> QED BY <1>5, <2>1, <2>2
<1> QED BY <1>0, <1>2, <1>10, <1>11

\* The rows of a request: those of the caller's with a value, stably ordered.
RowsFit(rows) ==
    /\ Len(rows) \in Nat /\ DOMAIN rows = 1..Len(rows)
    /\ \A p \in 1..Len(rows) : rows[p] \in 1..Len(batch.devs) /\ NonNull(batch.vss[rows[p]]) # <<>>
    /\ \A i \in 1..Len(batch.devs) : NonNull(batch.vss[i]) # <<>> => \E p \in 1..Len(rows) : rows[p] = i
    /\ \A p, q \in 1..Len(rows) :
         p < q => /\ batch.tss[rows[p]] = batch.tss[rows[q]] => rows[p] < rows[q]
                  /\ kind = "one_device" => batch.tss[rows[p]] <= batch.tss[rows[q]]

LEMMA KeptRowsAre ==
    ASSUME ListsInv, SameLengths
    PROVE  /\ Len(KeptRows) \in Nat /\ DOMAIN KeptRows = 1..Len(KeptRows)
           /\ KeptRows \in Seq(1..Len(batch.devs))
           /\ \A p \in 1..Len(KeptRows) : NonNull(batch.vss[KeptRows[p]]) # <<>>
           /\ \A i \in 1..Len(batch.devs) :
                NonNull(batch.vss[i]) # <<>> => \E p \in 1..Len(KeptRows) : KeptRows[p] = i
           /\ \A p, q \in 1..Len(KeptRows) : p < q => KeptRows[p] < KeptRows[q]
<1> DEFINE n == Len(batch.devs)
           K == {i \in 1..n : NonNull(batch.vss[i]) # <<>>}
           f == KeptRows
<1>0. n \in Nat /\ DOMAIN batch.mss = 1..n /\ DOMAIN batch.vss = 1..n
    BY DEF ListsInv, SameLengths
<1>1. \A i \in 1..n : batch.vss[i] \in Seq({Null} \cup Values)
    BY <1>0 DEF ListsInv
<1>2. ASSUME NEW i \in 1..n
      PROVE  FilterNullCells(batch.mss[i], batch.vss[i]).vs # <<>> <=> NonNull(batch.vss[i]) # <<>>
    <2>1. PICK k \in Seq(1..Len(batch.vss[i])) : k = NonNull(batch.vss[i])
        BY <1>1, NonNullIs
    <2>2. FilterNullCells(batch.mss[i], batch.vss[i]).vs = [p \in DOMAIN k |-> batch.vss[i][k[p]]]
        BY <2>1 DEF FilterNullCells, Reordered
    <2>3. k # <<>> <=> 1 \in DOMAIN k
        OBVIOUS
    <2>4. [p \in DOMAIN k |-> batch.vss[i][k[p]]] # <<>> <=> 1 \in DOMAIN k
        OBVIOUS
    <2> QED BY <2>1, <2>2, <2>3, <2>4
<1>3. f = InOrder(K)
    <2>1. {i \in DOMAIN batch.mss \cap DOMAIN batch.vss :
              FilterNullCells(batch.mss[i], batch.vss[i]).vs # <<>>} = K
        BY <1>0, <1>2
    <2> HIDE DEF K
    <2> QED BY <2>1 DEF KeptRows
<1>4. InOrderOf(f, K)
    <2>1. K \in SUBSET (1..n)
        OBVIOUS
    <2> HIDE DEF f, K, n
    <2> QED BY <1>0, <1>3, <2>1, InOrderIs
<1> HIDE DEF f
<1>5. PICK m \in Nat : m = Cardinality(K) /\ f \in [1..m -> K]
    BY <1>4 DEF InOrderOf
<1>6. f \in Seq(K) /\ Len(f) = m /\ DOMAIN f = 1..m
    BY <1>5, FunctionIsSeq
<1>7. f \in Seq(1..n)
    BY <1>6, SeqMonotonic
<1>8. \A p \in 1..m : NonNull(batch.vss[f[p]]) # <<>>
    BY <1>5
<1>9. \A i \in 1..n : NonNull(batch.vss[i]) # <<>> => \E p \in 1..m : f[p] = i
    BY <1>4, <1>5 DEF InOrderOf
<1>10. \A p, q \in 1..m : p < q => f[p] < f[q]
    <2> HIDE DEF K
    <2> QED BY <1>4, <1>5 DEF InOrderOf
<1> HIDE DEF K
<1> QED BY <1>6, <1>7, <1>8, <1>9, <1>10 DEF f

LEMMA RequestRows ==
    ASSUME ListsInv, SameLengths
    PROVE  RowsFit(RowOrder(KeptRows))
<1> DEFINE n == Len(batch.devs)
           kept == KeptRows
           m == Len(kept)
<1>0. n \in Nat /\ DOMAIN batch.tss = 1..n /\ \A i \in 1..n : batch.tss[i] \in Int
    <2>1. n \in Nat /\ batch.tss \in Seq(Times) /\ Len(batch.tss) = n
        BY DEF ListsInv, SameLengths
    <2>2. \A x \in Times : x \in Int
        BY RecordsAssumption
    <2> HIDE DEF n
    <2> QED BY <2>1, <2>2
<1>1. /\ m \in Nat /\ DOMAIN kept = 1..m
      /\ \A p \in 1..m : kept[p] \in 1..n
      /\ \A p \in 1..m : NonNull(batch.vss[kept[p]]) # <<>>
      /\ \A i \in 1..n : NonNull(batch.vss[i]) # <<>> => \E p \in 1..m : kept[p] = i
      /\ \A p, q \in 1..m : p < q => kept[p] < kept[q]
    BY KeptRowsAre
<1> HIDE DEF n, kept, m
<1>2. CASE kind # "one_device"
    <2>1. RowOrder(kept) = kept
        BY <1>2 DEF RowOrder
    <2> QED BY <1>1, <1>2, <2>1 DEF RowsFit, n, m, kept
<1>3. CASE kind = "one_device"
    <2> DEFINE keys == Reordered(batch.tss, kept)
               f == StableOrder(keys)
               rows == [p \in DOMAIN f |-> kept[f[p]]]
    <2>1. RowOrder(kept) = rows
        BY <1>3 DEF RowOrder, Reordered
    <2>2. keys \in Seq(Int) /\ Len(keys) = m /\ \A p \in 1..m : keys[p] = batch.tss[kept[p]]
        <3>1. keys = [p \in 1..m |-> batch.tss[kept[p]]]
            BY <1>1 DEF Reordered
        <3>2. \A p \in 1..m : batch.tss[kept[p]] \in Int
            BY <1>0, <1>1
        <3>3. keys \in [1..m -> Int]
            BY <3>1, <3>2
        <3> HIDE DEF keys
        <3> QED BY <1>1, <3>1, <3>3, FunctionIsSeq
    <2> HIDE DEF keys
    <2>3. /\ f \in [1..m -> 1..m] /\ \A i \in 1..m : \E p \in 1..m : f[p] = i
          /\ \A p, q \in 1..m :
               p < q => keys[f[p]] < keys[f[q]] \/ (keys[f[p]] = keys[f[q]] /\ f[p] < f[q])
        <3>1. Sorts(f, keys)
            BY <2>2, StableOrderIs
        <3> HIDE DEF f
        <3> QED BY <2>2, <3>1 DEF Sorts
    <2> HIDE DEF f
    <2>4. rows = [p \in 1..m |-> kept[f[p]]]
        BY <2>3
    <2>5. Len(rows) = m /\ DOMAIN rows = 1..m
        <3>1. rows \in [1..m -> 1..n]
            BY <1>1, <2>3, <2>4
        <3> HIDE DEF rows
        <3> QED BY <1>1, <3>1, FunctionIsSeq
    <2>6. \A p \in 1..m : f[p] \in 1..m /\ rows[p] = kept[f[p]]
        BY <2>3, <2>4
    <2> HIDE DEF rows
    <2>7. \A p \in 1..m : rows[p] \in 1..n /\ NonNull(batch.vss[rows[p]]) # <<>>
        BY <1>1, <2>6
    <2>8. \A i \in 1..n : NonNull(batch.vss[i]) # <<>> => \E p \in 1..m : rows[p] = i
        <3> SUFFICES ASSUME NEW i \in 1..n, NonNull(batch.vss[i]) # <<>>
                     PROVE  \E p \in 1..m : rows[p] = i
            OBVIOUS
        <3>1. PICK q \in 1..m : kept[q] = i
            BY <1>1
        <3>2. PICK p \in 1..m : f[p] = q
            BY <2>3
        <3> QED BY <2>6, <3>1, <3>2
    <2>9. ASSUME NEW p \in 1..m, NEW q \in 1..m, p < q
          PROVE  /\ batch.tss[rows[p]] = batch.tss[rows[q]] => rows[p] < rows[q]
                 /\ batch.tss[rows[p]] <= batch.tss[rows[q]]
        <3>1. keys[f[p]] < keys[f[q]] \/ (keys[f[p]] = keys[f[q]] /\ f[p] < f[q])
            BY <2>3, <2>9
        <3>2. PICK x \in Int, y \in Int : x = batch.tss[rows[p]] /\ y = batch.tss[rows[q]]
            BY <1>0, <2>7
        <3>3. x = keys[f[p]] /\ y = keys[f[q]]
            BY <2>2, <2>6, <3>2, Zenon
        <3>4. x < y \/ (x = y /\ f[p] < f[q])
            BY <3>1, <3>3, Zenon
        <3>5. x <= y
            BY <3>4
        <3>6. x = y => f[p] < f[q]
            BY <3>4
        <3>7. f[p] < f[q] => rows[p] < rows[q]
            BY <1>1, <2>6
        <3> QED BY <3>2, <3>5, <3>6, <3>7
    <2> QED BY <1>1, <1>3, <2>1, <2>5, <2>7, <2>8, <2>9 DEF RowsFit, n, kept
<1> QED BY <1>2, <1>3 DEF kept

\* A row's measurements ms and its buffer after filter_null_cells, for its
\* non-null cells k: what the server reads is what the caller passed.
RowFits(k, ms, vs, names, buf) ==
    /\ Len(k) \in Nat /\ DOMAIN k = 1..Len(k) /\ DOMAIN names = 1..Len(k) /\ Len(names) = Len(k)
    /\ Len(buf) = 2 * Len(k)
    /\ \A j \in 1..Len(k) :
         /\ names[j] = ms[k[j]] /\ names[j] \in STRING /\ vs[k[j]] \in Values
         /\ buf[2 * j - 1] # "TYPE_NULL" /\ [type |-> buf[2 * j - 1], data |-> buf[2 * j]] = vs[k[j]]

LEMMA FilteredRow ==
    ASSUME NEW ms \in Seq(STRING), NEW vs \in Seq({Null} \cup Values), Len(ms) = Len(vs)
    PROVE  RowFits(NonNull(vs), ms, vs, FilterNullCells(ms, vs).ms,
                   SerializeRecordValues(FilterNullCells(ms, vs).vs))
<1> DEFINE k == NonNull(vs)
           names == FilterNullCells(ms, vs).ms
           kept == FilterNullCells(ms, vs).vs
           buf == SerializeRecordValues(kept)
           n == Len(k)
<1>1. /\ k \in Seq(1..Len(vs)) /\ DOMAIN k = 1..n /\ n \in Nat
      /\ \A j \in 1..n : k[j] \in 1..Len(vs) /\ vs[k[j]] \in Values
    BY NonNullIs
<1>2. names = [j \in DOMAIN k |-> ms[k[j]]] /\ kept = [j \in DOMAIN k |-> vs[k[j]]]
    BY DEF FilterNullCells, Reordered
<1> HIDE DEF k, names, kept, buf, n
<1>3. kept \in [1..n -> Values] /\ names = [j \in 1..n |-> ms[k[j]]]
    BY <1>1, <1>2
<1>4. kept \in Seq(Values) /\ Len(kept) = n
    BY <1>1, <1>3, FunctionIsSeq
<1>5. \A j \in 1..n : kept[j] = vs[k[j]]
    BY <1>1, <1>2
<1>6. names \in [1..n -> STRING]
    <2>1. \A j \in 1..n : ms[k[j]] \in STRING
        BY <1>1
    <2> QED BY <1>3, <2>1
<1>7. Len(names) = n /\ DOMAIN names = 1..n
    BY <1>1, <1>6, FunctionIsSeq
<1>8. /\ Len(buf) = 2 * n
      /\ \A j \in 1..n : buf[2 * j - 1] = kept[j].type /\ buf[2 * j] = kept[j].data
    BY <1>4, SerializedIs DEF buf
<1>9. ASSUME NEW j \in 1..n
      PROVE  /\ names[j] = ms[k[j]] /\ names[j] \in STRING /\ vs[k[j]] \in Values
             /\ buf[2 * j - 1] # "TYPE_NULL"
             /\ [type |-> buf[2 * j - 1], data |-> buf[2 * j]] = vs[k[j]]
    <2>1. names[j] = ms[k[j]] /\ names[j] \in STRING
        BY <1>3, <1>6
    <2>2. PICK v \in Values : v = vs[k[j]] /\ v = kept[j]
        BY <1>1, <1>5
    <2>3. v.type # "TYPE_NULL" /\ v = [type |-> v.type, data |-> v.data]
        BY DEF Values
    <2>4. buf[2 * j - 1] = v.type /\ buf[2 * j] = v.data
        BY <1>8, <2>2, Zenon
    <2> QED BY <2>1, <2>2, <2>3, <2>4, Zenon
<1> HIDE DEF RowFits
<1>10. RowFits(k, ms, vs, names, buf)
    BY <1>1, <1>7, <1>8, <1>9 DEF RowFits, n
<1> QED BY <1>10 DEF k, names, kept, buf

Write == [key : Devices \X Times \X STRING, val : Values]

\* Row i of the caller's lists, with as many measurements as values.
LEMMA CallersRow ==
    ASSUME ListsInv, SameLengths, ~ArityMismatch, NEW i \in 1..Len(batch.devs)
    PROVE  /\ batch.devs[i] \in Devices /\ batch.tss[i] \in Times
           /\ RowFits(NonNull(batch.vss[i]), batch.mss[i], batch.vss[i],
                      FilterNullCells(batch.mss[i], batch.vss[i]).ms,
                      SerializeRecordValues(FilterNullCells(batch.mss[i], batch.vss[i]).vs))
<1>1. /\ DOMAIN batch.mss = 1..Len(batch.devs) /\ DOMAIN batch.vss = 1..Len(batch.devs)
      /\ batch.devs[i] \in Devices /\ batch.tss[i] \in Times
      /\ batch.mss[i] \in Seq(STRING) /\ batch.vss[i] \in Seq({Null} \cup Values)
    BY DEF ListsInv, SameLengths
<1>2. Len(batch.mss[i]) = Len(batch.vss[i])
    BY <1>1 DEF ArityMismatch
<1> QED BY <1>1, <1>2, FilteredRow

LEMMA GivenRowIs ==
    ASSUME ListsInv, SameLengths, ~ArityMismatch, NEW i \in 1..Len(batch.devs)
    PROVE  GivenRow(i) \in Seq(Write) /\ Len(GivenRow(i)) = Len(NonNull(batch.vss[i]))
<1> DEFINE k == NonNull(batch.vss[i])
           n == Len(k)
           names == FilterNullCells(batch.mss[i], batch.vss[i]).ms
           buf == SerializeRecordValues(FilterNullCells(batch.mss[i], batch.vss[i]).vs)
<1>1. batch.devs[i] \in Devices /\ batch.tss[i] \in Times /\ RowFits(k, batch.mss[i], batch.vss[i], names, buf)
    BY CallersRow
<1>2. GivenRow(i) = [j \in DOMAIN k |-> [key |-> <<batch.devs[i], batch.tss[i], batch.mss[i][k[j]]>>,
                                         val |-> batch.vss[i][k[j]]]]
    BY DEF GivenRow
<1> HIDE DEF k, n, names, buf
<1>3. /\ n \in Nat /\ DOMAIN k = 1..n
      /\ \A j \in 1..n : batch.mss[i][k[j]] \in STRING /\ batch.vss[i][k[j]] \in Values
    BY <1>1 DEF RowFits, n
<1>4. GivenRow(i) \in [1..n -> Write]
    BY <1>1, <1>2, <1>3 DEF Write
<1> QED BY <1>3, <1>4, FunctionIsSeq DEF k, n

\* The rows of a request are those of the caller's that `rows` names, and the
\* server reads their values.
RequestFits(rows) ==
    /\ Rows = 1..Len(rows) /\ Len(rows) # 0 /\ Len(rows) \in Nat
    /\ req.devs \in Seq(Devices) /\ Len(req.devs) = Len(rows) /\ DOMAIN req.tss = 1..Len(rows)
    /\ \A p \in 1..Len(rows) :
         /\ Readable(p) /\ req.mss[p] # <<>>
         /\ Writes(p) = GivenRow(rows[p]) /\ req.tss[p] = batch.tss[rows[p]]

LEMMA RequestIs ==
    ASSUME ListsInv, Asked
    PROVE  RequestFits(RowOrder(KeptRows))
<1> DEFINE rows == RowOrder(KeptRows)
           n == Len(rows)
           Row(i) == FilterNullCells(batch.mss[i], batch.vss[i])
           Buf(i) == SerializeRecordValues(Row(i).vs)
<1>1. SameLengths /\ ~ArityMismatch /\ KeptRows # <<>>
    BY DEF Asked
<1>2. RowsFit(rows)
    BY <1>1, RequestRows
<1>3. req = [devs |-> Reordered(batch.devs, rows), tss |-> Reordered(batch.tss, rows),
             mss |-> [p \in DOMAIN rows |-> Row(rows[p]).ms],
             bufs |-> [p \in DOMAIN rows |-> Buf(rows[p])]]
    BY DEF Asked, Request
<1>4. n # 0
    <2>1. 1 \in 1..Len(KeptRows)
        BY <1>1, KeptRowsAre
    <2>2. KeptRows[1] \in 1..Len(batch.devs) /\ NonNull(batch.vss[KeptRows[1]]) # <<>>
        BY <1>1, <2>1, KeptRowsAre
    <2> HIDE DEF rows
    <2>3. PICK p \in 1..n : rows[p] = KeptRows[1]
        BY <1>2, <2>2 DEF RowsFit
    <2> QED BY <2>3
<1> HIDE DEF rows, Row
<1>5. n \in Nat /\ DOMAIN rows = 1..n /\ \A p \in 1..n : rows[p] \in 1..Len(batch.devs) /\ NonNull(batch.vss[rows[p]]) # <<>>
    BY <1>2 DEF RowsFit
<1> HIDE DEF n, Buf
<1>6. /\ req.devs = [p \in 1..n |-> batch.devs[rows[p]]] /\ req.tss = [p \in 1..n |-> batch.tss[rows[p]]]
      /\ req.mss = [p \in 1..n |-> Row(rows[p]).ms] /\ req.bufs = [p \in 1..n |-> Buf(rows[p])]
    BY <1>3, <1>5 DEF Reordered
<1>7. req.devs \in [1..n -> Devices]
    <2>1. \A p \in 1..n : batch.devs[rows[p]] \in Devices
        BY <1>1, <1>5, CallersRow
    <2> QED BY <1>6, <2>1
<1>8. req.devs \in Seq(Devices) /\ Len(req.devs) = n /\ DOMAIN req.devs = 1..n
    BY <1>5, <1>7, FunctionIsSeq
<1>9. ASSUME NEW p \in 1..n
      PROVE  /\ Readable(p) /\ req.mss[p] # <<>>
             /\ Writes(p) = GivenRow(rows[p]) /\ req.tss[p] = batch.tss[rows[p]]
    <2> DEFINE i == rows[p]
               k == NonNull(batch.vss[i])
               names == req.mss[p]
               buf == req.bufs[p]
    <2>1. i \in 1..Len(batch.devs) /\ k # <<>>
        BY <1>5
    <2>2. req.devs[p] = batch.devs[i] /\ req.tss[p] = batch.tss[i] /\ names = Row(i).ms /\ buf = Buf(i)
        BY <1>6
    <2>3. RowFits(k, batch.mss[i], batch.vss[i], names, buf)
        <3> HIDE DEF i, names, buf
        <3>1. RowFits(k, batch.mss[i], batch.vss[i], Row(i).ms, Buf(i))
            BY <1>1, <2>1, CallersRow DEF Row, Buf
        <3> QED BY <2>2, <3>1
    <2>4. k \in Seq(1..Len(batch.vss[i]))
        <3>1. batch.vss[i] \in Seq({Null} \cup Values)
            <4> HIDE DEF i
            <4> QED BY <1>1, <2>1 DEF ListsInv, SameLengths
        <3> QED BY <3>1, NonNullIs
    <2> HIDE DEF i, k
    <2>5. PICK m \in Nat : m = Len(k) /\ m # 0
        BY <2>1, <2>4
    <2>6. /\ DOMAIN k = 1..m /\ DOMAIN names = 1..m /\ Len(names) = m /\ Len(buf) = 2 * m
          /\ \A j \in 1..m :
               /\ names[j] = batch.mss[i][k[j]] /\ buf[2 * j - 1] # "TYPE_NULL"
               /\ [type |-> buf[2 * j - 1], data |-> buf[2 * j]] = batch.vss[i][k[j]]
        <3> HIDE DEF names, buf
        <3> QED BY <2>3, <2>5 DEF RowFits
    <2>7. Readable(p)
        <3>1. Len(buf) = 2 * Len(names) /\ \A j \in DOMAIN names : buf[2 * j - 1] # "TYPE_NULL"
            <4> HIDE DEF names, buf
            <4> QED BY <2>6
        <3> QED BY <3>1 DEF Readable
    <2>8. names # <<>>
        <3> HIDE DEF names
        <3> QED BY <2>5, <2>6
    <2>9. Writes(p) = GivenRow(i)
        <3>1. Writes(p) = [j \in DOMAIN names |->
                             [key |-> <<req.devs[p], req.tss[p], names[j]>>,
                              val |-> [type |-> buf[2 * j - 1], data |-> buf[2 * j]]]]
            BY DEF Writes
        <3>2. GivenRow(i) = [j \in DOMAIN k |-> [key |-> <<batch.devs[i], batch.tss[i], batch.mss[i][k[j]]>>,
                                                val |-> batch.vss[i][k[j]]]]
            BY DEF GivenRow, k
        <3> HIDE DEF names, buf
        <3> DEFINE A == [j \in 1..m |-> [key |-> <<req.devs[p], req.tss[p], names[j]>>,
                                         val |-> [type |-> buf[2 * j - 1], data |-> buf[2 * j]]]]
                   B == [j \in 1..m |-> [key |-> <<batch.devs[i], batch.tss[i], batch.mss[i][k[j]]>>,
                                         val |-> batch.vss[i][k[j]]]]
        <3>3. Writes(p) = A /\ GivenRow(i) = B
            BY <2>6, <3>1, <3>2
        <3>4. A = B
            BY <2>2, <2>6
        <3> QED BY <3>3, <3>4
    <2> QED BY <2>2, <2>7, <2>8, <2>9 DEF i
<1> QED BY <1>4, <1>5, <1>6, <1>8, <1>9 DEF RequestFits, rows, n, Rows

-----------------------------------------------------------------------------
(* Records: the answer *)

LEMMA LenOfFunction ==
    ASSUME NEW n \in Nat, NEW f, f = [i \in 1..n |-> f[i]]
    PROVE  Len(f) = n /\ DOMAIN f = 1..n
<1> DEFINE S == {f[i] : i \in 1..n}
<1>1. f \in [1..n -> S]
    OBVIOUS
<1> HIDE DEF S
<1> QED BY <1>1, FunctionIsSeq

\* The shapes of answers to a request of n rows that failed for those of F.
Answered(s, F, n) ==
    \/ s.code \in {"SUCCESS", "REDIRECT"} /\ F = {} /\ s.subs = NoSubs
       /\ (kind = "records" => s.node = NoNode)
    \/ s.code = "REDIRECT" /\ F = {} /\ s.node = NoNode /\ kind = "records"
       /\ DOMAIN s.subs = 1..n /\ Len(s.subs) = n
    \/ s.code = "FAIL" /\ F # {} /\ s.subs = NoSubs /\ s.node = NoNode
    \/ /\ s.code = "MULTIPLE_ERROR" /\ F # {} /\ s.node = NoNode /\ s.subs # NoSubs
       /\ DOMAIN s.subs = 1..n /\ Len(s.subs) = n
       /\ \A i \in 1..n : s.subs[i].node = NoNode
       /\ \A i \in F :
            \/ s.subs[i].code = "FAIL"
            \/ /\ s.subs[i].code = "MULTIPLE_ERROR" /\ s.subs[i].subs # NoSubs
               /\ \E t \in Range(s.subs[i].subs) : t.code = "FAIL"

LEMMA AnswersAre ==
    ASSUME NEW n \in Nat, n # 0, Rows = 1..n, NEW F \in SUBSET Rows, NEW s \in Answers(F)
    PROVE  Answered(s, F, n)
<1> DEFINE Flat == [i \in Rows |-> RowStatus(i, F)]
           Nest == [i \in Rows |-> Status("MULTIPLE_ERROR", NoNode, <<RowStatus(i, F)>>)]
<1>1. \A i \in Rows : /\ RowStatus(i, F) \in PlainStatuses
                      /\ RowStatus(i, F).code = IF i \in F THEN "FAIL" ELSE "SUCCESS"
                      /\ RowStatus(i, F).node = NoNode
    <2> TAKE i \in Rows
    <2> DEFINE c == IF i \in F THEN "FAIL" ELSE "SUCCESS"
    <2>1. c \in Codes
        BY DEF Codes
    <2>2. RowStatus(i, F) = [code |-> c, node |-> NoNode, subs |-> NoSubs]
        BY DEF RowStatus, Status
    <2> HIDE DEF c
    <2>3. RowStatus(i, F) \in PlainStatuses
        BY <2>1, <2>2 DEF PlainStatuses
    <2>4. RowStatus(i, F).code = c /\ RowStatus(i, F).node = NoNode
        BY <2>2
    <2> QED BY <2>3, <2>4 DEF c
<1>2. \A i \in Rows : /\ Nest[i] \in NestedStatuses /\ Nest[i].code = "MULTIPLE_ERROR"
                      /\ Nest[i].node = NoNode /\ Nest[i].subs = <<RowStatus(i, F)>>
    <2> TAKE i \in Rows
    <2> DEFINE r == RowStatus(i, F)
    <2>1. r \in PlainStatuses
        BY <1>1
    <2>2. Nest[i] = Status("MULTIPLE_ERROR", NoNode, <<r>>)
        OBVIOUS
    <2> HIDE DEF r, Nest
    <2>3. <<r>> \in Seq(PlainStatuses)
        BY <2>1
    <2>4. Nest[i] \in NestedStatuses
        <3> DEFINE Q == Seq(PlainStatuses)
        <3>1. <<r>> \in Q
            BY <2>3
        <3>2. NestedStatuses = [code : Codes, node : {NoNode}, subs : Q]
            BY DEF NestedStatuses
        <3> HIDE DEF Q
        <3>3. [code |-> "MULTIPLE_ERROR", node |-> NoNode, subs |-> <<r>>] \in NestedStatuses
            BY <3>1, <3>2 DEF Codes
        <3> QED BY <2>2, <3>3 DEF Status
    <2> QED BY <2>2, <2>4 DEF Status, r
<1>4. Flat # NoSubs /\ Nest # NoSubs
    <2> DEFINE T == PlainStatuses \cup NestedStatuses
    <2>1. Flat \in [1..n -> T] /\ Nest \in [1..n -> T]
        <3>1. \A i \in 1..n : RowStatus(i, F) \in T /\ Nest[i] \in T
            BY <1>1, <1>2
        <3> QED BY <3>1
    <2> HIDE DEF Flat, Nest, T
    <2>2. Flat \in Seq(T) /\ Nest \in Seq(T)
        BY <2>1, FunctionIsSeq
    <2>3. NoSubs \notin Seq(T)
        BY RecordsAssumption DEF T
    <2> QED BY <2>2, <2>3
<1>5. /\ DOMAIN Flat = 1..n /\ Len(Flat) = n /\ DOMAIN Nest = 1..n /\ Len(Nest) = n
    <2>1. Flat = [i \in 1..n |-> Flat[i]] /\ Nest = [i \in 1..n |-> Nest[i]]
        OBVIOUS
    <2> HIDE DEF Flat, Nest
    <2> QED BY <2>1, LenOfFunction
<1>6. CASE F = {}
    <2>1. CASE s = Status("SUCCESS", NoNode, NoSubs)
        BY <1>6, <2>1 DEF Answered, Status
    <2>2. CASE kind # "records" /\ s = Status("REDIRECT", Leader[req.devs[1]], NoSubs)
        BY <1>6, <2>2 DEF Answered, Status
    <2>3. ASSUME kind = "records", NEW R \in SUBSET Rows,
                 s = Status("REDIRECT", NoNode,
                            [i \in Rows |-> Status("REDIRECT", IF i \in R THEN Leader[req.devs[i]] ELSE NoNode, NoSubs)])
          PROVE  Answered(s, F, n)
        <3> DEFINE u == [i \in Rows |-> Status("REDIRECT", IF i \in R THEN Leader[req.devs[i]] ELSE NoNode, NoSubs)]
        <3>1. u = [i \in 1..n |-> u[i]]
            OBVIOUS
        <3>2. s = Status("REDIRECT", NoNode, u)
            BY <2>3
        <3> HIDE DEF u
        <3>3. DOMAIN u = 1..n /\ Len(u) = n
            BY <3>1, LenOfFunction
        <3> QED BY <1>6, <2>3, <3>2, <3>3 DEF Answered, Status
    <2> QED BY <1>6, <2>1, <2>2, <2>3 DEF Answers
<1>7. CASE F # {}
    <2>0. s = Status("MULTIPLE_ERROR", NoNode, Flat) \/ s = Status("MULTIPLE_ERROR", NoNode, Nest)
          \/ s = Status("FAIL", NoNode, NoSubs)
        BY <1>7 DEF Answers
    <2>1. CASE s = Status("FAIL", NoNode, NoSubs)
        BY <1>7, <2>1 DEF Answered, Status
    <2>2. CASE s = Status("MULTIPLE_ERROR", NoNode, Flat)
        <3>1. \A i \in 1..n : Flat[i].node = NoNode /\ (i \in F => Flat[i].code = "FAIL")
            BY <1>1
        <3> HIDE DEF Flat
        <3>2. s.code = "MULTIPLE_ERROR" /\ s.node = NoNode /\ s.subs = Flat
            BY <2>2 DEF Status
        <3>3. \A i \in F : s.subs[i].code = "FAIL"
            BY <3>1, <3>2
        <3> QED BY <1>4, <1>5, <1>7, <3>1, <3>2, <3>3 DEF Answered
    <2>3. CASE s = Status("MULTIPLE_ERROR", NoNode, Nest)
        <3> HIDE DEF Nest
        <3>1. s.code = "MULTIPLE_ERROR" /\ s.node = NoNode /\ s.subs = Nest
            BY <2>3 DEF Status
        <3>2. ASSUME NEW i \in F
              PROVE  /\ Nest[i].code = "MULTIPLE_ERROR" /\ Nest[i].subs # NoSubs
                     /\ \E t \in Range(Nest[i].subs) : t.code = "FAIL"
            <4> DEFINE r == RowStatus(i, F)
            <4>1. r \in PlainStatuses /\ r.code = "FAIL" /\ Nest[i].code = "MULTIPLE_ERROR" /\ Nest[i].subs = <<r>>
                BY <1>1, <1>2
            <4> HIDE DEF r
            <4>2. <<r>> \in Seq(PlainStatuses \cup NestedStatuses) /\ r \in Range(<<r>>)
                BY <4>1 DEF Range
            <4>3. <<r>> # NoSubs
                BY <4>2, RecordsAssumption
            <4> QED BY <4>1, <4>2, <4>3
        <3> QED BY <1>2, <1>4, <1>5, <1>7, <3>1, <3>2 DEF Answered
    <2> QED BY <2>0, <2>1, <2>2, <2>3
<1> QED BY <1>6, <1>7

\* check_status finds every failed row, and only those.
LEMMA CheckStatusIs ==
    ASSUME NEW n \in Nat, NEW F \in SUBSET (1..n), NEW s, Answered(s, F, n)
    PROVE  CheckStatus(s) <=> F = {}
<1>1. ASSUME s.code # "MULTIPLE_ERROR" PROVE Visited(s) = {s}
    <2>1. {t \in {s} : t.code = "MULTIPLE_ERROR" /\ t.subs # NoSubs} = {}
        BY <1>1
    <2>2. SubStatuses({s}) = {}
        BY <2>1 DEF SubStatuses
    <2>3. SubStatuses({}) = {}
        BY DEF SubStatuses
    <2> QED BY <2>2, <2>3 DEF Visited
<1>2. ASSUME NEW t, NEW S, t \in S, t.code = "MULTIPLE_ERROR", t.subs # NoSubs, NEW u \in Range(t.subs)
      PROVE  u \in SubStatuses(S)
    BY <1>2 DEF SubStatuses
<1>3. CASE F = {}
    <2>1. s.code \in {"SUCCESS", "REDIRECT"}
        BY <1>3 DEF Answered
    <2>2. Visited(s) = {s}
        BY <1>1, <2>1
    <2> QED BY <1>3, <2>1, <2>2 DEF CheckStatus
<1>4. CASE F # {}
    <2>1. CASE s.code = "FAIL"
        <3>1. s \in Visited(s)
            BY DEF Visited
        <3> QED BY <1>4, <2>1, <3>1 DEF CheckStatus
    <2>2. CASE s.code # "FAIL"
        <3>1. PICK i : i \in F
            BY <1>4
        <3>2. /\ s.code = "MULTIPLE_ERROR" /\ s.subs # NoSubs /\ i \in DOMAIN s.subs
              /\ \/ s.subs[i].code = "FAIL"
                 \/ /\ s.subs[i].code = "MULTIPLE_ERROR" /\ s.subs[i].subs # NoSubs
                    /\ \E t \in Range(s.subs[i].subs) : t.code = "FAIL"
            BY <1>4, <2>2, <3>1 DEF Answered
        <3>3. s.subs[i] \in SubStatuses({s})
            <4>1. s.subs[i] \in Range(s.subs)
                BY <3>2 DEF Range
            <4> QED BY <1>2, <3>2, <4>1
        <3>4. CASE s.subs[i].code = "FAIL"
            <4>1. s.subs[i] \in Visited(s)
                BY <3>3 DEF Visited
            <4> QED BY <1>4, <3>4, <4>1 DEF CheckStatus
        <3>5. CASE s.subs[i].code # "FAIL"
            <4>1. PICK t \in Range(s.subs[i].subs) : t.code = "FAIL"
                BY <3>2, <3>5
            <4>2. t \in SubStatuses(SubStatuses({s}))
                BY <1>2, <3>2, <3>3, <3>5
            <4>3. t \in Visited(s)
                BY <4>2 DEF Visited
            <4> QED BY <1>4, <4>1, <4>3 DEF CheckStatus
        <3> QED BY <3>4, <3>5
    <2> QED BY <2>1, <2>2
<1> QED BY <1>3, <1>4

\* What the server recommended, row by row or for the one device.
LEMMA RecommendedIs ==
    ASSUME NEW n \in Nat, n # 0, Rows = 1..n, Len(req.devs) = n, NEW F, Answered(status, F, n)
    PROVE  Recommended(HintDevices) =
               IF status.subs # NoSubs
               THEN {<<req.devs[i], status.subs[i].node>> :
                       i \in {k \in Rows : status.subs[k].node # NoNode}}
               ELSE IF status.node # NoNode THEN {<<req.devs[1], status.node>>} ELSE {}
<1> DEFINE devs == HintDevices
           Node(i) == IF status.subs # NoSubs /\ Len(status.subs) = Len(devs)
                      THEN status.subs[i].node ELSE status.node
<1>1. Recommended(devs) = {<<devs[i], Node(i)>> : i \in {k \in DOMAIN devs : Node(k) # NoNode}}
    BY DEF Recommended
<1>2. /\ status.subs # NoSubs => DOMAIN status.subs = 1..n /\ Len(status.subs) = n /\ status.node = NoNode
      /\ status.subs # NoSubs /\ kind # "records" => \A i \in 1..n : status.subs[i].node = NoNode
      /\ status.subs = NoSubs /\ kind = "records" => status.node = NoNode
    BY DEF Answered
<1>3. CASE kind = "records"
    <2>1. devs = req.devs /\ DOMAIN devs = Rows /\ Len(devs) = n
        BY <1>3 DEF HintDevices, Rows
    <2> HIDE DEF devs
    <2>2. CASE status.subs # NoSubs
        <3>1. \A i : Node(i) = status.subs[i].node
            BY <1>2, <2>1, <2>2
        <3> HIDE DEF Node
        <3>2. {k \in Rows : Node(k) # NoNode} = {k \in Rows : status.subs[k].node # NoNode}
            BY <3>1
        <3> QED BY <1>1, <2>1, <2>2, <3>1, <3>2 DEF devs
    <2>3. CASE status.subs = NoSubs
        <3>1. \A i : Node(i) = NoNode
            BY <1>2, <1>3, <2>3
        <3>2. Recommended(devs) = {}
            <4> HIDE DEF Node
            <4> QED BY <1>1, <3>1
        <3> QED BY <1>2, <1>3, <2>3, <3>2 DEF devs
    <2> QED BY <2>2, <2>3
<1>4. CASE kind # "records"
    <2>1. devs = <<req.devs[1]>>
        BY <1>4 DEF HintDevices
    <2>2. DOMAIN devs = {1} /\ devs[1] = req.devs[1] /\ Len(devs) = 1
        BY <2>1
    <2> HIDE DEF devs
    <2>3. CASE status.subs # NoSubs
        <3>1. Node(1) = NoNode
            BY <1>2, <1>4, <2>2, <2>3
        <3>2. Recommended(devs) = {}
            <4> HIDE DEF Node
            <4> QED BY <1>1, <2>2, <3>1
        <3>3. {k \in Rows : status.subs[k].node # NoNode} = {}
            BY <1>2, <1>4, <2>3
        <3> QED BY <2>3, <3>2, <3>3 DEF devs
    <2>4. CASE status.subs = NoSubs
        <3>1. Node(1) = status.node
            BY <2>4
        <3>2. Recommended(devs) = IF status.node # NoNode THEN {<<req.devs[1], status.node>>} ELSE {}
            <4> HIDE DEF Node
            <4> QED BY <1>1, <2>2, <3>1
        <3> QED BY <2>4, <3>2 DEF devs
    <2> QED BY <2>3, <2>4
<1> QED BY <1>3, <1>4

-----------------------------------------------------------------------------
(* Records: the inductive invariant *)

\* A step that keeps the call's lists and its request keeps all that is defined
\* from them.
LEMMA SameCall ==
    ASSUME kind' = kind, batch' = batch, req' = req
    PROVE  /\ Asked' = Asked /\ Earlier' = Earlier /\ Rows' = Rows
           /\ \A F : (Attempt(F))' = Attempt(F) /\ (Answers(F))' = Answers(F)
           /\ HintDevices' = HintDevices
<1>1. Rows' = Rows
    BY DEF Rows
<1>2. \A F : (Attempt(F))' = Attempt(F)
    BY <1>1 DEF Attempt, Writes
<1>3. \A F : (Answers(F))' = Answers(F)
    BY <1>1 DEF Answers, RowStatus
<1>4. Earlier' = Earlier
    BY <1>1, <1>2 DEF Earlier
<1>5. KeptRows' = KeptRows
    BY DEF KeptRows
<1>6. (Request(KeptRows))' = Request(KeptRows)
    BY <1>5 DEF Request, RowOrder
<1>7. Asked' = Asked
    BY <1>5, <1>6 DEF Asked, SameLengths, ArityMismatch
<1> QED BY <1>1, <1>2, <1>3, <1>4, <1>7 DEF HintDevices

\* The rows of an attempt, for every set of rows that failed.
RowsBut(F) == [i \in Rows |-> IF i \in F THEN <<>> ELSE Writes(i)]

LEMMA RowsButAre ==
    ASSUME ListsInv, Asked, NEW F \in SUBSET Rows
    PROVE  /\ RowsBut(F) \in Seq(Seq(Write)) /\ Attempt(F) = FlattenSeq(RowsBut(F))
           /\ Len(RowsBut(F)) = Len(RowOrder(KeptRows)) /\ DOMAIN RowsBut(F) = Rows
           /\ Rows = 1..Len(RowOrder(KeptRows))
           /\ \A i \in Rows : RowsBut(F)[i] = IF i \in F THEN <<>> ELSE GivenRow(RowOrder(KeptRows)[i])
<1> DEFINE rows == RowOrder(KeptRows)
           n == Len(rows)
           A == RowsBut(F)
<1>1. RequestFits(rows) /\ RowsFit(rows) /\ SameLengths /\ ~ArityMismatch
    BY RequestIs, RequestRows DEF Asked
<1> HIDE DEF rows
<1>2. n \in Nat /\ Rows = 1..n
    BY <1>1 DEF RequestFits
<1>3. ASSUME NEW i \in 1..n
      PROVE  /\ (IF i \in F THEN <<>> ELSE Writes(i)) \in Seq(Write)
             /\ A[i] = IF i \in F THEN <<>> ELSE GivenRow(rows[i])
    <2>1. rows[i] \in 1..Len(batch.devs)
        BY <1>1 DEF RowsFit
    <2>2. Writes(i) = GivenRow(rows[i])
        BY <1>1 DEF RequestFits
    <2>3. GivenRow(rows[i]) \in Seq(Write)
        BY <1>1, <2>1, GivenRowIs
    <2>4. A[i] = IF i \in F THEN <<>> ELSE Writes(i)
        BY <1>2 DEF RowsBut
    <2> QED BY <2>2, <2>3, <2>4
<1> DEFINE T == Seq(Write)
<1>4. A \in [1..n -> T]
    BY <1>2, <1>3 DEF RowsBut
<1>5. A \in Seq(T) /\ Len(A) = n /\ DOMAIN A = 1..n
    <2> HIDE DEF A, T, n
    <2> QED BY <1>2, <1>4, FunctionIsSeq
<1>6. Attempt(F) = FlattenSeq(A)
    BY DEF Attempt, RowsBut
<1> HIDE DEF A, n
<1>7. \A i \in Rows : A[i] = IF i \in F THEN <<>> ELSE GivenRow(rows[i])
    BY <1>2, <1>3
<1> QED BY <1>2, <1>5, <1>6, <1>7 DEF T, A, n, rows

\* What the server writes of a request.
LEMMA AttemptIs ==
    ASSUME ListsInv, Asked, NEW F \in SUBSET Rows
    PROVE  Attempt(F) \in Seq(Write)
<1>1. RowsBut(F) \in Seq(Seq(Write)) /\ Attempt(F) = FlattenSeq(RowsBut(F))
    BY RowsButAre
<1> QED BY <1>1, FlattenSeqType

LEMMA AddRecordInv ==
    ASSUME RecordsInv, NEW d \in Devices, NEW t \in Times, NEW c \in Cells, AddRecord(d, t, c)
    PROVE  RecordsInv'
<1>1. c[1] \in Seq(STRING) /\ c[2] \in Seq({Null} \cup Values)
    BY RecordsAssumption
<1>2. /\ batch.devs \in Seq(Devices) /\ batch.tss \in Seq(Times)
      /\ batch.mss \in Seq(Seq(STRING)) /\ batch.vss \in Seq(Seq({Null} \cup Values))
    BY DEF RecordsInv, ListsInv
<1>3. batch' = [devs |-> Append(batch.devs, d), tss |-> Append(batch.tss, t),
                mss |-> Append(batch.mss, c[1]), vss |-> Append(batch.vss, c[2])]
    BY DEF AddRecord
<1> DEFINE M == Seq(STRING)
           V == Seq({Null} \cup Values)
<1>4. batch.mss \in Seq(M) /\ batch.vss \in Seq(V) /\ c[1] \in M /\ c[2] \in V
    BY <1>1, <1>2
<1>5. ListsInv'
    <2> HIDE DEF M, V
    <2>1. batch' \in [devs : Seq(Devices), tss : Seq(Times), mss : Seq(M), vss : Seq(V)]
        BY <1>2, <1>3, <1>4
    <2> QED BY <2>1 DEF ListsInv, M, V
<1>6. /\ pc = "Build" /\ pc' = "Build" /\ kind' = kind /\ log' = log /\ outcome' = outcome /\ resent' = resent
      /\ status' = status /\ hints' = hints
    BY DEF AddRecord
<1>7. SameLengths /\ log = <<>> /\ outcome = "none" /\ ~resent /\ status = NoStatus /\ hints = {}
    BY <1>6 DEF RecordsInv, CallInv
<1>8. SameLengths'
    <2> HIDE DEF M, V
    <2>1. /\ Len(Append(batch.devs, d)) = Len(batch.devs) + 1 /\ Len(Append(batch.tss, t)) = Len(batch.tss) + 1
          /\ Len(Append(batch.mss, c[1])) = Len(batch.mss) + 1 /\ Len(Append(batch.vss, c[2])) = Len(batch.vss) + 1
        BY <1>2, <1>4, AppendProperties
    <2> QED BY <1>3, <1>7, <2>1 DEF SameLengths
<1>9. CallInv'
    BY <1>6, <1>7, <1>8 DEF CallInv, NoStatus, Status
<1> QED BY <1>5, <1>6, <1>9 DEF RecordsInv

\* Sequences of one length have one domain.
LEMMA EqualDomains ==
    ASSUME NEW S, NEW T, NEW s \in Seq(S), NEW t \in Seq(T), Len(s) = Len(t)
    PROVE  DOMAIN s = DOMAIN t
OBVIOUS

LEMMA FrontIs ==
    ASSUME NEW S, NEW s \in Seq(S), s # <<>>
    PROVE  Front(s) \in Seq(S) /\ Len(Front(s)) = Len(s) - 1
<1>1. Len(s) \in Nat /\ Len(s) # 0
    OBVIOUS
<1>2. PICK m \in Nat : Len(s) = m + 1 /\ Len(s) - 1 = m
    BY <1>1
<1>3. SubSeq(s, 1, m) \in Seq(S) /\ Len(SubSeq(s, 1, m)) = m
    BY <1>2
<1> QED BY <1>2, <1>3 DEF Front

LEMMA RaggedInv ==
    ASSUME RecordsInv, NEW l \in Lists, Ragged(l)
    PROVE  RecordsInv'
<1> DEFINE M == Seq(STRING)
           V == Seq({Null} \cup Values)
<1>1. batch \in [devs : Seq(Devices), tss : Seq(Times), mss : Seq(M), vss : Seq(V)]
    BY DEF RecordsInv, ListsInv
<1>2. /\ pc = "Build" /\ pc' = "Call" /\ kind' = kind /\ log' = log /\ outcome' = outcome /\ resent' = resent
      /\ batch' = [batch EXCEPT ![l] = Front(@)] /\ batch.devs # <<>> /\ status' = status /\ hints' = hints
    BY DEF Ragged
<1>3. SameLengths /\ log = <<>> /\ outcome = "none" /\ ~resent /\ status = NoStatus /\ hints = {}
    BY <1>2 DEF RecordsInv, CallInv
<1>4. l \in {"devs", "tss", "mss", "vss"} /\ (l = "devs" => kind = "records")
    BY DEF Lists
<1>5. {"tss", "mss", "vss"} \subseteq Lists
    BY DEF Lists, RecordsInv
<1>6. Lists' = Lists
    BY <1>2 DEF Lists
<1> HIDE DEF M, V
<1>7. PICK n \in Nat : /\ Len(batch.devs) = n /\ Len(batch.tss) = n /\ Len(batch.mss) = n /\ Len(batch.vss) = n
                       /\ n # 0
    <2>1. Len(batch.devs) \in Nat /\ Len(batch.devs) # 0
        BY <1>1, <1>2
    <2> QED BY <1>3, <2>1 DEF SameLengths
<1>8. batch' \in [devs : Seq(Devices), tss : Seq(Times), mss : Seq(M), vss : Seq(V)]
      /\ \E k \in Lists : Len(batch'[l]) # Len(batch'[k])
    <2>1. CASE l = "devs"
        <3>1. Front(batch.devs) \in Seq(Devices) /\ Len(Front(batch.devs)) = n - 1
            BY <1>1, <1>2, <1>7, FrontIs
        <3>2. batch' = [devs |-> Front(batch.devs), tss |-> batch.tss, mss |-> batch.mss, vss |-> batch.vss]
            BY <1>1, <1>2, <2>1
        <3>3. "tss" \in Lists /\ batch'["devs"] = Front(batch.devs) /\ batch'["tss"] = batch.tss
            BY <1>5, <3>2
        <3>4. n - 1 # n
            OBVIOUS
        <3> QED BY <1>1, <1>7, <2>1, <3>1, <3>2, <3>3, <3>4
    <2>2. CASE l = "tss"
        <3>1. Front(batch.tss) \in Seq(Times) /\ Len(Front(batch.tss)) = n - 1
            BY <1>1, <1>7, FrontIs
        <3>2. batch' = [devs |-> batch.devs, tss |-> Front(batch.tss), mss |-> batch.mss, vss |-> batch.vss]
            BY <1>1, <1>2, <2>2
        <3>3. "mss" \in Lists /\ batch'["tss"] = Front(batch.tss) /\ batch'["mss"] = batch.mss
            BY <1>5, <3>2
        <3>4. n - 1 # n
            OBVIOUS
        <3> QED BY <1>1, <1>7, <2>2, <3>1, <3>2, <3>3, <3>4
    <2>3. CASE l = "mss"
        <3>1. Front(batch.mss) \in Seq(M) /\ Len(Front(batch.mss)) = n - 1
            BY <1>1, <1>7, FrontIs
        <3>2. batch' = [devs |-> batch.devs, tss |-> batch.tss, mss |-> Front(batch.mss), vss |-> batch.vss]
            BY <1>1, <1>2, <2>3
        <3>3. "tss" \in Lists /\ batch'["mss"] = Front(batch.mss) /\ batch'["tss"] = batch.tss
            BY <1>5, <3>2
        <3>4. n - 1 # n
            OBVIOUS
        <3> QED BY <1>1, <1>7, <2>3, <3>1, <3>2, <3>3, <3>4
    <2>4. CASE l = "vss"
        <3>1. Front(batch.vss) \in Seq(V) /\ Len(Front(batch.vss)) = n - 1
            BY <1>1, <1>7, FrontIs
        <3>2. batch' = [devs |-> batch.devs, tss |-> batch.tss, mss |-> batch.mss, vss |-> Front(batch.vss)]
            BY <1>1, <1>2, <2>4
        <3>3. "tss" \in Lists /\ batch'["vss"] = Front(batch.vss) /\ batch'["tss"] = batch.tss
            BY <1>5, <3>2
        <3>4. n - 1 # n
            OBVIOUS
        <3> QED BY <1>1, <1>7, <2>4, <3>1, <3>2, <3>3, <3>4
    <2> QED BY <1>4, <2>1, <2>2, <2>3, <2>4
<1>9. ListsInv' /\ LengthMismatch'
    BY <1>6, <1>8 DEF ListsInv, LengthMismatch, M, V
<1>10. CallInv'
    BY <1>2, <1>3, <1>9 DEF CallInv, NoStatus, Status
<1> QED BY <1>2, <1>9, <1>10 DEF RecordsInv

LEMMA CallStepInv ==
    ASSUME RecordsInv, Call
    PROVE  RecordsInv'
<1>1. /\ pc \in {"Build", "Call"} /\ kind' = kind /\ batch' = batch /\ log' = log /\ resent' = resent
      /\ status' = status /\ hints' = hints
    BY DEF Call
<1>2. /\ log = <<>> /\ outcome = "none" /\ ~resent /\ (pc = "Build" => SameLengths) /\ (pc = "Call" => LengthMismatch)
      /\ status = NoStatus /\ hints = {}
    BY <1>1 DEF RecordsInv, CallInv
<1>3. ListsInv'
    BY <1>1 DEF RecordsInv, ListsInv
<1>4. CASE pc' = "Done" /\ outcome' = "client_error"
    <2>1. CallInv'
        BY <1>1, <1>2, <1>4 DEF CallInv
    <2> QED BY <1>1, <1>3, <1>4, <2>1 DEF RecordsInv
<1>5. CASE /\ ~LengthMismatch /\ ~ArityMismatch /\ KeptRows # <<>>
           /\ pc' = "Send" /\ req' = Request(KeptRows) /\ UNCHANGED outcome
    <2>1. KeptRows' = KeptRows /\ SameLengths' = SameLengths /\ ArityMismatch' = ArityMismatch
        BY <1>1 DEF KeptRows, SameLengths, ArityMismatch
    <2>2. (Request(KeptRows))' = Request(KeptRows)
        BY <1>1, <2>1 DEF Request, RowOrder
    <2>3. SameLengths
        BY <1>1, <1>2, <1>5
    <2>4. Asked'
        BY <1>5, <2>1, <2>2, <2>3 DEF Asked
    <2>5. <<>> \in Earlier'
        BY DEF Earlier
    <2>6. CallInv'
        BY <1>1, <1>2, <1>5, <2>4, <2>5 DEF CallInv, NoStatus, Status
    <2> QED BY <1>1, <1>3, <1>5, <2>6 DEF RecordsInv
<1> QED BY <1>4, <1>5 DEF Call

LEMMA FailuresAre ==
    ASSUME NEW F \in Failures
    PROVE  F \in SUBSET Rows
BY DEF Failures

\* What a transport failure adds to the writes is again one of the earlier ones.
LEMMA TransportFailsAdds ==
    ASSUME ListsInv, Asked, log \in Seq(Write), TransportFails
    PROVE  \E w \in Earlier : log' = log \o w
<1>1. CASE UNCHANGED log
    <2>1. <<>> \in Earlier /\ log \o <<>> = log
        BY DEF Earlier
    <2> QED BY <1>1, <2>1
<1>2. CASE \E F \in Failures : Store(F)
    <2>1. PICK F \in SUBSET Rows : log' = log \o Attempt(F)
        BY <1>2, FailuresAre DEF Store
    <2>2. Attempt(F) \in Earlier
        BY DEF Earlier
    <2> QED BY <2>1, <2>2
<1> QED BY <1>1, <1>2 DEF TransportFails

\* Earlier writes are writes.
LEMMA EarlierWrites ==
    ASSUME ListsInv, Asked, NEW w \in Earlier
    PROVE  w \in Seq(Write)
<1>1. <<>> \in Seq(Write)
    OBVIOUS
<1> QED BY <1>1, AttemptIs DEF Earlier

LEMMA ResendInv ==
    ASSUME RecordsInv, Resend
    PROVE  RecordsInv'
<1>1. /\ pc = "Send" /\ pc' = "Send" /\ kind' = kind /\ batch' = batch /\ req' = req
      /\ outcome' = outcome /\ ~resent /\ resent' /\ TransportFails /\ status' = status /\ hints' = hints
    BY DEF Resend
<1>2. ListsInv /\ Asked /\ log = <<>> /\ outcome = "none" /\ status = NoStatus /\ hints = {}
    BY <1>1 DEF RecordsInv, CallInv
<1>3. PICK w \in Earlier : log' = log \o w
    <2>1. log \in Seq(Write)
        BY <1>2
    <2> QED BY <1>1, <1>2, <2>1, TransportFailsAdds
<1>4. w \in Seq(Write)
    BY <1>2, EarlierWrites
<1>5. log' = w
    BY <1>2, <1>3, <1>4
<1>6. Asked' /\ Earlier' = Earlier
    BY <1>1, <1>2, SameCall
<1>7. log' \in Earlier'
    BY <1>5, <1>6
<1>8. ListsInv'
    BY <1>1, <1>2 DEF ListsInv
<1>9. CallInv'
    BY <1>1, <1>2, <1>6, <1>7 DEF CallInv, NoStatus, Status
<1> QED BY <1>1, <1>8, <1>9 DEF RecordsInv

LEMMA GiveUpInv ==
    ASSUME RecordsInv, GiveUp
    PROVE  RecordsInv'
<1>1. /\ pc = "Send" /\ pc' = "Done" /\ kind' = kind /\ batch' = batch /\ req' = req
      /\ outcome' = "transport_error" /\ TransportFails /\ status' = status /\ hints' = hints
    BY DEF GiveUp
<1>2. ListsInv /\ Asked /\ log \in Earlier /\ status = NoStatus /\ hints = {}
    BY <1>1 DEF RecordsInv, CallInv
<1>3. PICK w \in Earlier : log' = log \o w
    BY <1>1, <1>2, EarlierWrites, TransportFailsAdds
<1>4. Asked' /\ Earlier' = Earlier
    BY <1>1, <1>2, SameCall
<1>5. GivenUp'
    BY <1>2, <1>3, <1>4 DEF GivenUp
<1>6. ListsInv'
    BY <1>1, <1>2 DEF ListsInv
<1>7. CallInv'
    BY <1>1, <1>2, <1>4, <1>5 DEF CallInv, NoStatus, Status
<1> QED BY <1>1, <1>6, <1>7 DEF RecordsInv

LEMMA NotOpenInv ==
    ASSUME RecordsInv, NotOpen
    PROVE  RecordsInv'
<1>1. /\ pc = "Send" /\ pc' = "Done" /\ kind' = kind /\ batch' = batch
      /\ outcome' = "client_error" /\ ~resent /\ log' = log
    BY DEF NotOpen
<1>2. ListsInv /\ log = <<>>
    BY <1>1 DEF RecordsInv, CallInv
<1>3. ListsInv'
    BY <1>1, <1>2 DEF ListsInv
<1>4. CallInv'
    BY <1>1, <1>2 DEF CallInv
<1> QED BY <1>1, <1>3, <1>4 DEF RecordsInv

LEMMA ExecuteInv ==
    ASSUME RecordsInv, Execute
    PROVE  RecordsInv'
<1>1. /\ pc = "Send" /\ pc' = "Reply" /\ kind' = kind /\ batch' = batch /\ req' = req /\ outcome' = outcome
    BY DEF Execute
<1>2. ListsInv /\ Asked /\ log \in Earlier /\ outcome = "none"
    BY <1>1 DEF RecordsInv, CallInv
<1>3. PICK F \in SUBSET Rows : log' = log \o Attempt(F) /\ failed' = F /\ status' \in Answers(F)
    BY FailuresAre DEF Execute, Store
<1>4. /\ Asked' /\ Earlier' = Earlier /\ Rows' = Rows
      /\ \A G : (Attempt(G))' = Attempt(G) /\ (Answers(G))' = Answers(G)
    BY <1>1, <1>2, SameCall
<1>5. (Attempt(failed))' = Attempt(F) /\ (Answers(failed))' = Answers(F)
    <2>1. Rows' = Rows
        BY <1>4
    <2>2. (Attempt(failed))' = Attempt(F)
        BY <1>1, <1>3, <2>1 DEF Attempt, Writes
    <2>3. (Answers(failed))' = Answers(F)
        BY <1>1, <1>3, <2>1 DEF Answers, RowStatus
    <2> QED BY <2>2, <2>3
<1>6. Executed'
    <2>1. \E w \in Earlier' : log' = w \o (Attempt(failed))'
        BY <1>2, <1>3, <1>4, <1>5
    <2>2. failed' \in SUBSET Rows' /\ status' \in (Answers(failed))'
        BY <1>3, <1>4, <1>5
    <2> QED BY <2>1, <2>2 DEF Executed
<1>7. ListsInv'
    BY <1>1, <1>2 DEF ListsInv
<1>8. CallInv'
    BY <1>1, <1>2, <1>4, <1>6 DEF CallInv
<1> QED BY <1>1, <1>7, <1>8 DEF RecordsInv

LEMMA AnswerInv ==
    ASSUME RecordsInv, Answer
    PROVE  RecordsInv'
<1>1. /\ pc = "Reply" /\ pc' = "Done" /\ kind' = kind /\ batch' = batch /\ req' = req /\ status' = status
      /\ log' = log /\ failed' = failed /\ hints' = Recommended(HintDevices)
      /\ outcome' = IF CheckStatus(status) THEN "ok" ELSE "server_error"
    BY DEF Answer
<1>2. ListsInv /\ Asked /\ Executed
    BY <1>1 DEF RecordsInv, CallInv
<1>3. /\ Asked' /\ Earlier' = Earlier /\ Rows' = Rows /\ HintDevices' = HintDevices
    BY <1>1, <1>2, SameCall
<1>4. Executed'
    <2>1. (Attempt(failed))' = Attempt(failed)
        BY <1>1, <1>3 DEF Attempt, Writes
    <2>2. (Answers(failed))' = Answers(failed)
        BY <1>1, <1>3 DEF Answers, RowStatus
    <2> QED BY <1>1, <1>2, <1>3, <2>1, <2>2 DEF Executed
<1>5. (Recommended(HintDevices))' = Recommended(HintDevices)
    BY <1>1, <1>3 DEF Recommended
<1>6. ListsInv'
    BY <1>1, <1>2 DEF ListsInv
<1>7. CallInv'
    BY <1>1, <1>3, <1>4, <1>5 DEF CallInv
<1> QED BY <1>1, <1>6, <1>7 DEF RecordsInv

\* What check_status and the hints rest on: the status answered.
LEMMA ExecutedIs ==
    ASSUME ListsInv, Asked, Executed
    PROVE  /\ CheckStatus(status) <=> failed = {}
           /\ Recommended(HintDevices) =
               IF status.subs # NoSubs
               THEN {<<req.devs[i], status.subs[i].node>> :
                       i \in {k \in Rows : status.subs[k].node # NoNode}}
               ELSE IF status.node # NoNode THEN {<<req.devs[1], status.node>>} ELSE {}
<1>1. PICK n \in Nat : n # 0 /\ Rows = 1..n /\ Len(req.devs) = n
    BY RequestIs DEF RequestFits
<1>2. failed \in SUBSET (1..n) /\ Answered(status, failed, n)
    BY <1>1, AnswersAre DEF Executed
<1> QED BY <1>1, <1>2, CheckStatusIs, RecommendedIs

\* An attempt writes no key that one without failures does not write.
LEMMA AttemptKeys ==
    ASSUME ListsInv, Asked, NEW F \in SUBSET Rows
    PROVE  Keys(Attempt(F)) \subseteq Keys(Attempt({}))
<1> DEFINE A == RowsBut(F)
           B == RowsBut({})
<1>1. /\ A \in Seq(Seq(Write)) /\ Attempt(F) = FlattenSeq(A)
      /\ B \in Seq(Seq(Write)) /\ Attempt({}) = FlattenSeq(B)
      /\ Len(A) = Len(B) /\ 1..Len(A) = Rows
      /\ \A i \in Rows : A[i] = <<>> \/ A[i] = B[i]
    BY RowsButAre
<1> HIDE DEF A, B
<1>2. ASSUME NEW k \in Keys(FlattenSeq(A)) PROVE k \in Keys(FlattenSeq(B))
    <2>1. PICK i, j : Spot(A, i, j) /\ A[i][j].key = k
        BY <1>1, FlatKeys
    <2>2. i \in 1..Len(A) /\ j \in 1..Len(A[i])
        BY <2>1 DEF Spot
    <2>3. A[i] # <<>>
        BY <2>2
    <2>4. A[i] = B[i]
        BY <1>1, <2>2, <2>3
    <2>5. Spot(B, i, j) /\ B[i][j].key = k
        BY <1>1, <2>1, <2>2, <2>4 DEF Spot
    <2> QED BY <1>1, <2>5, FlatKeys
<1> QED BY <1>1, <1>2

\* A request without failures leaves what the caller gave.
LEMMA AttemptStores ==
    ASSUME ListsInv, Asked
    PROVE  LastWrite(Attempt({})) = LastWrite(Given)
<1> DEFINE rows == RowOrder(KeptRows)
           m == Len(rows)
           n == Len(batch.devs)
           R == RowsBut({})
           G == [i \in 1..n |-> GivenRow(i)]
           f == [p \in 1..m |-> rows[p]]
<1>1. RowsFit(rows) /\ SameLengths /\ ~ArityMismatch
    BY RequestRows DEF Asked
<1>2. /\ R \in Seq(Seq(Write)) /\ Attempt({}) = FlattenSeq(R) /\ Len(R) = m
      /\ \A p \in 1..m : R[p] = GivenRow(rows[p])
    BY RowsButAre
<1> HIDE DEF rows, R
<1>3. /\ m \in Nat /\ \A p \in 1..m : rows[p] \in 1..n
      /\ \A i \in 1..n : NonNull(batch.vss[i]) # <<>> => \E p \in 1..m : rows[p] = i
      /\ \A p, q \in 1..m : p < q /\ batch.tss[rows[p]] = batch.tss[rows[q]] => rows[p] < rows[q]
    BY <1>1 DEF RowsFit
<1> HIDE DEF m
<1>4. n \in Nat /\ DOMAIN batch.vss = 1..n
    BY <1>1 DEF ListsInv, SameLengths
<1>5. \A i \in 1..n : GivenRow(i) \in Seq(Write) /\ Len(GivenRow(i)) = Len(NonNull(batch.vss[i]))
    BY <1>1, GivenRowIs
<1>6. Given = FlattenSeq(G)
    BY <1>4 DEF Given
<1> DEFINE T == Seq(Write)
<1>7. G \in Seq(T) /\ Len(G) = n
    <2>1. G \in [1..n -> T]
        BY <1>5
    <2> HIDE DEF G, T, n
    <2> QED BY <1>4, <2>1, FunctionIsSeq
<1>8. ASSUME NEW i \in 1..n, NEW a \in 1..Len(GivenRow(i)) PROVE GivenRow(i)[a].key[2] = batch.tss[i]
    <2> DEFINE k == NonNull(batch.vss[i])
    <2>1. GivenRow(i) = [j \in DOMAIN k |-> [key |-> <<batch.devs[i], batch.tss[i], batch.mss[i][k[j]]>>,
                                            val |-> batch.vss[i][k[j]]]]
        BY DEF GivenRow
    <2>2. DOMAIN GivenRow(i) = 1..Len(GivenRow(i))
        BY <1>5
    <2> HIDE DEF k
    <2>3. a \in DOMAIN k
        BY <2>1, <2>2
    <2> QED BY <2>1, <2>3
<1> HIDE DEF n
<1>9. Rearranges(f, R, G)
    <2>1. f \in [1..m -> 1..n] /\ \A p \in 1..m : f[p] = rows[p]
        BY <1>3
    <2>2. \A i \in 1..n : G[i] = GivenRow(i)
        OBVIOUS
    <2> HIDE DEF f, G
    <2>3. ASSUME NEW p \in 1..m PROVE R[p] = G[f[p]]
        <3>1. f[p] = rows[p] /\ f[p] \in 1..n
            BY <2>1
        <3>2. R[p] = GivenRow(rows[p])
            BY <1>2, <1>3
        <3> QED BY <2>2, <3>1, <3>2
    <2>4. ASSUME NEW i \in 1..n, G[i] # <<>> PROVE \E p \in 1..m : f[p] = i
        <3>1. NonNull(batch.vss[i]) # <<>>
            <4>1. GivenRow(i) \in Seq(Write) /\ GivenRow(i) # <<>>
                BY <1>5, <2>2, <2>4
            <4>2. Len(GivenRow(i)) # 0
                BY <4>1
            <4>3. Len(<<>>) = 0
                OBVIOUS
            <4> QED BY <1>5, <4>2, <4>3
        <3> QED BY <1>3, <2>1, <3>1
    <2>5. ASSUME NEW p, NEW a, NEW q, NEW b, Spot(R, p, a), Spot(R, q, b), R[p][a].key = R[q][b].key, p < q
          PROVE  f[p] < f[q]
        <3>1. p \in 1..m /\ q \in 1..m /\ a \in 1..Len(GivenRow(rows[p])) /\ b \in 1..Len(GivenRow(rows[q]))
            BY <1>2, <2>5 DEF Spot
        <3>2. R[p][a].key[2] = batch.tss[rows[p]] /\ R[q][b].key[2] = batch.tss[rows[q]]
            BY <1>2, <1>3, <1>8, <3>1
        <3>3. rows[p] < rows[q]
            BY <1>3, <2>5, <3>1, <3>2
        <3> QED BY <2>1, <3>1, <3>3
    <2> QED BY <1>2, <1>7, <2>1, <2>3, <2>4, <2>5 DEF Rearranges
<1>10. LastWrite(FlattenSeq(R)) = LastWrite(FlattenSeq(G))
    <2> HIDE DEF f, G
    <2> QED BY <1>2, <1>7, <1>9, RearrangedSame DEF T
<1> QED BY <1>2, <1>6, <1>10

-----------------------------------------------------------------------------
(* Records: the theorems *)

\* The invariant of insert_record, insert_records and
\* insert_records_of_one_device: a request is made only of lists of one length,
\* is the caller's rows less their nulls, and all that is written is what
\* attempts at that request write, the last of them the one answered.
THEOREM RecordsInvariant == Spec => []RecordsInv
<1>1. Init => RecordsInv
    <2> SUFFICES ASSUME Init PROVE RecordsInv
        OBVIOUS
    <2> DEFINE M == Seq(STRING)
               V == Seq({Null} \cup Values)
    <2>1. batch = [devs |-> <<>>, tss |-> <<>>, mss |-> <<>>, vss |-> <<>>]
        BY DEF Init, NoRows
    <2> HIDE DEF M, V
    <2>2. <<>> \in Seq(Devices) /\ <<>> \in Seq(Times) /\ <<>> \in Seq(M) /\ <<>> \in Seq(V)
        OBVIOUS
    <2>3. batch \in [devs : Seq(Devices), tss : Seq(Times), mss : Seq(M), vss : Seq(V)]
        BY <2>1, <2>2
    <2>4. ListsInv
        BY <2>3 DEF ListsInv, M, V
    <2>5. SameLengths
        BY <2>1 DEF SameLengths
    <2> QED BY <2>4, <2>5 DEF Init, RecordsInv, CallInv, NoStatus, Status
<1>2. RecordsInv /\ [Next]_vars => RecordsInv'
    <2> SUFFICES ASSUME RecordsInv, [Next]_vars PROVE RecordsInv'
        OBVIOUS
    <2>1. ASSUME NEW d \in Devices, NEW t \in Times, NEW c \in Cells, AddRecord(d, t, c) PROVE RecordsInv'
        BY <2>1, AddRecordInv
    <2>2. ASSUME NEW l \in Lists, Ragged(l) PROVE RecordsInv'
        BY <2>2, RaggedInv
    <2>3. CASE Call
        BY <2>3, CallStepInv
    <2>4. CASE Resend
        BY <2>4, ResendInv
    <2>5. CASE GiveUp
        BY <2>5, GiveUpInv
    <2>6. CASE NotOpen
        BY <2>6, NotOpenInv
    <2>7. CASE Execute
        BY <2>7, ExecuteInv
    <2>8. CASE Answer
        BY <2>8, AnswerInv
    <2>9. CASE UNCHANGED vars
        <3>1. /\ pc' = pc /\ kind' = kind /\ batch' = batch /\ req' = req /\ log' = log /\ failed' = failed
              /\ resent' = resent /\ status' = status /\ hints' = hints /\ outcome' = outcome
            BY <2>9 DEF vars
        <3>2. /\ Asked' = Asked /\ Earlier' = Earlier /\ Rows' = Rows /\ HintDevices' = HintDevices
            BY <3>1, SameCall
        <3>3. Executed' = Executed
            <4>1. (Attempt(failed))' = Attempt(failed)
                BY <3>1, <3>2 DEF Attempt, Writes
            <4>2. (Answers(failed))' = Answers(failed)
                BY <3>1, <3>2 DEF Answers, RowStatus
            <4> QED BY <3>1, <3>2, <4>1, <4>2 DEF Executed
        <3>4. (Recommended(HintDevices))' = Recommended(HintDevices)
            BY <3>1, <3>2 DEF Recommended
        <3>5. LengthMismatch' = LengthMismatch /\ SameLengths' = SameLengths /\ ListsInv' = ListsInv
            BY <3>1 DEF LengthMismatch, Lists, SameLengths, ListsInv
        <3>6. GivenUp' = GivenUp /\ NoStatus' = NoStatus
            BY <3>1, <3>2 DEF GivenUp, NoStatus, Status
        <3>7. CallInv'
            BY <3>1, <3>2, <3>3, <3>4, <3>5, <3>6 DEF RecordsInv, CallInv
        <3> QED BY <3>1, <3>5, <3>7 DEF RecordsInv
    <2> QED BY <2>1, <2>2, <2>3, <2>4, <2>5, <2>6, <2>7, <2>8, <2>9 DEF Next
<1> QED BY <1>1, <1>2, PTL DEF Spec

\* The keys of earlier writes are keys the whole request writes.
LEMMA EarlierKeys ==
    ASSUME ListsInv, Asked, NEW w \in Earlier
    PROVE  Keys(w) \subseteq Keys(Attempt({}))
<1>1. Keys(<<>>) = {}
    BY DEF Keys
<1> QED BY <1>1, AttemptKeys DEF Earlier

\* Whatever was written before, a request without failures leaves what the
\* caller gave.
LEMMA AttemptRepairs ==
    ASSUME ListsInv, Asked, NEW w \in Seq(Write), Keys(w) \subseteq Keys(Attempt({}))
    PROVE  LastWrite(w \o Attempt({})) = LastWrite(Given)
<1>1. {} \in SUBSET Rows
    OBVIOUS
<1>2. Attempt({}) \in Seq(Write) /\ LastWrite(Attempt({})) = LastWrite(Given)
    BY <1>1, AttemptIs, AttemptStores
<1> QED BY <1>2, WrittenAgain

\* An insert that returned Ok was given lists that pair up and left every value
\* the caller passed where the caller put it, the later of two rows for one time
\* winning, whatever was filtered, sorted or sent twice by with_retry; and no
\* other value.
THEOREM InsertsStoreWhatWasGiven == Spec => []StoredAsGiven
<1>1. RecordsInv => StoredAsGiven
    <2> SUFFICES ASSUME RecordsInv, outcome = "ok" PROVE Paired /\ LastWrite(log) = LastWrite(Given)
        BY DEF StoredAsGiven
    <2>1. ListsInv /\ Asked /\ Executed /\ CheckStatus(status)
        BY DEF RecordsInv, CallInv
    <2>2. failed = {}
        BY <2>1, ExecutedIs
    <2>3. PICK w \in Earlier : log = w \o Attempt({})
        BY <2>1, <2>2 DEF Executed
    <2>4. LastWrite(log) = LastWrite(Given)
        BY <2>1, <2>3, EarlierWrites, EarlierKeys, AttemptRepairs
    <2>5. SameLengths /\ ~ArityMismatch /\ Lists \subseteq {"devs", "tss", "mss", "vss"}
        BY <2>1 DEF Asked, RecordsInv, Lists
    <2>6. \A l, k \in Lists : Len(batch[l]) = Len(batch[k])
        BY <2>5 DEF SameLengths
    <2>7. DOMAIN batch.mss = DOMAIN batch.vss
        BY <2>1, <2>5, EqualDomains DEF ListsInv, SameLengths
    <2>8. \A i \in DOMAIN batch.mss : Len(batch.mss[i]) = Len(batch.vss[i])
        BY <2>5, <2>7 DEF ArityMismatch
    <2> QED BY <2>4, <2>6, <2>8 DEF Paired
<1> QED BY <1>1, RecordsInvariant, PTL

\* check_status reports an error only if the server refused a row of the attempt
\* it answered.
THEOREM FailuresAreHonest == Spec => []FailureHonest
<1>1. RecordsInv => FailureHonest
    <2> SUFFICES ASSUME RecordsInv, outcome = "server_error" PROVE failed # {}
        BY DEF FailureHonest
    <2>1. ListsInv /\ Asked /\ Executed /\ ~CheckStatus(status)
        BY DEF RecordsInv, CallInv
    <2> QED BY <2>1, ExecutedIs
<1> QED BY <1>1, RecordsInvariant, PTL

\* Whatever the attempts of a failed insert stored, by a refusal or behind a
\* transport error that with_retry returned, the same insert made again and
\* carried out leaves exactly the values given.
THEOREM FailuresAreRepairable == Spec => []FailureRepairable
<1>1. RecordsInv => FailureRepairable
    <2> SUFFICES ASSUME RecordsInv, outcome \in {"server_error", "transport_error"}
                 PROVE  LastWrite(log \o Attempt({})) = LastWrite(Given)
        BY DEF FailureRepairable
    <2>1. ListsInv /\ Asked /\ \E v, w \in Earlier : log = v \o w
        <3>1. CASE outcome = "server_error"
            <4>1. ListsInv /\ Asked /\ Executed
                BY <3>1 DEF RecordsInv, CallInv
            <4>2. Attempt(failed) \in Earlier
                BY <4>1 DEF Executed, Earlier
            <4> QED BY <4>1, <4>2 DEF Executed
        <3>2. CASE outcome = "transport_error"
            BY <3>2 DEF RecordsInv, CallInv, GivenUp
        <3> QED BY <3>1, <3>2
    <2>2. PICK v \in Earlier, w \in Earlier : log = v \o w
        BY <2>1
    <2>3. /\ v \in Seq(Write) /\ Keys(v) \subseteq Keys(Attempt({}))
          /\ w \in Seq(Write) /\ Keys(w) \subseteq Keys(Attempt({}))
        BY <2>1, EarlierWrites, EarlierKeys
    <2>4. log \in Seq(Write)
        BY <2>2, <2>3
    <2>5. Keys(log) \subseteq Keys(Attempt({}))
        BY <2>2, <2>3, ConcatWrites
    <2> QED BY <2>1, <2>4, <2>5, AttemptRepairs
<1> QED BY <1>1, RecordsInvariant, PTL

\* A request never carries a null cell, a row without values or, for one
\* device, rows out of order: what filter_null_cells, serialize_record_values
\* and sort_one_device_rows are for.
THEOREM RequestsAreReadable == Spec => []ServerReadable
<1>1. RecordsInv => ServerReadable
    <2> SUFFICES ASSUME RecordsInv, pc = "Send"
                 PROVE  /\ \A i \in Rows : Readable(i) /\ req.mss[i] # <<>>
                        /\ kind = "one_device" => Ascending(req.tss)
        BY DEF ServerReadable
    <2> DEFINE rows == RowOrder(KeptRows)
    <2>1. ListsInv /\ Asked
        BY DEF RecordsInv, CallInv
    <2>2. RequestFits(rows) /\ RowsFit(rows)
        BY <2>1, RequestIs, RequestRows DEF Asked
    <2> HIDE DEF rows
    <2>3. \A i \in Rows : Readable(i) /\ req.mss[i] # <<>>
        BY <2>2 DEF RequestFits
    <2>4. ASSUME kind = "one_device" PROVE Ascending(req.tss)
        <3>1. /\ DOMAIN req.tss = 1..Len(rows)
              /\ \A p \in 1..Len(rows) : req.tss[p] = batch.tss[rows[p]]
            BY <2>2 DEF RequestFits
        <3>2. \A p, q \in 1..Len(rows) : p < q => batch.tss[rows[p]] <= batch.tss[rows[q]]
            BY <2>2, <2>4 DEF RowsFit
        <3> QED BY <3>1, <3>2 DEF Ascending
    <2> QED BY <2>3, <2>4
<1> QED BY <1>1, RecordsInvariant, PTL

\* check_insert_status records a hint for a device exactly if the server
\* recommended a node for a row of that device, although rows were dropped and
\* sorted on the way.
THEOREM HintsAreExact == Spec => []HintsExact
<1>1. RecordsInv => HintsExact
    <2> SUFFICES ASSUME RecordsInv, pc = "Done", outcome # "client_error"
                 PROVE  hints = IF status.subs # NoSubs
                                THEN {<<req.devs[i], status.subs[i].node>> :
                                        i \in {k \in Rows : status.subs[k].node # NoNode}}
                                ELSE IF status.node # NoNode THEN {<<req.devs[1], status.node>>} ELSE {}
        BY DEF HintsExact
    <2>1. CASE ListsInv /\ Asked /\ Executed /\ hints = Recommended(HintDevices)
        BY <2>1, ExecutedIs
    <2>2. CASE status = NoStatus /\ hints = {}
        BY <2>2 DEF NoStatus, Status
    <2> QED BY <2>1, <2>2 DEF RecordsInv, CallInv
<1> QED BY <1>1, RecordsInvariant, PTL

-----------------------------------------------------------------------------
(* Tablets: null entries *)

\* The byte and the bit of a row.
LEMMA Eights ==
    ASSUME NEW j \in Nat
    PROVE  j = 8 * (j \div 8) + (j % 8)
OBVIOUS

LEMMA EighthsAre ==
    ASSUME NEW n \in Nat, NEW i \in 1..n
    PROVE  /\ n \div 8 \in Nat /\ (n + 7) \div 8 \in Nat
           /\ (i - 1) \div 8 \in Nat /\ (i - 1) % 8 \in 0..7
           /\ i - 1 = 8 * ((i - 1) \div 8) + ((i - 1) % 8)
           /\ (i - 1) \div 8 + 1 \in 1..((n + 7) \div 8) /\ (i - 1) \div 8 + 1 \in 1..(n \div 8 + 1)
<1>1. PICK j \in Nat : j = i - 1 /\ j < n
    OBVIOUS
<1>2. /\ n \div 8 \in Nat /\ (n + 7) \div 8 \in Nat /\ j \div 8 \in Nat /\ j % 8 \in 0..7
      /\ j = 8 * (j \div 8) + (j % 8)
    <2>1. n \div 8 \in Nat
        OBVIOUS
    <2>2. (n + 7) \div 8 \in Nat
        OBVIOUS
    <2>3. j \div 8 \in Nat
        OBVIOUS
    <2>4. j % 8 \in 0..7
        OBVIOUS
    <2>5. j = 8 * (j \div 8) + (j % 8)
        BY Eights
    <2> QED BY <2>1, <2>2, <2>3, <2>4, <2>5, Zenon
<1>3. j \div 8 <= n \div 8
    BY <1>1
<1>4. j \div 8 + 1 <= (n + 7) \div 8
    BY <1>1
<1>5. j \div 8 + 1 \in 1..((n + 7) \div 8) /\ j \div 8 + 1 \in 1..(n \div 8 + 1)
    <2>1. PICK b \in Nat, d \in Nat, e \in Nat : b = j \div 8 /\ d = (n + 7) \div 8 /\ e = n \div 8
        BY <1>2
    <2>2. b <= e /\ b + 1 <= d
        BY <1>3, <1>4, <2>1
    <2>3. b + 1 \in 1..d /\ b + 1 \in 1..(e + 1)
        BY <2>2
    <2> QED BY <2>1, <2>3, Zenon
<1> QED BY <1>1, <1>2, <1>5, Zenon

\* A null entry says which cells are null, in bytes of eight.
HasNull(cells) == \E i \in 1..Len(cells) : cells[i] = NoCell
EntryFits(entry, cells) ==
    /\ entry \in Seq(SUBSET (0..7))
    /\ IF HasNull(cells)
       THEN /\ Len(entry) = Len(cells) \div 8 + 2 /\ entry[1] # {}
            /\ \A i \in 1..Len(cells) : (i - 1) % 8 \in entry[2 + (i - 1) \div 8] <=> cells[i] = NoCell
       ELSE Len(entry) = 1 /\ entry[1] = {}

LEMMA NullEntryIs ==
    ASSUME NEW S, NEW cells \in Seq(S)
    PROVE  EntryFits(NullEntry(cells), cells)
<1> DEFINE n == Len(cells)
           nulls == [i \in DOMAIN cells |-> cells[i] = NoCell]
           packed == PackBitsLsbFirst(nulls)
           bitmap == [b \in 1..(Len(cells) \div 8 + 1) |-> IF b \in DOMAIN packed THEN packed[b] ELSE {}]
           entry == NullEntry(cells)
<1>0. n \in Nat /\ DOMAIN cells = 1..n
    OBVIOUS
<1>1. Len(nulls) = n /\ \A i \in 1..n : nulls[i] <=> cells[i] = NoCell
    <2>1. nulls \in [1..n -> BOOLEAN]
        BY <1>0
    <2>2. \A i \in 1..n : nulls[i] <=> cells[i] = NoCell
        BY <1>0
    <2> HIDE DEF nulls
    <2> QED BY <1>0, <2>1, <2>2, FunctionIsSeq
<1>2. TRUE \in Range(nulls) <=> HasNull(cells)
    <2>1. Range(nulls) = {nulls[i] : i \in 1..n}
        BY <1>0 DEF Range
    <2>2. TRUE \in Range(nulls) <=> \E i \in 1..n : nulls[i] = TRUE
        <3> HIDE DEF nulls
        <3> QED BY <2>1
    <2>3. \A i \in 1..n : nulls[i] = TRUE <=> cells[i] = NoCell
        BY <1>0
    <2> QED BY <2>2, <2>3 DEF HasNull
<1>3. entry = IF TRUE \in Range(nulls) THEN <<{0}>> \o bitmap ELSE <<{}>>
    BY Zenon DEF NullEntry
<1>4. packed = [b \in 1..((n + 7) \div 8) |->
                  {k \in 0..7 : 8 * (b - 1) + k < n /\ nulls[8 * (b - 1) + k + 1]}]
    BY <1>1 DEF PackBitsLsbFirst
<1> HIDE DEF n, nulls, packed, entry
<1>5. bitmap \in [1..(n \div 8 + 1) -> SUBSET (0..7)] /\ n \div 8 + 1 \in Nat
    <2>1. \A b \in DOMAIN packed : packed[b] \in SUBSET (0..7)
        BY <1>4
    <2>2. n \div 8 + 1 \in Nat
        BY <1>0
    <2> QED BY <2>1, <2>2 DEF n
<1>6. ASSUME NEW i \in 1..n
      PROVE  /\ (i - 1) \div 8 + 1 \in 1..(n \div 8 + 1)
             /\ (i - 1) % 8 \in bitmap[(i - 1) \div 8 + 1] <=> cells[i] = NoCell
    <2> DEFINE b == (i - 1) \div 8 + 1
               k == (i - 1) % 8
    <2>1. /\ k \in 0..7 /\ b \in 1..((n + 7) \div 8) /\ b \in 1..(n \div 8 + 1)
          /\ i - 1 = 8 * ((i - 1) \div 8) + k /\ (i - 1) \div 8 \in Nat
        BY <1>0, EighthsAre
    <2>2. 8 * (b - 1) + k = i - 1
        BY <2>1
    <2> HIDE DEF b, k
    <2>3. packed[b] = {x \in 0..7 : 8 * (b - 1) + x < n /\ nulls[8 * (b - 1) + x + 1]} /\ b \in DOMAIN packed
        BY <1>4, <2>1
    <2>4. 8 * (b - 1) + k < n /\ 8 * (b - 1) + k + 1 = i
        BY <1>0, <2>2
    <2>5. k \in packed[b] <=> nulls[i]
        BY <2>1, <2>3, <2>4
    <2>6. bitmap[b] = packed[b]
        BY <2>1, <2>3 DEF n
    <2> HIDE DEF bitmap
    <2> QED BY <1>1, <2>1, <2>5, <2>6 DEF b, k
<1> HIDE DEF bitmap
<1>7. bitmap \in Seq(SUBSET (0..7)) /\ Len(bitmap) = n \div 8 + 1
    BY <1>5, FunctionIsSeq
<1>8. CASE HasNull(cells)
    <2> DEFINE Q == SUBSET (0..7)
    <2>1. entry = <<{0}>> \o bitmap
        BY <1>2, <1>3, <1>8
    <2>2. <<{0}>> \in Seq(Q) /\ Len(<<{0}>>) = 1 /\ <<{0}>>[1] = {0}
        <3>1. {0} \in Q
            OBVIOUS
        <3> HIDE DEF Q
        <3> QED BY <3>1
    <2>3. PICK l \in Nat : l = n \div 8 + 1
        BY <1>5
    <2> HIDE DEF Q
    <2>4. bitmap \in Seq(Q) /\ Len(bitmap) = l
        BY <1>7, <2>3 DEF Q
    <2>5. entry \in Seq(Q) /\ Len(entry) = 1 + l /\ entry[1] = {0} /\ \A b \in 1..l : entry[1 + b] = bitmap[b]
        BY <2>1, <2>2, <2>4
    <2>6. ASSUME NEW i \in 1..n PROVE (i - 1) % 8 \in entry[2 + (i - 1) \div 8] <=> cells[i] = NoCell
        <3>1. PICK b \in 1..l : b = (i - 1) \div 8 + 1
            BY <1>6, <2>3
        <3>2. 2 + (i - 1) \div 8 = 1 + b
            <4>1. (i - 1) \div 8 \in Nat
                BY <1>0, EighthsAre
            <4> QED BY <3>1, <4>1
        <3> QED BY <1>6, <2>5, <3>1, <3>2
    <2>7. Len(entry) = n \div 8 + 2 /\ entry[1] # {}
        <3>1. n \div 8 \in Nat
            BY <1>0
        <3>2. 1 + l = n \div 8 + 2
            BY <2>3, <3>1
        <3> QED BY <2>5, <3>2
    <2> QED BY <1>8, <2>5, <2>6, <2>7 DEF EntryFits, Q, n, entry
<1>9. CASE ~HasNull(cells)
    <2> DEFINE Q == SUBSET (0..7)
    <2>1. entry = <<{}>>
        BY <1>2, <1>3, <1>9
    <2>2. {} \in Q
        OBVIOUS
    <2> HIDE DEF Q
    <2>3. entry \in Seq(Q) /\ Len(entry) = 1 /\ entry[1] = {}
        BY <2>1, <2>2
    <2> QED BY <1>9, <2>3 DEF EntryFits, Q, entry
<1> QED BY <1>8, <1>9

-----------------------------------------------------------------------------
(* Tablets: the request *)

\* Sequences of one length lie side by side.
LEMMA EqualLengths ==
    ASSUME NEW S, NEW seqs \in Seq(Seq(S)), NEW n \in Nat, \A c \in 1..Len(seqs) : Len(seqs[c]) = n
    PROVE  \A c \in 0..Len(seqs) : Offset(seqs, c) = c * n
<1> DEFINE Good == {c \in Nat : c <= Len(seqs) => Offset(seqs, c) = c * n}
<1>0. PICK m \in Nat : m = Len(seqs)
    OBVIOUS
<1>1. 0 \in Good
    <2>1. Offset(seqs, 0) = 0
        BY FlattenSeqOffsets
    <2> QED BY <2>1
<1>2. ASSUME NEW c \in Nat, c \in Good PROVE c + 1 \in Good
    <2> SUFFICES ASSUME c + 1 <= m PROVE Offset(seqs, c + 1) = (c + 1) * n
        BY <1>0
    <2>1. c + 1 \in 1..Len(seqs) /\ (c + 1) - 1 = c
        BY <1>0
    <2>2. Offset(seqs, c + 1) = Offset(seqs, c) + Len(seqs[c + 1])
        BY <2>1, FlattenSeqOffsets
    <2>3. Offset(seqs, c) = c * n
        BY <1>0, <1>2
    <2>4. (c + 1) * n = c * n + n
        OBVIOUS
    <2> QED BY <2>1, <2>2, <2>3, <2>4
<1>3. Nat \subseteq Good
    <2> HIDE DEF Good
    <2> QED BY <1>1, <1>2, SetInduction
<1> QED BY <1>0, <1>3

LEMMA ColumnsAre == Columns = 1..Len(Types) /\ Len(Types) \in Nat
BY TabletAssumption DEF Columns

\* A tablet of n rows, column by column.
Shaped(t, n) ==
    /\ n \in Nat /\ Len(t.timestamps) = n /\ DOMAIN t.timestamps = 1..n
    /\ \A i \in 1..n : t.timestamps[i] \in Timestamps
    /\ \A c \in Columns :
         /\ t.values[c] \in Seq({NoCell} \cup CallerCells) /\ Len(t.values[c]) = n
         /\ DOMAIN t.values[c] = 1..n /\ \A i \in 1..n : t.values[c][i] \in Cell(c)

LEMMA TabletShape ==
    ASSUME NEW t \in Tablets
    PROVE  \E n \in Nat : n = RowCount(t) /\ Shaped(t, n)
<1>1. /\ t.timestamps \in Seq(Timestamps)
      /\ \A c \in Columns : /\ t.values[c] \in Seq({NoCell} \cup CallerCells)
                            /\ Len(t.values[c]) = Len(t.timestamps) /\ Range(t.values[c]) \subseteq Cell(c)
    BY DEF Tablets
<1>2. PICK n \in Nat : n = Len(t.timestamps) /\ DOMAIN t.timestamps = 1..n
    BY <1>1
<1>3. \A i \in 1..n : t.timestamps[i] \in Timestamps
    BY <1>1, <1>2
<1>4. ASSUME NEW c \in Columns
      PROVE  /\ t.values[c] \in Seq({NoCell} \cup CallerCells) /\ Len(t.values[c]) = n
             /\ DOMAIN t.values[c] = 1..n /\ \A i \in 1..n : t.values[c][i] \in Cell(c)
    <2>1. DOMAIN t.values[c] = 1..n
        BY <1>1, <1>2
    <2>2. \A i \in 1..n : t.values[c][i] \in Range(t.values[c])
        BY <2>1 DEF Range
    <2> QED BY <1>1, <1>2, <2>1, <2>2
<1> QED BY <1>2, <1>3, <1>4 DEF Shaped, RowCount

\* And back.
LEMMA ShapeTablet ==
    ASSUME NEW m \in Models, NEW ts, NEW vs, NEW n,
           Shaped([model |-> m, timestamps |-> ts, values |-> vs], n),
           ts = [i \in 1..n |-> ts[i]], vs = [c \in Columns |-> vs[c]]
    PROVE  [model |-> m, timestamps |-> ts, values |-> vs] \in Tablets
<1>1. /\ n \in Nat /\ Len(ts) = n /\ \A i \in 1..n : ts[i] \in Timestamps
      /\ \A c \in Columns :
           /\ vs[c] \in Seq({NoCell} \cup CallerCells) /\ Len(vs[c]) = n
           /\ DOMAIN vs[c] = 1..n /\ \A i \in 1..n : vs[c][i] \in Cell(c)
    BY DEF Shaped
<1>2. ts \in [1..n -> Timestamps]
    BY <1>1
<1>3. ts \in Seq(Timestamps)
    BY <1>1, <1>2, FunctionIsSeq
<1>4. vs \in [Columns -> Seq({NoCell} \cup CallerCells)]
    BY <1>1
<1>5. \A c \in Columns : Len(vs[c]) = Len(ts) /\ Range(vs[c]) \subseteq Cell(c)
    BY <1>1 DEF Range
<1> QED BY <1>3, <1>4, <1>5 DEF Tablets

\* Sorting moves whole rows: `f` says where each row of s was in t.
Moved(s, t, f, n) ==
    /\ s.model = t.model /\ f \in [1..n -> 1..n]
    /\ \A i \in 1..n : \E p \in 1..n : f[p] = i
    /\ \A p, q \in 1..n :
         p < q => \/ t.timestamps[f[p]] < t.timestamps[f[q]]
                  \/ t.timestamps[f[p]] = t.timestamps[f[q]] /\ f[p] < f[q]
    /\ \A p \in 1..n : /\ s.timestamps[p] = t.timestamps[f[p]]
                       /\ \A c \in Columns : s.values[c][p] = t.values[c][f[p]]

LEMMA SortedMoves ==
    ASSUME NEW t \in Tablets, NEW n \in Nat, n = RowCount(t)
    PROVE  Shaped(Sorted(t), n) /\ Moved(Sorted(t), t, StableOrder(t.timestamps), n) /\ Sorted(t) \in Tablets
<1> DEFINE f == StableOrder(t.timestamps)
           ts == Reordered(t.timestamps, f)
           vs == [c \in Columns |-> Reordered(t.values[c], f)]
           s == [model |-> t.model, timestamps |-> ts, values |-> vs]
<1>1. Shaped(t, n)
    BY TabletShape
<1>2. t.timestamps \in Seq(Int) /\ Len(t.timestamps) = n
    <2>1. t.timestamps \in Seq(Timestamps)
        BY DEF Tablets
    <2>2. t.timestamps = [i \in 1..n |-> t.timestamps[i]] /\ \A i \in 1..n : t.timestamps[i] \in Int
        <3>1. DOMAIN t.timestamps = 1..n /\ \A i \in 1..n : t.timestamps[i] \in Timestamps
            BY <1>1 DEF Shaped
        <3>2. \A i \in 1..n : t.timestamps[i] \in Int
            BY <3>1, TabletAssumption
        <3>3. t.timestamps = [i \in DOMAIN t.timestamps |-> t.timestamps[i]]
            BY <2>1
        <3> QED BY <3>1, <3>2, <3>3
    <2>3. t.timestamps \in [1..n -> Int]
        BY <2>2
    <2> QED BY <2>3, FunctionIsSeq
<1>3. /\ f \in [1..n -> 1..n]
      /\ \A i \in 1..n : \E p \in 1..n : f[p] = i
      /\ \A p, q \in 1..n :
           p < q => \/ t.timestamps[f[p]] < t.timestamps[f[q]]
                    \/ t.timestamps[f[p]] = t.timestamps[f[q]] /\ f[p] < f[q]
    <2>1. Sorts(f, t.timestamps)
        BY <1>2, StableOrderIs
    <2> HIDE DEF f
    <2> QED BY <1>2, <2>1 DEF Sorts
<1>4. Sorted(t) = s
    <2>1. t = [model |-> t.model, timestamps |-> t.timestamps, values |-> t.values] /\ t.model \in Models
        BY DEF Tablets
    <2>2. Sorted(t) = [t EXCEPT !.timestamps = ts, !.values = vs]
        BY DEF Sorted
    <2> HIDE DEF ts, vs, f
    <2> QED BY <2>1, <2>2
<1> HIDE DEF f
<1>5. /\ ts = [p \in 1..n |-> ts[p]] /\ \A p \in 1..n : ts[p] = t.timestamps[f[p]]
      /\ vs = [c \in Columns |-> vs[c]]
    BY <1>3 DEF Reordered
<1>6. \A c \in Columns : vs[c] = [p \in 1..n |-> t.values[c][f[p]]]
    BY <1>3 DEF Reordered
<1> HIDE DEF ts, vs
<1>7. \A p \in 1..n : ts[p] \in Timestamps
    BY <1>1, <1>3, <1>5 DEF Shaped
<1>8. Len(ts) = n /\ DOMAIN ts = 1..n
    <2>1. ts \in [1..n -> Timestamps]
        BY <1>5, <1>7
    <2> QED BY <2>1, FunctionIsSeq
<1>9. ASSUME NEW c \in Columns
      PROVE  /\ vs[c] \in Seq({NoCell} \cup CallerCells) /\ Len(vs[c]) = n
             /\ DOMAIN vs[c] = 1..n /\ \A p \in 1..n : vs[c][p] \in Cell(c) /\ vs[c][p] = t.values[c][f[p]]
    <2>1. \A p \in 1..n : vs[c][p] = t.values[c][f[p]] /\ f[p] \in 1..n
        <3>1. vs[c] = [p \in 1..n |-> t.values[c][f[p]]]
            BY <1>6
        <3>2. \A p \in 1..n : f[p] \in 1..n
            BY <1>3
        <3>3. \A p \in 1..n : vs[c][p] = t.values[c][f[p]]
            BY <3>1, Zenon
        <3> QED BY <3>2, <3>3
    <2>2. \A i \in 1..n : t.values[c][i] \in Cell(c)
        BY <1>1 DEF Shaped
    <2>3. Cell(c) \subseteq {NoCell} \cup CallerCells
        BY DEF Cell
    <2>4. vs[c] \in [1..n -> {NoCell} \cup CallerCells]
        BY <1>6, <2>1, <2>2, <2>3
    <2> QED BY <2>1, <2>2, <2>4, FunctionIsSeq
<1>10. s.model = t.model /\ s.timestamps = ts /\ s.values = vs
    OBVIOUS
<1>11. Shaped(s, n)
    <2> HIDE DEF s
    <2> QED BY <1>7, <1>8, <1>9, <1>10 DEF Shaped
<1>12. Moved(s, t, f, n)
    <2>1. \A p \in 1..n : /\ s.timestamps[p] = t.timestamps[f[p]]
                          /\ \A c \in Columns : s.values[c][p] = t.values[c][f[p]]
        <3> HIDE DEF s
        <3> QED BY <1>5, <1>9, <1>10
    <2> HIDE DEF s
    <2> QED BY <1>3, <1>10, <2>1 DEF Moved
<1>13. s \in Tablets
    <2>1. t.model \in Models
        BY DEF Tablets
    <2> QED BY <1>5, <1>11, <2>1, ShapeTablet
<1> HIDE DEF s
<1> QED BY <1>4, <1>11, <1>12, <1>13 DEF f

\* A request as it is made from a sorted tablet, part by part.
Entries(s) == [c \in Columns |-> NullEntry(s.values[c])]
CellsOf(s) == [c \in Columns |-> [i \in DOMAIN s.values[c] |-> WriteCell(Types[c], s.values[c][i])]]
Bytes == SUBSET (0..7)
Tokens == {NoCell, Placeholder} \cup CallerCells

LEMMA EntriesAre ==
    ASSUME NEW s, NEW n, Shaped(s, n)
    PROVE  /\ Entries(s) \in Seq(Seq(Bytes)) /\ Len(Entries(s)) = Len(Types)
           /\ \A c \in Columns : EntryFits(Entries(s)[c], s.values[c])
<1>1. ASSUME NEW c \in Columns PROVE EntryFits(NullEntry(s.values[c]), s.values[c])
    <2>1. s.values[c] \in Seq({NoCell} \cup CallerCells)
        BY DEF Shaped
    <2> QED BY <2>1, NullEntryIs
<1>2. \A c \in Columns : Entries(s)[c] = NullEntry(s.values[c])
    BY DEF Entries
<1>3. \A c \in Columns : NullEntry(s.values[c]) \in Seq(Bytes)
    BY <1>1 DEF EntryFits, Bytes
<1>4. Entries(s) \in [1..Len(Types) -> Seq(Bytes)]
    BY <1>3, ColumnsAre DEF Entries
<1> QED BY <1>1, <1>2, <1>4, ColumnsAre, FunctionIsSeq

LEMMA CellsAre ==
    ASSUME NEW s, NEW n, Shaped(s, n)
    PROVE  /\ CellsOf(s) \in Seq(Seq(Tokens)) /\ Len(CellsOf(s)) = Len(Types)
           /\ \A c \in Columns :
                /\ Len(CellsOf(s)[c]) = n
                /\ \A i \in 1..n : CellsOf(s)[c][i] = WriteCell(Types[c], s.values[c][i])
<1>1. ASSUME NEW c \in Columns
      PROVE  /\ CellsOf(s)[c] \in Seq(Tokens) /\ Len(CellsOf(s)[c]) = n
             /\ \A i \in 1..n : CellsOf(s)[c][i] = WriteCell(Types[c], s.values[c][i])
    <2>1. CellsOf(s)[c] = [i \in 1..n |-> WriteCell(Types[c], s.values[c][i])] /\ n \in Nat
        BY DEF CellsOf, Shaped
    <2>2. \A i \in 1..n : s.values[c][i] \in {NoCell} \cup CallerCells
        BY DEF Shaped, Cell
    <2>3. \A i \in 1..n : WriteCell(Types[c], s.values[c][i]) \in Tokens
        BY <2>2 DEF WriteCell, Tokens
    <2>4. CellsOf(s)[c] \in [1..n -> Tokens]
        BY <2>1, <2>3
    <2> QED BY <2>1, <2>4, FunctionIsSeq
<1>2. CellsOf(s) \in [1..Len(Types) -> Seq(Tokens)]
    <2>1. CellsOf(s) = [c \in Columns |-> CellsOf(s)[c]]
        BY DEF CellsOf
    <2> QED BY <1>1, <2>1, ColumnsAre
<1> QED BY <1>1, <1>2, ColumnsAre, FunctionIsSeq

-----------------------------------------------------------------------------
(* Tablets: what the server reads *)

\* The request made from a sorted tablet.
Asks(r, s, n) ==
    /\ Shaped(s, n) /\ r.size = n /\ r.model = s.model /\ r.timestamps = s.timestamps
    /\ r.nulls = FlattenSeq(Entries(s)) /\ r.cells = FlattenSeq(CellsOf(s))

LEMMA SerializedAsks ==
    ASSUME NEW t \in Tablets, NEW n \in Nat, n = RowCount(t)
    PROVE  Asks(Serialized(t), Sorted(t), n)
<1> DEFINE s == Sorted(t)
<1>1. Shaped(s, n) /\ s.model = t.model
    BY SortedMoves DEF Moved
<1>2. Serialized(t) = [model |-> t.model, size |-> n, timestamps |-> s.timestamps,
                       cells |-> FlattenSeq(CellsOf(s)), nulls |-> FlattenSeq(Entries(s))]
    BY DEF Serialized, CellsOf, Entries
<1> HIDE DEF s
<1> QED BY <1>1, <1>2 DEF Asks, s

\* Where the null entry of column c begins.
Begin(s, c) == Offset(Entries(s), c - 1) + 1

\* An entry's first byte tells whether it has a bitmap, and so where the next
\* one begins.
LEMMA FlagIs ==
    ASSUME NEW r, NEW s, NEW n, Asks(r, s, n), NEW c \in Columns
    PROVE  /\ Begin(s, c) \in Nat /\ Begin(s, c + 1) \in Nat
           /\ Flagged(r, Begin(s, c)) <=> HasNull(s.values[c])
           /\ Begin(s, c + 1) = Begin(s, c) + 1 + (IF Flagged(r, Begin(s, c)) THEN n \div 8 + 1 ELSE 0)
<1> DEFINE es == Entries(s)
<1>1. Shaped(s, n) /\ n \in Nat /\ r.nulls = FlattenSeq(es)
    BY DEF Asks, Shaped
<1>2. es \in Seq(Seq(Bytes)) /\ Len(es) = Len(Types) /\ EntryFits(es[c], s.values[c]) /\ Len(s.values[c]) = n
    BY <1>1, EntriesAre DEF Shaped
<1>3. c \in 1..Len(es) /\ c \in Nat
    BY <1>2, ColumnsAre
<1> HIDE DEF es
<1>4. PICK l \in Nat : l = n \div 8
    BY <1>1
<1>5. es[c][1] # {} <=> HasNull(s.values[c])
    BY <1>2 DEF EntryFits
<1>6. Len(es[c]) = 1 + (IF HasNull(s.values[c]) THEN l + 1 ELSE 0) /\ 1 <= Len(es[c]) /\ Len(es[c]) \in Nat
    <2>1. IF HasNull(s.values[c]) THEN Len(es[c]) = Len(s.values[c]) \div 8 + 2 ELSE Len(es[c]) = 1
        BY <1>2, Zenon DEF EntryFits
    <2>2. IF HasNull(s.values[c]) THEN Len(es[c]) = l + 2 ELSE Len(es[c]) = 1
        BY <1>2, <1>4, <2>1, Zenon
    <2>3. l + 2 = 1 + (l + 1) /\ 1 <= l + 2 /\ l + 2 \in Nat /\ 1 = 1 + 0 /\ 1 <= 1 /\ 1 \in Nat
        OBVIOUS
    <2> QED BY <2>2, <2>3, Zenon
<1>7. Spot(es, c, 1)
    BY <1>3, <1>6 DEF Spot
<1>8. /\ Offset(es, c - 1) \in Nat /\ Offset(es, c - 1) + 1 \in 1..Len(r.nulls)
      /\ r.nulls[Offset(es, c - 1) + 1] = es[c][1]
    BY <1>1, <1>2, <1>7, CellPlace
<1>9. Flagged(r, Begin(s, c)) <=> HasNull(s.values[c])
    <2>1. r.nulls \in Seq(Bytes)
        BY <1>1, <1>2, FlattenSeqType
    <2>2. DOMAIN r.nulls = 1..Len(r.nulls)
        BY <2>1
    <2> QED BY <1>5, <1>8, <2>2 DEF Flagged, Begin, es
<1>10. Offset(es, c) = Offset(es, c - 1) + Len(es[c]) /\ Offset(es, c) \in Nat /\ (c + 1) - 1 = c
    BY <1>2, <1>3, FlattenSeqOffsets
<1>11. Begin(s, c) = Offset(es, c - 1) + 1 /\ Begin(s, c + 1) = Offset(es, c) + 1
    BY <1>10 DEF Begin, es
<1>12. PICK a \in Nat, b \in Nat : a = Offset(es, c - 1) /\ b = Offset(es, c)
    BY <1>8, <1>10
<1>13. b + 1 = (a + 1) + 1 + (IF HasNull(s.values[c]) THEN l + 1 ELSE 0)
    BY <1>6, <1>10, <1>12
<1>14. a + 1 \in Nat /\ b + 1 \in Nat
    OBVIOUS
<1> QED BY <1>4, <1>9, <1>11, <1>12, <1>13, <1>14, Zenon

\* The server finds every entry where the client put it.
LEMMA StartsIs ==
    ASSUME NEW r, NEW s, NEW n, Asks(r, s, n)
    PROVE  \A c \in 1..(Len(Types) + 1) : Starts(r)[c] = Begin(s, c)
<1> DEFINE m == Len(Types)
           Step(f) == [c \in 1..(Len(Types) + 1) |->
                         IF c = 1 THEN 1
                         ELSE f[c - 1] + 1 + (IF Flagged(r, f[c - 1]) THEN r.size \div 8 + 1 ELSE 0)]
           g == [c \in 1..(Len(Types) + 1) |-> Begin(s, c)]
           F == CHOOSE f : f = Step(f)
<1>0. m \in Nat /\ Columns = 1..m /\ r.size = n
    BY ColumnsAre DEF Asks
<1>1. Starts(r) = F
    BY DEF Starts
<1>2. Begin(s, 1) = 1
    <2>1. Entries(s) \in Seq(Seq(Bytes))
        BY EntriesAre DEF Asks
    <2>2. Offset(Entries(s), 0) = 0
        BY <2>1, FlattenSeqOffsets
    <2> QED BY <2>2 DEF Begin
<1>3. ASSUME NEW c \in 1..m
      PROVE  Begin(s, c + 1) = Begin(s, c) + 1 + (IF Flagged(r, Begin(s, c)) THEN r.size \div 8 + 1 ELSE 0)
    BY <1>0, FlagIs
<1>4. g = Step(g)
    <2>1. ASSUME NEW c \in 1..(m + 1) PROVE g[c] = Step(g)[c]
        <3>1. CASE c = 1
            BY <1>2, <3>1
        <3>2. CASE c # 1
            <4>1. c - 1 \in 1..m /\ (c - 1) + 1 = c /\ c - 1 \in 1..(m + 1)
                BY <1>0, <3>2
            <4>2. Begin(s, c) = Begin(s, c - 1) + 1 + (IF Flagged(r, Begin(s, c - 1)) THEN r.size \div 8 + 1 ELSE 0)
                BY <1>3, <4>1
            <4>3. g[c] = Begin(s, c) /\ g[c - 1] = Begin(s, c - 1)
                BY <4>1
            <4>4. Step(g)[c] = g[c - 1] + 1 + (IF Flagged(r, g[c - 1]) THEN r.size \div 8 + 1 ELSE 0)
                <5> HIDE DEF g
                <5> QED BY <3>2
            <4> HIDE DEF g, Step
            <4> QED BY <4>2, <4>3, <4>4
        <3> QED BY <3>1, <3>2
    <2>2. Step(g) = [c \in 1..(m + 1) |-> Step(g)[c]]
        OBVIOUS
    <2>3. g = [c \in 1..(m + 1) |-> g[c]]
        OBVIOUS
    <2> HIDE DEF Step, g
    <2> QED BY <2>1, <2>2, <2>3
<1>5. F = Step(F)
    <2> HIDE DEF Step, g
    <2> QED BY <1>4
<1> DEFINE Good == {c \in Nat : c \in 0..m => F[c + 1] = Begin(s, c + 1)}
<1>6. F[1] = 1 /\ \A c \in 1..m : F[c + 1] = F[c] + 1 + (IF Flagged(r, F[c]) THEN r.size \div 8 + 1 ELSE 0)
    <2>1. ASSUME NEW f PROVE Step(f)[1] = 1
        BY <1>0
    <2>2. ASSUME NEW f, NEW c \in 1..m
          PROVE  Step(f)[c + 1] = f[c] + 1 + (IF Flagged(r, f[c]) THEN r.size \div 8 + 1 ELSE 0)
        <3>1. c + 1 \in 1..(m + 1) /\ c + 1 # 1 /\ (c + 1) - 1 = c
            BY <1>0
        <3> QED BY <3>1
    <2>3. Step(F)[1] = 1
        <3> HIDE DEF Step, F
        <3> QED BY <2>1
    <2>4. \A c \in 1..m : Step(F)[c + 1] = F[c] + 1 + (IF Flagged(r, F[c]) THEN r.size \div 8 + 1 ELSE 0)
        <3> HIDE DEF Step, F
        <3> QED BY <2>2
    <2> HIDE DEF Step, F
    <2> QED BY <1>5, <2>3, <2>4
<1> HIDE DEF F, Step, g
<1>7. 0 \in Good
    BY <1>2, <1>6
<1>8. ASSUME NEW c \in Nat, c \in Good PROVE c + 1 \in Good
    <2> SUFFICES ASSUME c + 1 \in 0..m PROVE F[(c + 1) + 1] = Begin(s, (c + 1) + 1)
        OBVIOUS
    <2>1. c \in 0..m /\ c + 1 \in 1..m
        BY <1>0
    <2>2. F[c + 1] = Begin(s, c + 1)
        BY <1>8, <2>1
    <2> QED BY <1>3, <1>6, <2>1, <2>2
<1>9. Nat \subseteq Good
    <2> HIDE DEF Good
    <2> QED BY <1>7, <1>8, SetInduction
<1>10. ASSUME NEW c \in 1..(m + 1) PROVE F[c] = Begin(s, c)
    <2>1. c - 1 \in Nat /\ c - 1 \in 0..m /\ (c - 1) + 1 = c
        BY <1>0
    <2>2. c - 1 \in Good
        BY <1>9, <2>1
    <2> QED BY <2>1, <2>2
<1> QED BY <1>1, <1>10

\* The bit it looks at for a row of a column is the one the client set.
LEMMA MaskedIs ==
    ASSUME NEW r, NEW s, NEW n, Asks(r, s, n), NEW c \in Columns, NEW i \in 1..n
    PROVE  (/\ Flagged(r, Starts(r)[c])
            /\ (i - 1) % 8 \in r.nulls[Starts(r)[c] + 1 + (i - 1) \div 8]) <=> s.values[c][i] = NoCell
<1> DEFINE es == Entries(s)
<1>1. Shaped(s, n) /\ n \in Nat /\ r.nulls = FlattenSeq(es)
    BY DEF Asks, Shaped
<1>2. es \in Seq(Seq(Bytes)) /\ Len(es) = Len(Types) /\ EntryFits(es[c], s.values[c]) /\ Len(s.values[c]) = n
    BY <1>1, EntriesAre DEF Shaped
<1>3. c \in 1..Len(es) /\ c \in 1..(Len(Types) + 1)
    BY <1>2, ColumnsAre
<1>4. Starts(r)[c] = Offset(es, c - 1) + 1
    BY <1>3, StartsIs DEF Begin
<1>5. Flagged(r, Starts(r)[c]) <=> HasNull(s.values[c])
    BY <1>4, FlagIs DEF Begin
<1> HIDE DEF es
<1>6. CASE HasNull(s.values[c])
    <2>1. PICK l \in Nat, b \in Nat : l = n \div 8 /\ b = (i - 1) \div 8 /\ b + 1 \in 1..(l + 1)
        BY <1>1, EighthsAre
    <2>2. Len(es[c]) = n \div 8 + 2 /\ ((i - 1) % 8 \in es[c][2 + (i - 1) \div 8] <=> s.values[c][i] = NoCell)
        BY <1>2, <1>6, Zenon DEF EntryFits
    <2>3. Len(es[c]) = l + 2 /\ ((i - 1) % 8 \in es[c][2 + b] <=> s.values[c][i] = NoCell)
        BY <2>1, <2>2, Zenon
    <2>4. Spot(es, c, 2 + b)
        <3>1. 2 + b \in 1..(l + 2)
            BY <2>1
        <3> QED BY <1>3, <2>3, <3>1 DEF Spot
    <2>5. Offset(es, c - 1) \in Nat /\ r.nulls[Offset(es, c - 1) + (2 + b)] = es[c][2 + b]
        BY <1>1, <1>2, <2>4, CellPlace
    <2>6. PICK o \in Nat : o = Offset(es, c - 1)
        BY <2>5
    <2>7. (o + 1) + 1 + b = o + (2 + b)
        OBVIOUS
    <2>8. r.nulls[Starts(r)[c] + 1 + b] = es[c][2 + b]
        BY <1>4, <2>5, <2>6, <2>7, Zenon
    <2> QED BY <1>5, <1>6, <2>1, <2>3, <2>8, Zenon
<1>7. CASE ~HasNull(s.values[c])
    <2>1. s.values[c][i] # NoCell
        BY <1>2, <1>7 DEF HasNull
    <2> QED BY <1>5, <1>7, <2>1
<1> QED BY <1>6, <1>7

\* And it finds the cells in their places.
LEMMA CellRead ==
    ASSUME NEW r, NEW s, NEW n, Asks(r, s, n)
    PROVE  /\ Len(r.cells) = Len(Types) * n
           /\ \A c \in Columns, i \in 1..n : r.cells[(c - 1) * n + i] = WriteCell(Types[c], s.values[c][i])
<1> DEFINE cs == CellsOf(s)
<1>1. Shaped(s, n) /\ n \in Nat /\ r.cells = FlattenSeq(cs)
    BY DEF Asks, Shaped
<1>2. /\ cs \in Seq(Seq(Tokens)) /\ Len(cs) = Len(Types)
      /\ \A c \in Columns : /\ Len(cs[c]) = n
                            /\ \A i \in 1..n : cs[c][i] = WriteCell(Types[c], s.values[c][i])
    BY <1>1, CellsAre
<1>3. Columns = 1..Len(cs) /\ Len(cs) \in Nat
    BY <1>2, ColumnsAre
<1> HIDE DEF cs
<1>4. \A c \in 0..Len(cs) : Offset(cs, c) = c * n
    BY <1>1, <1>2, <1>3, EqualLengths
<1>5. Len(r.cells) = Len(Types) * n
    <2>1. Offset(cs, Len(cs)) = Len(FlattenSeq(cs))
        BY <1>2, FlattenSeqOffsets
    <2>2. Len(cs) \in 0..Len(cs)
        BY <1>3
    <2> QED BY <1>1, <1>2, <1>4, <2>1, <2>2, Zenon
<1>6. ASSUME NEW c \in Columns, NEW i \in 1..n
      PROVE  r.cells[(c - 1) * n + i] = WriteCell(Types[c], s.values[c][i])
    <2>1. Spot(cs, c, i) /\ c - 1 \in 0..Len(cs)
        BY <1>2, <1>3 DEF Spot
    <2>2. r.cells[Offset(cs, c - 1) + i] = cs[c][i]
        BY <1>1, <1>2, <2>1, CellPlace
    <2>3. Offset(cs, c - 1) = (c - 1) * n
        BY <1>4, <2>1
    <2> QED BY <1>2, <2>2, <2>3, Zenon
<1> QED BY <1>5, <1>6

\* The server reads exactly what the sorted tablet means.
LEMMA DecodedIs ==
    ASSUME NEW t \in Tablets, NEW k
    PROVE  Decodable(Serialized(t)) /\ Decoded(k, Serialized(t)) = Meaning(k, Sorted(t))
<1> DEFINE r == Serialized(t)
           s == Sorted(t)
           f == StableOrder(t.timestamps)
<1>1. PICK n \in Nat : n = RowCount(t) /\ Shaped(t, n)
    BY TabletShape
<1>2. Asks(r, s, n) /\ Shaped(s, n) /\ Moved(s, t, f, n)
    BY <1>1, SerializedAsks, SortedMoves
<1> HIDE DEF r, s, f
<1>3. r.size = n /\ r.model = s.model /\ r.timestamps = s.timestamps /\ Len(s.timestamps) = n /\ RowCount(s) = n
    BY <1>2 DEF Asks, Shaped, RowCount
<1>4. Decodable(r)
    <2>1. Starts(r)[Len(Types) + 1] = Len(r.nulls) + 1
        <3>1. Len(Types) \in Nat /\ Len(Types) + 1 \in 1..(Len(Types) + 1) /\ (Len(Types) + 1) - 1 = Len(Types)
            BY ColumnsAre
        <3>2. Starts(r)[Len(Types) + 1] = Begin(s, Len(Types) + 1)
            BY <1>2, <3>1, StartsIs
        <3>3. Entries(s) \in Seq(Seq(Bytes)) /\ Len(Entries(s)) = Len(Types)
            BY <1>2, EntriesAre
        <3>4. Offset(Entries(s), Len(Types)) = Len(FlattenSeq(Entries(s)))
            BY <3>3, FlattenSeqOffsets
        <3>5. r.nulls = FlattenSeq(Entries(s))
            BY <1>2 DEF Asks
        <3> QED BY <3>1, <3>2, <3>4, <3>5, Zenon DEF Begin
    <2>2. Len(r.cells) = Len(Types) * r.size
        BY <1>2, <1>3, CellRead
    <2>3. \A i, j \in 1..n : i < j => s.timestamps[i] <= s.timestamps[j]
        <3>1. ASSUME NEW i \in 1..n, NEW j \in 1..n, i < j PROVE s.timestamps[i] <= s.timestamps[j]
            <4>1. s.timestamps[i] \in Int /\ s.timestamps[j] \in Int
                BY <1>2, TabletAssumption DEF Shaped
            <4>2. s.timestamps[i] < s.timestamps[j] \/ s.timestamps[i] = s.timestamps[j]
                <5>1. s.timestamps[i] = t.timestamps[f[i]] /\ s.timestamps[j] = t.timestamps[f[j]]
                    BY <1>2, Zenon DEF Moved
                <5>2. t.timestamps[f[i]] < t.timestamps[f[j]] \/ t.timestamps[f[i]] = t.timestamps[f[j]]
                    BY <1>2, <3>1, Zenon DEF Moved
                <5> QED BY <5>1, <5>2
            <4> QED BY <4>1, <4>2
        <3> QED BY <3>1
    <2> QED BY <1>3, <2>1, <2>2, <2>3, Zenon DEF Decodable
<1>5. ASSUME NEW c \in Columns, NEW i \in 1..n, s.values[c][i] # NoCell
      PROVE  r.cells[(c - 1) * n + i] = s.values[c][i]
    BY <1>2, <1>5, CellRead DEF WriteCell
<1> DEFINE Masked(c, i) == /\ Flagged(r, Starts(r)[c])
                           /\ (i - 1) % 8 \in r.nulls[Starts(r)[c] + 1 + (i - 1) \div 8]
           Got(i) == [c \in Columns |->
                        IF Masked(c, i) THEN <<>>
                        ELSE <<[key |-> <<k, r.model, r.timestamps[i], c>>,
                                val |-> r.cells[(c - 1) * r.size + i]]>>]
           Meant(i) == [c \in Columns |->
                          IF s.values[c][i] = NoCell THEN <<>>
                          ELSE <<[key |-> <<k, s.model, s.timestamps[i], c>>, val |-> s.values[c][i]]>>]
<1>6. ASSUME NEW i \in 1..n PROVE Got(i) = Meant(i)
    <2>1. ASSUME NEW c \in Columns PROVE Masked(c, i) <=> s.values[c][i] = NoCell
        BY <1>2, MaskedIs
    <2> HIDE DEF Masked
    <2> QED BY <1>3, <1>5, <2>1
<1>7. Decoded(k, r) = FlattenSeq([i \in 1..n |-> FlattenSeq(Got(i))])
    BY <1>3, Zenon DEF Decoded
<1>8. Meaning(k, s) = FlattenSeq([i \in 1..n |-> FlattenSeq(Meant(i))])
    BY <1>3, Zenon DEF Meaning
<1> HIDE DEF Got, Meant
<1>9. [i \in 1..n |-> FlattenSeq(Got(i))] = [i \in 1..n |-> FlattenSeq(Meant(i))]
    BY <1>6
<1> QED BY <1>4, <1>7, <1>8, <1>9 DEF r, s

-----------------------------------------------------------------------------
(* Tablets: what they mean *)

\* The writes of one row.
RowWrites(k, t, i) ==
    FlattenSeq([c \in Columns |->
        IF t.values[c][i] = NoCell THEN <<>>
        ELSE <<[key |-> <<k, t.model, t.timestamps[i], c>>, val |-> t.values[c][i]]>>])
RowsOf(k, t) == [i \in 1..RowCount(t) |-> RowWrites(k, t, i)]

TabletWrites == [key : Nat \X Models \X Timestamps \X Columns, val : CallerCells]
AtTime(w, time) == \A a \in 1..Len(w) : w[a].key[3] = time

LEMMA RowWritesAre ==
    ASSUME NEW k \in Nat, NEW t, t.model \in Models, NEW n, Shaped(t, n), NEW i \in 1..n
    PROVE  RowWrites(k, t, i) \in Seq(TabletWrites) /\ AtTime(RowWrites(k, t, i), t.timestamps[i])
<1> DEFINE time == t.timestamps[i]
           W == [key : {k} \X {t.model} \X {time} \X Columns, val : CallerCells]
           G == [c \in Columns |->
                   IF t.values[c][i] = NoCell THEN <<>>
                   ELSE <<[key |-> <<k, t.model, time, c>>, val |-> t.values[c][i]]>>]
<1>1. time \in Timestamps
    BY DEF Shaped
<1>2. ASSUME NEW c \in Columns PROVE G[c] \in Seq(W)
    <2>1. CASE t.values[c][i] = NoCell
        <3>1. G[c] = <<>>
            BY <2>1
        <3> HIDE DEF G, W
        <3> QED BY <3>1
    <2>2. CASE t.values[c][i] # NoCell
        <3>1. t.values[c][i] \in CallerCells
            BY <2>2 DEF Shaped, Cell
        <3> DEFINE w == [key |-> <<k, t.model, time, c>>, val |-> t.values[c][i]]
        <3>2. w \in W
            BY <3>1
        <3>3. G[c] = <<w>>
            BY <2>2
        <3> HIDE DEF G, W, w
        <3> QED BY <3>2, <3>3
    <2> QED BY <2>1, <2>2
<1>3. G \in Seq(Seq(W))
    <2>1. G = [c \in Columns |-> G[c]]
        OBVIOUS
    <2> HIDE DEF G, W
    <2>2. G \in [1..Len(Types) -> Seq(W)]
        BY <1>2, <2>1, ColumnsAre
    <2> QED BY <2>2, ColumnsAre, FunctionIsSeq
<1>4. RowWrites(k, t, i) = FlattenSeq(G)
    BY DEF RowWrites
<1>5. RowWrites(k, t, i) \in Seq(W)
    <2> HIDE DEF G, W
    <2> QED BY <1>3, <1>4, FlattenSeqType
<1>6. ASSUME NEW w \in W PROVE w \in TabletWrites /\ w.key[3] = time
    BY <1>1 DEF TabletWrites
<1>7. PICK v : v = RowWrites(k, t, i)
    OBVIOUS
<1> HIDE DEF G, W, time
<1>8. v \in Seq(W)
    BY <1>5, <1>7
<1>9. \A a \in 1..Len(v) : v[a] \in W
    BY <1>8
<1>10. AtTime(v, time)
    BY <1>6, <1>9 DEF AtTime
<1>11. v \in [1..Len(v) -> TabletWrites] /\ Len(v) \in Nat
    <2>1. Len(v) \in Nat /\ v = [a \in 1..Len(v) |-> v[a]]
        BY <1>8
    <2> QED BY <1>6, <1>9, <2>1
<1>12. v \in Seq(TabletWrites)
    BY <1>11, FunctionIsSeq
<1> QED BY <1>7, <1>10, <1>12 DEF time

LEMMA RowsAre ==
    ASSUME NEW k \in Nat, NEW t \in Tablets
    PROVE  /\ RowsOf(k, t) \in Seq(Seq(TabletWrites)) /\ Meaning(k, t) = FlattenSeq(RowsOf(k, t))
           /\ Meaning(k, t) \in Seq(TabletWrites) /\ Len(RowsOf(k, t)) = RowCount(t)
           /\ \A i \in 1..RowCount(t) : /\ RowsOf(k, t)[i] = RowWrites(k, t, i)
                                        /\ AtTime(RowsOf(k, t)[i], t.timestamps[i])
<1>1. PICK n \in Nat : n = RowCount(t) /\ Shaped(t, n)
    BY TabletShape
<1>2. t.model \in Models
    BY DEF Tablets
<1>3. Meaning(k, t) = FlattenSeq(RowsOf(k, t))
    BY Zenon DEF Meaning, RowsOf, RowWrites
<1>4. RowsOf(k, t) = [i \in 1..n |-> RowWrites(k, t, i)]
    BY <1>1 DEF RowsOf
<1>5. \A i \in 1..n : RowWrites(k, t, i) \in Seq(TabletWrites) /\ AtTime(RowWrites(k, t, i), t.timestamps[i])
    BY <1>1, <1>2, RowWritesAre
<1>6. RowsOf(k, t) \in [1..n -> Seq(TabletWrites)]
    BY <1>4, <1>5
<1>7. RowsOf(k, t) \in Seq(Seq(TabletWrites)) /\ Len(RowsOf(k, t)) = n
    BY <1>6, FunctionIsSeq
<1>8. Meaning(k, t) \in Seq(TabletWrites)
    BY <1>3, <1>7, FlattenSeqType
<1> QED BY <1>1, <1>3, <1>4, <1>5, <1>7, <1>8

\* A stable sort leaves the rows of one time in their order, so the same row
\* still wins.
LEMMA SortedMeansTheSame ==
    ASSUME NEW k \in Nat, NEW t \in Tablets
    PROVE  LastWrite(Meaning(k, Sorted(t))) = LastWrite(Meaning(k, t))
<1> DEFINE s == Sorted(t)
           f == StableOrder(t.timestamps)
           R == RowsOf(k, s)
           G == RowsOf(k, t)
<1>1. PICK n \in Nat : n = RowCount(t) /\ Shaped(t, n)
    BY TabletShape
<1>2. s \in Tablets /\ Shaped(s, n) /\ Moved(s, t, f, n)
    BY <1>1, SortedMoves
<1> HIDE DEF s, f
<1>3. RowCount(s) = n
    BY <1>2 DEF Shaped, RowCount
<1>4. /\ R \in Seq(Seq(TabletWrites)) /\ G \in Seq(Seq(TabletWrites)) /\ Len(R) = n /\ Len(G) = n
      /\ \A i \in 1..n : R[i] = RowWrites(k, s, i) /\ G[i] = RowWrites(k, t, i)
      /\ \A i \in 1..n : AtTime(R[i], s.timestamps[i])
    BY <1>1, <1>2, <1>3, RowsAre
<1> HIDE DEF R, G
<1>5. f \in [1..n -> 1..n] /\ \A p \in 1..n : f[p] \in 1..n
    BY <1>2 DEF Moved
<1>6. ASSUME NEW p \in 1..n PROVE R[p] = G[f[p]]
    <2>1. /\ s.model = t.model /\ s.timestamps[p] = t.timestamps[f[p]]
          /\ \A c \in Columns : s.values[c][p] = t.values[c][f[p]]
        BY <1>2 DEF Moved
    <2>2. RowWrites(k, s, p) = RowWrites(k, t, f[p])
        BY <2>1 DEF RowWrites
    <2> QED BY <1>4, <1>5, <2>2
<1>7. ASSUME NEW p, NEW a, NEW q, NEW b, Spot(R, p, a), Spot(R, q, b), R[p][a].key = R[q][b].key, p < q
      PROVE  f[p] < f[q]
    <2>1. p \in 1..n /\ q \in 1..n /\ R[p][a].key[3] = s.timestamps[p] /\ R[q][b].key[3] = s.timestamps[q]
        BY <1>4, <1>7 DEF Spot, AtTime
    <2>2. t.timestamps[f[p]] = t.timestamps[f[q]]
        BY <1>2, <1>7, <2>1 DEF Moved
    <2>3. t.timestamps[f[p]] \in Int
        BY <1>1, <1>5, <2>1, TabletAssumption DEF Shaped
    <2>4. t.timestamps[f[p]] < t.timestamps[f[q]] \/ f[p] < f[q]
        BY <1>2, <1>7, <2>1 DEF Moved
    <2> QED BY <2>2, <2>3, <2>4
<1>8. Rearranges(f, R, G)
    <2>1. \A i \in 1..n : \E p \in 1..n : f[p] = i
        BY <1>2 DEF Moved
    <2> QED BY <1>4, <1>5, <1>6, <1>7, <2>1 DEF Rearranges
<1>9. LastWrite(FlattenSeq(R)) = LastWrite(FlattenSeq(G))
    BY <1>4, <1>8, RearrangedSame
<1>10. Meaning(k, s) = FlattenSeq(R) /\ Meaning(k, t) = FlattenSeq(G)
    BY <1>2, RowsAre DEF R, G
<1> QED BY <1>9, <1>10 DEF s

\* What the server makes of the requests for several tablets.
LEMMA InsertedIs ==
    ASSUME NEW ts \in Seq(Tablets)
    PROVE  Inserted([k \in DOMAIN ts |-> Serialized(ts[k])])
             = LastWrite(FlattenSeq([k \in DOMAIN ts |-> Meaning(k, ts[k])]))
<1> DEFINE A == [k \in DOMAIN ts |-> Meaning(k, Sorted(ts[k]))]
           B == [k \in DOMAIN ts |-> Meaning(k, ts[k])]
           rs == [k \in DOMAIN ts |-> Serialized(ts[k])]
<1>1. PICK n \in Nat : n = Len(ts) /\ DOMAIN ts = 1..n /\ \A k \in 1..n : ts[k] \in Tablets
    OBVIOUS
<1>2. ASSUME NEW k \in 1..n
      PROVE  /\ ts[k] \in Tablets /\ Sorted(ts[k]) \in Tablets
             /\ Decodable(rs[k]) /\ Decoded(k, rs[k]) = A[k]
             /\ A[k] \in Seq(TabletWrites) /\ B[k] \in Seq(TabletWrites)
             /\ LastWrite(A[k]) = LastWrite(B[k])
    <2>1. ts[k] \in Tablets /\ k \in Nat
        BY <1>1
    <2>2. Sorted(ts[k]) \in Tablets
        <3>1. PICK m \in Nat : m = RowCount(ts[k])
            BY <2>1, TabletShape
        <3> QED BY <2>1, <3>1, SortedMoves
    <2>3. rs[k] = Serialized(ts[k]) /\ A[k] = Meaning(k, Sorted(ts[k])) /\ B[k] = Meaning(k, ts[k])
        BY <1>1
    <2> HIDE DEF A, B, rs
    <2>4. Decodable(rs[k]) /\ Decoded(k, rs[k]) = A[k]
        BY <2>1, <2>3, DecodedIs
    <2>5. A[k] \in Seq(TabletWrites) /\ B[k] \in Seq(TabletWrites)
        BY <2>1, <2>2, <2>3, RowsAre
    <2>6. LastWrite(A[k]) = LastWrite(B[k])
        BY <2>1, <2>3, SortedMeansTheSame
    <2> QED BY <2>1, <2>2, <2>4, <2>5, <2>6
<1>3. DOMAIN rs = 1..n /\ A = [k \in 1..n |-> A[k]] /\ B = [k \in 1..n |-> B[k]]
    BY <1>1
<1> HIDE DEF A, B, rs
<1>4. A \in [1..n -> Seq(TabletWrites)] /\ B \in [1..n -> Seq(TabletWrites)]
    BY <1>2, <1>3
<1>5. A \in Seq(Seq(TabletWrites)) /\ B \in Seq(Seq(TabletWrites)) /\ Len(A) = n /\ Len(B) = n
    BY <1>4, FunctionIsSeq
<1>6. LastWrite(FlattenSeq(A)) = LastWrite(FlattenSeq(B))
    BY <1>2, <1>5, SameFlatten
<1>7. \A k \in DOMAIN rs : Decodable(rs[k])
    BY <1>2, <1>3
<1>8. [k \in DOMAIN rs |-> Decoded(k, rs[k])] = A
    BY <1>2, <1>3
<1>9. Inserted(rs) = LastWrite(FlattenSeq(A))
    BY <1>7, <1>8, Zenon DEF Inserted
<1> QED BY <1>6, <1>9 DEF B, rs

-----------------------------------------------------------------------------
(* Tablets: the invariant and the theorems *)

LEMMA EmptyTablet ==
    ASSUME NEW m \in Models
    PROVE  Empty(m) \in Tablets
<1> DEFINE vs == [c \in Columns |-> <<>>]
           ts == <<>>
<1>1. Empty(m) = [model |-> m, timestamps |-> ts, values |-> vs]
    BY DEF Empty
<1>2. \A c \in Columns : vs[c] = <<>>
    OBVIOUS
<1>3. ts \in Seq(Timestamps) /\ Len(ts) = 0 /\ <<>> \in Seq({NoCell} \cup CallerCells)
    OBVIOUS
<1>4. vs \in [Columns -> Seq({NoCell} \cup CallerCells)]
    BY <1>3
<1>5. ASSUME NEW c \in Columns PROVE Len(vs[c]) = Len(ts) /\ Range(vs[c]) \subseteq Cell(c)
    BY <1>2 DEF Range
<1> HIDE DEF vs, ts
<1> QED BY <1>1, <1>3, <1>4, <1>5 DEF Tablets

LEMMA RowAdded ==
    ASSUME tablet \in Tablets, NEW t \in Timestamps, NEW row \in CallerRows, AddRow(t, row)
    PROVE  tablet' \in Tablets
<1>1. CASE UNCHANGED tablet
    BY <1>1
<1>2. CASE /\ Len(row) = Len(Types) /\ \A c \in Columns : Fits(c, row[c])
           /\ tablet' = [tablet EXCEPT !.timestamps = Append(@, t),
                           !.values = [c \in Columns |->
                              Append(@[c], IF row[c] = NullValue THEN NoCell ELSE row[c])]]
    <2> DEFINE cell(c) == IF row[c] = NullValue THEN NoCell ELSE row[c]
               ts == Append(tablet.timestamps, t)
               vs == [c \in Columns |-> Append(tablet.values[c], cell(c))]
    <2>1. PICK n \in Nat : n = RowCount(tablet) /\ Shaped(tablet, n)
        BY TabletShape
    <2>2. \A c \in Columns : row[c] \in CallerCells
        <3>1. CASE row \in [Columns -> CallerCells]
            BY <3>1
        <3>2. CASE row = [c \in 1..(Len(Types) + 1) |-> NoCell]
            <4>1. row \in [1..(Len(Types) + 1) -> {NoCell}] /\ Len(Types) + 1 \in Nat
                BY <3>2, ColumnsAre
            <4>2. Len(row) = Len(Types) + 1
                BY <4>1, FunctionIsSeq
            <4> QED BY <1>2, <4>2, ColumnsAre
        <3> QED BY <3>1, <3>2 DEF CallerRows
    <2>3. ASSUME NEW c \in Columns PROVE cell(c) \in Cell(c)
        BY <1>2, <2>2 DEF Fits, Cell
    <2>4. tablet = [model |-> tablet.model, timestamps |-> tablet.timestamps, values |-> tablet.values]
          /\ tablet.model \in Models /\ tablet.timestamps \in Seq(Timestamps)
        BY DEF Tablets
    <2>5. tablet' = [model |-> tablet.model, timestamps |-> ts, values |-> vs]
        <3>1. tablet' = [tablet EXCEPT !.timestamps = ts, !.values = vs]
            BY <1>2
        <3> HIDE DEF ts, vs
        <3> QED BY <2>4, <3>1
    <2> HIDE DEF cell
    <2>6. ts \in Seq(Timestamps) /\ Len(ts) = n + 1
        BY <2>1, <2>4 DEF RowCount
    <2>7. ASSUME NEW c \in Columns
          PROVE  vs[c] \in Seq({NoCell} \cup CallerCells) /\ Len(vs[c]) = n + 1 /\ Range(vs[c]) \subseteq Cell(c)
        <3> DEFINE v == tablet.values[c]
        <3>1. v \in Seq({NoCell} \cup CallerCells) /\ Len(v) = n /\ \A i \in 1..n : v[i] \in Cell(c)
            BY <2>1 DEF Shaped
        <3>2. cell(c) \in Cell(c) /\ cell(c) \in {NoCell} \cup CallerCells
            BY <2>3 DEF Cell
        <3>3. vs[c] = Append(v, cell(c))
            OBVIOUS
        <3> HIDE DEF v, vs
        <3>4. /\ vs[c] \in Seq({NoCell} \cup CallerCells) /\ Len(vs[c]) = n + 1
              /\ \A i \in 1..(n + 1) : vs[c][i] \in Cell(c)
            BY <3>1, <3>2, <3>3
        <3> QED BY <3>4 DEF Range
    <2>8. vs = [c \in Columns |-> vs[c]]
        OBVIOUS
    <2> HIDE DEF ts, vs
    <2>9. vs \in [Columns -> Seq({NoCell} \cup CallerCells)]
        BY <2>7, <2>8
    <2> QED BY <2>4, <2>5, <2>6, <2>7, <2>9 DEF Tablets
<1> QED BY <1>1, <1>2 DEF AddRow

LEMMA TimesChanged ==
    ASSUME tablet \in Tablets, NEW i, NEW t \in Timestamps, Rebase(i, t)
    PROVE  tablet' \in Tablets
<1> DEFINE ts == [tablet.timestamps EXCEPT ![i] = t]
<1>1. /\ tablet = [model |-> tablet.model, timestamps |-> tablet.timestamps, values |-> tablet.values]
      /\ tablet.model \in Models /\ tablet.timestamps \in Seq(Timestamps)
      /\ tablet.values \in [Columns -> Seq({NoCell} \cup CallerCells)]
      /\ \A c \in Columns : Len(tablet.values[c]) = Len(tablet.timestamps) /\ Range(tablet.values[c]) \subseteq Cell(c)
    BY DEF Tablets
<1>2. tablet' = [model |-> tablet.model, timestamps |-> ts, values |-> tablet.values]
    <2>1. tablet' = [tablet EXCEPT !.timestamps = ts]
        BY DEF Rebase
    <2> HIDE DEF ts
    <2> QED BY <1>1, <2>1
<1>3. ts \in Seq(Timestamps) /\ Len(ts) = Len(tablet.timestamps)
    <2>1. PICK n \in Nat : n = Len(tablet.timestamps) /\ tablet.timestamps \in [1..n -> Timestamps]
        BY <1>1
    <2>2. ts \in [1..n -> Timestamps]
        BY <2>1
    <2> HIDE DEF ts
    <2> QED BY <2>1, <2>2, FunctionIsSeq
<1> HIDE DEF ts
<1> QED BY <1>1, <1>2, <1>3 DEF Tablets

LEMMA TabletSorted ==
    ASSUME NEW t \in Tablets
    PROVE  Sorted(t) \in Tablets
<1>1. PICK n \in Nat : n = RowCount(t)
    BY TabletShape
<1> QED BY <1>1, SortedMoves

\* The parts of the invariant about what was sent.
SentInv ==
    /\ sent \in Seq(Tablets) /\ Len(sent) <= MaxBatch + 1
    /\ sent # <<>> /\ returned = "ok" => received = Inserted([k \in DOMAIN sent |-> Serialized(sent[k])])

LEMMA QuietSent ==
    ASSUME Quiet
    PROVE  SentInv'
BY TabletAssumption DEF Quiet, SentInv

LEMMA SendSent ==
    ASSUME NEW ts \in Seq(Tablets), Len(ts) <= MaxBatch + 1,
           Send(ts, [k \in DOMAIN ts |-> Serialized(ts[k])])
    PROVE  SentInv' /\ returned' \in {"ok", "client_error", "panic"} /\ UNCHANGED <<tablet, tablets>>
BY DEF Send, SentInv

LEMMA OneSent ==
    ASSUME tablet \in Tablets, InsertTablet
    PROVE  SentInv' /\ returned' \in {"ok", "client_error", "panic"} /\ UNCHANGED <<tablet, tablets>>
<1> DEFINE ts == <<tablet>>
<1>1. ts \in Seq(Tablets) /\ Len(ts) = 1 /\ DOMAIN ts = 1..1 /\ ts[1] = tablet
    OBVIOUS
<1>2. <<Serialized(tablet)>> = [k \in DOMAIN ts |-> Serialized(ts[k])]
    <2>1. \A k \in 1..1 : k = 1
        OBVIOUS
    <2>2. <<Serialized(tablet)>> = [k \in 1..1 |-> Serialized(tablet)]
        OBVIOUS
    <2> HIDE DEF ts
    <2> QED BY <1>1, <2>1, <2>2
<1>3. Send(ts, [k \in DOMAIN ts |-> Serialized(ts[k])])
    BY <1>2 DEF InsertTablet
<1>4. Len(ts) <= MaxBatch + 1
    BY <1>1, TabletAssumption
<1> HIDE DEF ts
<1> QED BY <1>1, <1>3, <1>4, SendSent

\* The request of a tree's tablet says what insert_tablets would put in it.
LEMMA TreesSent ==
    ASSUME tablets \in Seq(Tablets), Len(tablets) <= MaxBatch,
           \A k \in DOMAIN tablets : tablets[k].model = "tree",
           Send(tablets, [k \in DOMAIN tablets |-> TreeRequest(tablets[k])])
    PROVE  SentInv' /\ returned' \in {"ok", "client_error", "panic"} /\ UNCHANGED <<tablet, tablets>>
<1>1. ASSUME NEW k \in DOMAIN tablets PROVE TreeRequest(tablets[k]) = Serialized(tablets[k])
    <2> DEFINE t == tablets[k]
               s == Sorted(t)
               cells == FlattenSeq([c \in Columns |->
                          [i \in DOMAIN s.values[c] |-> WriteCell(Types[c], s.values[c][i])]])
               nulls == FlattenSeq([c \in Columns |-> NullEntry(s.values[c])])
    <2>1. Serialized(t) = [model |-> t.model, size |-> RowCount(t), timestamps |-> s.timestamps,
                           cells |-> cells, nulls |-> nulls]
        BY Zenon DEF Serialized
    <2>2. t.model = "tree"
        OBVIOUS
    <2> HIDE DEF t, s, cells, nulls
    <2>3. [Serialized(t) EXCEPT !.model = "tree"] = Serialized(t)
        BY <2>1, <2>2
    <2> QED BY <2>3 DEF TreeRequest, t
<1>2. [k \in DOMAIN tablets |-> TreeRequest(tablets[k])] = [k \in DOMAIN tablets |-> Serialized(tablets[k])]
    BY <1>1
<1>3. Send(tablets, [k \in DOMAIN tablets |-> Serialized(tablets[k])])
    BY <1>2
<1>4. Len(tablets) <= MaxBatch + 1
    <2>1. Len(tablets) \in Nat
        OBVIOUS
    <2> QED BY <2>1, TabletAssumption
<1> QED BY <1>3, <1>4, SendSent

LEMMA TabletStep ==
    ASSUME TabletInv, [TabletNext]_tabletVars
    PROVE  TabletInv'
<1> DEFINE Returns == {"ok", "client_error", "panic"}
           Kept == tablets \in Seq(Tablets) /\ Len(tablets) <= MaxBatch
           Whole == tablet \in Tablets /\ Kept /\ SentInv /\ returned \in Returns
<1>0. Whole <=> TabletInv
    BY DEF TabletInv, SentInv
<1>0p. Whole' <=> TabletInv'
    BY DEF TabletInv, SentInv
<1> SUFFICES Whole'
    BY <1>0p
<1>a. tablet \in Tablets /\ Kept /\ SentInv /\ returned \in Returns
    BY <1>0
<1>1. ASSUME NEW t \in Timestamps, NEW row \in CallerRows, AddRow(t, row) PROVE Whole'
    <2>1. tablet' \in Tablets
        BY <1>1, <1>a, RowAdded
    <2>2. Quiet /\ UNCHANGED tablets /\ returned' \in Returns
        BY <1>1 DEF AddRow
    <2> QED BY <1>a, <2>1, <2>2, QuietSent
<1>2. ASSUME NEW i, NEW t \in Timestamps, Rebase(i, t) PROVE Whole'
    <2>1. tablet' \in Tablets
        BY <1>2, <1>a, TimesChanged
    <2>2. Quiet /\ UNCHANGED tablets /\ returned' \in Returns
        BY <1>2 DEF Rebase
    <2> QED BY <1>a, <2>1, <2>2, QuietSent
<1>3. ASSUME NEW m \in Models, Collect(m) PROVE Whole'
    <2>1. tablet' \in Tablets
        BY <1>3, EmptyTablet DEF Collect
    <2>2. Quiet /\ tablets' = Append(tablets, tablet) /\ Len(tablets) < MaxBatch /\ returned' \in Returns
        BY <1>3 DEF Collect
    <2>3. tablets' \in Seq(Tablets) /\ Len(tablets') <= MaxBatch
        BY <1>a, <2>2, TabletAssumption
    <2> QED BY <2>1, <2>2, <2>3, QuietSent
<1>4. CASE Serialize \/ SerializeTimestamps
    <2>1. tablet' \in Tablets
        BY <1>4, <1>a, TabletSorted DEF Serialize, SerializeTimestamps
    <2>2. Quiet /\ UNCHANGED tablets /\ returned' \in Returns
        BY <1>4 DEF Serialize, SerializeTimestamps
    <2> QED BY <1>a, <2>1, <2>2, QuietSent
<1>5. CASE InsertTablet
    BY <1>5, <1>a, OneSent
<1>6. CASE TableInsert
    <2>1. CASE InsertTablet
        BY <1>5, <2>1
    <2>2. CASE Quiet /\ returned' = "client_error" /\ UNCHANGED <<tablet, tablets>>
        BY <1>a, <2>2, QuietSent
    <2> QED BY <1>6, <2>1, <2>2 DEF TableInsert
<1>7. CASE InsertTablets
    <2>1. CASE /\ \A k \in DOMAIN tablets : tablets[k].model = "tree"
               /\ Send(tablets, [k \in DOMAIN tablets |-> TreeRequest(tablets[k])])
        BY <1>a, <2>1, TreesSent
    <2>2. CASE Quiet /\ returned' = "client_error" /\ UNCHANGED <<tablet, tablets>>
        BY <1>a, <2>2, QuietSent
    <2> QED BY <1>7, <2>1, <2>2 DEF InsertTablets
<1>8. CASE UNCHANGED tabletVars
    BY <1>8, <1>a DEF tabletVars, SentInv
<1> QED BY <1>1, <1>2, <1>3, <1>4, <1>5, <1>6, <1>7, <1>8, Zenon DEF TabletNext

\* The inductive invariant: all tablets keep columns of their length and their
\* types, and what was received is the server's reading of the last request.
THEOREM TabletInvariant == TabletSpec => []TabletInv
<1>1. TabletInit => TabletInv
    <2> SUFFICES ASSUME TabletInit PROVE TabletInv
        OBVIOUS
    <2>1. tablet \in Tablets
        BY EmptyTablet DEF TabletInit
    <2> QED BY <2>1, TabletAssumption DEF TabletInit, TabletInv
<1>2. TabletInv /\ [TabletNext]_tabletVars => TabletInv'
    BY TabletStep
<1> QED BY <1>1, <1>2, PTL DEF TabletSpec

\* The columns of a tablet stay as long as its times and hold only cells of
\* their types, whatever rows a caller tries to add (add_row).
THEOREM TabletsStayWhole == TabletSpec => []TypeOK
<1>1. TabletInv => TypeOK
    <2> SUFFICES ASSUME TabletInv PROVE TypeOK
        OBVIOUS
    <2>1. tablet.model \in Models
        BY DEF TabletInv, Tablets
    <2>2. PICK n \in Nat : Shaped(tablet, n)
        BY TabletShape DEF TabletInv
    <2>3. \A c \in Columns : DOMAIN tablet.values[c] = DOMAIN tablet.timestamps
        BY <2>2 DEF Shaped
    <2>4. \A i \in DOMAIN tablet.timestamps : tablet.timestamps[i] \in Timestamps
        BY <2>2 DEF Shaped
    <2>5. \A c \in Columns : Range(tablet.values[c]) \subseteq Cell(c)
        BY DEF TabletInv, Tablets
    <2> QED BY <2>1, <2>3, <2>4, <2>5 DEF TypeOK, TabletInv
<1> QED BY <1>1, TabletInvariant, PTL

\* What the server stores for one or several tablets is what their rows mean
\* in the order they were added (Tablet::serialize_values and
\* Session::insert_tablet, insert_tablets), at every row and column count.
THEOREM TabletsArriveAsBuilt == TabletSpec => []ReceivedAsBuilt
<1>1. TabletInv => ReceivedAsBuilt
    <2> SUFFICES ASSUME TabletInv, sent # <<>>, returned = "ok"
                 PROVE  received = LastWrite(FlattenSeq([k \in DOMAIN sent |-> Meaning(k, sent[k])]))
        BY DEF ReceivedAsBuilt
    <2>1. sent \in Seq(Tablets) /\ received = Inserted([k \in DOMAIN sent |-> Serialized(sent[k])])
        BY DEF TabletInv
    <2> QED BY <2>1, InsertedIs
<1> QED BY <1>1, TabletInvariant, PTL

\* Serialising in place sorts the rows and keeps what they mean
\* (Tablet::sort_by_timestamp).
THEOREM SerialisingKeepsMeaning == TabletSpec => SortKeepsMeaning
<1> DEFINE Keeps == Serialize \/ SerializeTimestamps =>
                      /\ LastWrite(Meaning(1, tablet)') = LastWrite(Meaning(1, tablet))
                      /\ \A i, j \in DOMAIN tablet'.timestamps :
                           i < j => tablet'.timestamps[i] <= tablet'.timestamps[j]
<1>1. TabletInv /\ [TabletNext]_tabletVars => [Keeps]_tabletVars
    <2> SUFFICES ASSUME TabletInv, Serialize \/ SerializeTimestamps
                 PROVE  /\ LastWrite(Meaning(1, tablet)') = LastWrite(Meaning(1, tablet))
                        /\ \A i, j \in DOMAIN tablet'.timestamps :
                             i < j => tablet'.timestamps[i] <= tablet'.timestamps[j]
        OBVIOUS
    <2>1. tablet' = Sorted(tablet) /\ tablet \in Tablets
        BY DEF Serialize, SerializeTimestamps, TabletInv
    <2>2. Meaning(1, tablet)' = Meaning(1, Sorted(tablet))
        BY <2>1 DEF Meaning, RowCount
    <2>3. LastWrite(Meaning(1, Sorted(tablet))) = LastWrite(Meaning(1, tablet))
        BY <2>1, SortedMeansTheSame
    <2>4. PICK n \in Nat : n = RowCount(tablet) /\ Shaped(tablet, n)
        BY <2>1, TabletShape
    <2>5. Shaped(tablet', n) /\ Moved(tablet', tablet, StableOrder(tablet.timestamps), n)
        BY <2>1, <2>4, SortedMoves
    <2>6. DOMAIN tablet'.timestamps = 1..n /\ \A i \in 1..n : tablet'.timestamps[i] \in Int
        BY <2>5, TabletAssumption DEF Shaped
    <2>7. \A i, j \in 1..n : i < j => \/ tablet'.timestamps[i] < tablet'.timestamps[j]
                                      \/ tablet'.timestamps[i] = tablet'.timestamps[j]
        BY <2>5 DEF Moved
    <2>8. \A i, j \in 1..n : i < j => tablet'.timestamps[i] <= tablet'.timestamps[j]
        BY <2>6, <2>7
    <2> QED BY <2>2, <2>3, <2>6, <2>8
<1> QED BY <1>1, TabletInvariant, PTL DEF TabletSpec, SortKeepsMeaning
=============================================================================
