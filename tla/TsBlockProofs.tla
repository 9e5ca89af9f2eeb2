---------------------------- MODULE TsBlockProofs ----------------------------
(***************************************************************************)
(* Decoding a TsBlock, for blocks of every size and every buffer: the      *)
(* cursor never leaves the buffer and all columns get as many entries as   *)
(* the header says; a whole buffer decodes to what was sent; no cut does.  *)
(***************************************************************************)
EXTENDS TsBlock, FiniteSetTheorems, SequenceLemmas

-----------------------------------------------------------------------------
(* Reading *)

\* How the count of values grows along a column.
LEMMA BeforeSteps ==
    ASSUME NEW nulls \in Seq(BOOLEAN)
    PROVE  /\ Before(nulls, 1) = 0
           /\ \A i \in 1..(Len(nulls) + 1) : Before(nulls, i) \in Nat
           /\ \A i \in 1..Len(nulls) :
                Before(nulls, i + 1) = Before(nulls, i) + (IF nulls[i] THEN 0 ELSE 1)
<1> DEFINE Vals(i) == {j \in 1..(i - 1) : ~nulls[j]}
<1>1. \A i : Before(nulls, i) = Cardinality(Vals(i))
    BY DEF Before
<1>2. Vals(1) = {}
    OBVIOUS
<1>3. \A i \in 1..(Len(nulls) + 1) : IsFiniteSet(Vals(i)) /\ Cardinality(Vals(i)) \in Nat
    <2> TAKE i \in 1..(Len(nulls) + 1)
    <2>1. i - 1 \in Int /\ 1 \in Int /\ Vals(i) \subseteq 1..(i - 1)
        OBVIOUS
    <2>2. IsFiniteSet(1..(i - 1))
        BY <2>1, FS_Interval
    <2> HIDE DEF Vals
    <2> QED BY <2>1, <2>2, FS_Subset, FS_CardinalityType
<1>4. ASSUME NEW i \in 1..Len(nulls)
      PROVE  Cardinality(Vals(i + 1)) = Cardinality(Vals(i)) + (IF nulls[i] THEN 0 ELSE 1)
    <2>1. IsFiniteSet(Vals(i)) /\ Cardinality(Vals(i)) \in Nat /\ i \notin Vals(i)
        BY <1>3
    <2>2. CASE nulls[i]
        <3>1. Vals(i + 1) = Vals(i)
            BY <2>2
        <3> HIDE DEF Vals
        <3> QED BY <2>1, <2>2, <3>1
    <2>3. CASE ~nulls[i]
        <3>1. Vals(i + 1) = Vals(i) \cup {i}
            BY <2>3
        <3> HIDE DEF Vals
        <3>2. Cardinality(Vals(i) \cup {i}) = Cardinality(Vals(i)) + 1
            BY <2>1, FS_AddElement
        <3> QED BY <2>3, <3>1, <3>2
    <2> QED BY <2>2, <2>3
<1> HIDE DEF Vals
<1>5. Before(nulls, 1) = 0
    BY <1>1, <1>2, FS_EmptySet
<1> QED BY <1>1, <1>3, <1>4, <1>5

\* Fewer values come before an earlier position.
LEMMA BeforeGrows ==
    ASSUME NEW nulls \in Seq(BOOLEAN), NEW i \in 1..(Len(nulls) + 1), NEW j \in 1..(Len(nulls) + 1),
           i <= j
    PROVE  Before(nulls, i) <= Before(nulls, j)
<1> DEFINE Vals(k) == {x \in 1..(k - 1) : ~nulls[x]}
<1>0. j - 1 \in Int /\ 1 \in Int
    OBVIOUS
<1>1. Vals(i) \subseteq Vals(j) /\ Vals(j) \subseteq 1..(j - 1)
    OBVIOUS
<1>2. Before(nulls, i) = Cardinality(Vals(i)) /\ Before(nulls, j) = Cardinality(Vals(j))
    BY DEF Before
<1> HIDE DEF Vals
<1>3. IsFiniteSet(Vals(j))
    BY <1>0, <1>1, FS_Interval, FS_Subset
<1>4. Cardinality(Vals(i)) <= Cardinality(Vals(j))
    BY <1>1, <1>3, FS_Subset
<1> QED BY <1>2, <1>4

\* A place of the buffer, 0 for none.
Places == 0..(Len(buf) + 1)

BinaryStep(q, null, type) ==
    IF null THEN q
    ELSE IF HasBinary(q) /\ ~BadBinary(type, BytesAt(q)) THEN q + 1 + buf[q] ELSE 0

LEMMA BinaryStepType ==
    ASSUME buf \in Seq(Int), NEW q \in Places, NEW null, NEW type
    PROVE  BinaryStep(q, null, type) \in Places
<1>1. CASE HasBinary(q)
    <2>1. q \in 1..Len(buf) /\ buf[q] \in Nat /\ q + 1 + buf[q] - 1 <= Len(buf)
        BY <1>1 DEF HasBinary, Has, Places
    <2>2. q + 1 + buf[q] \in Places /\ 0 \in Places
        BY <2>1 DEF Places
    <2> QED BY <2>2 DEF BinaryStep
<1>2. CASE ~HasBinary(q)
    BY <1>2 DEF BinaryStep, Places
<1> QED BY <1>1, <1>2

\* What the recursive definition of the starts of binary values amounts to.
LEMMA BinaryStartsSteps ==
    ASSUME buf \in Seq(Int), NEW p \in Places, NEW nulls \in Seq(BOOLEAN), NEW type
    PROVE  /\ BinaryStarts(p, nulls, type) \in [1..(Len(nulls) + 1) -> Places]
           /\ BinaryStarts(p, nulls, type)[1] = p
           /\ \A i \in 1..Len(nulls) :
                BinaryStarts(p, nulls, type)[i + 1] =
                    BinaryStep(BinaryStarts(p, nulls, type)[i], nulls[i], type)
<1> DEFINE n == Len(nulls)
           Step(f) == [i \in 1..(n + 1) |->
                         IF i = 1 THEN p
                         ELSE IF nulls[i - 1] THEN f[i - 1]
                         ELSE IF HasBinary(f[i - 1]) /\ ~BadBinary(type, BytesAt(f[i - 1]))
                              THEN f[i - 1] + 1 + buf[f[i - 1]] ELSE 0]
           G == [i \in 1..n |-> [q \in Places |-> BinaryStep(q, nulls[i], type)]]
           at == BinaryStarts(p, nulls, type)
<1>0. n \in Nat
    OBVIOUS
<1>1. at = CHOOSE f : f = Step(f)
    BY DEF BinaryStarts
<1>2. G \in [1..n -> [Places -> Places]]
    BY BinaryStepType
<1>3. PICK f \in [1..(n + 1) -> Places] : Solution(f, p, G, n)
    <2> HIDE DEF G, n
    <2> QED BY <1>0, <1>2, RecursionExists
<1>4. \A i \in 1..n : f[i + 1] = BinaryStep(f[i], nulls[i], type)
    <2> TAKE i \in 1..n
    <2>1. f[i] \in Places
        BY <1>0
    <2> QED BY <1>3, <2>1 DEF Solution
<1>5. f = Step(f)
    <2>1. ASSUME NEW i \in 1..(n + 1) PROVE f[i] = Step(f)[i]
        <3>1. CASE i = 1
            BY <1>3, <3>1 DEF Solution
        <3>2. CASE i # 1
            <4>1. i - 1 \in 1..n /\ (i - 1) + 1 = i
                BY <1>0, <3>2
            <4>2. f[i] = BinaryStep(f[i - 1], nulls[i - 1], type)
                BY <1>4, <4>1
            <4> QED BY <3>2, <4>2 DEF BinaryStep
        <3> QED BY <3>1, <3>2
    <2>2. Step(f) = [i \in 1..(n + 1) |-> Step(f)[i]]
        OBVIOUS
    <2> HIDE DEF Step
    <2> QED BY <2>1, <2>2
<1>6. at = Step(at)
    <2> HIDE DEF Step, at
    <2> QED BY <1>1, <1>5
<1>7. at = [i \in 1..(n + 1) |-> at[i]] /\ at[1] = p
    <2>1. 1 \in 1..(n + 1)
        BY <1>0
    <2> HIDE DEF at
    <2>2. at[1] = Step(at)[1] /\ Step(at)[1] = p
        BY <1>6, <2>1
    <2> QED BY <1>6, <2>2
<1>8. \A i \in 1..n : at[i + 1] = BinaryStep(at[i], nulls[i], type)
    <2> TAKE i \in 1..n
    <2>1. i + 1 \in 1..(n + 1) /\ i + 1 # 1 /\ (i + 1) - 1 = i
        BY <1>0
    <2> HIDE DEF at
    <2>2. at[i + 1] = Step(at)[i + 1]
        BY <1>6
    <2>3. Step(at)[i + 1] = BinaryStep(at[i], nulls[i], type)
        BY <2>1 DEF BinaryStep
    <2> QED BY <2>2, <2>3
<1>9. \A i \in 1..(n + 1) : at[i] \in Places
    <2> DEFINE Good == {k \in Nat : k + 1 \in 1..(n + 1) => at[k + 1] \in Places}
    <2> HIDE DEF at
    <2>1. 0 \in Good
        BY <1>7
    <2>2. ASSUME NEW k \in Nat, k \in Good PROVE k + 1 \in Good
        <3> SUFFICES ASSUME k + 2 \in 1..(n + 1) PROVE at[k + 2] \in Places
            OBVIOUS
        <3>1. k + 1 \in 1..n /\ at[k + 1] \in Places /\ (k + 1) + 1 = k + 2
            BY <1>0, <2>2
        <3> QED BY <1>8, <3>1, BinaryStepType
    <2>3. Nat \subseteq Good
        <3> HIDE DEF Good
        <3> QED BY <2>1, <2>2, SetInduction
    <2> HIDE DEF n
    <2>4. \A i \in 1..(n + 1) : i - 1 \in Nat /\ (i - 1) + 1 = i
        BY <1>0
    <2> QED BY <2>3, <2>4
<1> QED BY <1>7, <1>8, <1>9

\* A reader that got to the end had a binary at every start on its way.
LEMMA BinaryStartsFull ==
    ASSUME buf \in Seq(Int), NEW p \in Places, NEW nulls \in Seq(BOOLEAN), NEW type,
           BinaryStarts(p, nulls, type)[Len(nulls) + 1] # 0,
           NEW i \in 1..Len(nulls), ~nulls[i]
    PROVE  HasBinary(BinaryStarts(p, nulls, type)[i])
<1> DEFINE n == Len(nulls)
           at == BinaryStarts(p, nulls, type)
           Good == {k \in Nat : k <= n => at[n + 1 - k] # 0}
<1>0. n \in Nat
    OBVIOUS
<1>1. \A j \in 1..n : at[j + 1] = BinaryStep(at[j], nulls[j], type)
    BY BinaryStartsSteps
<1>2. \A null : BinaryStep(0, null, type) = 0
    BY DEF BinaryStep, HasBinary
<1> HIDE DEF at
<1>3. 0 \in Good
    BY <1>0 DEF at
<1>4. ASSUME NEW k \in Nat, k \in Good PROVE k + 1 \in Good
    <2> SUFFICES ASSUME k + 1 <= n PROVE at[n - k] # 0
        BY <1>0
    <2>1. n - k \in 1..n /\ (n - k) + 1 = n + 1 - k /\ at[n + 1 - k] # 0
        BY <1>0, <1>4
    <2>2. at[n + 1 - k] = BinaryStep(at[n - k], nulls[n - k], type)
        BY <1>1, <2>1
    <2> QED BY <1>2, <2>1, <2>2
<1>5. Nat \subseteq Good
    <2> HIDE DEF Good
    <2> QED BY <1>3, <1>4, SetInduction
<1>6. at[i + 1] # 0
    <2>1. n - i \in Nat /\ n - i <= n /\ n + 1 - (n - i) = i + 1
        BY <1>0
    <2>2. n - i \in Good
        BY <1>5, <2>1
    <2> QED BY <2>1, <2>2
<1>7. at[i + 1] = BinaryStep(at[i], nulls[i], type)
    BY <1>1
<1> QED BY <1>6, <1>7 DEF BinaryStep, at

\* A read that succeeds ends in the buffer and yields n values in S.
Shaped(r, n, S) == r.ok => r.next \in 1..(Len(buf) + 1) /\ r.vals \in [1..n -> S]

LEMMA FailedShaped ==
    ASSUME NEW n, NEW S PROVE Shaped(Failed, n, S)
BY DEF Shaped, Failed

LEMMA ReadShaped ==
    ASSUME NEW n, NEW S, NEW next \in 1..(Len(buf) + 1), NEW vals \in [1..n -> S]
    PROVE  Shaped(Read(next, vals), n, S)
BY DEF Shaped, Read

LEMMA PackedBitsShaped ==
    ASSUME buf \in Seq(Int), NEW p \in 1..(Len(buf) + 1), NEW n \in Nat
    PROVE  Shaped(ReadPackedBits(p, n), n, BOOLEAN)
<1>1. CeilDiv8(n) \in Nat
    BY DEF CeilDiv8
<1>2. CASE Has(p, CeilDiv8(n))
    <2>1. p + CeilDiv8(n) \in 1..(Len(buf) + 1)
        BY <1>1, <1>2 DEF Has
    <2>2. [i \in 1..n |-> BitSet(p, i - 1)] \in [1..n -> BOOLEAN]
        BY DEF BitSet
    <2> QED BY <1>2, <2>1, <2>2, ReadShaped DEF ReadPackedBits
<1>3. CASE ~Has(p, CeilDiv8(n))
    BY <1>3, FailedShaped DEF ReadPackedBits
<1> QED BY <1>2, <1>3

LEMMA NullIndicatorsShaped ==
    ASSUME buf \in Seq(Int), NEW p \in 1..(Len(buf) + 1), NEW n \in Nat
    PROVE  Shaped(ReadNullIndicators(p, n), n, BOOLEAN)
<1>1. CASE ~Has(p, 1)
    BY <1>1, FailedShaped DEF ReadNullIndicators
<1>2. CASE Has(p, 1)
    <2>1. p + 1 \in 1..(Len(buf) + 1)
        BY <1>2 DEF Has
    <2>2. [i \in 1..n |-> FALSE] \in [1..n -> BOOLEAN]
        OBVIOUS
    <2> QED BY <1>2, <2>1, <2>2, ReadShaped, PackedBitsShaped DEF ReadNullIndicators
<1> QED BY <1>1, <1>2

LEMMA ByteArrayShaped ==
    ASSUME buf \in Seq(Int), NEW p \in 1..(Len(buf) + 1), NEW nulls \in Seq(BOOLEAN)
    PROVE  Shaped(ByteArrayValues(p, nulls), Len(nulls), AnyCells)
<1> DEFINE n == Len(nulls)
           bits == ReadPackedBits(p, n)
           vals == [i \in 1..n |-> IF nulls[i] THEN Null
                                   ELSE [type |-> Boolean, v |-> <<IF bits.vals[i] THEN 1 ELSE 0>>]]
<1>0. n \in Nat
    OBVIOUS
<1>1. Shaped(bits, n, BOOLEAN)
    BY <1>0, PackedBitsShaped
<1>2. ByteArrayValues(p, nulls) = IF ~bits.ok THEN Failed ELSE Read(bits.next, vals)
    BY DEF ByteArrayValues
<1>3. vals \in [1..n -> AnyCells]
    <2>1. \A i \in 1..n : [type |-> Boolean, v |-> <<IF bits.vals[i] THEN 1 ELSE 0>>] \in AnyCells
        BY DEF AnyCells, Boolean
    <2>2. Null \in AnyCells
        BY DEF AnyCells
    <2> QED BY <2>1, <2>2
<1> HIDE DEF bits, vals
<1>4. CASE bits.ok
    <2>1. bits.next \in 1..(Len(buf) + 1)
        BY <1>1, <1>4 DEF Shaped
    <2> QED BY <1>2, <1>3, <1>4, <2>1, ReadShaped
<1>5. CASE ~bits.ok
    BY <1>2, <1>5, FailedShaped
<1> QED BY <1>4, <1>5

LEMMA NumbersShaped ==
    ASSUME buf \in Seq(Int), NEW p \in 1..(Len(buf) + 1), NEW nulls \in Seq(BOOLEAN),
           NEW type \in Int, NEW types
    PROVE  Shaped(NumberValues(p, nulls, type, types), Len(nulls), AnyCells)
<1> DEFINE n == Len(nulls)
           used == Before(nulls, n + 1)
           vals == [i \in 1..n |-> IF nulls[i] THEN Null
                                   ELSE [type |-> type, v |-> <<buf[p + Before(nulls, i)]>>]]
           bad == ~Has(p, used) \/ (used > 0 /\ type \notin types)
<1>0. n \in Nat /\ n + 1 \in 1..(n + 1)
    OBVIOUS
<1>1. NumberValues(p, nulls, type, types) = IF bad THEN Failed ELSE Read(p + used, vals)
    BY DEF NumberValues
<1>2. used \in Nat
    BY <1>0, BeforeSteps
<1>3. CASE bad
    <2> HIDE DEF bad, vals, n
    <2> QED BY <1>1, <1>3, FailedShaped
<1>4. CASE ~bad
    <2>1. p + used \in 1..(Len(buf) + 1)
        BY <1>2, <1>4 DEF Has
    <2>2. ASSUME NEW i \in 1..n, ~nulls[i] PROVE buf[p + Before(nulls, i)] \in Int
        <3>1. i \in 1..(n + 1) /\ i + 1 \in 1..(n + 1) /\ i + 1 <= n + 1
            BY <1>0
        <3>2. Before(nulls, i) \in Nat /\ Before(nulls, i + 1) = Before(nulls, i) + 1
            BY <2>2, <3>1, BeforeSteps
        <3>3. Before(nulls, i + 1) <= used
            BY <1>0, <3>1, BeforeGrows
        <3> HIDE DEF used
        <3>4. p + Before(nulls, i) \in 1..Len(buf)
            BY <1>2, <2>1, <3>2, <3>3
        <3> QED BY <3>4
    <2>3. \A i \in 1..n : ~nulls[i] => [type |-> type, v |-> <<buf[p + Before(nulls, i)]>>] \in AnyCells
        BY <2>2 DEF AnyCells
    <2>4. Null \in AnyCells
        BY DEF AnyCells
    <2>5. vals \in [1..n -> AnyCells]
        BY <2>3, <2>4
    <2> HIDE DEF bad, vals, n
    <2> QED BY <1>1, <1>4, <2>1, <2>5, ReadShaped DEF n
<1> QED BY <1>3, <1>4

LEMMA BinariesShaped ==
    ASSUME buf \in Seq(Int), NEW p \in 1..(Len(buf) + 1), NEW nulls \in Seq(BOOLEAN),
           NEW type \in Int
    PROVE  Shaped(BinaryValues(p, nulls, type), Len(nulls), AnyCells)
<1> DEFINE n == Len(nulls)
           at == BinaryStarts(p, nulls, type)
           vals == [i \in 1..n |-> IF nulls[i] THEN Null ELSE BinaryValue(type, BytesAt(at[i]))]
<1>0. n \in Nat /\ n + 1 \in 1..(n + 1) /\ p \in Places
    BY DEF Places
<1>1. at \in [1..(n + 1) -> Places]
    BY <1>0, BinaryStartsSteps
<1>2. BinaryValues(p, nulls, type) = IF at[n + 1] = 0 THEN Failed ELSE Read(at[n + 1], vals)
    BY DEF BinaryValues
<1>3. CASE at[n + 1] = 0
    <2> HIDE DEF at, vals, n
    <2> QED BY <1>2, <1>3, FailedShaped
<1>4. CASE at[n + 1] # 0
    <2>1. at[n + 1] \in 1..(Len(buf) + 1)
        BY <1>0, <1>1, <1>4 DEF Places
    <2>2. ASSUME NEW i \in 1..n, ~nulls[i] PROVE BinaryValue(type, BytesAt(at[i])) \in AnyCells
        <3>1. HasBinary(at[i])
            BY <1>0, <1>4, <2>2, BinaryStartsFull
        <3>2. PICK q \in Places : q = at[i]
            <4> HIDE DEF at
            <4>1. i \in 1..(n + 1)
                BY <1>0
            <4> QED BY <1>1, <4>1
        <3>3. BytesAt(q) \in Seq(Int)
            <4>0. HasBinary(q)
                BY <3>1, <3>2
            <4>1. q \in 1..Len(buf) /\ buf[q] \in Nat /\ q + buf[q] <= Len(buf)
                BY <4>0 DEF HasBinary, Has, Places
            <4>2. q + 1 \in Int /\ q + buf[q] \in Int
                BY <4>1
            <4>3. ASSUME NEW k \in (q + 1)..(q + buf[q]) PROVE buf[k] \in Int
                <5>1. k \in 1..Len(buf)
                    BY <4>1
                <5> QED BY <5>1
            <4> QED BY <4>2, <4>3, SubSeqProperties DEF BytesAt
        <3> QED BY <3>2, <3>3 DEF BinaryValue, AnyCells, Blob
    <2>3. Null \in AnyCells
        BY DEF AnyCells
    <2>4. vals \in [1..n -> AnyCells]
        BY <2>2, <2>3
    <2> HIDE DEF at, vals, n
    <2> QED BY <1>2, <1>4, <2>1, <2>4, ReadShaped DEF n
<1> QED BY <1>3, <1>4

LEMMA PlainColumnShaped ==
    ASSUME buf \in Seq(Int), NEW p \in 1..(Len(buf) + 1), NEW encoding, NEW type \in Int, NEW n \in Nat
    PROVE  Shaped(PlainColumn(p, encoding, type, n), n, AnyCells)
<1> DEFINE r == ReadNullIndicators(p, n)
           bad == encoding \notin {ByteArray, Int32Array, Int64Array, BinaryArray} \/ ~r.ok
<1>1. CASE bad
    <2>1. PlainColumn(p, encoding, type, n) = Failed
        BY <1>1 DEF PlainColumn
    <2> QED BY <2>1, FailedShaped
<1>2. CASE ~bad
    <2>1. PICK nulls \in Seq(BOOLEAN) : nulls = r.vals /\ Len(nulls) = n
        <3>1. r.vals \in [1..n -> BOOLEAN]
            BY <1>2, NullIndicatorsShaped DEF Shaped
        <3> HIDE DEF r
        <3>2. r.vals \in Seq(BOOLEAN) /\ Len(r.vals) = n
            BY <3>1
        <3> QED BY <3>2
    <2>2. PICK q \in 1..(Len(buf) + 1) : q = r.next
        BY <1>2, NullIndicatorsShaped DEF Shaped
    <2>3. PlainColumn(p, encoding, type, n) \in
            {ByteArrayValues(q, nulls), NumberValues(q, nulls, type, {Int32, Date, Float}),
             NumberValues(q, nulls, type, {Int64, Timestamp, Double}), BinaryValues(q, nulls, type)}
        <3>1. encoding \in {0, 1, 2, 3}
            BY <1>2 DEF ByteArray, Int32Array, Int64Array, BinaryArray
        <3> QED BY <1>2, <2>1, <2>2, <3>1 DEF PlainColumn, ByteArray, Int32Array, Int64Array, BinaryArray
    <2> QED BY <2>1, <2>3, ByteArrayShaped, NumbersShaped, BinariesShaped
<1> QED BY <1>1, <1>2

\* Whatever the buffer holds, a column that decodes has n entries and ends in it.
LEMMA DecodeColumnShaped ==
    ASSUME buf \in Seq(Int), NEW p \in 1..(Len(buf) + 1), NEW encoding, NEW type \in Int, NEW n \in Nat
    PROVE  Shaped(DecodeColumn(p, encoding, type, n), n, AnyCells)
<1>1. CASE encoding # Rle
    BY <1>1, PlainColumnShaped DEF DecodeColumn
<1>2. CASE encoding = Rle /\ ~Has(p, 1)
    BY <1>2, FailedShaped DEF DecodeColumn
<1>3. CASE encoding = Rle /\ Has(p, 1)
    <2> DEFINE single == PlainColumn(p + 1, buf[p], type, 1)
               vals == [i \in 1..n |-> single.vals[1]]
    <2>1. p + 1 \in 1..(Len(buf) + 1) /\ 1 \in Nat
        BY <1>3 DEF Has
    <2>2. Shaped(single, 1, AnyCells)
        BY <2>1, PlainColumnShaped
    <2>3. DecodeColumn(p, encoding, type, n) = IF single.ok THEN Read(single.next, vals) ELSE Failed
        BY <1>3 DEF DecodeColumn
    <2> HIDE DEF single
    <2>4. CASE single.ok
        <3>1. single.next \in 1..(Len(buf) + 1) /\ vals \in [1..n -> AnyCells]
            BY <2>2, <2>4 DEF Shaped
        <3> HIDE DEF vals
        <3> QED BY <2>3, <2>4, <3>1, ReadShaped
    <2>5. CASE ~single.ok
        BY <2>3, <2>5, FailedShaped
    <2> QED BY <2>4, <2>5
<1> QED BY <1>1, <1>2, <1>3

-----------------------------------------------------------------------------
(* What the server writes *)

TypeNames == {Boolean, Int32, Int64, Float, Double, Text, Timestamp, Date, Blob, String}
Binaries == {Text, Blob, String}

LEMMA ServerTypesNamed == ServerTypes = TypeNames /\ ServerTypes \subseteq Int
BY DEF ServerTypes, TypeNames, TypeCodes, Boolean, Int32, Int64, Float, Double, Text, Timestamp,
       Date, Blob, String

\* The cells of a type, spelt out.
LEMMA CellsType ==
    ASSUME NEW type \in ServerTypes, NEW cell \in CellsOf(type), cell # Null
    PROVE  /\ cell = [type |-> type, v |-> cell.v] /\ cell.v \in Seq(Int)
           /\ type = Boolean => cell.v \in {<<0>>, <<1>>}
           /\ type = String => cell.v \in Seq((0..255) \ NonUtf8)
           /\ type \notin Binaries \cup {Boolean} => cell.v = <<cell.v[1]>> /\ cell.v[1] \in Int
<1>1. cell \in [type : {type}, v : Payloads(type)]
    BY DEF CellsOf
<1>2. cell.v \in Payloads(type) /\ cell = [type |-> type, v |-> cell.v]
    BY <1>1
<1>3. PICK v : v = cell.v
    OBVIOUS
<1>4. v \in Payloads(type)
    BY <1>2, <1>3
<1> SUFFICES /\ v \in Seq(Int)
             /\ type = Boolean => v \in {<<0>>, <<1>>}
             /\ type = String => v \in Seq((0..255) \ NonUtf8)
             /\ type \notin Binaries \cup {Boolean} => v = <<v[1]>> /\ v[1] \in Int
    BY <1>2, <1>3
<1>0. USE DEF Boolean, Int32, Int64, Float, Double, Text, Timestamp, Date, Blob, String
<1>5. CASE type = Boolean
    <2>1. v \in {<<0>>, <<1>>}
        BY <1>4, <1>5 DEF Payloads
    <2>2. <<0>> \in Seq(Int) /\ <<1>> \in Seq(Int)
        OBVIOUS
    <2>3. v \in Seq(Int)
        BY <2>1, <2>2, Zenon
    <2> QED BY <1>5, <2>1, <2>3
<1>6. CASE type \in {Text, Blob}
    <2>1. v \in Seq(0..255)
        BY <1>4, <1>6 DEF Payloads
    <2>2. 0..255 \subseteq Int
        OBVIOUS
    <2>3. v \in Seq(Int)
        BY <2>1, <2>2, SeqMonotonic
    <2> QED BY <1>6, <2>3 DEF Binaries
<1>7. CASE type = String
    <2>1. v \in Seq((0..255) \ NonUtf8)
        BY <1>4, <1>7 DEF Payloads
    <2>2. (0..255) \ NonUtf8 \subseteq Int
        OBVIOUS
    <2>3. v \in Seq(Int)
        BY <2>1, <2>2, SeqMonotonic
    <2> QED BY <1>7, <2>1, <2>3 DEF Binaries
<1>8. CASE type \in {Int32, Date, Float, Int64, Timestamp, Double}
    <2>1. v \in [1..1 -> Int]
        BY <1>4, <1>8 DEF Payloads
    <2>2. v \in Seq(Int) /\ Len(v) = 1
        BY <2>1, FunctionIsSeq
    <2>3. v = <<v[1]>> /\ v[1] \in Int
        BY <2>2
    <2> QED BY <1>8, <2>2, <2>3
<1> QED BY <1>5, <1>6, <1>7, <1>8, ServerTypesNamed DEF TypeNames

LEMMA ByteType ==
    ASSUME NEW bits, NEW b \in Int PROVE PackedByte(bits, b) \in Int
<1>1. /\ Bit(bits, b, 0) \in Int /\ Bit(bits, b, 1) \in Int /\ Bit(bits, b, 2) \in Int
      /\ Bit(bits, b, 3) \in Int /\ Bit(bits, b, 4) \in Int /\ Bit(bits, b, 5) \in Int
      /\ Bit(bits, b, 6) \in Int /\ Bit(bits, b, 7) \in Int
    BY DEF Bit, Weight
<1> QED BY <1>1 DEF PackedByte

LEMMA PackedType ==
    ASSUME NEW bits \in Seq(BOOLEAN)
    PROVE  Packed(bits) \in Seq(Int) /\ Len(Packed(bits)) = CeilDiv8(Len(bits)) /\ CeilDiv8(Len(bits)) \in Nat
<1>1. CeilDiv8(Len(bits)) \in Nat
    BY DEF CeilDiv8
<1>2. Packed(bits) \in [1..CeilDiv8(Len(bits)) -> Int]
    BY ByteType DEF Packed
<1> QED BY <1>1, <1>2

LEMMA NullsType ==
    ASSUME NEW S, NEW cells \in Seq(S)
    PROVE  /\ NullsOf(cells) \in Seq(BOOLEAN) /\ Len(NullsOf(cells)) = Len(cells)
           /\ \A i \in 1..Len(cells) : NullsOf(cells)[i] = (cells[i] = Null)
<1>1. NullsOf(cells) \in [1..Len(cells) -> BOOLEAN]
    BY DEF NullsOf
<1>2. \A i \in 1..Len(cells) : NullsOf(cells)[i] = (cells[i] = Null)
    BY DEF NullsOf
<1> QED BY <1>1, <1>2

LEMMA NullPartType ==
    ASSUME NEW S, NEW cells \in Seq(S), NEW flag
    PROVE  NullPart(cells, flag) \in Seq(Int)
<1>1. Packed(NullsOf(cells)) \in Seq(Int)
    BY NullsType, PackedType
<1>2. <<1>> \o Packed(NullsOf(cells)) \in Seq(Int) /\ <<0>> \in Seq(Int)
    BY <1>1
<1> QED BY <1>2 DEF NullPart

LEMMA ValueOfType ==
    ASSUME NEW type \in ServerTypes, NEW cell \in CellsOf(type)
    PROVE  /\ ValueOf(type, cell) \in Seq(Int)
           /\ cell = Null => ValueOf(type, cell) = <<>>
           /\ cell # Null /\ type \in Binaries => ValueOf(type, cell) = <<Len(cell.v)>> \o cell.v
           /\ cell # Null /\ type \notin Binaries => ValueOf(type, cell) = cell.v
<1>1. CASE cell = Null
    BY <1>1 DEF ValueOf
<1>2. CASE cell # Null /\ type \in Binaries
    <2>1. ValueOf(type, cell) = <<Len(cell.v)>> \o cell.v
        BY <1>2 DEF ValueOf, Binaries
    <2>2. cell.v \in Seq(Int)
        BY <1>2, CellsType
    <2> QED BY <1>2, <2>1, <2>2
<1>3. CASE cell # Null /\ type \notin Binaries
    <2>1. ValueOf(type, cell) = cell.v
        BY <1>3 DEF ValueOf, Binaries
    <2> QED BY <1>3, <2>1, CellsType
<1> QED BY <1>1, <1>2, <1>3

\* The pieces a column of values is written in.
ValuesOf(type, cells) == [i \in DOMAIN cells |-> ValueOf(type, cells[i])]

LEMMA ValuesOfType ==
    ASSUME NEW type \in ServerTypes, NEW cells \in Seq(CellsOf(type))
    PROVE  /\ ValuesOf(type, cells) \in Seq(Seq(Int)) /\ Len(ValuesOf(type, cells)) = Len(cells)
           /\ \A i \in 1..Len(cells) : ValuesOf(type, cells)[i] = ValueOf(type, cells[i])
<1> DEFINE vs == [i \in 1..Len(cells) |-> ValueOf(type, cells[i])]
<1>1. ASSUME NEW i \in 1..Len(cells) PROVE ValueOf(type, cells[i]) \in Seq(Int)
    <2>1. cells[i] \in CellsOf(type)
        OBVIOUS
    <2> QED BY <2>1, ValueOfType
<1>2. vs \in [1..Len(cells) -> Seq(Int)] /\ Len(cells) \in Nat
    BY <1>1
<1>3. ValuesOf(type, cells) = vs
    BY DEF ValuesOf
<1>4. \A i \in 1..Len(cells) : vs[i] = ValueOf(type, cells[i])
    OBVIOUS
<1> HIDE DEF vs
<1>5. vs \in Seq(Seq(Int)) /\ Len(vs) = Len(cells)
    BY <1>2
<1> QED BY <1>3, <1>4, <1>5

\* The truth values a boolean column is written from.
TruthOf(cells) == [i \in DOMAIN cells |-> cells[i] # Null /\ cells[i].v = <<1>>]

LEMMA TruthType ==
    ASSUME NEW S, NEW cells \in Seq(S)
    PROVE  /\ TruthOf(cells) \in Seq(BOOLEAN) /\ Len(TruthOf(cells)) = Len(cells)
           /\ \A i \in 1..Len(cells) : TruthOf(cells)[i] = (cells[i] # Null /\ cells[i].v = <<1>>)
<1>1. TruthOf(cells) \in [1..Len(cells) -> BOOLEAN]
    BY DEF TruthOf
<1>2. \A i \in 1..Len(cells) : TruthOf(cells)[i] = (cells[i] # Null /\ cells[i].v = <<1>>)
    BY DEF TruthOf
<1> QED BY <1>1, <1>2

LEMMA ValuePartType ==
    ASSUME NEW type \in ServerTypes, NEW cells \in Seq(CellsOf(type))
    PROVE  ValuePart(type, cells) \in Seq(Int)
<1>1. CASE type = Boolean
    <2>1. ValuePart(type, cells) = Packed(TruthOf(cells))
        BY <1>1 DEF ValuePart, TruthOf
    <2> QED BY <2>1, TruthType, PackedType
<1>2. CASE type # Boolean
    <2>1. ValuePart(type, cells) = FlattenSeq(ValuesOf(type, cells))
        BY <1>2 DEF ValuePart, ValuesOf
    <2> QED BY <2>1, ValuesOfType, FlattenSeqType
<1> QED BY <1>1, <1>2

LEMMA PlainBodyType ==
    ASSUME NEW type \in ServerTypes, NEW cells \in Seq(CellsOf(type)), NEW flag
    PROVE  PlainBody(type, cells, flag) \in Seq(Int)
<1>1. NullPart(cells, flag) \in Seq(Int)
    BY NullPartType
<1>2. ValuePart(type, cells) \in Seq(Int)
    BY ValuePartType
<1> QED BY <1>1, <1>2 DEF PlainBody

LEMMA PlainEncodingType ==
    ASSUME NEW type \in ServerTypes
    PROVE  PlainEncoding(type) \in 0..3
BY ServerTypesNamed DEF TypeNames, PlainEncoding, Boolean, Int32, Int64, Float, Double, Text, Timestamp,
   Date, Blob, String, ByteArray, Int32Array, Int64Array, BinaryArray

\* The one cell a run-length encoded column keeps.
RunCells(cells) == IF cells = <<>> THEN <<Null>> ELSE <<cells[1]>>

LEMMA RunCellsType ==
    ASSUME NEW type, NEW cells \in Seq(CellsOf(type))
    PROVE  RunCells(cells) \in Seq(CellsOf(type)) /\ Len(RunCells(cells)) = 1
<1>1. Null \in CellsOf(type)
    BY DEF CellsOf
<1> QED BY <1>1 DEF RunCells

LEMMA BodyType ==
    ASSUME NEW type \in ServerTypes, NEW cells \in Seq(CellsOf(type)), NEW encoding, NEW flag
    PROVE  Body(type, cells, encoding, flag) \in Seq(Int)
<1>1. CASE encoding = Rle
    <2>1. Body(type, cells, encoding, flag) =
            <<PlainEncoding(type)>> \o PlainBody(type, RunCells(cells), flag)
        BY <1>1 DEF Body, RunCells
    <2>2. PlainBody(type, RunCells(cells), flag) \in Seq(Int)
        BY RunCellsType, PlainBodyType
    <2>3. PlainEncoding(type) \in Int
        BY PlainEncodingType
    <2> QED BY <2>1, <2>2, <2>3
<1>2. CASE encoding # Rle
    BY <1>2, PlainBodyType DEF Body
<1> QED BY <1>1, <1>2

LEMMA BlockType ==
    ASSUME NEW b \in Blocks
    PROVE  /\ b.types \in Seq(ServerTypes) /\ b.types \in Seq(Int) /\ b.times \in Seq(Int)
           /\ b.encodings \in Seq(Int) /\ Len(b.encodings) = Len(b.types) + 1
           /\ TimeCells(b) \in Seq(CellsOf(Int64)) /\ Len(TimeCells(b)) = Len(b.times)
           /\ \A i \in 1..Len(b.times) : TimeCells(b)[i] = [type |-> Int64, v |-> <<b.times[i]>>]
           /\ Int64 \in ServerTypes
           /\ \A c \in 1..Len(b.types) :
                b.columns[c] \in Seq(CellsOf(b.types[c])) /\ Len(b.columns[c]) = Len(b.times)
<1>1. ServerBlock(b)
    BY TsBlockAssumption
<1>2. b.types \in Seq(ServerTypes) /\ b.types \in Seq(Int) /\ b.times \in Seq(Int)
    BY <1>1, ServerTypesNamed DEF ServerBlock
<1>3. b.encodings \in Seq(Int) /\ Len(b.encodings) = Len(b.types) + 1
    <2>1. b.encodings \in Seq(0..4) /\ Len(b.encodings) = Len(b.types) + 1
        BY <1>1 DEF ServerBlock
    <2>2. PICK es : es = b.encodings
        OBVIOUS
    <2>3. es \in Seq(0..4)
        BY <2>1, <2>2
    <2>4. es \in Seq(Int)
        BY <2>3
    <2> QED BY <2>1, <2>2, <2>4
<1>4. Int64 \in ServerTypes
    BY ServerTypesNamed DEF TypeNames
<1>5. PICK ts \in Seq(Int) : ts = b.times
    BY <1>2
<1>6. \A i \in 1..Len(ts) : [type |-> Int64, v |-> <<ts[i]>>] \in CellsOf(Int64)
    <2> TAKE i \in 1..Len(ts)
    <2>1. <<ts[i]>> \in [1..1 -> Int]
        OBVIOUS
    <2>2. <<ts[i]>> \in Payloads(Int64)
        BY <2>1 DEF Payloads, Int64, Boolean, Text, Blob, String
    <2> QED BY <2>2 DEF CellsOf
<1>7. TimeCells(b) = [i \in 1..Len(ts) |-> [type |-> Int64, v |-> <<ts[i]>>]]
    BY <1>5 DEF TimeCells
<1>8. TimeCells(b) \in [1..Len(ts) -> CellsOf(Int64)]
    BY <1>6, <1>7
<1>9. /\ TimeCells(b) \in Seq(CellsOf(Int64)) /\ Len(TimeCells(b)) = Len(ts)
      /\ \A i \in 1..Len(ts) : TimeCells(b)[i] = [type |-> Int64, v |-> <<ts[i]>>]
    BY <1>7, <1>8
<1>10. ASSUME NEW c \in 1..Len(b.types)
       PROVE  b.columns[c] \in Seq(CellsOf(b.types[c])) /\ Len(b.columns[c]) = Len(b.times)
    <2>1. c \in DOMAIN b.types
        BY <1>2
    <2>2. b.columns[c] \in [1..Len(ts) -> CellsOf(b.types[c])]
        BY <1>1, <1>5, <2>1 DEF ServerBlock
    <2>3. PICK col : col = b.columns[c]
        OBVIOUS
    <2>4. PICK S : S = CellsOf(b.types[c])
        OBVIOUS
    <2>5. col \in [1..Len(ts) -> S]
        BY <2>2, <2>3, <2>4
    <2>6. col \in Seq(S) /\ Len(col) = Len(ts)
        BY <2>5
    <2> QED BY <1>5, <2>3, <2>4, <2>6
<1> QED BY <1>2, <1>3, <1>4, <1>5, <1>9, <1>10

LEMMA HeaderPartIs ==
    ASSUME NEW b \in Blocks
    PROVE  /\ HeaderPart(b) \in Seq(Int) /\ Len(HeaderPart(b)) = 2 * Len(b.types) + 3
           /\ HeaderPart(b)[1] = Len(b.types) /\ HeaderPart(b)[Len(b.types) + 2] = Len(b.times)
           /\ \A i \in 1..Len(b.types) : HeaderPart(b)[i + 1] = b.types[i]
           /\ \A i \in 1..(Len(b.types) + 1) : HeaderPart(b)[Len(b.types) + 2 + i] = b.encodings[i]
<1>1. PICK ty \in Seq(Int), es \in Seq(Int), n \in Nat :
        ty = b.types /\ es = b.encodings /\ n = Len(b.times) /\ Len(es) = Len(ty) + 1
    <2>1. b.types \in Seq(Int) /\ b.encodings \in Seq(Int) /\ Len(b.encodings) = Len(b.types) + 1
        BY BlockType
    <2>2. Len(b.times) \in Nat
        BY BlockType
    <2> QED BY <2>1, <2>2
<1>2. PICK k \in Nat : k = Len(ty) /\ Len(es) = k + 1
    BY <1>1
<1>3. PICK h1 \in Seq(Int) : h1 = <<k>> \o ty
    <2>1. <<k>> \in Seq(Int)
        OBVIOUS
    <2>2. <<k>> \o ty \in Seq(Int)
        BY <2>1, ConcatProperties
    <2> QED BY <2>2
<1>4. Len(h1) = k + 1 /\ h1[1] = k /\ \A i \in 1..k : h1[i + 1] = ty[i]
    BY <1>2, <1>3
<1>5. PICK h2 \in Seq(Int) : h2 = h1 \o <<n>>
    <2>1. <<n>> \in Seq(Int)
        OBVIOUS
    <2>2. h1 \o <<n>> \in Seq(Int)
        BY <2>1, ConcatProperties
    <2> QED BY <2>2
<1>6. /\ Len(h2) = k + 2 /\ h2[1] = k /\ h2[k + 2] = n
      /\ \A i \in 1..k : h2[i + 1] = ty[i]
    BY <1>2, <1>4, <1>5
<1>7. PICK h \in Seq(Int) : h = h2 \o es
    <2>1. h2 \o es \in Seq(Int)
        BY ConcatProperties
    <2> QED BY <2>1
<1>8. /\ Len(h) = 2 * k + 3 /\ h[1] = k /\ h[k + 2] = n
      /\ \A i \in 1..k : h[i + 1] = ty[i]
      /\ \A i \in 1..(k + 1) : h[k + 2 + i] = es[i]
    <2>1. /\ Len(h) = (k + 2) + (k + 1)
          /\ \A i \in 1..((k + 2) + (k + 1)) : h[i] = IF i <= k + 2 THEN h2[i] ELSE es[i - (k + 2)]
        <3>1. /\ Len(h2 \o es) = Len(h2) + Len(es)
              /\ \A i \in 1..(Len(h2) + Len(es)) : (h2 \o es)[i] = IF i <= Len(h2) THEN h2[i] ELSE es[i - Len(h2)]
            BY ConcatProperties
        <3> QED BY <1>2, <1>6, <1>7, <3>1
    <2>2. \A i \in 1..(k + 2) : i \in 1..((k + 2) + (k + 1)) /\ i <= k + 2
        OBVIOUS
    <2>4. 1 \in 1..(k + 2) /\ k + 2 \in 1..(k + 2) /\ \A i \in 1..k : i + 1 \in 1..(k + 2)
        OBVIOUS
    <2>5. Len(h) = 2 * k + 3
        BY <2>1
    <2>6. \A i \in 1..(k + 2) : h[i] = h2[i]
        BY <2>1, <2>2
    <2>7. \A i \in 1..(k + 1) : h[k + 2 + i] = es[i]
        <3> TAKE i \in 1..(k + 1)
        <3>1. PICK j : j = k + 2 + i
            OBVIOUS
        <3>2. j \in 1..((k + 2) + (k + 1)) /\ ~(j <= k + 2) /\ j - (k + 2) = i
            BY <3>1
        <3> QED BY <2>1, <3>1, <3>2
    <2> QED BY <1>6, <2>4, <2>5, <2>6, <2>7
<1>9. HeaderPart(b) = h
    BY <1>1, <1>2, <1>3, <1>5, <1>7 DEF HeaderPart
<1> QED BY <1>1, <1>2, <1>8, <1>9

LEMMA PartsType ==
    ASSUME NEW b \in Blocks
    PROVE  /\ TimePart(b) \in Seq(Int)
           /\ ColumnParts(b) \in Seq(Seq(Int)) /\ Len(ColumnParts(b)) = Len(b.types)
           /\ \A c \in 1..Len(b.types) :
                ColumnParts(b)[c] = Body(b.types[c], b.columns[c], b.encodings[c + 1], b.flags[c])
           /\ FlattenSeq(ColumnParts(b)) \in Seq(Int)
           /\ Encoded(b) \in Seq(Int)
<1>1. TimePart(b) \in Seq(Int)
    BY BlockType, BodyType DEF TimePart
<1>2. b.types \in Seq(ServerTypes) /\ Len(b.types) \in Nat /\ DOMAIN b.types = 1..Len(b.types)
    <2>1. PICK ty \in Seq(ServerTypes) : ty = b.types
        BY BlockType
    <2> QED BY <2>1
<1>3. ASSUME NEW c \in 1..Len(b.types)
      PROVE  Body(b.types[c], b.columns[c], b.encodings[c + 1], b.flags[c]) \in Seq(Int)
    <2>1. b.types[c] \in ServerTypes
        BY <1>2
    <2>2. b.columns[c] \in Seq(CellsOf(b.types[c]))
        BY BlockType
    <2> QED BY <2>1, <2>2, BodyType
<1>4. ColumnParts(b) \in [1..Len(b.types) -> Seq(Int)]
    BY <1>2, <1>3 DEF ColumnParts
<1>5. ColumnParts(b) \in Seq(Seq(Int)) /\ Len(ColumnParts(b)) = Len(b.types)
    BY <1>2, <1>4, FunctionIsSeq
<1>6. \A c \in 1..Len(b.types) :
        ColumnParts(b)[c] = Body(b.types[c], b.columns[c], b.encodings[c + 1], b.flags[c])
    BY <1>2 DEF ColumnParts
<1>7. FlattenSeq(ColumnParts(b)) \in Seq(Int)
    BY <1>5, FlattenSeqType
<1>8. HeaderPart(b) \in Seq(Int)
    BY HeaderPartIs
<1>9. HeaderPart(b) \o TimePart(b) \o FlattenSeq(ColumnParts(b)) \in Seq(Int)
    BY <1>1, <1>7, <1>8, ConcatProperties
<1> QED BY <1>1, <1>5, <1>6, <1>7, <1>9 DEF Encoded

-----------------------------------------------------------------------------
(* The shape *)

\* What Send delivers is a buffer of numbers.
LEMMA SendShape ==
    ASSUME ShapeInv, Send
    PROVE  ShapeInv'
<1>1. PICK whole \in Seq(Int) : whole = Encoded(block)
    BY PartsType DEF ShapeInv
<1>2. buf' \in Seq(Int)
    <2>1. CASE buf' = whole
        BY <2>1
    <2>2. ASSUME NEW n \in 0..(Len(whole) - 1), buf' = SubSeq(whole, 1, n) PROVE buf' \in Seq(Int)
        <3>1. \A i \in 1..n : whole[i] \in Int
            OBVIOUS
        <3> QED BY <2>2, <3>1, SubSeqProperties
    <2>3. ASSUME NEW i \in DOMAIN whole, NEW x \in Corruptions, buf' = [whole EXCEPT ![i] = x]
          PROVE  buf' \in Seq(Int)
        <3>1. x \in Int
            BY TsBlockAssumption
        <3> QED BY <2>3, <3>1
    <2> QED BY <1>1, <2>1, <2>2, <2>3 DEF Send
<1>3. pos' = 1 /\ Len(buf') \in Nat /\ columns' = <<>> /\ block' = block /\ pc' = "Header"
    BY <1>2 DEF Send, ShapeInv
<1> QED BY <1>2, <1>3 DEF ShapeInv

\* What HeaderFits lets through.
LEMMA HeaderFitsIs ==
    ASSUME buf \in Seq(Int), HeaderFits
    PROVE  /\ buf[1] \in Nat /\ buf[buf[1] + 2] \in Nat /\ 2 * buf[1] + 3 <= Len(buf)
           /\ SubSeq(buf, 2, buf[1] + 1) \in Seq(Int) /\ Len(SubSeq(buf, 2, buf[1] + 1)) = buf[1]
           /\ SubSeq(buf, buf[1] + 3, 2 * buf[1] + 3) \in Seq(Int)
           /\ Len(SubSeq(buf, buf[1] + 3, 2 * buf[1] + 3)) = buf[1] + 1
           /\ \A i \in 1..buf[1] : SubSeq(buf, 2, buf[1] + 1)[i] = buf[i + 1]
           /\ \A i \in 1..(buf[1] + 1) : SubSeq(buf, buf[1] + 3, 2 * buf[1] + 3)[i] = buf[buf[1] + 2 + i]
<1>1. 1 \in 1..Len(buf) /\ buf[1] \in Int
    BY DEF HeaderFits, Has
<1>2. PICK k \in Nat : k = buf[1]
    BY <1>1 DEF HeaderFits
<1>3. 2 * k + 3 <= Len(buf)
    BY <1>2 DEF HeaderFits, Has
<1>4. \A i \in 1..Len(buf) : buf[i] \in Int
    OBVIOUS
<1>5. buf[k + 2] \in Nat
    <2>1. k + 2 \in 1..Len(buf)
        BY <1>3
    <2> QED BY <1>2, <1>4, <2>1 DEF HeaderFits
<1>6. \A i \in 2..(k + 1) : buf[i] \in Int
    BY <1>3, <1>4
<1>7. \A i \in (k + 3)..(2 * k + 3) : buf[i] \in Int
    BY <1>3, <1>4
<1>8. /\ SubSeq(buf, 2, k + 1) \in Seq(Int) /\ Len(SubSeq(buf, 2, k + 1)) = k
      /\ \A i \in 1..k : SubSeq(buf, 2, k + 1)[i] = buf[i + 1]
    <2>1. 2 \in Int /\ k + 1 \in Int
        OBVIOUS
    <2>2. /\ SubSeq(buf, 2, k + 1) \in Seq(Int)
          /\ Len(SubSeq(buf, 2, k + 1)) = IF 2 <= k + 1 THEN (k + 1) - 2 + 1 ELSE 0
          /\ \A i \in 1..((k + 1) - 2 + 1) : SubSeq(buf, 2, k + 1)[i] = buf[2 + i - 1]
        BY <1>6, <2>1, SubSeqProperties
    <2>3. ASSUME NEW i \in 1..k PROVE 2 + i - 1 = i + 1 /\ i \in 1..((k + 1) - 2 + 1)
        OBVIOUS
    <2> QED BY <2>2, <2>3
<1>9. /\ SubSeq(buf, k + 3, 2 * k + 3) \in Seq(Int) /\ Len(SubSeq(buf, k + 3, 2 * k + 3)) = k + 1
      /\ \A i \in 1..(k + 1) : SubSeq(buf, k + 3, 2 * k + 3)[i] = buf[k + 2 + i]
    <2>1. k + 3 \in Int /\ 2 * k + 3 \in Int
        OBVIOUS
    <2>2. /\ SubSeq(buf, k + 3, 2 * k + 3) \in Seq(Int)
          /\ Len(SubSeq(buf, k + 3, 2 * k + 3)) = IF k + 3 <= 2 * k + 3 THEN (2 * k + 3) - (k + 3) + 1 ELSE 0
          /\ \A i \in 1..((2 * k + 3) - (k + 3) + 1) : SubSeq(buf, k + 3, 2 * k + 3)[i] = buf[(k + 3) + i - 1]
        BY <1>7, <2>1, SubSeqProperties
    <2>3. ASSUME NEW i \in 1..(k + 1)
          PROVE  (k + 3) + i - 1 = k + 2 + i /\ i \in 1..((2 * k + 3) - (k + 3) + 1)
        OBVIOUS
    <2> QED BY <2>2, <2>3
<1> QED BY <1>2, <1>3, <1>5, <1>8, <1>9

LEMMA HeaderShape ==
    ASSUME ShapeInv, ReadHeader
    PROVE  ShapeInv'
<1>1. buf \in Seq(Int) /\ buf' = buf /\ block' = block /\ columns' = <<>> /\ Len(buf) \in Nat
    BY DEF ShapeInv, ReadHeader
<1>2. CASE HeaderFits /\ pc' = "Time"
    <2>1. PICK k : k = buf[1]
        OBVIOUS
    <2>2. /\ header' = [types |-> SubSeq(buf, 2, k + 1), count |-> buf[k + 2],
                        encodings |-> SubSeq(buf, k + 3, 2 * k + 3)]
          /\ pos' = 2 * k + 4
        BY <1>2, <2>1 DEF ReadHeader
    <2>3. /\ k \in Nat /\ buf[k + 2] \in Nat /\ 2 * k + 3 <= Len(buf)
          /\ SubSeq(buf, 2, k + 1) \in Seq(Int) /\ Len(SubSeq(buf, 2, k + 1)) = k
          /\ SubSeq(buf, k + 3, 2 * k + 3) \in Seq(Int)
          /\ Len(SubSeq(buf, k + 3, 2 * k + 3)) = k + 1
        BY <1>1, <1>2, <2>1, HeaderFitsIs
    <2>4. /\ header'.types \in Seq(Int) /\ header'.count \in Nat /\ header'.encodings \in Seq(Int)
          /\ Len(header'.encodings) = Len(header'.types) + 1
        BY <2>2, <2>3
    <2>5. pos' \in 1..(Len(buf') + 1)
        BY <1>1, <2>2, <2>3
    <2> QED BY <1>1, <1>2, <2>4, <2>5 DEF ShapeInv
<1>3. CASE ~HeaderFits /\ pc' = "Error" /\ UNCHANGED pos
    BY <1>1, <1>3 DEF ShapeInv
<1> QED BY <1>2, <1>3 DEF ReadHeader

LEMMA TimeShape ==
    ASSUME ShapeInv, ReadTime
    PROVE  ShapeInv'
<1> DEFINE r == DecodeColumn(pos, header.encodings[1], Int64, header.count)
<1>1. /\ buf \in Seq(Int) /\ buf' = buf /\ block' = block /\ columns' = <<>> /\ header' = header
      /\ header.types \in Seq(Int) /\ header.count \in Nat /\ header.encodings \in Seq(Int)
      /\ Len(header.encodings) = Len(header.types) + 1 /\ pos \in 1..(Len(buf) + 1)
    BY DEF ShapeInv, ReadTime
<1>2. Shaped(r, header.count, AnyCells)
    BY <1>1, DecodeColumnShaped DEF Int64
<1>3. CASE /\ r.ok /\ pos' = r.next /\ timestamps' = [i \in DOMAIN r.vals |-> r.vals[i].v[1]]
           /\ pc' = "Column"
    <2> HIDE DEF r
    <2>1. r.next \in 1..(Len(buf) + 1) /\ DOMAIN r.vals = 1..header.count
        BY <1>2, <1>3 DEF Shaped
    <2>2. Len(timestamps') = header.count
        <3>1. timestamps' \in [1..header.count -> {r.vals[i].v[1] : i \in 1..header.count}]
            BY <1>3, <2>1
        <3> QED BY <1>1, <3>1, FunctionIsSeq
    <2>3. columns' \in Seq([1..header.count -> AnyCells]) /\ Len(columns') = 0 /\ Len(header.types) \in Nat
        <3> DEFINE S == [1..header.count -> AnyCells]
        <3> HIDE DEF S
        <3>1. columns' \in Seq(S) /\ Len(columns') = 0 /\ Len(header.types) \in Nat
            BY <1>1
        <3> QED BY <3>1 DEF S
    <2> QED BY <1>1, <1>3, <2>1, <2>2, <2>3 DEF ShapeInv
<1>4. CASE pc' = "Error" /\ UNCHANGED <<pos, timestamps>>
    BY <1>1, <1>4 DEF ShapeInv
<1> QED BY <1>3, <1>4 DEF ReadTime

LEMMA ColumnShape ==
    ASSUME ShapeInv, ReadColumn
    PROVE  ShapeInv'
<1> DEFINE c == Len(columns) + 1
           r == DecodeColumn(pos, header.encodings[c + 1], header.types[c], header.count)
           Entries == [1..header.count -> AnyCells]
<1>1. /\ buf \in Seq(Int) /\ buf' = buf /\ block' = block /\ header' = header
      /\ header.types \in Seq(Int) /\ header.count \in Nat /\ header.encodings \in Seq(Int)
      /\ Len(header.encodings) = Len(header.types) + 1 /\ pos \in 1..(Len(buf) + 1)
      /\ columns \in Seq(Entries) /\ Len(columns) < Len(header.types)
      /\ timestamps' = timestamps /\ Len(timestamps) = header.count
    BY DEF ShapeInv, ReadColumn
<1>2. header.types[c] \in Int
    <2> HIDE DEF Entries
    <2>1. c \in 1..Len(header.types)
        BY <1>1
    <2> QED BY <1>1, <2>1
<1>3. Shaped(r, header.count, AnyCells)
    <2> HIDE DEF c
    <2> QED BY <1>1, <1>2, DecodeColumnShaped
<1>4. CASE r.ok /\ pos' = r.next /\ columns' = Append(columns, r.vals) /\ UNCHANGED pc
    <2> HIDE DEF r
    <2>1. r.next \in 1..(Len(buf) + 1) /\ r.vals \in Entries
        BY <1>3, <1>4 DEF Shaped
    <2>2. columns' \in Seq(Entries) /\ Len(columns') = Len(columns) + 1
        <3> HIDE DEF Entries
        <3> QED BY <1>1, <1>4, <2>1
    <2>3. Len(columns') <= Len(header.types)
        <3> HIDE DEF Entries
        <3> QED BY <1>1, <2>2
    <2>4. pc = "Column"
        BY DEF ReadColumn
    <2> QED BY <1>1, <1>4, <2>1, <2>2, <2>3, <2>4 DEF ShapeInv
<1>5. CASE pc' = "Error" /\ UNCHANGED <<pos, columns>>
    BY <1>1, <1>5 DEF ShapeInv
<1> QED BY <1>4, <1>5 DEF ReadColumn

LEMMA ShapeStep ==
    ASSUME ShapeInv, [Next]_vars
    PROVE  ShapeInv'
<1>1. CASE Finish
    BY <1>1 DEF Finish, ShapeInv
<1>2. CASE UNCHANGED vars
    BY <1>2 DEF vars, ShapeInv
<1> QED BY <1>1, <1>2, SendShape, HeaderShape, TimeShape, ColumnShape DEF Next

LEMMA ShapeInit == Init => ShapeInv
BY DEF Init, ShapeInv

\* For any buffer, cut or corrupt, the Reader's cursor stays in bounds and a
\* decoded block has position_count entries in its times and in every column.
THEOREM DecodedIsWellShaped == Spec => []WellShaped
<1>1. ShapeInv /\ [Next]_vars => ShapeInv'
    BY ShapeStep
<1>2. ShapeInv => WellShaped
    <2> SUFFICES ASSUME ShapeInv, pc = "Done", NEW c \in DOMAIN columns
                 PROVE  Len(columns[c]) = header.count
        BY DEF ShapeInv, WellShaped
    <2>1. header.count \in Nat /\ columns[c] \in [1..header.count -> AnyCells]
        <3> DEFINE S == [1..header.count -> AnyCells]
        <3>1. columns \in Seq(S) /\ header.count \in Nat
            BY DEF ShapeInv
        <3> HIDE DEF S
        <3>2. columns[c] \in S
            BY <3>1
        <3> QED BY <3>1, <3>2 DEF S
    <2> QED BY <2>1, FunctionIsSeq
<1> QED BY <1>1, <1>2, ShapeInit, PTL DEF Spec

-----------------------------------------------------------------------------
(* Reading what the server wrote *)

LEMMA MatchesConcat ==
    ASSUME buf \in Seq(Int), NEW p \in Nat \ {0}, NEW s \in Seq(Int), NEW t \in Seq(Int),
           Matches(p, s \o t)
    PROVE  Matches(p, s) /\ Matches(p + Len(s), t)
<1> DEFINE w == s \o t
<1>1. /\ Len(w) = Len(s) + Len(t) /\ Len(s) \in Nat /\ Len(t) \in Nat
      /\ \A i \in 1..Len(s) : w[i] = s[i]
      /\ \A i \in 1..Len(t) : w[Len(s) + i] = t[i]
    OBVIOUS
<1> HIDE DEF w
<1>2. Matches(p, w) /\ Len(buf) \in Nat
    BY DEF w
<1>3. Matches(p, s)
    BY <1>1, <1>2 DEF Matches
<1>4. ASSUME NEW j \in 1..Len(t), Has(p + Len(s), j) PROVE buf[p + Len(s) + j - 1] = t[j]
    <2>1. PICK i : i = Len(s) + j
        OBVIOUS
    <2>2. i \in 1..Len(w) /\ Has(p, i) /\ p + i - 1 = p + Len(s) + j - 1
        BY <1>1, <1>2, <1>4, <2>1 DEF Has
    <2>3. buf[p + i - 1] = w[i]
        BY <1>2, <2>2 DEF Matches
    <2> QED BY <1>1, <2>1, <2>2, <2>3
<1> QED BY <1>3, <1>4 DEF Matches

\* Bit k of byte b, as a number.
Flag(bits, b, k) == IF 8 * (b - 1) + k < Len(bits) /\ bits[8 * (b - 1) + k + 1] THEN 1 ELSE 0

LEMMA PackedByteBits ==
    ASSUME NEW bits, NEW b \in Int, NEW k \in 0..7
    PROVE  (PackedByte(bits, b) \div Weight[k + 1]) % 2 = Flag(bits, b, k)
<1> DEFINE F(i) == Flag(bits, b, i)
<1>1. /\ F(0) \in {0, 1} /\ F(1) \in {0, 1} /\ F(2) \in {0, 1} /\ F(3) \in {0, 1}
      /\ F(4) \in {0, 1} /\ F(5) \in {0, 1} /\ F(6) \in {0, 1} /\ F(7) \in {0, 1}
    BY DEF Flag
<1>2. /\ Bit(bits, b, 0) = 128 * F(0) /\ Bit(bits, b, 1) = 64 * F(1) /\ Bit(bits, b, 2) = 32 * F(2)
      /\ Bit(bits, b, 3) = 16 * F(3) /\ Bit(bits, b, 4) = 8 * F(4) /\ Bit(bits, b, 5) = 4 * F(5)
      /\ Bit(bits, b, 6) = 2 * F(6) /\ Bit(bits, b, 7) = F(7)
    BY DEF Flag, Bit, Weight
<1> HIDE DEF F
<1>3. PICK x \in Int : x = PackedByte(bits, b)
    BY ByteType
<1>4. x = 128 * F(0) + 64 * F(1) + 32 * F(2) + 16 * F(3) + 8 * F(4) + 4 * F(5) + 2 * F(6) + F(7)
    BY <1>1, <1>2, <1>3 DEF PackedByte
<1>5. /\ (x \div 128) % 2 = F(0) /\ (x \div 64) % 2 = F(1) /\ (x \div 32) % 2 = F(2)
      /\ (x \div 16) % 2 = F(3) /\ (x \div 8) % 2 = F(4) /\ (x \div 4) % 2 = F(5)
      /\ (x \div 2) % 2 = F(6) /\ (x \div 1) % 2 = F(7)
    <2>1. PICK a \in {0, 1}, c \in {0, 1}, d \in {0, 1}, e \in {0, 1},
               f \in {0, 1}, g \in {0, 1}, h \in {0, 1}, i \in {0, 1} :
            /\ a = F(0) /\ c = F(1) /\ d = F(2) /\ e = F(3)
            /\ f = F(4) /\ g = F(5) /\ h = F(6) /\ i = F(7)
        BY <1>1
    <2>2. x = 128 * a + 64 * c + 32 * d + 16 * e + 8 * f + 4 * g + 2 * h + i
        BY <1>4, <2>1
    <2>3. /\ (x \div 128) % 2 = a /\ (x \div 64) % 2 = c /\ (x \div 32) % 2 = d
          /\ (x \div 16) % 2 = e /\ (x \div 8) % 2 = f /\ (x \div 4) % 2 = g
          /\ (x \div 2) % 2 = h /\ (x \div 1) % 2 = i
        BY <2>2
    <2> QED BY <2>1, <2>3
<1>6. k \in {0, 1, 2, 3, 4, 5, 6, 7}
    OBVIOUS
<1>7. (x \div Weight[k + 1]) % 2 = F(k)
    BY <1>5, <1>6 DEF Weight
<1> QED BY <1>3, <1>7 DEF F

\* A read of s from p on, if the buffer has all of it, yields vals.
Reads(r, p, s, vals) == r = IF Has(p, Len(s)) THEN Read(p + Len(s), vals) ELSE Failed

LEMMA PackedReads ==
    ASSUME buf \in Seq(Int), NEW p \in Nat \ {0}, NEW bits \in Seq(BOOLEAN), Matches(p, Packed(bits))
    PROVE  Reads(ReadPackedBits(p, Len(bits)), p, Packed(bits), bits)
<1> DEFINE n == Len(bits)
           m == CeilDiv8(n)
<1>1. n \in Nat /\ m \in Nat /\ Len(Packed(bits)) = m
    BY PackedType
<1>2. CASE ~Has(p, m)
    BY <1>1, <1>2 DEF Reads, ReadPackedBits
<1>3. CASE Has(p, m)
    <2>1. ASSUME NEW i \in 1..n PROVE BitSet(p, i - 1) = bits[i]
        <3>1. PICK b \in Int, k \in 0..7 : i - 1 = 8 * (b - 1) + k /\ b = (i - 1) \div 8 + 1 /\ k = (i - 1) % 8
            <4>1. i - 1 \in Nat
                BY <1>1
            <4>2. /\ (i - 1) \div 8 + 1 \in Int /\ (i - 1) % 8 \in 0..7
                  /\ i - 1 = 8 * (((i - 1) \div 8 + 1) - 1) + ((i - 1) % 8)
                BY <4>1
            <4> QED BY <4>2
        <3>2. b \in 1..m
            BY <1>1, <3>1 DEF CeilDiv8
        <3>3. buf[p + (i - 1) \div 8] = PackedByte(bits, b)
            <4>1. Has(p, b)
                BY <1>1, <1>3, <3>2 DEF Has
            <4>2. buf[p + b - 1] = Packed(bits)[b]
                BY <1>1, <3>2, <4>1 DEF Matches
            <4>3. Packed(bits)[b] = PackedByte(bits, b)
                BY <3>2 DEF Packed
            <4>4. p + b - 1 = p + (i - 1) \div 8
                BY <3>1
            <4> QED BY <4>2, <4>3, <4>4
        <3>4. BitSet(p, i - 1) = ((PackedByte(bits, b) \div Weight[k + 1]) % 2 = 1)
            BY <3>1, <3>3 DEF BitSet
        <3>5. (PackedByte(bits, b) \div Weight[k + 1]) % 2 = Flag(bits, b, k)
            BY PackedByteBits
        <3>6. 8 * (b - 1) + k < Len(bits) /\ 8 * (b - 1) + k + 1 = i
            BY <1>1, <3>1
        <3>7. (Flag(bits, b, k) = 1) = bits[i]
            <4>1. bits[i] \in BOOLEAN
                OBVIOUS
            <4> QED BY <3>6, <4>1 DEF Flag
        <3> QED BY <3>4, <3>5, <3>7
    <2>2. [i \in 1..n |-> BitSet(p, i - 1)] = bits
        <3>1. bits = [i \in 1..n |-> bits[i]]
            OBVIOUS
        <3> HIDE DEF n
        <3> QED BY <2>1, <3>1
    <2>3. ReadPackedBits(p, n) = Read(p + m, [i \in 1..n |-> BitSet(p, i - 1)])
        BY <1>3 DEF ReadPackedBits
    <2> QED BY <1>1, <1>3, <2>2, <2>3 DEF Reads
<1> QED BY <1>2, <1>3

LEMMA NullPartReads ==
    ASSUME buf \in Seq(Int), NEW p \in Nat \ {0}, NEW S, NEW cells \in Seq(S), NEW flag,
           Matches(p, NullPart(cells, flag))
    PROVE  Reads(ReadNullIndicators(p, Len(cells)), p, NullPart(cells, flag), NullsOf(cells))
<1>1. PICK bits \in Seq(BOOLEAN) : /\ bits = NullsOf(cells) /\ Len(bits) = Len(cells)
                                   /\ \A i \in 1..Len(bits) : bits[i] = (cells[i] = Null)
    BY NullsType
<1>2. PICK m \in Nat : m = Len(Packed(bits)) /\ Packed(bits) \in Seq(Int)
    BY PackedType
<1>3. CASE flag \/ TRUE \in Range(bits)
    <2>1. NullPart(cells, flag) = <<1>> \o Packed(bits)
        BY <1>1, <1>3 DEF NullPart
    <2>2. <<1>> \in Seq(Int) /\ Len(<<1>>) = 1
        OBVIOUS
    <2>3. Matches(p, <<1>>) /\ Matches(p + 1, Packed(bits))
        BY <1>2, <2>1, <2>2, MatchesConcat
    <2>4. Len(NullPart(cells, flag)) = 1 + m
        BY <1>2, <2>1
    <2>5. Reads(ReadPackedBits(p + 1, Len(bits)), p + 1, Packed(bits), bits)
        BY <2>3, PackedReads
    <2>6. CASE ~Has(p, 1)
        <3>1. ~Has(p, 1 + m)
            BY <1>2, <2>6 DEF Has
        <3> QED BY <2>4, <2>6, <3>1 DEF Reads, ReadNullIndicators
    <2>7. CASE Has(p, 1)
        <3>1. buf[p] = 1
            BY <2>2, <2>3, <2>7 DEF Matches
        <3>2. Has(p + 1, m) <=> Has(p, 1 + m)
            BY <1>2 DEF Has
        <3>3. p + 1 + m = p + (1 + m)
            BY <1>2
        <3> QED BY <1>1, <1>2, <2>4, <2>5, <2>7, <3>1, <3>2, <3>3 DEF Reads, ReadNullIndicators
    <2> QED BY <2>6, <2>7
<1>4. CASE ~(flag \/ TRUE \in Range(bits))
    <2>1. NullPart(cells, flag) = <<0>>
        BY <1>1, <1>4 DEF NullPart
    <2>2. Len(<<0>>) = 1 /\ <<0>>[1] = 0
        OBVIOUS
    <2>3. [i \in 1..Len(cells) |-> FALSE] = bits
        <3>1. \A i \in 1..Len(cells) : bits[i] = FALSE
            <4> TAKE i \in 1..Len(cells)
            <4>1. bits[i] \in Range(bits) /\ bits[i] \in BOOLEAN
                BY <1>1 DEF Range
            <4> QED BY <1>4, <4>1
        <3>2. bits = [i \in 1..Len(cells) |-> bits[i]]
            BY <1>1
        <3> QED BY <3>1, <3>2
    <2>4. CASE ~Has(p, 1)
        BY <2>1, <2>2, <2>4 DEF Reads, ReadNullIndicators
    <2>5. CASE Has(p, 1)
        <3>1. buf[p] = 0
            BY <2>1, <2>2, <2>5 DEF Matches
        <3> QED BY <1>1, <2>1, <2>2, <2>3, <2>5, <3>1 DEF Reads, ReadNullIndicators
    <2> QED BY <2>4, <2>5
<1> QED BY <1>3, <1>4

LEMMA SeenIs ==
    ASSUME NEW type \in ServerTypes, NEW cell \in CellsOf(type), cell # Null
    PROVE  /\ Seen(cell) = BinaryValue(type, cell.v)
           /\ type # Text => Seen(cell) = [type |-> type, v |-> cell.v]
<1>1. cell.type = type
    <2>1. cell = [type |-> type, v |-> cell.v]
        BY CellsType
    <2> QED BY <2>1
<1> QED BY <1>1 DEF Seen, BinaryValue

LEMMA BooleansRead ==
    ASSUME buf \in Seq(Int), NEW p \in Nat \ {0}, NEW cells \in Seq(CellsOf(Boolean)),
           Matches(p, ValuePart(Boolean, cells))
    PROVE  Reads(ByteArrayValues(p, NullsOf(cells)), p, ValuePart(Boolean, cells), SeenColumn(cells))
<1> DEFINE n == Len(cells)
<1>1. PICK truth \in Seq(BOOLEAN) :
        /\ truth = TruthOf(cells) /\ Len(truth) = n
        /\ \A i \in 1..n : truth[i] = (cells[i] # Null /\ cells[i].v = <<1>>)
    BY TruthType
<1>2. ValuePart(Boolean, cells) = Packed(truth)
    BY <1>1 DEF ValuePart, TruthOf
<1>3. PICK nulls \in Seq(BOOLEAN) :
        nulls = NullsOf(cells) /\ Len(nulls) = n /\ \A i \in 1..n : nulls[i] = (cells[i] = Null)
    BY NullsType
<1>4. PICK r : r = ReadPackedBits(p, n)
    OBVIOUS
<1>5. Reads(r, p, Packed(truth), truth)
    BY <1>1, <1>2, <1>4, PackedReads
<1>6. ByteArrayValues(p, nulls) =
        IF ~r.ok THEN Failed
        ELSE Read(r.next, [i \in 1..n |->
               IF nulls[i] THEN Null ELSE [type |-> Boolean, v |-> <<IF r.vals[i] THEN 1 ELSE 0>>]])
    BY <1>3, <1>4 DEF ByteArrayValues
<1>7. CASE Has(p, Len(Packed(truth)))
    <2>1. r.ok /\ r.next = p + Len(Packed(truth)) /\ r.vals = truth
        BY <1>5, <1>7 DEF Reads, Read
    <2>2. ASSUME NEW i \in 1..n
          PROVE  (IF nulls[i] THEN Null ELSE [type |-> Boolean, v |-> <<IF truth[i] THEN 1 ELSE 0>>]) = Seen(cells[i])
        <3>1. CASE cells[i] = Null
            BY <1>3, <3>1 DEF Seen
        <3>2. CASE cells[i] # Null
            <4>1. cells[i] \in CellsOf(Boolean) /\ Boolean \in ServerTypes /\ Boolean # Text
                BY ServerTypesNamed DEF TypeNames, Boolean, Text
            <4>2. cells[i].v \in {<<0>>, <<1>>} /\ Seen(cells[i]) = [type |-> Boolean, v |-> cells[i].v]
                BY <3>2, <4>1, CellsType, SeenIs
            <4>3. cells[i].v = <<IF truth[i] THEN 1 ELSE 0>>
                <5>1. CASE cells[i].v = <<1>>
                    BY <1>1, <3>2, <5>1
                <5>2. CASE cells[i].v = <<0>>
                    <6>1. cells[i].v # <<1>>
                        BY <5>2
                    <6>2. ~truth[i]
                        BY <1>1, <6>1
                    <6> QED BY <5>2, <6>2
                <5> QED BY <4>2, <5>1, <5>2
            <4> QED BY <1>3, <3>2, <4>2, <4>3
        <3> QED BY <3>1, <3>2
    <2>3. SeenColumn(cells) = [i \in 1..n |-> Seen(cells[i])]
        BY DEF SeenColumn
    <2>4. ByteArrayValues(p, nulls) = Read(p + Len(Packed(truth)), SeenColumn(cells))
        <3> HIDE DEF n
        <3> QED BY <1>6, <2>1, <2>2, <2>3
    <2> QED BY <1>2, <1>3, <1>7, <2>4 DEF Reads
<1>8. CASE ~Has(p, Len(Packed(truth)))
    <2>1. ~r.ok
        BY <1>5, <1>8 DEF Reads, Failed
    <2> QED BY <1>2, <1>3, <1>6, <1>8, <2>1 DEF Reads
<1> QED BY <1>7, <1>8

\* Where the values of a column begin in its flattened values.
OffsetsFit(type, cells, vs, flat) ==
    /\ flat \in Seq(Int) /\ Len(flat) \in Nat
    /\ Offset(vs, 0) = 0 /\ Offset(vs, Len(cells)) = Len(flat)
    /\ \A i \in 1..Len(cells) :
         /\ Offset(vs, i - 1) \in Nat /\ Offset(vs, i) \in Nat /\ Offset(vs, i) <= Len(flat)
         /\ cells[i] = Null => Offset(vs, i) = Offset(vs, i - 1)
         /\ cells[i] # Null /\ type \in Binaries =>
              /\ Len(cells[i].v) \in Nat /\ Offset(vs, i) = Offset(vs, i - 1) + 1 + Len(cells[i].v)
              /\ flat[Offset(vs, i - 1) + 1] = Len(cells[i].v)
              /\ \A j \in 1..Len(cells[i].v) : flat[Offset(vs, i - 1) + 1 + j] = cells[i].v[j]
         /\ cells[i] # Null /\ type \notin Binaries /\ type # Boolean =>
              /\ Offset(vs, i) = Offset(vs, i - 1) + 1
              /\ flat[Offset(vs, i - 1) + 1] = cells[i].v[1]

LEMMA ValueOffsets ==
    ASSUME NEW type \in ServerTypes, NEW cells \in Seq(CellsOf(type))
    PROVE  OffsetsFit(type, cells, ValuesOf(type, cells), FlattenSeq(ValuesOf(type, cells)))
<1> DEFINE n == Len(cells)
<1>1. PICK vs \in Seq(Seq(Int)) : /\ vs = ValuesOf(type, cells) /\ Len(vs) = n
                                  /\ \A i \in 1..n : vs[i] = ValueOf(type, cells[i])
    BY ValuesOfType
<1>2. PICK flat \in Seq(Int) : flat = FlattenSeq(vs)
    BY FlattenSeqType
<1>3. /\ Offset(vs, 0) = 0 /\ Offset(vs, n) = Len(flat)
      /\ \A i \in 1..n :
           /\ Offset(vs, i - 1) \in Nat /\ Offset(vs, i) \in Nat /\ Len(vs[i]) \in Nat
           /\ Offset(vs, i) = Offset(vs, i - 1) + Len(vs[i])
           /\ Offset(vs, i) <= Len(flat)
           /\ \A j \in 1..Len(vs[i]) : flat[Offset(vs, i - 1) + j] = vs[i][j]
    <2>1. /\ Offset(vs, 0) = 0 /\ Offset(vs, Len(vs)) = Len(FlattenSeq(vs))
          /\ \A i \in 1..Len(vs) :
                /\ Offset(vs, i - 1) \in Nat /\ Offset(vs, i) \in Nat /\ Len(vs[i]) \in Nat
                /\ Offset(vs, i) = Offset(vs, i - 1) + Len(vs[i])
                /\ Offset(vs, i) <= Len(FlattenSeq(vs))
                /\ \A j \in 1..Len(vs[i]) : FlattenSeq(vs)[Offset(vs, i - 1) + j] = vs[i][j]
        BY FlattenSeqOffsets
    <2> QED BY <1>1, <1>2, <2>1, Zenon
<1>4. ASSUME NEW i \in 1..n
      PROVE  /\ Offset(vs, i - 1) \in Nat /\ Offset(vs, i) \in Nat /\ Offset(vs, i) <= Len(flat)
             /\ cells[i] = Null => Offset(vs, i) = Offset(vs, i - 1)
             /\ cells[i] # Null /\ type \in Binaries =>
                  /\ Len(cells[i].v) \in Nat /\ Offset(vs, i) = Offset(vs, i - 1) + 1 + Len(cells[i].v)
                  /\ flat[Offset(vs, i - 1) + 1] = Len(cells[i].v)
                  /\ \A j \in 1..Len(cells[i].v) : flat[Offset(vs, i - 1) + 1 + j] = cells[i].v[j]
             /\ cells[i] # Null /\ type \notin Binaries /\ type # Boolean =>
                  /\ Offset(vs, i) = Offset(vs, i - 1) + 1
                  /\ flat[Offset(vs, i - 1) + 1] = cells[i].v[1]
    <2>0. cells[i] \in CellsOf(type)
        OBVIOUS
    <2>1. PICK o \in Nat, u \in Nat, x \in Seq(Int) :
            /\ o = Offset(vs, i - 1) /\ u = Offset(vs, i) /\ x = vs[i] /\ u = o + Len(x) /\ u <= Len(flat)
            /\ \A j \in 1..Len(x) : flat[o + j] = x[j]
        <3>1. vs[i] \in Seq(Int)
            BY <1>1
        <3> QED BY <1>3, <3>1, Zenon
    <2>2. CASE cells[i] = Null
        <3>1. x = <<>>
            BY <1>1, <2>0, <2>1, <2>2, ValueOfType
        <3>2. u = o
            BY <2>1, <3>1
        <3> QED BY <2>1, <2>2, <3>2
    <2>3. CASE cells[i] # Null /\ type \in Binaries
        <3>1. PICK w \in Seq(Int) : w = cells[i].v
            BY <2>0, <2>3, CellsType
        <3>2. x = <<Len(w)>> \o w
            BY <1>1, <2>0, <2>1, <2>3, <3>1, ValueOfType
        <3>3. PICK m \in Nat : m = Len(w) /\ Len(x) = 1 + m /\ x[1] = m /\ \A j \in 1..m : x[1 + j] = w[j]
            BY <3>2
        <3>4. u = o + 1 + m
            <4>1. u = o + Len(x) /\ Len(x) = 1 + m
                BY <2>1, <3>3
            <4> QED BY <4>1
        <3>5. flat[o + 1] = m
            <4>1. 1 \in 1..Len(x)
                BY <3>3
            <4> QED BY <2>1, <3>3, <4>1
        <3>6. ASSUME NEW j \in 1..m PROVE flat[o + 1 + j] = w[j]
            <4>1. 1 + j \in 1..Len(x) /\ o + (1 + j) = o + 1 + j
                BY <3>3
            <4>2. flat[o + (1 + j)] = x[1 + j]
                BY <2>1, <4>1
            <4> QED BY <3>3, <4>1, <4>2
        <3> QED BY <2>1, <2>3, <3>1, <3>3, <3>4, <3>5, <3>6
    <2>4. CASE cells[i] # Null /\ type \notin Binaries
        <3>1. x = cells[i].v
            BY <1>1, <2>0, <2>1, <2>4, ValueOfType
        <3>2. type # Boolean => x = <<x[1]>>
            BY <2>0, <2>4, <3>1, CellsType
        <3>3. type # Boolean => Len(x) = 1
            BY <3>2
        <3>4. type # Boolean => u = o + 1 /\ 1 \in 1..Len(x)
            <4>1. u = o + Len(x)
                BY <2>1
            <4>2. Len(x) = 1 => u = o + 1 /\ 1 \in 1..Len(x)
                BY <4>1
            <4> QED BY <3>3, <4>2, Zenon
        <3>5. type # Boolean => flat[o + 1] = x[1]
            BY <2>1, <3>4
        <3> QED BY <2>1, <2>4, <3>1, <3>4, <3>5
    <2> QED BY <2>2, <2>3, <2>4
<1>5. OffsetsFit(type, cells, vs, flat)
    <2>1. Len(flat) \in Nat
        OBVIOUS
    <2> QED BY <1>3, <1>4, <2>1 DEF OffsetsFit
<1> QED BY <1>1, <1>2, <1>5

LEMMA NumbersRead ==
    ASSUME buf \in Seq(Int), NEW p \in Nat \ {0}, NEW type \in ServerTypes,
           type \notin Binaries, type # Boolean, NEW types, type \in types,
           NEW cells \in Seq(CellsOf(type)), Matches(p, ValuePart(type, cells))
    PROVE  Reads(NumberValues(p, NullsOf(cells), type, types), p, ValuePart(type, cells), SeenColumn(cells))
<1> DEFINE n == Len(cells)
<1>0. n \in Nat
    OBVIOUS
<1>1. PICK nulls \in Seq(BOOLEAN) :
        nulls = NullsOf(cells) /\ Len(nulls) = n /\ \A i \in 1..n : nulls[i] = (cells[i] = Null)
    BY NullsType
<1>2. PICK vs, flat :
        /\ flat \in Seq(Int) /\ flat = ValuePart(type, cells) /\ Len(flat) \in Nat
        /\ Offset(vs, 0) = 0 /\ Offset(vs, n) = Len(flat)
        /\ \A i \in 1..n :
             /\ Offset(vs, i - 1) \in Nat /\ Offset(vs, i) \in Nat /\ Offset(vs, i) <= Len(flat)
             /\ cells[i] = Null => Offset(vs, i) = Offset(vs, i - 1)
             /\ cells[i] # Null => /\ Offset(vs, i) = Offset(vs, i - 1) + 1
                                   /\ flat[Offset(vs, i - 1) + 1] = cells[i].v[1]
    <2>1. ValuePart(type, cells) = FlattenSeq(ValuesOf(type, cells))
        BY DEF ValuePart, ValuesOf
    <2>2. PICK vs, flat : vs = ValuesOf(type, cells) /\ flat = FlattenSeq(vs)
        OBVIOUS
    <2>3. OffsetsFit(type, cells, vs, flat)
        BY <2>2, ValueOffsets
    <2> QED BY <2>1, <2>2, <2>3 DEF OffsetsFit
<1>3. \A i \in 1..(n + 1) : Before(nulls, i) = Offset(vs, i - 1)
    <2> DEFINE Good == {k \in Nat : k <= n => Before(nulls, k + 1) = Offset(vs, k)}
    <2>1. 0 \in Good
        BY <1>1, <1>2, BeforeSteps
    <2>2. ASSUME NEW k \in Nat, k \in Good PROVE k + 1 \in Good
        <3> SUFFICES ASSUME k + 1 <= n PROVE Before(nulls, k + 2) = Offset(vs, k + 1)
            OBVIOUS
        <3>1. PICK i \in 1..n : i = k + 1 /\ i - 1 = k /\ i + 1 = k + 2
            BY <1>0
        <3>2. Before(nulls, i) = Offset(vs, i - 1)
            BY <1>0, <2>2, <3>1
        <3>3. Before(nulls, i + 1) = Before(nulls, i) + (IF nulls[i] THEN 0 ELSE 1)
            BY <1>1, BeforeSteps
        <3>4. Before(nulls, i + 1) = Offset(vs, i)
            BY <1>1, <1>2, <3>2, <3>3
        <3> QED BY <3>1, <3>4
    <2>3. Nat \subseteq Good
        <3> HIDE DEF Good
        <3> QED BY <2>1, <2>2, SetInduction
    <2>4. ASSUME NEW i \in 1..(n + 1) PROVE Before(nulls, i) = Offset(vs, i - 1)
        <3>1. i - 1 \in Good /\ i - 1 <= n /\ (i - 1) + 1 = i
            <4> HIDE DEF Good
            <4> QED BY <1>0, <2>3
        <3> QED BY <3>1
    <2> QED BY <2>4
<1>4. PICK used \in Nat : used = Before(nulls, n + 1) /\ used = Len(flat)
    <2>1. n + 1 \in 1..(n + 1) /\ (n + 1) - 1 = n
        BY <1>0
    <2> QED BY <1>2, <1>3, <2>1
<1>5. NumberValues(p, nulls, type, types) =
        IF ~Has(p, used) THEN Failed
        ELSE Read(p + used, [i \in 1..n |->
               IF nulls[i] THEN Null ELSE [type |-> type, v |-> <<buf[p + Before(nulls, i)]>>]])
    BY <1>1, <1>4 DEF NumberValues
<1>6. CASE Has(p, used)
    <2>1. ASSUME NEW i \in 1..n
          PROVE  (IF nulls[i] THEN Null ELSE [type |-> type, v |-> <<buf[p + Before(nulls, i)]>>]) = Seen(cells[i])
        <3>1. CASE cells[i] = Null
            BY <1>1, <3>1 DEF Seen
        <3>2. CASE cells[i] # Null
            <4>1. cells[i] \in CellsOf(type) /\ type # Text
                BY DEF Binaries
            <4>2. Seen(cells[i]) = [type |-> type, v |-> cells[i].v] /\ cells[i].v = <<cells[i].v[1]>>
                BY <3>2, <4>1, CellsType, SeenIs
            <4>3. PICK o \in Nat : o = Before(nulls, i) /\ o + 1 <= Len(flat) /\ flat[o + 1] = cells[i].v[1]
                <5>1. Offset(vs, i - 1) \in Nat /\ Offset(vs, i - 1) + 1 <= Len(flat)
                    BY <1>2, <3>2
                <5>2. Before(nulls, i) = Offset(vs, i - 1)
                    <6>1. i \in 1..(n + 1)
                        BY <1>0
                    <6> QED BY <1>3, <6>1
                <5> QED BY <1>2, <3>2, <5>1, <5>2
            <4>4. Has(p, o + 1) /\ o + 1 \in 1..Len(flat) /\ p + (o + 1) - 1 = p + o
                <5>1. p + used - 1 <= Len(buf) /\ Len(buf) \in Nat
                    BY <1>6 DEF Has
                <5>2. PICK m \in Nat : m = Len(buf)
                    BY <5>1
                <5>3. o + 1 <= used
                    BY <1>4, <4>3
                <5>4. p + (o + 1) - 1 <= m
                    BY <5>1, <5>2, <5>3
                <5> QED BY <1>4, <4>3, <5>2, <5>4 DEF Has
            <4>5. buf[p + o] = flat[o + 1]
                BY <1>2, <4>4 DEF Matches
            <4>6. cells[i].v = <<buf[p + o]>>
                BY <4>2, <4>3, <4>5
            <4> QED BY <1>1, <3>2, <4>2, <4>3, <4>6
        <3> QED BY <3>1, <3>2
    <2>2. SeenColumn(cells) = [i \in 1..n |-> Seen(cells[i])]
        BY DEF SeenColumn
    <2>3. NumberValues(p, nulls, type, types) = Read(p + used, SeenColumn(cells))
        <3> HIDE DEF n
        <3> QED BY <1>5, <1>6, <2>1, <2>2
    <2> QED BY <1>1, <1>2, <1>4, <1>6, <2>3 DEF Reads
<1>7. CASE ~Has(p, used)
    BY <1>1, <1>2, <1>4, <1>5, <1>7 DEF Reads
<1> QED BY <1>6, <1>7

\* The server's bytes are good for their type.
LEMMA BinaryGood ==
    ASSUME NEW type \in Binaries, NEW cell \in CellsOf(type), cell # Null
    PROVE  ~BadBinary(type, cell.v)
<1>1. type \in {Blob, Text, String} /\ type \in ServerTypes
    BY ServerTypesNamed DEF Binaries, TypeNames
<1>2. type = String => NonUtf8 \cap Range(cell.v) = {}
    <2> SUFFICES ASSUME type = String, NEW x \in NonUtf8, x \in Range(cell.v) PROVE FALSE
        OBVIOUS
    <2>1. PICK w \in Seq((0..255) \ NonUtf8) : w = cell.v
        BY <1>1, CellsType
    <2>2. PICK i \in DOMAIN w : x = w[i]
        BY <2>1 DEF Range
    <2>3. w[i] \in (0..255) \ NonUtf8
        OBVIOUS
    <2> QED BY <2>2, <2>3
<1> QED BY <1>1, <1>2, Zenon DEF BadBinary

\* Reading one binary: its length and bytes are there, or the reader fails.
LEMMA BinaryAt ==
    ASSUME buf \in Seq(Int), NEW q \in Nat \ {0}, NEW w \in Seq(Int),
           Has(q, 1) => buf[q] = Len(w),
           \A j \in 1..Len(w) : Has(q + 1, j) => buf[q + j] = w[j]
    PROVE  /\ HasBinary(q) <=> Has(q, 1 + Len(w))
           /\ HasBinary(q) => BytesAt(q) = w /\ buf[q] = Len(w)
<1>1. PICK n \in Nat, m \in Nat : n = Len(buf) /\ m = Len(w)
    OBVIOUS
<1>2. HasBinary(q) => buf[q] = m /\ q + m <= n
    BY <1>1 DEF HasBinary, Has
<1>3. Has(q, 1 + m) => HasBinary(q)
    BY <1>1 DEF HasBinary, Has
<1>4. ASSUME HasBinary(q) PROVE BytesAt(q) = w
    <2>1. buf[q] = m /\ q + m <= n
        BY <1>2, <1>4
    <2>2. \A k \in (q + 1)..(q + m) : buf[k] \in Int
        <3> TAKE k \in (q + 1)..(q + m)
        <3>1. k \in 1..Len(buf)
            BY <1>1, <2>1
        <3> QED BY <3>1
    <2>3. /\ SubSeq(buf, q + 1, q + m) \in Seq(Int)
          /\ Len(SubSeq(buf, q + 1, q + m)) = IF q + 1 <= q + m THEN (q + m) - (q + 1) + 1 ELSE 0
          /\ \A i \in 1..((q + m) - (q + 1) + 1) : SubSeq(buf, q + 1, q + m)[i] = buf[(q + 1) + i - 1]
        <3>1. q + 1 \in Int /\ q + m \in Int
            OBVIOUS
        <3> QED BY <2>2, <3>1, SubSeqProperties
    <2>4. PICK b \in Seq(Int) : b = SubSeq(buf, q + 1, q + m) /\ Len(b) = m
        <3>1. Len(SubSeq(buf, q + 1, q + m)) = m
            BY <2>3
        <3> QED BY <2>3, <3>1
    <2>5. ASSUME NEW i \in 1..m PROVE b[i] = w[i]
        <3>1. i \in 1..((q + m) - (q + 1) + 1) /\ (q + 1) + i - 1 = q + i
            OBVIOUS
        <3>2. b[i] = buf[q + i]
            BY <2>3, <2>4, <3>1
        <3>3. Has(q + 1, i) /\ i \in 1..Len(w)
            BY <1>1, <2>1 DEF Has
        <3> QED BY <3>2, <3>3
    <2>6. b = w
        BY <1>1, <2>4, <2>5, SeqEqual
    <2> QED BY <2>1, <2>4, <2>6 DEF BytesAt
<1>5. Has(q, 1 + m) <=> q + m <= n
    BY <1>1 DEF Has
<1> QED BY <1>1, <1>2, <1>3, <1>4, <1>5

\* What is left of the buffer.
LEMMA HasLess ==
    ASSUME buf \in Seq(Int), NEW p \in Nat, NEW m \in Nat, NEW n \in Nat, m <= n, Has(p, n)
    PROVE  Has(p, m)
<1>1. PICK k \in Nat : k = Len(buf)
    OBVIOUS
<1> QED BY <1>1 DEF Has

LEMMA HasShift ==
    ASSUME buf \in Seq(Int), NEW p \in Nat, NEW o \in Nat, NEW n \in Nat
    PROVE  Has(p + o, n) <=> Has(p, o + n)
<1>1. PICK k \in Nat : k = Len(buf)
    OBVIOUS
<1> QED BY <1>1 DEF Has

\* The same among other values: the binary w lies between o and u.
Holds(flat, o, u, w) ==
    /\ u = o + 1 + Len(w) /\ u <= Len(flat) /\ flat[o + 1] = Len(w)
    /\ \A j \in 1..Len(w) : flat[o + 1 + j] = w[j]
Found(p, o, u, w) ==
    /\ HasBinary(p + o) <=> Has(p, u)
    /\ Has(p, u) => BytesAt(p + o) = w /\ p + o + 1 + buf[p + o] = p + u

LEMMA BinaryInside ==
    ASSUME buf \in Seq(Int), NEW p \in Nat \ {0}, NEW flat \in Seq(Int), Matches(p, flat),
           NEW o \in Nat, NEW u \in Nat, NEW w \in Seq(Int), Holds(flat, o, u, w)
    PROVE  Found(p, o, u, w)
<1> USE DEF Holds
<1>0. PICK q \in Nat \ {0} : q = p + o
    OBVIOUS
<1>1. Len(w) \in Nat /\ Len(flat) \in Nat
    OBVIOUS
<1>2. Has(q, 1) => buf[q] = Len(w)
    <2>1. o + 1 \in 1..Len(flat) /\ p + (o + 1) - 1 = q
        BY <1>0, <1>1
    <2>2. Has(q, 1) => Has(p, o + 1)
        BY <1>0, HasShift
    <2> QED BY <2>1, <2>2 DEF Matches
<1>3. \A j \in 1..Len(w) : Has(q + 1, j) => buf[q + j] = w[j]
    <2> SUFFICES ASSUME NEW j \in 1..Len(w), Has(q + 1, j) PROVE buf[q + j] = w[j]
        OBVIOUS
    <2>1. o + 1 + j \in 1..Len(flat) /\ p + (o + 1 + j) - 1 = q + j
        <3>1. PICK m \in Nat, l \in Nat : m = Len(w) /\ l = Len(flat)
            BY <1>1
        <3>2. j \in 1..m /\ o + 1 + m <= l
            BY <3>1
        <3>3. o + 1 + j \in 1..l /\ p + (o + 1 + j) - 1 = p + o + j
            BY <3>2
        <3> QED BY <1>0, <3>1, <3>3
    <2>2. o + 1 \in Nat /\ j \in Nat /\ q + 1 = p + (o + 1)
        BY <1>0, <1>1
    <2>3. Has(p, o + 1 + j)
        BY <2>2, HasShift
    <2> QED BY <2>1, <2>3 DEF Matches
<1>4. /\ HasBinary(q) <=> Has(q, 1 + Len(w))
      /\ HasBinary(q) => BytesAt(q) = w /\ buf[q] = Len(w)
    BY <1>2, <1>3, BinaryAt
<1>5. Has(q, 1 + Len(w)) <=> Has(p, u)
    <2>0. PICK l \in Nat : l = Len(w)
        BY <1>1
    <2>1. PICK m \in Nat : m = 1 + Len(w) /\ o + m = u
        <3>1. u = o + 1 + l /\ 1 + l \in Nat /\ o + (1 + l) = o + 1 + l
            BY <2>0
        <3> QED BY <2>0, <3>1
    <2>2. Has(p + o, m) <=> Has(p, o + m)
        BY HasShift
    <2> QED BY <1>0, <2>1, <2>2
<1>6. q + 1 + Len(w) = p + u
    BY <1>0, <1>1
<1> QED BY <1>0, <1>4, <1>5, <1>6 DEF Found

LEMMA BinariesRead ==
    ASSUME buf \in Seq(Int), NEW p \in 1..(Len(buf) + 1), NEW type \in Binaries,
           NEW cells \in Seq(CellsOf(type)), Matches(p, ValuePart(type, cells))
    PROVE  Reads(BinaryValues(p, NullsOf(cells), type), p, ValuePart(type, cells), SeenColumn(cells))
<1> DEFINE n == Len(cells)
<1>0. n \in Nat /\ type \in ServerTypes /\ type # Boolean /\ p \in Places /\ p \in Nat \ {0} /\ Len(buf) \in Nat
    BY ServerTypesNamed DEF Binaries, TypeNames, Boolean, Text, Blob, String, Places
<1>1. PICK nulls \in Seq(BOOLEAN) :
        nulls = NullsOf(cells) /\ Len(nulls) = n /\ \A i \in 1..n : nulls[i] = (cells[i] = Null)
    BY NullsType
<1> DEFINE vs == ValuesOf(type, cells)
           flat == FlattenSeq(vs)
<1>2. /\ flat \in Seq(Int) /\ flat = ValuePart(type, cells) /\ Len(flat) \in Nat
      /\ Offset(vs, 0) = 0 /\ Offset(vs, n) = Len(flat)
      /\ \A i \in 1..n :
           /\ Offset(vs, i - 1) \in Nat /\ Offset(vs, i) \in Nat /\ Offset(vs, i) <= Len(flat)
           /\ cells[i] = Null => Offset(vs, i) = Offset(vs, i - 1)
           /\ cells[i] # Null =>
                /\ Len(cells[i].v) \in Nat /\ Offset(vs, i) = Offset(vs, i - 1) + 1 + Len(cells[i].v)
                /\ flat[Offset(vs, i - 1) + 1] = Len(cells[i].v)
                /\ \A j \in 1..Len(cells[i].v) : flat[Offset(vs, i - 1) + 1 + j] = cells[i].v[j]
    <2>1. flat = ValuePart(type, cells)
        BY <1>0 DEF ValuePart, ValuesOf
    <2>2. OffsetsFit(type, cells, vs, flat)
        BY <1>0, ValueOffsets
    <2> HIDE DEF vs, flat
    <2>3. /\ flat \in Seq(Int) /\ Len(flat) \in Nat
          /\ Offset(vs, 0) = 0 /\ Offset(vs, n) = Len(flat)
        BY <2>2 DEF OffsetsFit
    <2>4. ASSUME NEW i \in 1..n
          PROVE  /\ Offset(vs, i - 1) \in Nat /\ Offset(vs, i) \in Nat /\ Offset(vs, i) <= Len(flat)
                 /\ cells[i] = Null => Offset(vs, i) = Offset(vs, i - 1)
                 /\ cells[i] # Null =>
                      /\ Len(cells[i].v) \in Nat /\ Offset(vs, i) = Offset(vs, i - 1) + 1 + Len(cells[i].v)
                      /\ flat[Offset(vs, i - 1) + 1] = Len(cells[i].v)
                      /\ \A j \in 1..Len(cells[i].v) : flat[Offset(vs, i - 1) + 1 + j] = cells[i].v[j]
        BY <2>2, Zenon DEF OffsetsFit
    <2> QED BY <2>1, <2>3, <2>4, Zenon
<1> HIDE DEF vs, flat
<1>3. PICK at : /\ at = BinaryStarts(p, nulls, type) /\ at \in [1..(n + 1) -> Places] /\ at[1] = p
                /\ \A i \in 1..n : at[i + 1] = BinaryStep(at[i], nulls[i], type)
    <2>1. PICK at : at = BinaryStarts(p, nulls, type)
        OBVIOUS
    <2>2. /\ at \in [1..(Len(nulls) + 1) -> Places] /\ at[1] = p
          /\ \A i \in 1..Len(nulls) : at[i + 1] = BinaryStep(at[i], nulls[i], type)
        BY <1>0, <2>1, BinaryStartsSteps
    <2> QED BY <1>1, <2>1, <2>2, Zenon
<1>9. ASSUME NEW i \in 1..n PROVE Offset(vs, i - 1) <= Offset(vs, i)
    <2>1. CASE cells[i] = Null
        BY <1>2, <2>1
    <2>2. CASE cells[i] # Null
        <3>1. PICK o \in Nat, u \in Nat, m \in Nat :
                o = Offset(vs, i - 1) /\ u = Offset(vs, i) /\ m = Len(cells[i].v)
            BY <1>2, <2>2, Zenon
        <3>2. u = o + 1 + m
            BY <1>2, <2>2, <3>1, Zenon
        <3>3. o <= u
            BY <3>2
        <3> QED BY <3>1, <3>3
    <2> QED BY <2>1, <2>2
<1> DEFINE Start(i) == IF Has(p, Offset(vs, i)) THEN p + Offset(vs, i) ELSE 0
<1>4. ASSUME NEW i \in 1..n, cells[i] # Null, Has(p, Offset(vs, i - 1))
      PROVE  /\ HasBinary(p + Offset(vs, i - 1)) <=> Has(p, Offset(vs, i))
             /\ Has(p, Offset(vs, i)) =>
                  /\ BytesAt(p + Offset(vs, i - 1)) = cells[i].v
                  /\ p + Offset(vs, i - 1) + 1 + buf[p + Offset(vs, i - 1)] = p + Offset(vs, i)
    <2>1. PICK w \in Seq(Int) : w = cells[i].v
        <3>1. cells[i] \in CellsOf(type)
            OBVIOUS
        <3> QED BY <1>0, <1>4, <3>1, CellsType
    <2>2. /\ Offset(vs, i - 1) \in Nat /\ Offset(vs, i) \in Nat /\ Offset(vs, i) <= Len(flat)
          /\ Offset(vs, i) = Offset(vs, i - 1) + 1 + Len(w) /\ flat[Offset(vs, i - 1) + 1] = Len(w)
          /\ \A j \in 1..Len(w) : flat[Offset(vs, i - 1) + 1 + j] = w[j]
        BY <1>2, <1>4, <2>1, Zenon
    <2>3. p \in Nat \ {0} /\ flat \in Seq(Int) /\ Matches(p, flat)
        BY <1>0, <1>2, Zenon
    <2>4. /\ HasBinary(p + Offset(vs, i - 1)) <=> Has(p, Offset(vs, i))
          /\ Has(p, Offset(vs, i)) =>
               /\ BytesAt(p + Offset(vs, i - 1)) = w
               /\ p + Offset(vs, i - 1) + 1 + buf[p + Offset(vs, i - 1)] = p + Offset(vs, i)
        <3>1. PICK o \in Nat, u \in Nat : o = Offset(vs, i - 1) /\ u = Offset(vs, i)
            BY <2>2
        <3>2. /\ HasBinary(p + o) <=> Has(p, u)
              /\ Has(p, u) => BytesAt(p + o) = w /\ p + o + 1 + buf[p + o] = p + u
            <4>1. Holds(flat, o, u, w)
                BY <2>2, <3>1, Zenon DEF Holds
            <4>2. Found(p, o, u, w)
                BY <2>3, <4>1, BinaryInside
            <4> QED BY <4>2 DEF Found
        <3> QED BY <3>1, <3>2
    <2> QED BY <2>1, <2>4
<1>5. \A i \in 1..(n + 1) : at[i] = Start(i - 1)
    <2> DEFINE Good == {k \in Nat : k <= n => at[k + 1] = Start(k)}
    <2>1. 0 \in Good
        <3>1. Has(p, 0)
            BY <1>0 DEF Has
        <3>2. Start(0) = p
            BY <1>0, <1>2, <3>1
        <3> QED BY <1>3, <3>2
    <2>2. ASSUME NEW k \in Nat, k \in Good PROVE k + 1 \in Good
        <3> SUFFICES ASSUME k + 1 <= n PROVE at[k + 2] = Start(k + 1)
            <4> HIDE DEF Start
            <4> QED OBVIOUS
        <3>1. PICK i \in 1..n : i = k + 1 /\ i - 1 = k /\ i + 1 = k + 2
            BY <1>0
        <3>2. at[i] = Start(i - 1)
            <4> HIDE DEF Start
            <4> QED BY <1>0, <2>2, <3>1
        <3>3. at[i + 1] = BinaryStep(at[i], nulls[i], type)
            BY <1>3
        <3>4. at[i + 1] = Start(i)
            <4>1. CASE cells[i] = Null
                <5>1. Offset(vs, i) = Offset(vs, i - 1) /\ nulls[i]
                    BY <1>1, <1>2, <4>1
                <5> QED BY <3>2, <3>3, <5>1 DEF BinaryStep
            <4>2. CASE cells[i] # Null /\ ~Has(p, Offset(vs, i - 1))
                <5>0. /\ Offset(vs, i - 1) \in Nat /\ Offset(vs, i) \in Nat
                      /\ Offset(vs, i - 1) <= Offset(vs, i)
                    BY <1>2, <1>9
                <5>1. ~Has(p, Offset(vs, i)) /\ ~nulls[i]
                    BY <1>0, <1>1, <4>2, <5>0, HasLess
                <5>2. at[i] = 0
                    BY <3>2, <4>2
                <5>3. BinaryStep(0, nulls[i], type) = 0
                    BY DEF BinaryStep, HasBinary
                <5> QED BY <3>3, <5>1, <5>2, <5>3
            <4>3. CASE cells[i] # Null /\ Has(p, Offset(vs, i - 1))
                <5>1. at[i] = p + Offset(vs, i - 1) /\ ~nulls[i]
                    BY <1>1, <3>2, <4>3
                <5>2. CASE Has(p, Offset(vs, i))
                    <6>1. cells[i] \in CellsOf(type)
                        OBVIOUS
                    <6>2. HasBinary(at[i]) /\ ~BadBinary(type, BytesAt(at[i]))
                        BY <1>4, <4>3, <5>1, <5>2, <6>1, BinaryGood
                    <6>3. at[i] + 1 + buf[at[i]] = p + Offset(vs, i)
                        BY <1>4, <4>3, <5>1, <5>2
                    <6> QED BY <3>3, <5>1, <5>2, <6>2, <6>3 DEF BinaryStep
                <5>3. CASE ~Has(p, Offset(vs, i))
                    <6>1. ~HasBinary(at[i])
                        BY <1>4, <4>3, <5>1, <5>3
                    <6> QED BY <3>3, <5>1, <5>3, <6>1 DEF BinaryStep
                <5> QED BY <5>2, <5>3
            <4> QED BY <4>1, <4>2, <4>3
        <3> HIDE DEF Start
        <3> QED BY <3>1, <3>4
    <2> HIDE DEF Start
    <2>3. Nat \subseteq Good
        <3> HIDE DEF Good
        <3> QED BY <2>1, <2>2, SetInduction
    <2>4. ASSUME NEW i \in 1..(n + 1) PROVE at[i] = Start(i - 1)
        <3>1. i - 1 \in Good /\ i - 1 <= n /\ (i - 1) + 1 = i
            <4> HIDE DEF Good
            <4> QED BY <1>0, <2>3
        <3> QED BY <3>1
    <2> QED BY <2>4
<1>6. at[n + 1] = IF Has(p, Len(flat)) THEN p + Len(flat) ELSE 0
    <2>1. n + 1 \in 1..(n + 1) /\ (n + 1) - 1 = n
        BY <1>0
    <2> QED BY <1>2, <1>5, <2>1
<1>7. BinaryValues(p, nulls, type) =
        IF at[n + 1] = 0 THEN Failed
        ELSE Read(at[n + 1], [i \in 1..n |-> IF nulls[i] THEN Null ELSE BinaryValue(type, BytesAt(at[i]))])
    BY <1>1, <1>3 DEF BinaryValues
<1>8. CASE Has(p, Len(flat))
    <2>1. at[n + 1] = p + Len(flat) /\ at[n + 1] # 0
        BY <1>0, <1>2, <1>6, <1>8
    <2>2. ASSUME NEW i \in 1..n
          PROVE  (IF nulls[i] THEN Null ELSE BinaryValue(type, BytesAt(at[i]))) = Seen(cells[i])
        <3>1. CASE cells[i] = Null
            BY <1>1, <3>1 DEF Seen
        <3>2. CASE cells[i] # Null
            <4>1. /\ Offset(vs, i - 1) \in Nat /\ Offset(vs, i) \in Nat /\ Offset(vs, i) <= Len(flat)
                  /\ Offset(vs, i - 1) <= Offset(vs, i)
                BY <1>2, <1>9
            <4>2. Has(p, Offset(vs, i)) /\ Has(p, Offset(vs, i - 1))
                BY <1>0, <1>2, <1>8, <4>1, HasLess
            <4>3. at[i] = p + Offset(vs, i - 1)
                <5>1. i \in 1..(n + 1)
                    BY <1>0
                <5> QED BY <1>5, <4>2, <5>1
            <4>4. BytesAt(at[i]) = cells[i].v
                BY <1>4, <3>2, <4>2, <4>3
            <4>5. cells[i] \in CellsOf(type)
                OBVIOUS
            <4> QED BY <1>0, <1>1, <3>2, <4>4, <4>5, SeenIs
        <3> QED BY <3>1, <3>2
    <2>3. SeenColumn(cells) = [i \in 1..n |-> Seen(cells[i])]
        BY DEF SeenColumn
    <2>4. BinaryValues(p, nulls, type) = Read(p + Len(flat), SeenColumn(cells))
        <3> HIDE DEF n
        <3> QED BY <1>7, <2>1, <2>2, <2>3
    <2> QED BY <1>1, <1>2, <1>8, <2>4 DEF Reads
<1>10. CASE ~Has(p, Len(flat))
    BY <1>1, <1>2, <1>6, <1>7, <1>10 DEF Reads
<1> QED BY <1>8, <1>10


\* A read of t after s is one of both.
LEMMA ReadsAfter ==
    ASSUME buf \in Seq(Int), NEW p \in Nat, NEW s \in Seq(Int), NEW t \in Seq(Int), NEW vals, NEW r,
           Reads(r, p + Len(s), t, vals)
    PROVE  Reads(r, p, s \o t, vals)
<1>1. PICK m \in Nat, n \in Nat : m = Len(s) /\ n = Len(t)
    OBVIOUS
<1>2. Len(s \o t) = m + n
    BY <1>1
<1>3. Has(p + m, n) <=> Has(p, m + n)
    BY HasShift
<1>4. p + m + n = p + (m + n)
    OBVIOUS
<1> QED BY <1>1, <1>2, <1>3, <1>4 DEF Reads

LEMMA ReadsNot ==
    ASSUME buf \in Seq(Int), NEW p \in Nat, NEW s \in Seq(Int), NEW t \in Seq(Int), NEW vals,
           ~Has(p, Len(s))
    PROVE  Reads(Failed, p, s \o t, vals)
<1>1. PICK m \in Nat, n \in Nat : m = Len(s) /\ n = Len(t)
    OBVIOUS
<1>2. Len(s \o t) = m + n /\ m + n \in Nat /\ m <= m + n
    BY <1>1
<1>3. ~Has(p, m + n)
    BY <1>1, <1>2, HasLess
<1> QED BY <1>2, <1>3 DEF Reads

LEMMA HasEnd ==
    ASSUME buf \in Seq(Int), NEW p \in Nat \ {0}, NEW m \in Nat, Has(p, m)
    PROVE  p + m \in 1..(Len(buf) + 1)
<1>1. PICK k \in Nat : k = Len(buf)
    OBVIOUS
<1> QED BY <1>1 DEF Has

\* A column in its plain encoding is read back, if the buffer has all of it.
LEMMA PlainBodyReads ==
    ASSUME buf \in Seq(Int), NEW p \in 1..(Len(buf) + 1), NEW type \in ServerTypes,
           NEW cells \in Seq(CellsOf(type)), NEW flag, Matches(p, PlainBody(type, cells, flag))
    PROVE  Reads(PlainColumn(p, PlainEncoding(type), type, Len(cells)), p,
                 PlainBody(type, cells, flag), SeenColumn(cells))
<1> DEFINE col == PlainColumn(p, PlainEncoding(type), type, Len(cells))
<1>1. PICK np \in Seq(Int), vp \in Seq(Int) : np = NullPart(cells, flag) /\ vp = ValuePart(type, cells)
    BY NullPartType, ValuePartType
<1>2. PlainBody(type, cells, flag) = np \o vp
    BY <1>1 DEF PlainBody
<1>3. p \in Nat \ {0} /\ Len(np) \in Nat
    OBVIOUS
<1>4. Matches(p, np) /\ Matches(p + Len(np), vp)
    BY <1>2, <1>3, MatchesConcat
<1>5. PICK r : r = ReadNullIndicators(p, Len(cells)) /\ Reads(r, p, np, NullsOf(cells))
    BY <1>1, <1>3, <1>4, NullPartReads
<1>6. PlainEncoding(type) \in {ByteArray, Int32Array, Int64Array, BinaryArray}
    BY PlainEncodingType DEF ByteArray, Int32Array, Int64Array, BinaryArray
<1>7. CASE ~Has(p, Len(np))
    <2>1. ~r.ok
        BY <1>5, <1>7 DEF Reads, Failed
    <2>2. col = Failed
        BY <1>5, <2>1 DEF PlainColumn
    <2> QED BY <1>2, <1>3, <1>7, <2>2, ReadsNot
<1>8. CASE Has(p, Len(np))
    <2>1. PICK q \in 1..(Len(buf) + 1) : q = p + Len(np)
        BY <1>3, <1>8, HasEnd
    <2>2. r = Read(q, NullsOf(cells)) /\ r.ok /\ r.next = q /\ r.vals = NullsOf(cells)
        BY <1>5, <1>8, <2>1 DEF Reads, Read
    <2>3. q \in Nat \ {0} /\ Matches(q, ValuePart(type, cells))
        BY <1>1, <1>4, <2>1
    <2>4. Reads(col, q, vp, SeenColumn(cells))
        <3>1. CASE type = Boolean
            <4>1. PlainEncoding(type) = ByteArray
                BY <3>1 DEF PlainEncoding, Boolean, Int32, Int64, Float, Double, Text, Timestamp, Date, Blob, String
            <4>2. col = ByteArrayValues(q, NullsOf(cells))
                BY <1>5, <2>2, <4>1 DEF PlainColumn, ByteArray, Int32Array, Int64Array, BinaryArray
            <4> QED BY <1>1, <2>3, <3>1, <4>2, BooleansRead
        <3>2. CASE type \in {Int32, Date, Float}
            <4>1. PlainEncoding(type) = Int32Array
                BY <3>2 DEF PlainEncoding, Boolean, Int32, Int64, Float, Double, Text, Timestamp, Date, Blob, String
            <4>2. col = NumberValues(q, NullsOf(cells), type, {Int32, Date, Float})
                BY <1>5, <2>2, <4>1 DEF PlainColumn, ByteArray, Int32Array, Int64Array, BinaryArray
            <4>3. type \notin Binaries /\ type # Boolean
                BY <3>2 DEF Binaries, Boolean, Int32, Date, Float, Text, Blob, String
            <4> QED BY <1>1, <2>3, <3>2, <4>2, <4>3, NumbersRead
        <3>3. CASE type \in {Int64, Timestamp, Double}
            <4>1. PlainEncoding(type) = Int64Array
                BY <3>3 DEF PlainEncoding, Boolean, Int32, Int64, Float, Double, Text, Timestamp, Date, Blob, String
            <4>2. col = NumberValues(q, NullsOf(cells), type, {Int64, Timestamp, Double})
                BY <1>5, <2>2, <4>1 DEF PlainColumn, ByteArray, Int32Array, Int64Array, BinaryArray
            <4>3. type \notin Binaries /\ type # Boolean
                BY <3>3 DEF Binaries, Boolean, Int64, Timestamp, Double, Text, Blob, String
            <4> QED BY <1>1, <2>3, <3>3, <4>2, <4>3, NumbersRead
        <3>4. CASE type \in Binaries
            <4>1. PlainEncoding(type) = BinaryArray
                BY <3>4 DEF Binaries, PlainEncoding, Boolean, Int32, Int64, Float, Double, Text, Timestamp, Date, Blob, String
            <4>2. col = BinaryValues(q, NullsOf(cells), type)
                BY <1>5, <2>2, <4>1 DEF PlainColumn, ByteArray, Int32Array, Int64Array, BinaryArray
            <4> QED BY <1>1, <2>3, <3>4, <4>2, BinariesRead
        <3> QED BY <3>1, <3>2, <3>3, <3>4, ServerTypesNamed DEF TypeNames, Binaries
    <2> QED BY <1>2, <1>3, <2>1, <2>4, ReadsAfter
<1> QED BY <1>7, <1>8

\* Replicating the value a run keeps restores a column of one value.
LEMMA RunSeen ==
    ASSUME NEW type, NEW cells \in Seq(CellsOf(type)), Uniform(cells)
    PROVE  [i \in 1..Len(cells) |-> SeenColumn(RunCells(cells))[1]] = SeenColumn(cells)
<1>0. DOMAIN cells = 1..Len(cells) /\ Len(cells) \in Nat
    OBVIOUS
<1>1. ASSUME NEW i \in 1..Len(cells) PROVE SeenColumn(RunCells(cells))[1] = Seen(cells[i])
    <2>1. cells # <<>> /\ 1 \in 1..Len(cells)
        BY <1>0
    <2>2. RunCells(cells) = <<cells[1]>>
        BY <2>1 DEF RunCells
    <2>3. SeenColumn(RunCells(cells))[1] = Seen(cells[1])
        BY <2>2 DEF SeenColumn
    <2>4. cells[i] = cells[1]
        BY <1>0, <2>1 DEF Uniform
    <2> QED BY <2>3, <2>4
<1>2. SeenColumn(cells) = [i \in 1..Len(cells) |-> Seen(cells[i])]
    BY <1>0 DEF SeenColumn
<1> QED BY <1>1, <1>2

\* decode_column reads back what the server wrote, in each encoding.
LEMMA BodyReads ==
    ASSUME buf \in Seq(Int), NEW p \in 1..(Len(buf) + 1), NEW type \in ServerTypes,
           NEW cells \in Seq(CellsOf(type)), NEW flag, NEW encoding,
           Expressible(cells, encoding, PlainEncoding(type)),
           Matches(p, Body(type, cells, encoding, flag))
    PROVE  Reads(DecodeColumn(p, encoding, type, Len(cells)), p,
                 Body(type, cells, encoding, flag), SeenColumn(cells))
<1> DEFINE col == DecodeColumn(p, encoding, type, Len(cells))
<1>1. CASE encoding # Rle
    <2>1. encoding = PlainEncoding(type)
        BY <1>1 DEF Expressible
    <2>2. Body(type, cells, encoding, flag) = PlainBody(type, cells, flag)
        BY <1>1 DEF Body
    <2>3. col = PlainColumn(p, PlainEncoding(type), type, Len(cells))
        BY <1>1, <2>1 DEF DecodeColumn
    <2> QED BY <2>2, <2>3, PlainBodyReads
<1>2. CASE encoding = Rle
    <2>1. Uniform(cells)
        <3>1. PlainEncoding(type) # Rle
            BY PlainEncodingType DEF Rle
        <3> QED BY <1>2, <3>1 DEF Expressible
    <2>2. PICK rc \in Seq(CellsOf(type)) : rc = RunCells(cells) /\ Len(rc) = 1
        BY RunCellsType
    <2>3. PICK e \in Int : e = PlainEncoding(type)
        BY PlainEncodingType
    <2>4. PICK pb \in Seq(Int) : pb = PlainBody(type, rc, flag)
        BY PlainBodyType
    <2>5. Body(type, cells, encoding, flag) = <<e>> \o pb
        BY <1>2, <2>2, <2>3, <2>4 DEF Body, RunCells
    <2>6. p \in Nat \ {0} /\ <<e>> \in Seq(Int) /\ Len(<<e>>) = 1
        OBVIOUS
    <2>7. Matches(p, <<e>>) /\ Matches(p + 1, pb)
        <3>0. PICK one \in Seq(Int) : one = <<e>>
            BY <2>6
        <3>1. Matches(p, one) /\ Matches(p + Len(one), pb)
            <4>1. Matches(p, one \o pb)
                BY <2>5, <3>0
            <4> HIDE <2>5, <2>6, <3>0
            <4>2. p \in Nat \ {0}
                OBVIOUS
            <4> QED BY <4>1, <4>2, MatchesConcat
        <3> QED BY <2>6, <3>0, <3>1
    <2>8. CASE ~Has(p, 1)
        <3>1. col = Failed
            BY <1>2, <2>8 DEF DecodeColumn
        <3>2. Reads(Failed, p, <<e>> \o pb, SeenColumn(cells))
            BY <2>6, <2>8, ReadsNot
        <3> QED BY <2>5, <3>1, <3>2
    <2>9. CASE Has(p, 1)
        <3>1. buf[p] = e
            <4>1. 1 \in 1..Len(<<e>>) /\ p + 1 - 1 = p /\ <<e>>[1] = e
                BY <2>6
            <4> QED BY <2>7, <2>9, <4>1 DEF Matches
        <3>2. PICK q \in 1..(Len(buf) + 1) : q = p + 1
            BY <2>6, <2>9, HasEnd
        <3>3. PICK single : /\ single = PlainColumn(q, e, type, 1)
                            /\ Reads(single, q, pb, SeenColumn(rc))
            BY <2>2, <2>3, <2>4, <2>7, <3>2, PlainBodyReads
        <3>4. col = IF single.ok
                    THEN Read(single.next, [i \in 1..Len(cells) |-> single.vals[1]]) ELSE Failed
            BY <1>2, <2>9, <3>1, <3>2, <3>3 DEF DecodeColumn
        <3>5. Reads(col, q, pb, SeenColumn(cells))
            <4>1. CASE Has(q, Len(pb))
                <5>1. single.ok /\ single.next = q + Len(pb) /\ single.vals = SeenColumn(rc)
                    BY <3>3, <4>1 DEF Reads, Read
                <5>2. [i \in 1..Len(cells) |-> SeenColumn(rc)[1]] = SeenColumn(cells)
                    BY <2>1, <2>2, RunSeen
                <5> QED BY <3>4, <4>1, <5>1, <5>2 DEF Reads
            <4>2. CASE ~Has(q, Len(pb))
                <5>1. ~single.ok
                    BY <3>3, <4>2 DEF Reads, Failed
                <5> QED BY <3>4, <4>2, <5>1 DEF Reads
            <4> QED BY <4>1, <4>2
        <3>6. Reads(col, p + Len(<<e>>), pb, SeenColumn(cells))
            BY <2>6, <3>2, <3>5
        <3>7. Reads(col, p, <<e>> \o pb, SeenColumn(cells))
            BY <2>6, <3>6, ReadsAfter
        <3> QED BY <2>5, <3>7
    <2> QED BY <2>8, <2>9
<1> QED BY <1>1, <1>2

-----------------------------------------------------------------------------
(* Decoding what was sent *)

\* The header is accepted exactly when the buffer has all of it.
LEMMA HeaderRead ==
    ASSUME buf \in Seq(Int), NEW b \in Blocks, Matches(1, HeaderPart(b))
    PROVE  /\ HeaderFits <=> Has(1, Len(HeaderPart(b)))
           /\ HeaderFits =>
                /\ buf[1] = Len(b.types) /\ buf[buf[1] + 2] = Len(b.times)
                /\ SubSeq(buf, 2, buf[1] + 1) = b.types
                /\ SubSeq(buf, buf[1] + 3, 2 * buf[1] + 3) = b.encodings
<1>1. PICK h \in Seq(Int), k \in Nat, n \in Nat, l \in Nat, ty \in Seq(Int), es \in Seq(Int) :
        /\ h = HeaderPart(b) /\ k = Len(b.types) /\ n = Len(b.times) /\ l = Len(buf)
        /\ ty = b.types /\ es = b.encodings /\ Len(ty) = k /\ Len(es) = k + 1
    <2>1. /\ HeaderPart(b) \in Seq(Int) /\ b.types \in Seq(Int) /\ b.encodings \in Seq(Int)
          /\ Len(b.encodings) = Len(b.types) + 1
        BY HeaderPartIs, BlockType
    <2>2. Len(b.types) \in Nat /\ Len(b.times) \in Nat /\ Len(buf) \in Nat
        BY BlockType
    <2> QED BY <2>1, <2>2, Zenon
<1>2. /\ Len(h) = 2 * k + 3 /\ h[1] = k /\ h[k + 2] = n
      /\ \A i \in 1..k : h[i + 1] = ty[i]
      /\ \A i \in 1..(k + 1) : h[k + 2 + i] = es[i]
    BY <1>1, HeaderPartIs
<1>3. \A j \in 1..(2 * k + 3) : j <= l => buf[j] = h[j]
    <2> SUFFICES ASSUME NEW j \in 1..(2 * k + 3), j <= l PROVE buf[j] = h[j]
        OBVIOUS
    <2>1. Has(1, j) /\ 1 + j - 1 = j /\ j \in 1..Len(h)
        BY <1>1, <1>2 DEF Has
    <2> QED BY <1>1, <2>1 DEF Matches
<1>4. \A i \in 1..k : ty[i] \in TypeCodes
    BY <1>1, BlockType DEF ServerTypes
<1>5. Has(1, Len(HeaderPart(b))) <=> 2 * k + 3 <= l
    BY <1>1, <1>2 DEF Has
<1>6. ASSUME HeaderFits PROVE 2 * k + 3 <= l
    <2>1. 1 <= l
        BY <1>1, <1>6 DEF HeaderFits, Has
    <2>2. 1 \in 1..(2 * k + 3)
        OBVIOUS
    <2>3. buf[1] = k
        BY <1>2, <1>3, <2>1, <2>2
    <2>4. 2 * buf[1] + 3 <= Len(buf)
        BY <1>6, HeaderFitsIs
    <2> QED BY <1>1, <2>3, <2>4
<1>7. ASSUME 2 * k + 3 <= l PROVE HeaderFits
    <2>0. 1 <= l /\ 1 \in 1..(2 * k + 3) /\ k + 2 <= l /\ k + 2 \in 1..(2 * k + 3)
        BY <1>7
    <2>1. buf[1] = k /\ buf[k + 2] = n
        BY <1>2, <1>3, <2>0
    <2>2. ASSUME NEW c \in 2..(k + 1) PROVE buf[c] \in TypeCodes
        <3>1. PICK i \in 1..k : c = i + 1
            <4>1. c - 1 \in 1..k /\ c = (c - 1) + 1
                OBVIOUS
            <4> QED BY <4>1
        <3>2. c \in 1..(2 * k + 3) /\ c <= l
            BY <1>7
        <3>3. buf[c] = h[i + 1]
            BY <1>3, <3>1, <3>2
        <3> QED BY <1>2, <1>4, <3>3
    <2>3. 1 + 1 - 1 <= l /\ 2 + k - 1 <= l /\ (k + 2) + 1 - 1 <= l /\ (k + 3) + (k + 1) - 1 <= l
        BY <1>7
    <2> QED BY <1>1, <2>1, <2>2, <2>3 DEF HeaderFits, Has
<1>8. ASSUME HeaderFits
      PROVE  /\ buf[1] = Len(b.types) /\ buf[buf[1] + 2] = Len(b.times)
             /\ SubSeq(buf, 2, buf[1] + 1) = b.types
             /\ SubSeq(buf, buf[1] + 3, 2 * buf[1] + 3) = b.encodings
    <2>0. 1 <= l /\ 1 \in 1..(2 * k + 3) /\ k + 2 <= l /\ k + 2 \in 1..(2 * k + 3) /\ 2 * k + 3 <= l
        BY <1>6, <1>8
    <2>1. buf[1] = k /\ buf[k + 2] = n
        BY <1>2, <1>3, <2>0
    <2>2. PICK t \in Seq(Int), e \in Seq(Int) :
            /\ t = SubSeq(buf, 2, buf[1] + 1) /\ Len(t) = k /\ \A i \in 1..k : t[i] = buf[i + 1]
            /\ e = SubSeq(buf, buf[1] + 3, 2 * buf[1] + 3) /\ Len(e) = k + 1
            /\ \A i \in 1..(k + 1) : e[i] = buf[k + 2 + i]
        BY <1>8, <2>1, HeaderFitsIs
    <2>3. ASSUME NEW i \in 1..k PROVE t[i] = ty[i]
        <3>1. i + 1 \in 1..(2 * k + 3) /\ i + 1 <= l
            BY <2>0
        <3> QED BY <1>2, <1>3, <2>2, <3>1
    <2>4. ASSUME NEW i \in 1..(k + 1) PROVE e[i] = es[i]
        <3>1. k + 2 + i \in 1..(2 * k + 3) /\ k + 2 + i <= l
            BY <2>0
        <3> QED BY <1>2, <1>3, <2>2, <3>1
    <2>5. t = ty
        <3>1. Len(t) = Len(ty) /\ \A i \in 1..Len(t) : t[i] = ty[i]
            BY <1>1, <2>2, <2>3
        <3> QED BY <3>1, SeqEqual
    <2>6. e = es
        BY <1>1, <2>2, <2>4, SeqEqual
    <2> QED BY <1>1, <2>1, <2>2, <2>5, <2>6
<1> QED BY <1>5, <1>6, <1>7, <1>8

\* A stretch of what the buffer holds.
LEMMA MatchesPart ==
    ASSUME buf \in Seq(Int), NEW p \in Nat \ {0}, NEW flat \in Seq(Int), NEW s \in Seq(Int), NEW o \in Nat,
           o + Len(s) <= Len(flat), \A j \in 1..Len(s) : flat[o + j] = s[j], Matches(p, flat)
    PROVE  Matches(p + o, s)
<1> SUFFICES ASSUME NEW j \in 1..Len(s), Has(p + o, j) PROVE buf[p + o + j - 1] = s[j]
    BY DEF Matches
<1>1. PICK m \in Nat, n \in Nat : m = Len(s) /\ n = Len(flat)
    OBVIOUS
<1>2. j \in Nat /\ o + j \in 1..n /\ p + (o + j) - 1 = p + o + j - 1
    <2>1. j \in 1..m /\ o + m <= n
        BY <1>1
    <2> QED BY <2>1
<1>3. Has(p, o + j)
    BY <1>2, HasShift
<1>4. buf[p + (o + j) - 1] = flat[o + j]
    BY <1>1, <1>2, <1>3 DEF Matches
<1> QED BY <1>2, <1>4

\* Where the parts of a block lie.
ColumnPlace(b, c) == Len(HeaderPart(b)) + Len(TimePart(b)) + Offset(ColumnParts(b), c) + 1

LEMMA EncodedLength ==
    ASSUME NEW b \in Blocks
    PROVE  /\ Len(HeaderPart(b)) \in Nat /\ Len(TimePart(b)) \in Nat /\ Len(Encoded(b)) \in Nat
           /\ Len(HeaderPart(b)) + Len(TimePart(b)) <= Len(Encoded(b))
           /\ ColumnPlace(b, 0) = Len(HeaderPart(b)) + Len(TimePart(b)) + 1
           /\ ColumnPlace(b, Len(b.types)) = Len(Encoded(b)) + 1
           /\ \A c \in 1..Len(b.types) :
                /\ ColumnPlace(b, c - 1) \in Nat \ {0} /\ Len(ColumnParts(b)[c]) \in Nat
                /\ ColumnPlace(b, c) = ColumnPlace(b, c - 1) + Len(ColumnParts(b)[c])
                /\ ColumnPlace(b, c) <= Len(Encoded(b)) + 1
<1>1. PICK h \in Seq(Int), t \in Seq(Int), cs \in Seq(Seq(Int)), flat \in Seq(Int) :
        h = HeaderPart(b) /\ t = TimePart(b) /\ cs = ColumnParts(b) /\ flat = FlattenSeq(cs)
    BY HeaderPartIs, PartsType, Zenon
<1>2. PICK x \in Nat, y \in Nat, z \in Nat : x = Len(h) /\ y = Len(t) /\ z = Len(flat)
    OBVIOUS
<1>3. Len(Encoded(b)) = x + y + z
    <2>1. Encoded(b) = h \o t \o flat
        BY <1>1 DEF Encoded
    <2> QED BY <1>2, <2>1
<1>4. Len(cs) = Len(b.types)
    BY <1>1, PartsType
<1>5. /\ Offset(cs, 0) = 0 /\ Offset(cs, Len(b.types)) = z
      /\ \A c \in 1..Len(b.types) :
           /\ Offset(cs, c - 1) \in Nat /\ Offset(cs, c) \in Nat /\ Len(cs[c]) \in Nat
           /\ Offset(cs, c) = Offset(cs, c - 1) + Len(cs[c]) /\ Offset(cs, c) <= z
    BY <1>1, <1>2, <1>4, FlattenSeqOffsets
<1>6. \A c : ColumnPlace(b, c) = x + y + Offset(cs, c) + 1
    BY <1>1, <1>2 DEF ColumnPlace
<1>7. ASSUME NEW c \in 1..Len(b.types)
      PROVE  /\ ColumnPlace(b, c - 1) \in Nat \ {0} /\ Len(cs[c]) \in Nat
             /\ ColumnPlace(b, c) = ColumnPlace(b, c - 1) + Len(cs[c])
             /\ ColumnPlace(b, c) <= x + y + z + 1
    <2>1. PICK o \in Nat, u \in Nat, m \in Nat : o = Offset(cs, c - 1) /\ u = Offset(cs, c) /\ m = Len(cs[c])
        BY <1>5
    <2>2. u = o + m /\ u <= z
        BY <1>5, <2>1
    <2>3. ColumnPlace(b, c - 1) = x + y + o + 1 /\ ColumnPlace(b, c) = x + y + u + 1
        BY <1>6, <2>1
    <2>4. /\ x + y + o + 1 \in Nat \ {0} /\ x + y + u + 1 = x + y + o + 1 + m
          /\ x + y + u + 1 <= x + y + z + 1
        BY <2>2
    <2> QED BY <2>1, <2>3, <2>4, Zenon
<1>8. ColumnPlace(b, 0) = x + y + 1 /\ ColumnPlace(b, Len(b.types)) = x + y + z + 1
    BY <1>5, <1>6
<1> QED BY <1>1, <1>2, <1>3, <1>7, <1>8

LEMMA EncodedMatches ==
    ASSUME buf \in Seq(Int), NEW b \in Blocks, Matches(1, Encoded(b))
    PROVE  /\ Matches(1, HeaderPart(b)) /\ Matches(Len(HeaderPart(b)) + 1, TimePart(b))
           /\ \A c \in 1..Len(b.types) : Matches(ColumnPlace(b, c - 1), ColumnParts(b)[c])
<1>1. PICK h \in Seq(Int), t \in Seq(Int), cs \in Seq(Seq(Int)), flat \in Seq(Int) :
        h = HeaderPart(b) /\ t = TimePart(b) /\ cs = ColumnParts(b) /\ flat = FlattenSeq(cs)
    BY HeaderPartIs, PartsType, Zenon
<1>2. PICK x \in Nat, y \in Nat : x = Len(h) /\ y = Len(t)
    OBVIOUS
<1>3. PICK ht \in Seq(Int) : ht = h \o t /\ Len(ht) = x + y
    BY <1>2, ConcatProperties
<1>4. Matches(1, ht \o flat)
    BY <1>1, <1>3 DEF Encoded
<1>5. 1 \in Nat \ {0}
    OBVIOUS
<1>6. Matches(1, ht) /\ Matches(1 + Len(ht), flat)
    BY <1>4, <1>5, MatchesConcat
<1>7. Matches(1, h) /\ Matches(1 + Len(h), t)
    BY <1>3, <1>5, <1>6, MatchesConcat
<1>8. ASSUME NEW c \in 1..Len(b.types) PROVE Matches(ColumnPlace(b, c - 1), cs[c])
    <2>0. c \in 1..Len(cs)
        BY <1>1, PartsType
    <2>1. PICK s \in Seq(Int) : s = cs[c]
        BY <2>0
    <2>2. /\ Offset(cs, c - 1) \in Nat /\ Offset(cs, c) = Offset(cs, c - 1) + Len(s)
          /\ Offset(cs, c) <= Len(flat)
          /\ \A j \in 1..Len(s) : flat[Offset(cs, c - 1) + j] = s[j]
        <3>1. /\ Offset(cs, c - 1) \in Nat /\ Offset(cs, c) = Offset(cs, c - 1) + Len(cs[c])
              /\ Offset(cs, c) <= Len(FlattenSeq(cs))
              /\ \A j \in 1..Len(cs[c]) : FlattenSeq(cs)[Offset(cs, c - 1) + j] = cs[c][j]
            BY <2>0, FlattenSeqOffsets
        <3> QED BY <1>1, <2>1, <3>1, Zenon
    <2>3. PICK o \in Nat : o = Offset(cs, c - 1)
        BY <2>2
    <2>4. o + Len(s) <= Len(flat) /\ \A j \in 1..Len(s) : flat[o + j] = s[j]
        BY <2>2, <2>3
    <2>5. PICK p \in Nat \ {0} : p = 1 + Len(ht) /\ p = x + y + 1
        BY <1>2, <1>3
    <2>6. Matches(p + o, s)
        BY <1>6, <2>4, <2>5, MatchesPart
    <2>7. ColumnPlace(b, c - 1) = p + o
        <3>1. ColumnPlace(b, c - 1) = x + y + o + 1
            BY <1>1, <1>2, <2>3 DEF ColumnPlace
        <3>2. x + y + o + 1 = (x + y + 1) + o
            OBVIOUS
        <3> QED BY <2>5, <3>1, <3>2, Zenon
    <2> QED BY <2>1, <2>6, <2>7
<1>9. 1 + Len(h) = Len(h) + 1
    BY <1>2
<1> QED BY <1>1, <1>7, <1>8, <1>9

\* A step that leaves the buffer alone leaves what is known of it alone.
LEMMA ArrivedStays ==
    ASSUME Arrived, UNCHANGED <<block, damage, buf>>
    PROVE  Arrived'
BY DEF Arrived, Matches, Has

\* A part of a whole buffer is there.
LEMMA WholeHas ==
    ASSUME buf \in Seq(Int), block \in Blocks, Arrived, damage = "none",
           NEW p \in Nat, NEW n \in Nat, p + n <= Len(Encoded(block)) + 1
    PROVE  Has(p, n)
<1>1. PICK m \in Nat : m = Len(buf) /\ m = Len(Encoded(block))
    BY DEF Arrived
<1> QED BY <1>1 DEF Has

LEMMA SendDecode ==
    ASSUME DecodeInv, Send
    PROVE  DecodeInv'
<1>1. ShapeInv' /\ pc' = "Header" /\ block' = block /\ block \in Blocks /\ damage = "none"
    BY SendShape DEF DecodeInv, ShapeInv, Send
<1>2. PICK whole \in Seq(Int) : whole = Encoded(block)
    BY <1>1, PartsType
<1>3. Encoded(block)' = whole
    BY <1>1, <1>2
<1>4. ReadSoFar'
    BY <1>1 DEF ReadSoFar
<1>5. CASE buf' = whole /\ UNCHANGED damage
    <2>1. Arrived'
        BY <1>1, <1>3, <1>5 DEF Arrived, Matches, Has
    <2> QED BY <1>1, <1>4, <2>1 DEF DecodeInv
<1>6. CASE \E n \in 0..(Len(whole) - 1) : buf' = SubSeq(whole, 1, n) /\ damage' = "cut"
    <2>1. PICK n \in 0..(Len(whole) - 1) : buf' = SubSeq(whole, 1, n) /\ damage' = "cut"
        BY <1>6
    <2>2. /\ Len(buf') = n /\ n < Len(whole) /\ n \in Nat
          /\ \A i \in 1..n : buf'[i] = whole[i]
        <3>1. 1 \in Int /\ n \in Int /\ \A i \in 1..n : whole[i] \in Int
            OBVIOUS
        <3> QED BY <2>1, <3>1, SubSeqProperties
    <2>3. ASSUME NEW j \in 1..Len(whole), 1 + j - 1 <= n PROVE buf'[1 + j - 1] = whole[j]
        BY <2>2, <2>3
    <2>4. Arrived'
        BY <1>1, <1>3, <2>1, <2>2, <2>3 DEF Arrived, Matches, Has
    <2> QED BY <1>1, <1>4, <2>4 DEF DecodeInv
<1>7. CASE damage' = "corrupt"
    BY <1>1, <1>7 DEF DecodeInv
<1> QED BY <1>2, <1>5, <1>6, <1>7 DEF Send

LEMMA HeaderDecode ==
    ASSUME DecodeInv, ReadHeader
    PROVE  DecodeInv'
<1>1. /\ ShapeInv' /\ buf \in Seq(Int) /\ block \in Blocks /\ pc = "Header"
      /\ pc' # "Send" /\ UNCHANGED <<block, damage, buf>>
    BY HeaderShape DEF DecodeInv, ShapeInv, ReadHeader
<1> SUFFICES ASSUME damage # "corrupt" PROVE Arrived' /\ ReadSoFar'
    BY <1>1 DEF DecodeInv
<1>2. Arrived
    BY <1>1 DEF DecodeInv
<1>3. Arrived'
    BY <1>1, <1>2, ArrivedStays
<1>4. /\ HeaderFits <=> Has(1, Len(HeaderPart(block)))
      /\ HeaderFits =>
           /\ buf[1] = Len(block.types) /\ buf[buf[1] + 2] = Len(block.times)
           /\ SubSeq(buf, 2, buf[1] + 1) = block.types
           /\ SubSeq(buf, buf[1] + 3, 2 * buf[1] + 3) = block.encodings
    BY <1>1, <1>2, EncodedMatches, HeaderRead DEF Arrived
<1>5. CASE HeaderFits
    <2>1. header' = HeaderOf(block)
        BY <1>4, <1>5 DEF ReadHeader, HeaderOf
    <2>2. pos' = Len(HeaderPart(block)) + 1
        <3>1. PICK k \in Nat : k = Len(block.types)
            BY <1>1, BlockType
        <3>2. Len(HeaderPart(block)) = 2 * k + 3
            BY <1>1, <3>1, HeaderPartIs
        <3>3. pos' = 2 * k + 4
            BY <1>4, <1>5, <3>1 DEF ReadHeader
        <3> QED BY <3>2, <3>3
    <2>3. pc' = "Time"
        BY <1>5 DEF ReadHeader
    <2>4. HeaderOf(block)' = HeaderOf(block) /\ HeaderPart(block)' = HeaderPart(block)
        BY <1>1
    <2>5. ReadSoFar'
        BY <2>1, <2>2, <2>3, <2>4 DEF ReadSoFar
    <2> QED BY <1>3, <2>5
<1>6. CASE ~HeaderFits
    <2>1. damage # "none"
        <3> SUFFICES ASSUME damage = "none" PROVE Has(1, Len(HeaderPart(block)))
            BY <1>4, <1>6
        <3>1. PICK x \in Nat, y \in Nat, l \in Nat :
                x = Len(HeaderPart(block)) /\ y = Len(TimePart(block)) /\ l = Len(Encoded(block)) /\ x + y <= l
            BY <1>1, EncodedLength
        <3>2. 1 + x <= l + 1
            BY <3>1
        <3> QED BY <1>1, <1>2, <3>1, <3>2, WholeHas
    <2>2. pc' = "Error"
        BY <1>6 DEF ReadHeader
    <2>3. ReadSoFar'
        BY <1>1, <2>1, <2>2 DEF ReadSoFar
    <2> QED BY <1>3, <2>3
<1> QED BY <1>5, <1>6

\* The time column as cells of type INT64.
LEMMA TimeCellsAre ==
    ASSUME NEW b \in Blocks
    PROVE  /\ Expressible(TimeCells(b), b.encodings[1], PlainEncoding(Int64))
           /\ SeenColumn(TimeCells(b)) = TimeCells(b)
           /\ DOMAIN TimeCells(b) = 1..Len(b.times)
           /\ \A i \in 1..Len(b.times) :
                TimeCells(b)[i] # Null /\ TimeCells(b)[i].type = Int64 /\ TimeCells(b)[i].v[1] = b.times[i]
<1>1. /\ TimeCells(b) \in Seq(CellsOf(Int64)) /\ Len(TimeCells(b)) = Len(b.times) /\ b.times \in Seq(Int)
      /\ \A i \in 1..Len(b.times) : TimeCells(b)[i] = [type |-> Int64, v |-> <<b.times[i]>>]
      /\ Int64 \in ServerTypes
    BY BlockType
<1>2. DOMAIN TimeCells(b) = 1..Len(b.times) /\ DOMAIN b.times = 1..Len(b.times)
    BY <1>1
<1>3. PlainEncoding(Int64) = Int64Array
    BY DEF PlainEncoding, Boolean, Int32, Int64, Float, Double, Text, Timestamp, Date, Blob, String
<1>4. Expressible(b.times, b.encodings[1], Int64Array)
    BY TsBlockAssumption DEF ServerBlock
<1>5. Uniform(b.times) => Uniform(TimeCells(b))
    BY <1>1, <1>2 DEF Uniform
<1>6. ASSUME NEW i \in 1..Len(b.times)
      PROVE  /\ TimeCells(b)[i] # Null /\ TimeCells(b)[i].type = Int64 /\ TimeCells(b)[i].v[1] = b.times[i]
             /\ Seen(TimeCells(b)[i]) = TimeCells(b)[i]
    <2>1. PICK cell : cell = TimeCells(b)[i] /\ cell = [type |-> Int64, v |-> <<b.times[i]>>]
        BY <1>1
    <2>2. b.times[i] \in Int
        BY <1>1
    <2>3. Payloads(Int64) = [1..1 -> Int]
        BY DEF Payloads, Boolean, Int32, Int64, Float, Double, Text, Timestamp, Date, Blob, String
    <2>4. <<b.times[i]>> \in [1..1 -> Int]
        BY <2>2
    <2>5. cell \in [type : {Int64}, v : Payloads(Int64)]
        BY <2>1, <2>3, <2>4
    <2>6. cell # Null
        BY <1>1, <2>5, TsBlockAssumption
    <2>7. Seen(cell) = cell
        BY <2>1, <2>6 DEF Seen, BinaryValue, Int64, Text
    <2> QED BY <2>1, <2>6, <2>7
<1>7. SeenColumn(TimeCells(b)) = TimeCells(b)
    <2>1. SeenColumn(TimeCells(b)) = [i \in 1..Len(b.times) |-> Seen(TimeCells(b)[i])]
        BY <1>2 DEF SeenColumn
    <2>2. TimeCells(b) = [i \in 1..Len(b.times) |-> TimeCells(b)[i]]
        BY <1>1, <1>2
    <2> QED BY <1>6, <2>1, <2>2
<1> QED BY <1>2, <1>3, <1>4, <1>5, <1>6, <1>7 DEF Expressible

LEMMA TimeDecode ==
    ASSUME DecodeInv, ReadTime
    PROVE  DecodeInv'
<1> DEFINE r == DecodeColumn(pos, header.encodings[1], Int64, header.count)
           good == r.ok /\ \A i \in DOMAIN r.vals : r.vals[i] # Null /\ r.vals[i].type = Int64
<1>1. /\ ShapeInv' /\ buf \in Seq(Int) /\ block \in Blocks /\ pc = "Time" /\ columns = <<>>
      /\ pos \in 1..(Len(buf) + 1) /\ pc' # "Send" /\ UNCHANGED <<block, damage, buf, header, columns>>
    BY TimeShape DEF DecodeInv, ShapeInv, ReadTime
<1> SUFFICES ASSUME damage # "corrupt" PROVE Arrived' /\ ReadSoFar'
    BY <1>1 DEF DecodeInv
<1>2. Arrived /\ header = HeaderOf(block) /\ pos = Len(HeaderPart(block)) + 1
    BY <1>1 DEF DecodeInv, ReadSoFar
<1>3. Arrived'
    BY <1>1, <1>2, ArrivedStays
<1>4. /\ TimeCells(block) \in Seq(CellsOf(Int64)) /\ Len(TimeCells(block)) = Len(block.times)
      /\ Int64 \in ServerTypes
    BY <1>1, BlockType
<1>5. /\ Expressible(TimeCells(block), block.encodings[1], PlainEncoding(Int64))
      /\ SeenColumn(TimeCells(block)) = TimeCells(block)
      /\ DOMAIN TimeCells(block) = 1..Len(block.times)
      /\ \A i \in 1..Len(block.times) : /\ TimeCells(block)[i] # Null /\ TimeCells(block)[i].type = Int64
                                        /\ TimeCells(block)[i].v[1] = block.times[i]
    BY <1>1, TimeCellsAre
<1>6. Matches(pos, TimePart(block))
    BY <1>1, <1>2, EncodedMatches DEF Arrived
<1>7. Reads(r, pos, TimePart(block), TimeCells(block))
    <2>1. r = DecodeColumn(pos, block.encodings[1], Int64, Len(TimeCells(block)))
        BY <1>2, <1>4 DEF HeaderOf
    <2>2. TimePart(block) = Body(Int64, TimeCells(block), block.encodings[1], FALSE)
        BY DEF TimePart
    <2>3. Matches(pos, Body(Int64, TimeCells(block), block.encodings[1], FALSE))
        BY <1>6, <2>2
    <2>4. Reads(DecodeColumn(pos, block.encodings[1], Int64, Len(TimeCells(block))), pos,
                Body(Int64, TimeCells(block), block.encodings[1], FALSE), SeenColumn(TimeCells(block)))
        BY <1>1, <1>4, <1>5, <2>3, BodyReads
    <2> QED BY <1>5, <2>1, <2>2, <2>4
<1>8. PICK x \in Nat, y \in Nat, l \in Nat :
        x = Len(HeaderPart(block)) /\ y = Len(TimePart(block)) /\ l = Len(Encoded(block)) /\ x + y <= l
    BY <1>1, EncodedLength
<1>9. CASE Has(pos, y)
    <2>1. r = Read(pos + y, TimeCells(block))
        BY <1>7, <1>8, <1>9 DEF Reads
    <2>2. r.ok /\ r.next = pos + y /\ r.vals = TimeCells(block)
        BY <2>1 DEF Read
    <2>3. good
        <3> HIDE DEF r
        <3> QED BY <1>5, <2>2
    <2>4. pc' = "Column" /\ pos' = r.next /\ timestamps' = [i \in DOMAIN r.vals |-> r.vals[i].v[1]]
        BY <2>3 DEF ReadTime
    <2>5. timestamps' = block.times
        <3>1. timestamps' = [i \in 1..Len(block.times) |-> block.times[i]]
            <4> HIDE DEF r
            <4> QED BY <1>5, <2>2, <2>4
        <3>2. block.times = [i \in 1..Len(block.times) |-> block.times[i]]
            <4>1. block.times \in Seq(Int)
                BY <1>1, BlockType
            <4> QED BY <4>1
        <3> QED BY <3>1, <3>2
    <2>6. pos' = ColumnPlace(block, 0)
        <3>1. pos' = x + 1 + y
            BY <1>2, <1>8, <2>2, <2>4
        <3>2. ColumnPlace(block, 0) = x + y + 1
            BY <1>1, <1>8, EncodedLength
        <3> QED BY <3>1, <3>2
    <2>7. /\ Len(columns') = 0 /\ columns' = [c \in 1..Len(columns') |-> SeenColumn(block.columns[c])]
        BY <1>1
    <2>8. pos' = Len(HeaderPart(block)) + Len(TimePart(block)) +
                 Len(FlattenSeq(SubSeq(ColumnParts(block), 1, Len(columns')))) + 1
        BY <2>6, <2>7 DEF ColumnPlace, Offset
    <2>9. header' = HeaderOf(block)
        BY <1>1, <1>2
    <2>10. ReadSoFar'
        <3>1. block' = block
            BY <1>1
        <3> HIDE DEF r, good
        <3> QED BY <2>4, <2>5, <2>7, <2>8, <2>9, <3>1 DEF ReadSoFar, SeenColumn, Seen, BinaryValue
    <2> QED BY <1>3, <2>10
<1>10. CASE ~Has(pos, y)
    <2>1. ~r.ok
        BY <1>7, <1>8, <1>10 DEF Reads, Failed
    <2>2. pc' = "Error"
        BY <2>1 DEF ReadTime
    <2>3. damage # "none"
        <3>1. pos \in Nat /\ pos + y <= l + 1
            BY <1>2, <1>8
        <3> QED BY <1>1, <1>2, <1>8, <1>10, <3>1, WholeHas
    <2>4. ReadSoFar'
        BY <1>1, <2>2, <2>3 DEF ReadSoFar
    <2> QED BY <1>3, <2>4
<1> QED BY <1>9, <1>10

LEMMA ColumnDecode ==
    ASSUME DecodeInv, ReadColumn
    PROVE  DecodeInv'
<1> DEFINE c == Len(columns) + 1
           r == DecodeColumn(pos, header.encodings[c + 1], header.types[c], header.count)
<1>1. /\ ShapeInv' /\ buf \in Seq(Int) /\ block \in Blocks /\ pc = "Column" /\ Len(columns) \in Nat
      /\ columns \in Seq([1..header.count -> AnyCells])
      /\ Len(columns) < Len(header.types)
      /\ pos \in 1..(Len(buf) + 1) /\ pc' # "Send" /\ UNCHANGED <<block, damage, buf, header, timestamps>>
    <2>1. ShapeInv /\ ShapeInv'
        BY ColumnShape DEF DecodeInv
    <2>2. /\ pc = "Column" /\ pc' # "Send" /\ UNCHANGED <<block, damage, buf, header, timestamps>>
          /\ Len(columns) < Len(header.types)
        BY DEF ReadColumn
    <2>3. /\ buf \in Seq(Int) /\ block \in Blocks /\ columns \in Seq([1..header.count -> AnyCells])
          /\ pos \in 1..(Len(buf) + 1)
        BY <2>1, <2>2 DEF ShapeInv
    <2>4. Len(columns) \in Nat
        BY <2>3, LenProperties
    <2> QED BY <2>1, <2>2, <2>3, <2>4
<1> SUFFICES ASSUME damage # "corrupt" PROVE Arrived' /\ ReadSoFar'
    BY <1>1 DEF DecodeInv
<1>2. /\ Arrived /\ header = HeaderOf(block) /\ timestamps = block.times
      /\ columns = [k \in 1..Len(columns) |-> SeenColumn(block.columns[k])]
      /\ pos = ColumnPlace(block, Len(columns))
    BY <1>1 DEF DecodeInv, ReadSoFar, ColumnPlace, Offset
<1>3. Arrived'
    BY <1>1, <1>2, ArrivedStays
<1>4. c \in 1..Len(block.types) /\ c - 1 = Len(columns)
    <2>1. Len(columns) < Len(block.types) /\ Len(block.types) \in Nat
        BY <1>1, <1>2, BlockType DEF HeaderOf
    <2> QED BY <1>1, <2>1
<1>5. PICK cells, type :
        /\ type \in ServerTypes /\ type = block.types[c] /\ cells = block.columns[c]
        /\ cells \in Seq(CellsOf(type)) /\ Len(cells) = Len(block.times)
    <2>1. block.types \in Seq(ServerTypes) /\ block.columns[c] \in Seq(CellsOf(block.types[c]))
          /\ Len(block.columns[c]) = Len(block.times)
        BY <1>1, <1>4, BlockType
    <2>2. block.types[c] \in ServerTypes
        BY <1>4, <2>1
    <2> QED BY <2>1, <2>2
<1>6. PICK e, flag : e = block.encodings[c + 1] /\ flag = block.flags[c]
    OBVIOUS
<1>7. Expressible(cells, e, PlainEncoding(type))
    <2>1. ServerBlock(block) /\ c \in DOMAIN block.types
        BY <1>1, <1>4, BlockType, TsBlockAssumption
    <2> QED BY <1>5, <1>6, <2>1 DEF ServerBlock
<1>8. PICK part \in Seq(Int) : part = ColumnParts(block)[c] /\ part = Body(type, cells, e, flag)
    <2>1. ColumnParts(block)[c] = Body(type, cells, e, flag)
        BY <1>1, <1>4, <1>5, <1>6, PartsType
    <2> QED BY <1>5, <2>1, BodyType
<1>9. Reads(r, pos, part, SeenColumn(cells))
    <2>1. Matches(pos, part)
        BY <1>1, <1>2, <1>4, <1>8, EncodedMatches DEF Arrived
    <2>2. r = DecodeColumn(pos, e, type, Len(cells))
        BY <1>2, <1>5, <1>6 DEF HeaderOf
    <2>3. Reads(DecodeColumn(pos, e, type, Len(cells)), pos, Body(type, cells, e, flag), SeenColumn(cells))
        BY <1>1, <1>5, <1>7, <1>8, <2>1, BodyReads
    <2> QED BY <1>8, <2>2, <2>3
<1>10. PICK y \in Nat, l \in Nat :
        /\ y = Len(part) /\ l = Len(Encoded(block))
        /\ ColumnPlace(block, c) = pos + y /\ ColumnPlace(block, c) <= l + 1
    BY <1>1, <1>2, <1>4, <1>8, EncodedLength
<1>11. CASE Has(pos, y)
    <2>1. r = Read(pos + y, SeenColumn(cells))
        BY <1>9, <1>10, <1>11 DEF Reads
    <2>2. r.ok /\ r.next = pos + y /\ r.vals = SeenColumn(cells)
        BY <2>1 DEF Read
    <2>3. pc' = "Column" /\ pos' = pos + y /\ columns' = Append(columns, SeenColumn(cells))
        BY <1>1, <2>2 DEF ReadColumn
    <2>4. Len(columns') = c /\ columns' = [k \in 1..c |-> SeenColumn(block.columns[k])]
        <3>1. PICK n \in Nat : n = Len(columns)
            BY <1>1
        <3>2. PICK S : columns \in Seq(S) /\ SeenColumn(cells) \in S
            <4> DEFINE T == [1..header.count -> AnyCells] \cup {SeenColumn(cells)}
            <4>1. columns \in Seq(T)
                BY <1>1, SeqMonotonic
            <4> HIDE DEF T
            <4>2. SeenColumn(cells) \in T
                BY DEF T
            <4> QED BY <4>1, <4>2
        <3>3. /\ columns' \in Seq(S) /\ Len(columns') = n + 1 /\ columns'[n + 1] = SeenColumn(cells)
              /\ \A k \in 1..n : columns'[k] = columns[k]
            BY <2>3, <3>1, <3>2, AppendProperties
        <3>4. \A k \in 1..(n + 1) : columns'[k] = SeenColumn(block.columns[k])
            <4> TAKE k \in 1..(n + 1)
            <4>1. CASE k = n + 1
                BY <1>5, <3>1, <3>3, <4>1
            <4>2. CASE k # n + 1
                <5>1. k \in 1..n
                    BY <4>2
                <5> QED BY <1>2, <3>1, <3>3, <5>1
            <4> QED BY <4>1, <4>2
        <3>5. columns' = [k \in 1..(n + 1) |-> columns'[k]]
            BY <3>3
        <3>6. c = n + 1
            BY <3>1
        <3> HIDE DEF c
        <3> QED BY <3>3, <3>4, <3>5, <3>6
    <2>5. pos' = Len(HeaderPart(block)) + Len(TimePart(block)) +
                 Len(FlattenSeq(SubSeq(ColumnParts(block), 1, Len(columns')))) + 1
        BY <1>10, <2>3, <2>4 DEF ColumnPlace, Offset
    <2>6. ReadSoFar'
        <3>1. block' = block /\ header' = HeaderOf(block) /\ timestamps' = block.times
            BY <1>1, <1>2
        <3>2. columns' = [k \in 1..Len(columns') |-> SeenColumn(block.columns[k])]
            <4> HIDE DEF c
            <4> QED BY <2>4
        <3> HIDE DEF r, c
        <3> QED BY <2>3, <2>5, <3>1, <3>2 DEF ReadSoFar
    <2> QED BY <1>3, <2>6
<1>12. CASE ~Has(pos, y)
    <2>1. ~r.ok
        BY <1>9, <1>10, <1>12 DEF Reads, Failed
    <2>2. pc' = "Error"
        BY <2>1 DEF ReadColumn
    <2>3. damage # "none"
        <3>1. pos \in Nat /\ pos + y <= l + 1
            BY <1>1, <1>10
        <3> QED BY <1>1, <1>2, <1>10, <1>12, <3>1, WholeHas
    <2>4. ReadSoFar'
        BY <1>1, <2>2, <2>3 DEF ReadSoFar
    <2> QED BY <1>3, <2>4
<1> QED BY <1>11, <1>12

LEMMA DecodeStep ==
    ASSUME DecodeInv, [Next]_vars
    PROVE  DecodeInv'
<1>1. ShapeInv'
    BY ShapeStep DEF DecodeInv
<1>2. CASE UNCHANGED vars
    BY <1>1, <1>2 DEF vars, DecodeInv, Arrived, ReadSoFar, Matches, Has, SeenColumn, Seen, BinaryValue
<1>3. CASE Finish
    <2>1. UNCHANGED <<block, damage, buf>> /\ pc = "Column" /\ pc' = "Done"
        BY <1>3 DEF Finish
    <2>2. damage # "corrupt" => Arrived'
        BY <2>1, ArrivedStays DEF DecodeInv
    <2>3. damage # "corrupt" => ReadSoFar'
        BY <1>3, <2>1 DEF Finish, DecodeInv, ReadSoFar, SeenColumn, Seen, BinaryValue
    <2> QED BY <1>1, <2>1, <2>2, <2>3 DEF DecodeInv
<1> QED BY <1>2, <1>3, SendDecode, HeaderDecode, TimeDecode, ColumnDecode DEF Next

\* Every state of a decoder satisfies the inductive invariant: of a buffer that
\* arrived whole or cut, what was read is what the server wrote there.
THEOREM DecodesWhatWasSent == Spec => []DecodeInv
<1>1. Init => DecodeInv
    BY ShapeInit DEF Init, DecodeInv
<1>2. DecodeInv /\ [Next]_vars => DecodeInv'
    BY DecodeStep
<1> QED BY <1>1, <1>2, PTL DEF Spec

\* TsBlock::decode inverts the server's encoding: for blocks of any shape and
\* values in any choice of encodings, a whole buffer is never refused and
\* yields the times, types and cells that were sent, to its last number.
THEOREM DecodeInvertsEncode == Spec => []RoundTrip
<1>1. DecodeInv => RoundTrip
    <2> SUFFICES ASSUME DecodeInv, damage = "none" PROVE RoundTrip
        BY DEF RoundTrip
    <2>1. pc # "Error"
        BY DEF DecodeInv, ReadSoFar
    <2>2. ASSUME pc = "Done"
          PROVE  /\ timestamps = block.times /\ header.types = block.types
                 /\ columns = [c \in DOMAIN block.columns |->
                                 [i \in DOMAIN block.columns[c] |-> Seen(block.columns[c][i])]]
                 /\ pos = Len(buf) + 1
        <3>1. block \in Blocks /\ Arrived /\ ReadSoFar /\ Len(columns) = Len(header.types)
            BY <2>2 DEF DecodeInv, ShapeInv
        <3>2. header = HeaderOf(block) /\ timestamps = block.times /\ header.types = block.types
            BY <2>2, <3>1 DEF ReadSoFar, HeaderOf
        <3>3. DOMAIN block.columns = 1..Len(columns)
            <4>1. ServerBlock(block) /\ block.types \in Seq(Int)
                BY <3>1, TsBlockAssumption, BlockType
            <4> QED BY <3>1, <3>2, <4>1 DEF ServerBlock
        <3>4. columns = [c \in 1..Len(columns) |-> SeenColumn(block.columns[c])]
            BY <2>2, <3>1 DEF ReadSoFar
        <3>5. pos = ColumnPlace(block, Len(block.types))
            BY <2>2, <3>1, <3>2 DEF ReadSoFar, ColumnPlace, Offset
        <3>6. pos = Len(buf) + 1
            BY <3>1, <3>5, EncodedLength DEF Arrived
        <3> QED BY <3>2, <3>3, <3>4, <3>6 DEF SeenColumn
    <2> QED BY <2>1, <2>2 DEF RoundTrip
<1> QED BY <1>1, DecodesWhatWasSent, PTL

\* No buffer cut anywhere before its end is decoded to a block: the client
\* reports an error instead of a shorter result.
THEOREM CutIsDetected == Spec => []CutDetected
<1>1. DecodeInv => CutDetected
    <2> SUFFICES ASSUME DecodeInv, damage = "cut", pc = "Done" PROVE FALSE
        BY DEF CutDetected
    <2>1. block \in Blocks /\ Arrived /\ ReadSoFar /\ Len(columns) = Len(header.types)
          /\ pos \in 1..(Len(buf) + 1) /\ buf \in Seq(Int)
        BY DEF DecodeInv, ShapeInv
    <2>2. header.types = block.types
        BY <2>1 DEF ReadSoFar, HeaderOf
    <2>3. pos = ColumnPlace(block, Len(block.types))
        BY <2>1, <2>2 DEF ReadSoFar, ColumnPlace, Offset
    <2>4. PICK l \in Nat, m \in Nat : l = Len(Encoded(block)) /\ m = Len(buf)
        BY <2>1, EncodedLength
    <2>5. pos = l + 1 /\ m < l /\ pos <= m + 1
        BY <2>1, <2>3, <2>4, EncodedLength DEF Arrived
    <2> QED BY <2>5
<1> QED BY <1>1, DecodesWhatWasSent, PTL
=============================================================================
