---------------------------- MODULE DataSetProofs ----------------------------
(***************************************************************************)
(* A result set closes its query once and reads the server's answer, row   *)
(* by row, whatever blocks and pages the answer is cut into.               *)
(***************************************************************************)
EXTENDS DataSet, SequenceLemmas

LEMMA InitInv == Init => DataSetInv
<1> SUFFICES ASSUME Init PROVE DataSetInv
    OBVIOUS
<1>1. PICK s \in Streams : pending = Head(s) /\ pages = Tail(s)
    BY DEF Init
<1>2. s \in Seq(Seq(Blocks)) /\ s # <<>>
    BY StreamsAssumption
<1>3. pending \in Seq(Blocks) /\ pages \in Seq(Seq(Blocks))
    BY <1>1, <1>2
<1>4. out \in Seq([id : BlockIds, row : Nat])
    BY DEF Init
<1> QED BY <1>3, <1>4 DEF Init, DataSetInv, ClosedOnce

\* fetch_results gives the next page and whether another one follows, also when
\* the last one is no result set.
LEMMA FetchGivesPage ==
    ASSUME NEW left, NEW resp \in FetchResponses(left)
    PROVE  FetchResults(resp).blocks = Head(left) /\ FetchResults(resp).more = (Tail(left) # <<>>)
<1>1. /\ resp.query_result = Head(left)
      /\ resp.has_result_set => resp.more_data = (Tail(left) # <<>>)
      /\ ~resp.has_result_set => Head(left) = <<>> /\ Tail(left) = <<>>
    BY DEF FetchResponses
<1> QED BY <1>1 DEF FetchResults

LEMMA StepInv == DataSetInv /\ [Next]_vars => DataSetInv'
<1> SUFFICES ASSUME DataSetInv, [Next]_vars PROVE DataSetInv'
    OBVIOUS
<1> DEFINE Rows == [id : BlockIds, row : Nat]
<1>1. CASE Yield
    <2>1. current \in Blocks /\ rowIndex < current.n /\ current.n \in Nat /\ rowIndex \in Nat
        BY <1>1 DEF Yield, HasRow, DataSetInv, Blocks
    <2>2. CASE current.kind = "good" /\ out' = Append(out, [id |-> current.id, row |-> rowIndex])
               /\ rowIndex' = rowIndex + 1
        <3>1. [id |-> current.id, row |-> rowIndex] \in Rows
            BY <2>1 DEF Blocks
        <3>2. out' \in Seq(Rows)
            BY <2>2, <3>1 DEF DataSetInv
        <3>3. rowIndex' \in Nat /\ rowIndex' <= current.n
            BY <2>1, <2>2
        <3> QED BY <1>1, <3>2, <3>3 DEF Yield, Return, DataSetInv, ClosedOnce
    <2>3. CASE UNCHANGED <<rowIndex, out>>
        BY <1>1, <2>3 DEF Yield, Return, DataSetInv, ClosedOnce
    <2> QED BY <1>1, <2>2, <2>3 DEF Yield
<1>2. CASE Decode
    <2>1. pending \in Seq(Blocks) /\ pending # <<>>
        BY <1>2 DEF Decode, DataSetInv
    <2>2. Head(pending) \in Blocks /\ Tail(pending) \in Seq(Blocks)
        BY <2>1
    <2>3. Head(pending).n \in Nat
        BY <2>2 DEF Blocks
    <2>4. CASE Head(pending).kind # "corrupt" /\ current' = Head(pending) /\ rowIndex' = 0
               /\ UNCHANGED <<running, said>>
        <3>1. current' # NoBlock => rowIndex' <= current'.n /\ current'.kind # "corrupt"
            BY <2>3, <2>4
        <3> QED BY <1>2, <2>2, <2>4, <3>1 DEF Decode, DataSetInv, ClosedOnce
    <2>5. CASE current' = NoBlock /\ Return("error") /\ UNCHANGED rowIndex
        BY <1>2, <2>2, <2>5 DEF Decode, Return, DataSetInv, ClosedOnce
    <2> QED BY <1>2, <2>4, <2>5 DEF Decode
<1>3. CASE FetchOk
    <2>1. pages \in Seq(Seq(Blocks)) /\ pages # <<>>
        BY <1>3 DEF FetchOk, Fetching, DataSetInv
    <2>2. Head(pages) \in Seq(Blocks) /\ Tail(pages) \in Seq(Seq(Blocks))
        BY <2>1
    <2>3. pending' = Head(pages) /\ pages' = Tail(pages) /\ moreData' = (pages' # <<>>)
        BY <1>3, FetchGivesPage DEF FetchOk
    <2> QED BY <1>3, <2>2, <2>3 DEF FetchOk, Fetching, DataSetInv, ClosedOnce
<1>4. CASE FetchErr
    BY <1>4 DEF FetchErr, Fetching, Return, DataSetInv, ClosedOnce
<1>5. CASE Exhausted
    <2>1. pending' \in Seq(Blocks) /\ closeOps' = 1 /\ closed' = TRUE /\ running' = FALSE
        BY <1>5 DEF Exhausted, DoClose, Return, DataSetInv, ClosedOnce
    <2> QED BY <1>5, <2>1 DEF Exhausted, DoClose, DataSetInv, ClosedOnce
<1>6. CASE NextRow
    BY <1>6 DEF NextRow, Return, DataSetInv, ClosedOnce
<1>7. CASE Close
    <2>1. pending' \in Seq(Blocks) /\ closeOps' = 1 /\ closed' = TRUE
        BY <1>7 DEF Close, DoClose, DataSetInv, ClosedOnce
    <2> QED BY <1>7, <2>1 DEF Close, DoClose, DataSetInv, ClosedOnce
<1>8. CASE Break
    BY <1>8 DEF Break, DataSetInv, ClosedOnce
<1>9. CASE UNCHANGED vars
    BY <1>9 DEF vars, DataSetInv, ClosedOnce
<1> QED BY <1>1, <1>2, <1>3, <1>4, <1>5, <1>6, <1>7, <1>8, <1>9 DEF Next, Step

\* Every reachable state of a result set satisfies its inductive invariant.
THEOREM DataSetInvariant == Spec => []DataSetInv
BY InitInv, StepInv, PTL DEF Spec

\* closeOperation is sent once: by next_row at the end, by close, or by the drop,
\* whichever comes first.
THEOREM QueryClosedOnce == Spec => []ClosedOnce
BY DataSetInvariant, PTL DEF DataSetInv

-----------------------------------------------------------------------------
(* the items of an answer *)

AllItems == [id : BlockIds, row : Nat, ok : BOOLEAN]

LEMMA RowsFromType ==
    ASSUME NEW block \in Blocks, NEW first \in Nat
    PROVE  /\ RowsFrom(block, first) \in Seq(AllItems)
           /\ first >= block.n => RowsFrom(block, first) = <<>>
<1>1. block.n \in Nat /\ block.id \in BlockIds
    BY DEF Blocks
<1>2. \A i \in 1..(block.n - first) :
          [id |-> block.id, row |-> first + i - 1, ok |-> block.kind = "good"] \in AllItems
    BY <1>1 DEF AllItems
<1>3. CASE first >= block.n
    <2>1. 1..(block.n - first) = {}
        BY <1>1, <1>3
    <2>2. RowsFrom(block, first) = <<>>
        BY <2>1 DEF RowsFrom
    <2> QED BY <2>2
<1>4. CASE first < block.n
    <2>1. block.n - first \in Nat
        BY <1>1, <1>4
    <2>2. RowsFrom(block, first) \in [1..(block.n - first) -> AllItems]
        BY <1>2 DEF RowsFrom
    <2> QED BY <1>1, <1>4, <2>1, <2>2
<1> QED BY <1>1, <1>3, <1>4

\* The next row of a block, and those after it.
LEMMA RowsFromNext ==
    ASSUME NEW block \in Blocks, NEW first \in Nat, first < block.n
    PROVE  LET item == [id |-> block.id, row |-> first, ok |-> block.kind = "good"]
           IN  RowsFrom(block, first) = <<item>> \o RowsFrom(block, first + 1)
<1> DEFINE item == [id |-> block.id, row |-> first, ok |-> block.kind = "good"]
           all == RowsFrom(block, first)
           rest == RowsFrom(block, first + 1)
           n == block.n
<1>1. n \in Nat /\ n - first \in Nat /\ n - (first + 1) \in Nat
    BY DEF Blocks
<1>2. all \in Seq(AllItems) /\ rest \in Seq(AllItems)
    BY RowsFromType
<1>3. Len(all) = n - first /\ Len(rest) = n - (first + 1)
    BY <1>1 DEF RowsFrom
<1>4. /\ \A i \in 1..(n - first) :
            all[i] = [id |-> block.id, row |-> first + i - 1, ok |-> block.kind = "good"]
      /\ \A i \in 1..(n - (first + 1)) :
            rest[i] = [id |-> block.id, row |-> (first + 1) + i - 1, ok |-> block.kind = "good"]
    BY DEF RowsFrom
<1>5. item \in AllItems
    BY DEF AllItems, Blocks
<1>6. PICK a \in Seq(AllItems) : a = all
    BY <1>2
<1>7. PICK r \in Seq(AllItems) : r = rest
    BY <1>2
<1>8. PICK one \in AllItems : one = item
    BY <1>5
<1>9. Len(a) = Len(r) + 1 /\ a[1] = one /\ \A i \in 1..Len(r) : a[i + 1] = r[i]
    <2>1. a[1] = one
        BY <1>1, <1>4, <1>6, <1>8
    <2>2. ASSUME NEW i \in 1..Len(r) PROVE a[i + 1] = r[i]
        <3>1. i \in 1..(n - (first + 1)) /\ i + 1 \in 1..(n - first)
            BY <1>1, <1>3, <1>7
        <3>2. first + (i + 1) - 1 = (first + 1) + i - 1
            BY <3>1
        <3>3. all[i + 1] = [id |-> block.id, row |-> first + (i + 1) - 1, ok |-> block.kind = "good"]
            BY <1>4, <3>1
        <3>4. rest[i] = [id |-> block.id, row |-> (first + 1) + i - 1, ok |-> block.kind = "good"]
            BY <1>4, <3>1
        <3> QED BY <1>6, <1>7, <3>2, <3>3, <3>4
    <2> QED BY <1>1, <1>3, <1>6, <1>7, <2>1, <2>2
<1>10. a = <<one>> \o r
    BY <1>9, IsCons
<1> QED BY <1>6, <1>7, <1>8, <1>10

LEMMA ItemsType ==
    ASSUME NEW block \in Blocks
    PROVE  Items(block) \in Seq(AllItems)
<1>1. [id |-> block.id, row |-> 0, ok |-> FALSE] \in AllItems
    BY DEF AllItems, Blocks
<1>2. <<[id |-> block.id, row |-> 0, ok |-> FALSE]>> \in Seq(AllItems)
    BY <1>1
<1> QED BY <1>2, RowsFromType DEF Items

Mapped(blocks) == [b \in DOMAIN blocks |-> Items(blocks[b])]

LEMMA MappedType ==
    ASSUME NEW blocks \in Seq(Blocks)
    PROVE  /\ Mapped(blocks) \in Seq(Seq(AllItems)) /\ Len(Mapped(blocks)) = Len(blocks)
           /\ \A b \in 1..Len(blocks) : Mapped(blocks)[b] = Items(blocks[b])
<1>1. DOMAIN blocks = 1..Len(blocks) /\ Len(blocks) \in Nat
    OBVIOUS
<1>2. \A b \in 1..Len(blocks) : Items(blocks[b]) \in Seq(AllItems)
    BY ItemsType
<1>3. Mapped(blocks) \in [1..Len(blocks) -> Seq(AllItems)]
    BY <1>1, <1>2 DEF Mapped
<1> QED BY <1>1, <1>3 DEF Mapped

LEMMA ItemsOfType ==
    ASSUME NEW blocks \in Seq(Blocks)
    PROVE  ItemsOf(blocks) \in Seq(AllItems)
BY MappedType, FlattenSeqType DEF ItemsOf, Mapped

LEMMA ItemsOfEmpty == ItemsOf(<<>>) = <<>>
<1>1. Mapped(<<>>) = <<>>
    BY DEF Mapped
<1> QED BY <1>1, FlattenSeqEmpty DEF ItemsOf, Mapped

\* The items of a page followed by those of later pages.
LEMMA ItemsOfConcat ==
    ASSUME NEW s \in Seq(Blocks), NEW t \in Seq(Blocks)
    PROVE  ItemsOf(s \o t) = ItemsOf(s) \o ItemsOf(t)
<1>1. s \o t \in Seq(Blocks) /\ Len(s \o t) = Len(s) + Len(t)
    OBVIOUS
<1>2. Mapped(s \o t) = Mapped(s) \o Mapped(t)
    <2>1. PICK a \in Seq(Seq(AllItems)) : a = Mapped(s)
        BY MappedType
    <2>2. PICK b \in Seq(Seq(AllItems)) : b = Mapped(t)
        BY MappedType
    <2>3. PICK c \in Seq(Seq(AllItems)) : c = Mapped(s \o t)
        BY <1>1, MappedType
    <2>4. Len(a) = Len(s) /\ Len(b) = Len(t) /\ Len(c) = Len(s) + Len(t)
        BY <1>1, <2>1, <2>2, <2>3, MappedType
    <2>5. /\ \A i \in 1..Len(s) : a[i] = Items(s[i])
          /\ \A i \in 1..Len(t) : b[i] = Items(t[i])
          /\ \A i \in 1..(Len(s) + Len(t)) : c[i] = Items((s \o t)[i])
        BY <1>1, <2>1, <2>2, <2>3, MappedType
    <2>6. \A i \in 1..(Len(s) + Len(t)) :
              (s \o t)[i] = IF i <= Len(s) THEN s[i] ELSE t[i - Len(s)]
        BY ConcatProperties
    <2>7. ASSUME NEW i \in 1..(Len(s) + Len(t))
          PROVE  c[i] = IF i <= Len(a) THEN a[i] ELSE b[i - Len(a)]
        <3>1. CASE i <= Len(s)
            <4>1. i \in 1..Len(s)
                BY <3>1
            <4> QED BY <2>4, <2>5, <2>6, <3>1, <4>1
        <3>2. CASE i > Len(s)
            <4>1. i - Len(s) \in 1..Len(t) /\ ~(i <= Len(s))
                BY <3>2
            <4> QED BY <2>4, <2>5, <2>6, <4>1
        <3> QED BY <3>1, <3>2
    <2>8. c = a \o b
        <3>1. /\ Len(c) = Len(a) + Len(b)
              /\ \A i \in 1..Len(c) : c[i] = IF i <= Len(a) THEN a[i] ELSE b[i - Len(a)]
            BY <2>4, <2>7
        <3> QED BY <3>1, IsConcat
    <2> QED BY <2>1, <2>2, <2>3, <2>8
<1>3. FlattenSeq(Mapped(s) \o Mapped(t)) = FlattenSeq(Mapped(s)) \o FlattenSeq(Mapped(t))
    BY MappedType, FlattenSeqConcat
<1> QED BY <1>2, <1>3 DEF ItemsOf, Mapped

LEMMA ItemsOfHead ==
    ASSUME NEW blocks \in Seq(Blocks), blocks # <<>>
    PROVE  ItemsOf(blocks) = Items(Head(blocks)) \o ItemsOf(Tail(blocks))
<1>1. Head(blocks) \in Blocks /\ Tail(blocks) \in Seq(Blocks)
    OBVIOUS
<1>2. PICK m \in Seq(Seq(AllItems)) : m = Mapped(blocks)
    BY MappedType
<1>3. m # <<>> /\ Head(m) = Items(Head(blocks))
    <2>1. Len(m) = Len(blocks) /\ 1 \in 1..Len(blocks) /\ m[1] = Items(blocks[1])
        BY <1>2, MappedType
    <2> QED BY <2>1
<1>4. Tail(m) = Mapped(Tail(blocks))
    <2>1. PICK t \in Seq(Seq(AllItems)) : t = Mapped(Tail(blocks))
        BY <1>1, MappedType
    <2>2. Len(t) = Len(blocks) - 1 /\ Len(m) = Len(blocks)
        <3>1. Len(Mapped(Tail(blocks))) = Len(Tail(blocks)) /\ Len(Mapped(blocks)) = Len(blocks)
            BY <1>1, MappedType
        <3>2. Len(Tail(blocks)) = Len(blocks) - 1
            OBVIOUS
        <3> QED BY <1>2, <2>1, <3>1, <3>2
    <2>3. ASSUME NEW i \in 1..(Len(blocks) - 1) PROVE t[i] = m[i + 1]
        <3>1. i \in 1..Len(Tail(blocks)) /\ i + 1 \in 1..Len(blocks) /\ Tail(blocks)[i] = blocks[i + 1]
            OBVIOUS
        <3>2. t[i] = Items(Tail(blocks)[i]) /\ m[i + 1] = Items(blocks[i + 1])
            BY <1>1, <1>2, <2>1, <3>1, MappedType
        <3> QED BY <3>1, <3>2
    <2>4. Len(m) = Len(t) + 1 /\ \A i \in 1..Len(t) : m[i + 1] = t[i]
        BY <2>2, <2>3
    <2>5. t = Tail(m)
        BY <2>4, IsTail
    <2> QED BY <2>1, <2>5
<1>5. FlattenSeq(m) = Head(m) \o FlattenSeq(Tail(m))
    BY <1>3, FlattenSeqHead
<1> QED BY <1>2, <1>3, <1>4, <1>5 DEF ItemsOf, Mapped

-----------------------------------------------------------------------------
(* refinement *)

\* What is left of the current block.
Rest == IF current = NoBlock THEN <<>> ELSE RowsFrom(current, rowIndex)
\* What the server has not sent.
Unsent == ItemsOf(FlattenSeq(pages))

LEMMA TodoParts ==
    ASSUME DataSetInv
    PROVE  /\ Rest \in Seq(AllItems) /\ ItemsOf(pending) \in Seq(AllItems) /\ Unsent \in Seq(AllItems)
           /\ ~closed => Todo = (Rest \o ItemsOf(pending)) \o Unsent
           /\ closed => Todo = <<>>
           /\ ~HasRow => Rest = <<>>
           /\ pages = <<>> => Unsent = <<>>
<1>1. Rest \in Seq(AllItems) /\ (~HasRow => Rest = <<>>)
    <2>1. CASE current = NoBlock
        <3>1. Rest = <<>>
            BY <2>1 DEF Rest
        <3> QED BY <3>1
    <2>2. CASE current # NoBlock
        <3>1. current \in Blocks /\ rowIndex \in Nat /\ current.n \in Nat
            BY <2>2 DEF DataSetInv, Blocks
        <3>2. ~HasRow => rowIndex >= current.n
            BY <2>2, <3>1 DEF HasRow
        <3> QED BY <2>2, <3>1, <3>2, RowsFromType DEF Rest
    <2> QED BY <2>1, <2>2
<1>2. ItemsOf(pending) \in Seq(AllItems)
    BY ItemsOfType DEF DataSetInv
<1>3. Unsent \in Seq(AllItems)
    <2>1. FlattenSeq(pages) \in Seq(Blocks)
        BY FlattenSeqType DEF DataSetInv
    <2> QED BY <2>1, ItemsOfType DEF Unsent
<1>4. pages = <<>> => Unsent = <<>>
    BY FlattenSeqEmpty, ItemsOfEmpty DEF Unsent
<1>5. /\ ~closed => Todo = (Rest \o ItemsOf(pending)) \o Unsent
      /\ closed => Todo = <<>>
    BY DEF Todo, Rest, Unsent
<1> QED BY <1>1, <1>2, <1>3, <1>4, <1>5

\* Decoding a block that can be decoded leaves what there is to read.
LEMMA DecodeStutters ==
    ASSUME DataSetInv, DataSetInv', Decode, Head(pending).kind # "corrupt",
           current' = Head(pending), rowIndex' = 0
    PROVE  Todo' = Todo
<1>1. pending \in Seq(Blocks) /\ pending # <<>> /\ ~HasRow /\ ~closed /\ ~closed'
      /\ pages' = pages /\ pending' = Tail(pending)
    BY DEF Decode, DataSetInv
<1>2. Head(pending) \in Blocks /\ current' # NoBlock
    <2>1. Head(pending) \in Blocks
        BY <1>1
    <2> QED BY <2>1, StreamsAssumption
<1>3. Rest' = Items(Head(pending))
    BY <1>2 DEF Rest, Items
<1>4. ItemsOf(pending) = Items(Head(pending)) \o ItemsOf(Tail(pending))
    BY <1>1, ItemsOfHead
<1>5. Rest = <<>> /\ Todo = (Rest \o ItemsOf(pending)) \o Unsent
    BY <1>1, TodoParts
<1>6. Todo' = (Rest' \o ItemsOf(pending)') \o Unsent'
    BY <1>1 DEF Todo, Rest, Unsent
<1>7. ItemsOf(pending)' = ItemsOf(Tail(pending)) /\ Unsent' = Unsent
    BY <1>1 DEF Unsent, ItemsOf
<1>8. <<>> \o ItemsOf(pending) = ItemsOf(pending)
    BY TodoParts, ConcatEmptySeq
<1> QED BY <1>3, <1>4, <1>5, <1>6, <1>7, <1>8

\* A block that cannot be decoded is the first thing to report, and is skipped.
LEMMA DecodeReports ==
    ASSUME DataSetInv, Decode, Head(pending).kind = "corrupt", current' = NoBlock
    PROVE  Todo # <<>> /\ ~IsGood(Head(Todo)) /\ Todo' = Tail(Todo)
<1>1. pending \in Seq(Blocks) /\ pending # <<>> /\ ~HasRow /\ ~closed /\ ~closed'
      /\ pages' = pages /\ pending' = Tail(pending)
    BY DEF Decode, DataSetInv
<1> DEFINE bad == [id |-> Head(pending).id, row |-> 0, ok |-> FALSE]
<1>2. bad \in AllItems /\ Tail(pending) \in Seq(Blocks)
    <2>1. Head(pending) \in Blocks /\ Tail(pending) \in Seq(Blocks)
        BY <1>1
    <2> QED BY <2>1 DEF AllItems, Blocks
<1>3. ItemsOf(pending) = <<bad>> \o ItemsOf(Tail(pending))
    BY <1>1, ItemsOfHead DEF Items
<1>4. PICK t \in Seq(AllItems) : t = ItemsOf(Tail(pending))
    BY <1>2, ItemsOfType
<1>5. PICK u \in Seq(AllItems) : u = Unsent
    BY TodoParts
<1>6. Todo = (<<>> \o (<<bad>> \o t)) \o u
    BY <1>1, <1>3, <1>4, <1>5, TodoParts
<1>7. Todo' = (<<>> \o t) \o u
    BY <1>1, <1>4, <1>5 DEF Todo, Unsent, ItemsOf
<1>8. PICK b \in AllItems : b = bad
    BY <1>2
<1>9. (<<>> \o (<<b>> \o t)) \o u = <<b>> \o (t \o u) /\ (<<>> \o t) \o u = t \o u
    OBVIOUS
<1>10. Todo = <<b>> \o (t \o u) /\ Todo' = t \o u
    BY <1>6, <1>7, <1>8, <1>9
<1>11. t \o u \in Seq(AllItems)
    OBVIOUS
<1>12. Todo # <<>> /\ Head(Todo) = b /\ Tail(Todo) = t \o u
    BY <1>10, <1>11
<1> QED BY <1>8, <1>10, <1>12 DEF IsGood

\* A page fetched is a page not to be sent.
LEMMA FetchStutters ==
    ASSUME DataSetInv, FetchOk
    PROVE  Todo' = Todo
<1>1. /\ pages \in Seq(Seq(Blocks)) /\ pages # <<>> /\ ~HasRow /\ ~closed /\ ~closed'
      /\ pending = <<>> /\ pending' = Head(pages) /\ pages' = Tail(pages) /\ current' = NoBlock
    BY FetchGivesPage DEF FetchOk, Fetching, DataSetInv
<1>2. Head(pages) \in Seq(Blocks) /\ Tail(pages) \in Seq(Seq(Blocks))
    BY <1>1
<1>3. FlattenSeq(pages) = Head(pages) \o FlattenSeq(Tail(pages)) /\ FlattenSeq(Tail(pages)) \in Seq(Blocks)
    BY <1>1, <1>2, FlattenSeqHead, FlattenSeqType
<1>4. Unsent = ItemsOf(Head(pages)) \o ItemsOf(FlattenSeq(Tail(pages)))
    BY <1>2, <1>3, ItemsOfConcat DEF Unsent
<1>5. PICK h \in Seq(AllItems) : h = ItemsOf(Head(pages))
    BY <1>2, ItemsOfType
<1>6. PICK t \in Seq(AllItems) : t = ItemsOf(FlattenSeq(Tail(pages)))
    BY <1>3, ItemsOfType
<1>7. Todo = (<<>> \o <<>>) \o (h \o t)
    BY <1>1, <1>4, <1>5, <1>6, TodoParts, ItemsOfEmpty
<1>8. Todo' = (<<>> \o h) \o t
    BY <1>1, <1>5, <1>6 DEF Todo, ItemsOf
<1>9. (<<>> \o <<>>) \o (h \o t) = (<<>> \o h) \o t
    OBVIOUS
<1> QED BY <1>7, <1>8, <1>9

\* The row next_row returns is the first thing to be read.
LEMMA YieldDelivers ==
    ASSUME DataSetInv, Yield, rowIndex' = rowIndex + 1
    PROVE  LET item == [id |-> current.id, row |-> rowIndex, ok |-> current.kind = "good"]
           IN  Todo # <<>> /\ Head(Todo) = item /\ Todo' = Tail(Todo)
<1> DEFINE item == [id |-> current.id, row |-> rowIndex, ok |-> current.kind = "good"]
<1>1. /\ current \in Blocks /\ rowIndex \in Nat /\ rowIndex < current.n /\ current # NoBlock
      /\ ~closed /\ closed' = closed /\ current' = current /\ pages' = pages /\ pending' = pending
    BY DEF Yield, HasRow, DataSetInv
<1>2. item \in AllItems
    BY <1>1 DEF AllItems, Blocks
<1>3. PICK r \in Seq(AllItems) : r = RowsFrom(current, rowIndex + 1)
    BY <1>1, RowsFromType
<1>4. RowsFrom(current, rowIndex) = <<item>> \o r
    BY <1>1, <1>3, RowsFromNext
<1>5. PICK p \in Seq(AllItems) : p = ItemsOf(pending)
    BY TodoParts
<1>6. PICK u \in Seq(AllItems) : u = Unsent
    BY TodoParts
<1>7. PICK b \in AllItems : b = item
    BY <1>2
<1>8. Todo = ((<<b>> \o r) \o p) \o u
    BY <1>1, <1>4, <1>5, <1>6, <1>7 DEF Todo, Unsent
<1>9. Todo' = (r \o p) \o u
    BY <1>1, <1>3, <1>5, <1>6 DEF Todo, Unsent, ItemsOf
<1>10. ((<<b>> \o r) \o p) \o u = <<b>> \o ((r \o p) \o u) /\ (r \o p) \o u \in Seq(AllItems)
    OBVIOUS
<1>11. PICK w \in Seq(AllItems) : w = (r \o p) \o u
    BY <1>10
<1>12. <<b>> \o w # <<>> /\ Head(<<b>> \o w) = b /\ Tail(<<b>> \o w) = w
    OBVIOUS
<1>13. Todo = <<b>> \o w
    BY <1>8, <1>10, <1>11
<1> QED BY <1>7, <1>9, <1>11, <1>12, <1>13

\* A failed fetch leaves what there is to read.
LEMMA FetchErrKeeps ==
    ASSUME DataSetInv, FetchErr
    PROVE  Todo' = Todo
<1>1. ~HasRow /\ ~closed /\ ~closed' /\ pending' = pending /\ pages' = pages /\ current' = NoBlock
    BY DEF FetchErr, Fetching, DataSetInv
<1>2. Todo = (<<>> \o ItemsOf(pending)) \o Unsent
    BY <1>1, TodoParts
<1>3. Todo' = (<<>> \o ItemsOf(pending)) \o Unsent
    BY <1>1 DEF Todo, Unsent, ItemsOf
<1> QED BY <1>2, <1>3

\* At the end nothing is left.
LEMMA ExhaustedEnds ==
    ASSUME DataSetInv, Exhausted
    PROVE  Todo = <<>> /\ Todo' = <<>>
<1>1. ~HasRow /\ ~closed /\ pending = <<>> /\ pages = <<>> /\ closed'
    BY DEF Exhausted, DoClose, DataSetInv
<1>2. Todo = (<<>> \o <<>>) \o <<>>
    BY <1>1, TodoParts, ItemsOfEmpty
<1> QED BY <1>1, <1>2 DEF Todo

LEMMA TodoUnchanged == UNCHANGED <<closed, current, rowIndex, pending, pages>> => Todo' = Todo
BY DEF Todo, RowsFrom, ItemsOf

LEMMA OutUnchanged == out' = out => OutRows' = OutRows
BY DEF OutRows

LEMMA OutAppends ==
    ASSUME DataSetInv, Yield, current.kind = "good",
           out' = Append(out, [id |-> current.id, row |-> rowIndex])
    PROVE  OutRows' = Append(OutRows, [id |-> current.id, row |-> rowIndex, ok |-> TRUE])
<1> DEFINE Rows == [id : BlockIds, row : Nat]
           Told(s) == [i \in DOMAIN s |-> [id |-> s[i].id, row |-> s[i].row, ok |-> TRUE]]
           item == [id |-> current.id, row |-> rowIndex]
           told == [id |-> current.id, row |-> rowIndex, ok |-> TRUE]
<1>1. current \in Blocks /\ rowIndex \in Nat /\ out \in Seq(Rows)
    BY DEF Yield, HasRow, DataSetInv
<1>2. item \in Rows /\ told \in AllItems
    BY <1>1 DEF Blocks, AllItems
<1>3. \A s \in Seq(Rows) : /\ Told(s) \in Seq(AllItems) /\ Len(Told(s)) = Len(s)
                           /\ \A i \in 1..Len(s) : Told(s)[i] = [id |-> s[i].id, row |-> s[i].row, ok |-> TRUE]
    <2> TAKE s \in Seq(Rows)
    <2>1. DOMAIN s = 1..Len(s) /\ Len(s) \in Nat /\ \A i \in 1..Len(s) : s[i] \in Rows
        <3> HIDE DEF Rows
        <3> QED OBVIOUS
    <2>2. Told(s) \in [1..Len(s) -> AllItems]
        BY <2>1 DEF AllItems
    <2> QED BY <2>1, <2>2
<1>4. PICK a \in Seq(AllItems) : a = Told(out)
    BY <1>1, <1>3
<1>5. /\ Append(out, item) \in Seq(Rows) /\ Len(Append(out, item)) = Len(out) + 1
      /\ \A i \in 1..Len(out) : Append(out, item)[i] = out[i]
      /\ Append(out, item)[Len(out) + 1] = item
    BY <1>1, <1>2, AppendProperties
<1>6. PICK c \in Seq(AllItems) : c = Told(Append(out, item))
    BY <1>3, <1>5
<1>7. Len(a) = Len(out) /\ Len(c) = Len(out) + 1 /\ Len(out) \in Nat
    BY <1>1, <1>3, <1>4, <1>5, <1>6
<1>8. \A i \in 1..Len(out) : c[i] = a[i]
    <2> TAKE i \in 1..Len(out)
    <2>1. i \in 1..(Len(out) + 1)
        BY <1>7
    <2>2. c[i] = [id |-> out[i].id, row |-> out[i].row, ok |-> TRUE]
        BY <1>3, <1>5, <1>6, <2>1
    <2>3. a[i] = [id |-> out[i].id, row |-> out[i].row, ok |-> TRUE]
        BY <1>1, <1>3, <1>4
    <2> QED BY <2>2, <2>3
<1>9. c[Len(out) + 1] = told
    <2>1. Len(out) + 1 \in 1..(Len(out) + 1)
        BY <1>7
    <2>2. c[Len(out) + 1] = [id |-> Append(out, item)[Len(out) + 1].id,
                             row |-> Append(out, item)[Len(out) + 1].row, ok |-> TRUE]
        BY <1>3, <1>5, <1>6, <2>1
    <2>3. Append(out, item)[Len(out) + 1].id = current.id /\ Append(out, item)[Len(out) + 1].row = rowIndex
        BY <1>5
    <2> QED BY <2>2, <2>3, Zenon
<1>10. PICK x \in AllItems : x = told
    BY <1>2
<1>11. c = Append(a, x)
    BY <1>7, <1>8, <1>9, <1>10, IsAppend
<1> QED BY <1>4, <1>6, <1>10, <1>11 DEF OutRows

\* Every step of a result set is a step of reading its answer, or changes nothing
\* that the reader can see.
LEMMA StepRefines ==
    ASSUME DataSetInv, DataSetInv', [Next]_vars
    PROVE  [Abstract!Next]_<<Todo, OutRows, said>>
<1>1. CASE Yield
    <2>1. CASE /\ current.kind = "good" /\ rowIndex' = rowIndex + 1 /\ Return("row")
               /\ out' = Append(out, [id |-> current.id, row |-> rowIndex])
        <3> DEFINE item == [id |-> current.id, row |-> rowIndex, ok |-> TRUE]
        <3>1. Todo # <<>> /\ Head(Todo) = item /\ Todo' = Tail(Todo)
            BY <1>1, <2>1, YieldDelivers
        <3>2. OutRows' = Append(OutRows, item)
            BY <1>1, <2>1, OutAppends
        <3>3. IsGood(Head(Todo))
            BY <3>1 DEF IsGood
        <3>4. said' = "row"
            BY <2>1 DEF Return
        <3>5. Abstract!Deliver
            BY <3>1, <3>2, <3>3, <3>4 DEF Abstract!Deliver
        <3> QED BY <3>5 DEF Abstract!Next
    <2>2. CASE Return("error") /\ UNCHANGED <<rowIndex, out>>
        <3>1. Todo' = Todo
            BY <1>1, <2>2, TodoUnchanged DEF Yield
        <3>2. said' = "error" /\ OutRows' = OutRows
            BY <2>2, OutUnchanged DEF Return
        <3>3. Abstract!Report
            BY <3>1, <3>2 DEF Abstract!Report
        <3> QED BY <3>3 DEF Abstract!Next
    <2> QED BY <1>1, <2>1, <2>2 DEF Yield
<1>2. CASE Decode
    <2>1. OutRows' = OutRows
        BY <1>2, OutUnchanged DEF Decode
    <2>2. CASE Head(pending).kind # "corrupt" /\ current' = Head(pending) /\ rowIndex' = 0 /\ UNCHANGED <<running, said>>
        BY <1>2, <2>1, <2>2, DecodeStutters
    <2>3. CASE Head(pending).kind = "corrupt" /\ current' = NoBlock /\ Return("error")
        <3>1. Todo # <<>> /\ ~IsGood(Head(Todo)) /\ Todo' = Tail(Todo)
            BY <1>2, <2>3, DecodeReports
        <3>2. said' = "error"
            BY <2>3 DEF Return
        <3>3. Abstract!Report
            BY <2>1, <3>1, <3>2 DEF Abstract!Report
        <3> QED BY <3>3 DEF Abstract!Next
    <2> QED BY <1>2, <2>2, <2>3 DEF Decode
<1>3. CASE FetchOk
    <2>1. OutRows' = OutRows /\ said' = said
        BY <1>3, OutUnchanged DEF FetchOk
    <2> QED BY <1>3, <2>1, FetchStutters
<1>4. CASE FetchErr
    <2>1. Todo' = Todo /\ OutRows' = OutRows /\ said' = "error"
        BY <1>4, FetchErrKeeps, OutUnchanged DEF FetchErr, Return
    <2>2. Abstract!Report
        BY <2>1 DEF Abstract!Report
    <2> QED BY <2>2 DEF Abstract!Next
<1>5. CASE Exhausted
    <2>1. Todo = <<>> /\ Todo' = <<>> /\ OutRows' = OutRows /\ said' = "end"
        BY <1>5, ExhaustedEnds, OutUnchanged DEF Exhausted, Return
    <2>2. Abstract!End
        BY <2>1 DEF Abstract!End
    <2> QED BY <2>2 DEF Abstract!Next
<1>6. CASE NextRow
    <2>1. OutRows' = OutRows /\ Todo' = Todo
        BY <1>6, OutUnchanged, TodoUnchanged DEF NextRow
    <2>2. CASE closed /\ Return("end")
        <3>1. Todo = <<>> /\ said' = "end"
            BY <2>2 DEF Todo, Return
        <3>2. Abstract!End
            BY <2>1, <3>1 DEF Abstract!End
        <3> QED BY <3>2 DEF Abstract!Next
    <2>3. CASE UNCHANGED said
        BY <2>1, <2>3
    <2> QED BY <1>6, <2>2, <2>3 DEF NextRow
<1>7. CASE Close
    <2>1. Todo' = <<>> /\ OutRows' = OutRows /\ said' = said
        BY <1>7, OutUnchanged DEF Close, DoClose, Todo
    <2>2. Abstract!Abandon
        BY <2>1 DEF Abstract!Abandon
    <2> QED BY <2>2 DEF Abstract!Next
<1>8. CASE Break \/ UNCHANGED vars
    <2>1. OutRows' = OutRows /\ Todo' = Todo /\ said' = said
        BY <1>8, OutUnchanged, TodoUnchanged DEF Break, vars
    <2> QED BY <2>1
<1> QED BY <1>1, <1>2, <1>3, <1>4, <1>5, <1>6, <1>7, <1>8 DEF Next, Step

\* A result set reads the answer of its query: for every answer the server may
\* give, no row is lost, repeated or reordered by the blocks and pages it comes
\* in, by blocks that cannot be read or by fetches that fail, and next_row says
\* that the end is reached only when nothing is left.
THEOREM ResultSetReadsTheAnswer == Spec => ReadsTheAnswer
<1>1. Init => Abstract!Init
    <2> SUFFICES ASSUME Init PROVE Abstract!Init
        OBVIOUS
    <2>1. OutRows = <<>>
        BY DEF Init, OutRows
    <2> QED BY <2>1 DEF Init, Abstract!Init
<1>2. DataSetInv /\ DataSetInv' /\ [Next]_vars => [Abstract!Next]_<<Todo, OutRows, said>>
    BY StepRefines
<1> QED BY <1>1, <1>2, DataSetInvariant, PTL DEF Spec, ReadsTheAnswer, Abstract!Spec
=============================================================================
