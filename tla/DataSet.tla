------------------------------- MODULE DataSet -------------------------------
(***************************************************************************)
(* SessionDataSet of src/client/dataset.rs: a query's pages of serialized  *)
(* blocks, read row by row.  next_row drains the current block, decodes    *)
(* the next one, fetches the next page, and closes the query at the end.   *)
(* The steps of its loop are the actions below; between fetches the        *)
(* connection may break, and it is never replaced (fetch_results does not  *)
(* reconnect).                                                             *)
(*                                                                         *)
(* The server is external: it answers the query and each fetch with the    *)
(* next page of an answer fixed at the start, and says whether more are to *)
(* come.  A page may be empty, and the last one no result set at all.      *)
(***************************************************************************)
EXTENDS Integers, Sequences, SequencesExt

CONSTANTS
    Streams,    \* answers: non-empty sequences of pages, a page a sequence of blocks
    BlockIds,   \* names for the blocks of an answer
    NoBlock

\* A block has n rows.  TsBlock::decode fails on a "corrupt" one; the rows of
\* an "unmapped" one decode, but assemble_row does not find their columns.
Blocks == [id : BlockIds, n : Nat, kind : {"good", "unmapped", "corrupt"}]

ASSUME StreamsAssumption ==
    NoBlock \notin Blocks /\ \A s \in Streams : s # <<>> /\ s \in Seq(Seq(Blocks))

VARIABLES
    pages,      \* pages the server has not sent yet
    pending,    \* SessionDataSet::pending_blocks
    current,    \* SessionDataSet::current
    rowIndex,   \* SessionDataSet::row_index
    moreData,   \* SessionDataSet::more_data
    closed,     \* SessionDataSet::closed
    running,    \* next_row is in its loop
    said,       \* what the last next_row returned
    out,        \* rows returned so far
    up,         \* the connection works
    closeOps    \* closeOperation requests sent

vars == <<pages, pending, current, rowIndex, moreData, closed, running, said, out, up, closeOps>>

\* SessionDataSet::new on the response of the query.
Init ==
    /\ \E s \in Streams : pending = Head(s) /\ pages = Tail(s)
    /\ moreData = (pages # <<>>)
    /\ current = NoBlock /\ rowIndex = 0 /\ closed = FALSE
    /\ running = FALSE /\ said = "nothing" /\ out = <<>> /\ up = TRUE /\ closeOps = 0

Return(what) == running' = FALSE /\ said' = what

\* close, when not closed yet.  close_query swallows errors.
DoClose ==
    /\ closed' = TRUE /\ pending' = <<>> /\ current' = NoBlock
    /\ closeOps' = closeOps + 1

\* Some row of the current block was not returned yet.
HasRow == current # NoBlock /\ rowIndex < current.n

\* Step 1: a row of the current block.  An error leaves the row where it is.
Yield ==
    /\ running /\ HasRow
    /\ \/ /\ current.kind = "good"
          /\ out' = Append(out, [id |-> current.id, row |-> rowIndex])
          /\ rowIndex' = rowIndex + 1 /\ Return("row")
       \/ /\ current.kind = "unmapped"
          /\ Return("error") /\ UNCHANGED <<rowIndex, out>>
    /\ UNCHANGED <<pages, pending, current, moreData, closed, up, closeOps>>

\* Step 2: the next cached block.  It is taken off the queue before it is
\* decoded: an error is returned once, and the next call goes on after it.
Decode ==
    /\ running /\ ~HasRow /\ pending # <<>>
    /\ pending' = Tail(pending)
    /\ \/ /\ Head(pending).kind # "corrupt"
          /\ current' = Head(pending) /\ rowIndex' = 0 /\ UNCHANGED <<running, said>>
       \/ /\ Head(pending).kind = "corrupt"
          /\ current' = NoBlock /\ Return("error") /\ UNCHANGED rowIndex
    /\ UNCHANGED <<pages, moreData, closed, out, up, closeOps>>

Fetching == running /\ ~HasRow /\ pending = <<>> /\ moreData

\* The answers to a fetch: the next page of the answer, and whether more follow.
\* A last page without blocks may come as no result set at all, and what such a
\* response says of more data means nothing.
FetchResponses(left) ==
    {r \in [has_result_set : BOOLEAN, query_result : {Head(left)}, more_data : BOOLEAN] :
        IF r.has_result_set THEN r.more_data = (Tail(left) # <<>>)
                            ELSE Head(left) = <<>> /\ Tail(left) = <<>>}

\* Session::fetch_results on the response: without a result set the answer is over.
FetchResults(resp) ==
    IF resp.has_result_set THEN [blocks |-> resp.query_result, more |-> resp.more_data]
                           ELSE [blocks |-> <<>>, more |-> FALSE]

\* Mutant: an empty page ends the result set.
FetchOkEmptyEnds ==
    /\ Fetching /\ up
    /\ \E resp \in FetchResponses(pages) :
        /\ pending' = FetchResults(resp).blocks
        /\ moreData' = (FetchResults(resp).more /\ pending' # <<>>)
    /\ pages' = Tail(pages) /\ current' = NoBlock
    /\ UNCHANGED <<rowIndex, closed, running, said, out, up, closeOps>>

\* Step 3: the next page.
FetchOk ==
    /\ Fetching /\ up
    /\ \E resp \in FetchResponses(pages) :
        pending' = FetchResults(resp).blocks /\ moreData' = FetchResults(resp).more
    /\ pages' = Tail(pages) /\ current' = NoBlock
    /\ UNCHANGED <<rowIndex, closed, running, said, out, up, closeOps>>

\* Mutant: next_row tries again by itself.
FetchErrLoops ==
    /\ Fetching
    /\ current' = NoBlock /\ up' \in {up, FALSE}
    /\ UNCHANGED <<pages, pending, rowIndex, moreData, closed, running, said, out, closeOps>>

\* The fetch is refused, or the connection broke under it.
FetchErr ==
    /\ Fetching
    /\ current' = NoBlock /\ Return("error")
    /\ up' \in {up, FALSE}
    /\ UNCHANGED <<pages, pending, rowIndex, moreData, closed, out, closeOps>>

\* Step 4: nothing is left.
Exhausted ==
    /\ running /\ ~HasRow /\ pending = <<>> /\ ~moreData
    /\ DoClose /\ Return("end")
    /\ UNCHANGED <<pages, rowIndex, moreData, out, up>>

\* next_row is called; on a closed result set it returns at once.
NextRow ==
    /\ ~running
    /\ \/ /\ closed /\ Return("end")
       \/ /\ ~closed /\ running' = TRUE /\ UNCHANGED said
    /\ UNCHANGED <<pages, pending, current, rowIndex, moreData, closed, out, up, closeOps>>

\* Mutant: close is not idempotent.
CloseAgain ==
    /\ ~running /\ closeOps < 2 /\ DoClose
    /\ UNCHANGED <<pages, rowIndex, moreData, running, said, out, up>>

\* close by the reader, or the drop; nothing the second time.
Close ==
    /\ ~running /\ ~closed /\ DoClose
    /\ UNCHANGED <<pages, rowIndex, moreData, running, said, out, up>>

Break ==
    /\ up /\ up' = FALSE
    /\ UNCHANGED <<pages, pending, current, rowIndex, moreData, closed, running, said, out, closeOps>>

Step == Yield \/ Decode \/ FetchOk \/ FetchErr \/ Exhausted
Next == Step \/ NextRow \/ Close \/ Break

\* A fetch is answered or fails.
Spec == Init /\ [][Next]_vars /\ WF_vars(Step)

-----------------------------------------------------------------------------
\* The query is closed exactly once, however the reader stops reading.
ClosedOnce == closeOps = (IF closed THEN 1 ELSE 0)

\* next_row returns, also over empty blocks and empty pages.
NextRowReturns == running ~> ~running

\* The inductive invariant behind the theorems of DataSetProofs: next_row is in
\* its loop only on an open result set, more_data says whether the server has
\* pages left, and the row cursor is within a block that decoded.
DataSetInv ==
    /\ pages \in Seq(Seq(Blocks)) /\ pending \in Seq(Blocks)
    /\ current \in Blocks \cup {NoBlock} /\ rowIndex \in Nat
    /\ current # NoBlock => rowIndex <= current.n /\ current.kind # "corrupt"
    /\ moreData = (pages # <<>>) /\ closed \in BOOLEAN /\ running \in BOOLEAN
    /\ running => ~closed
    /\ out \in Seq([id : BlockIds, row : Nat])
    /\ ClosedOnce

-----------------------------------------------------------------------------
(* refinement *)

RowsFrom(block, first) ==
    [i \in 1..(block.n - first) |-> [id |-> block.id, row |-> first + i - 1, ok |-> block.kind = "good"]]
Items(block) ==
    IF block.kind = "corrupt" THEN <<[id |-> block.id, row |-> 0, ok |-> FALSE]>> ELSE RowsFrom(block, 0)
ItemsOf(blocks) == FlattenSeq([b \in DOMAIN blocks |-> Items(blocks[b])])

\* What the reader has still to be told.
Todo ==
    IF closed THEN <<>>
    ELSE (IF current = NoBlock THEN <<>> ELSE RowsFrom(current, rowIndex))
           \o ItemsOf(pending) \o ItemsOf(FlattenSeq(pages))

IsGood(item) == item.ok
OutRows == [i \in DOMAIN out |-> [id |-> out[i].id, row |-> out[i].row, ok |-> TRUE]]

Abstract == INSTANCE ResultStream WITH IsRow <- IsGood, todo <- Todo, out <- OutRows

\* Reading a result set is reading its answer: no row is lost, repeated or
\* reordered by block and page boundaries, empty pages or failed fetches; a
\* block is skipped only with an error; the end means that nothing is left.
ReadsTheAnswer == Abstract!Spec
=============================================================================
