----------------------------- MODULE ResultStream -----------------------------
(***************************************************************************)
(* What a result set promises its reader: the rows of the answer, each     *)
(* once and in order.  What cannot be read is reported where it stands in  *)
(* the answer, and the end is reported only when nothing is left.          *)
(***************************************************************************)
EXTENDS Sequences

CONSTANT IsRow(_)   \* which items of an answer are rows; the others are blocks that cannot be read

VARIABLES
    todo,   \* the items not read yet
    out,    \* the rows read
    said    \* what the last next_row returned

Init == out = <<>> /\ said = "nothing"

Deliver ==
    /\ todo # <<>> /\ IsRow(Head(todo))
    /\ out' = Append(out, Head(todo)) /\ todo' = Tail(todo) /\ said' = "row"

\* An error skips what cannot be read, and nothing else.
Report ==
    /\ \/ todo' = todo
       \/ todo # <<>> /\ ~IsRow(Head(todo)) /\ todo' = Tail(todo)
    /\ said' = "error" /\ UNCHANGED out

End == todo = <<>> /\ said' = "end" /\ UNCHANGED <<todo, out>>

Abandon == todo' = <<>> /\ UNCHANGED <<out, said>>

Next == Deliver \/ Report \/ End \/ Abandon
Spec == Init /\ [][Next]_<<todo, out, said>>
=============================================================================
