------------------------------ MODULE MCRecords ------------------------------
EXTENDS Records, TLC

V(d) == [type |-> "INT32", data |-> d]

\* Rows with one value, with a null cell among others, with nothing but nulls,
\* and with too few values.
MCCells == {<<<<"a">>, <<V("1")>>>>, <<<<"a">>, <<V("2")>>>>, <<<<"b", "a">>, <<Null, V("3")>>>>,
            <<<<"a">>, <<Null>>>>, <<<<"a", "b">>, <<V("4")>>>>}
MCLeader == [d \in Devices |-> "n"]
Symmetry == Permutations(Devices)
=============================================================================
