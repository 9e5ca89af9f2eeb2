------------------------------ MODULE MCTablet ------------------------------
EXTENDS Tablet

Int32(d) == [type |-> "INT32", data |-> d]
Text(d) == [type |-> "TEXT", data |-> d]
MCTwoTypes == <<"INT32", "TEXT">>
MCWithVector == <<"INT32", "VECTOR">>
MCCells == {NoCell, NullValue, Int32("1"), Int32("2"), Text("1")}

\* Long tablets: one time, the first column null or not, the second null.
MCLongRows == {<<1, <<NoCell, NoCell>>>>, <<1, <<Int32("1"), NoCell>>>>}
=============================================================================
