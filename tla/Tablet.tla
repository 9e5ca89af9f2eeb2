------------------------------- MODULE Tablet -------------------------------
(***************************************************************************)
(* Tablets: the column-major batch of src/data/tablet.rs as a caller       *)
(* builds, rebases and serialises it, and the inserts that send it         *)
(* (insert_tablet, insert_tablets of src/client/session.rs and             *)
(* TableSession::insert).  A value buffer is the cells, column by column,  *)
(* then per column a flag byte and, if it is set, the null bitmap.  A cell *)
(* is one token; a byte of the second part is the set of its one bits.     *)
(*                                                                         *)
(* The server is external: it reads the buffers with rows/8 + 1 bytes per  *)
(* bitmap, least significant bit first, expects ascending times, and lets  *)
(* the last row of a time win.                                             *)
(***************************************************************************)
EXTENDS WriteOrder, SequencesExt

CONSTANTS
    Types,          \* the columns' types
    NotInsertable,  \* Vector and Unknown
    Timestamps,
    CallerCells,    \* what callers put in a row: NoCell, NullValue, [type, data]
    NoCell,         \* None
    NullValue,      \* Some(Value::Null)
    Placeholder,    \* the sentinel written for a null cell
    Models,         \* kinds of tablets: "tree", "table"
    MaxTabletRows,  \* bound: rows of a tablet
    LongRows,       \* bound: pairs of a time and a row that longer tablets are made of
    MaxLong,        \* bound: rows of a longer tablet
    MaxBatch,       \* bound: tablets per insert_tablets
    MaxBatchRows,   \* bound: rows of each of them
    None            \* nothing received

ASSUME TabletAssumption ==
    /\ Types \in Seq(STRING) /\ Timestamps \subseteq Int /\ Models \subseteq {"tree", "table"}
    /\ MaxTabletRows \in Nat /\ MaxLong \in Nat /\ MaxBatch \in Nat /\ MaxBatchRows \in Nat

Columns == DOMAIN Types
Cell(c) == {NoCell} \cup {v \in CallerCells \ {NoCell, NullValue} : v.type = Types[c]}

VARIABLES
    tablet,     \* model, timestamps, values[column][row]
    tablets,    \* clones collected for insert_tablets
    sent,       \* the tablets of the last insert
    received,   \* what the server made of it
    returned    \* of the last call: "ok", "client_error", "panic"

tabletVars == <<tablet, tablets, sent, received, returned>>

\* Tablet::new, new_aligned and new_table: no rows, as many columns as types.
Empty(model) == [model |-> model, timestamps |-> <<>>, values |-> [c \in Columns |-> <<>>]]

TabletInit ==
    /\ \E m \in Models : tablet = Empty(m)
    /\ tablets = <<>> /\ sent = <<>> /\ received = None /\ returned = "ok"

Quiet == sent' = <<>> /\ received' = None

RowCount(t) == Len(t.timestamps)
RowAt(t, i) == <<t.timestamps[i], [c \in Columns |-> t.values[c][i]]>>

\* The bounds: any rows in a short tablet, rows of LongRows in a longer one,
\* MaxBatchRows rows in a tablet of several.
Room(t, row) ==
    \/ RowCount(tablet) < (IF tablets = <<>> THEN MaxTabletRows ELSE MaxBatchRows)
    \/ /\ tablets = <<>> /\ RowCount(tablet) < MaxLong /\ <<t, row>> \in LongRows
       /\ \A i \in 1..RowCount(tablet) : RowAt(tablet, i) \in LongRows

-----------------------------------------------------------------------------
(* building *)

\* A cell fits if it is null or has the column's type.
Fits(c, cell) == cell \notin {NoCell, NullValue} => cell.type = Types[c]

\* Mutant: the timestamp is pushed before the cells are checked.
AddRowEarly(t, row) ==
    /\ Room(t, row)
    /\ \/ /\ Len(row) = Len(Types) /\ \A c \in Columns : Fits(c, row[c])
          /\ tablet' = [tablet EXCEPT !.timestamps = Append(@, t),
                          !.values = [c \in Columns |->
                             Append(@[c], IF row[c] = NullValue THEN NoCell ELSE row[c])]]
          /\ returned' = "ok"
       \/ /\ Len(row) # Len(Types) \/ \E c \in DOMAIN row \cap Columns : ~Fits(c, row[c])
          /\ tablet' = [tablet EXCEPT !.timestamps = Append(@, t)]
          /\ returned' = "client_error"
    /\ Quiet
    /\ UNCHANGED tablets

\* add_row: all checks come before the first push, and Some(Null) becomes None.
AddRow(t, row) ==
    /\ Room(t, row)
    /\ \/ /\ Len(row) = Len(Types) /\ \A c \in Columns : Fits(c, row[c])
          /\ tablet' = [tablet EXCEPT !.timestamps = Append(@, t),
                          !.values = [c \in Columns |->
                             Append(@[c], IF row[c] = NullValue THEN NoCell ELSE row[c])]]
          /\ returned' = "ok"
       \/ /\ Len(row) # Len(Types) \/ \E c \in DOMAIN row \cap Columns : ~Fits(c, row[c])
          /\ returned' = "client_error"
          /\ UNCHANGED tablet
    /\ Quiet
    /\ UNCHANGED tablets

\* timestamps_mut: a reused tablet gets new times, in any order.
Rebase(i, t) ==
    /\ i \in 1..RowCount(tablet) /\ RowCount(tablet) <= MaxTabletRows
    /\ tablet' = [tablet EXCEPT !.timestamps[i] = t]
    /\ returned' = "ok" /\ Quiet
    /\ UNCHANGED tablets

\* The caller puts a clone aside and starts a new tablet.
Collect(model) ==
    /\ Len(tablets) < MaxBatch /\ RowCount(tablet) <= MaxBatchRows
    /\ tablets' = Append(tablets, tablet) /\ tablet' = Empty(model)
    /\ returned' = "ok" /\ Quiet

-----------------------------------------------------------------------------
(* serialisation *)

\* Mutant: the first column is left where it was.
SortedFirstColumn(t) ==
    LET order == StableOrder(t.timestamps)
    IN  [t EXCEPT !.timestamps = Reordered(@, order),
                  !.values = [c \in Columns |-> IF c = 1 THEN @[c] ELSE Reordered(@[c], order)]]

\* sort_by_timestamp: one stable order for the times and every column.
Sorted(t) ==
    LET order == StableOrder(t.timestamps)
    IN  [t EXCEPT !.timestamps = Reordered(@, order),
                  !.values = [c \in Columns |-> Reordered(@[c], order)]]

\* pack_bits_lsb_first: bit i in byte i >> 3, as 1 << (i & 7).
PackBitsLsbFirst(bits) ==
    [b \in 1..((Len(bits) + 7) \div 8) |->
        {k \in 0..7 : 8 * (b - 1) + k < Len(bits) /\ bits[8 * (b - 1) + k + 1]}]

\* Mutant: as many bytes as the bits need.
NullEntryUnpadded(cells) ==
    LET nulls == [i \in DOMAIN cells |-> cells[i] = NoCell]
    IN  IF TRUE \in Range(nulls) THEN <<{0}>> \o PackBitsLsbFirst(nulls) ELSE <<{}>>

\* A column's flag and bitmap, resized to rows/8 + 1 bytes.
NullEntry(cells) ==
    LET nulls == [i \in DOMAIN cells |-> cells[i] = NoCell]
        bitmap == PackBitsLsbFirst(nulls)
    IN  IF TRUE \in Range(nulls)
        THEN <<{0}>> \o [b \in 1..(Len(cells) \div 8 + 1) |->
                            IF b \in DOMAIN bitmap THEN bitmap[b] ELSE {}]
        ELSE <<{}>>

\* write_cell: a value, or a placeholder of the column's type.
WriteCell(type, cell) == IF cell = NoCell THEN Placeholder ELSE cell

\* No arm of write_cell writes a null cell of a type that has no placeholder.
Panics(t) == \E c \in Columns : Types[c] \in NotInsertable /\ NoCell \in Range(t.values[c])

\* The buffers of insertTablet for one tablet.
Serialized(t) ==
    LET s == Sorted(t)
    IN  [model |-> t.model, size |-> RowCount(t), timestamps |-> s.timestamps,
         cells |-> FlattenSeq([c \in Columns |->
                      [i \in DOMAIN s.values[c] |-> WriteCell(Types[c], s.values[c][i])]]),
         nulls |-> FlattenSeq([c \in Columns |-> NullEntry(s.values[c])])]

\* serialize_values, called by the owner of the tablet: sorts it in place.
Serialize ==
    /\ tablet' = Sorted(tablet)
    /\ returned' = IF Panics(tablet) THEN "panic" ELSE "ok"
    /\ Quiet
    /\ UNCHANGED tablets

\* serialize_timestamps sorts in place as well.
SerializeTimestamps ==
    /\ tablet' = Sorted(tablet)
    /\ returned' = "ok" /\ Quiet
    /\ UNCHANGED tablets

-----------------------------------------------------------------------------
(* the server *)

Flagged(r, p) == p \in DOMAIN r.nulls /\ r.nulls[p] # {}

\* Where the null entry of each column begins, and where the last one ends.
Starts(r) ==
    LET f[c \in 1..(Len(Types) + 1)] ==
          IF c = 1 THEN 1
          ELSE f[c - 1] + 1 + (IF Flagged(r, f[c - 1]) THEN r.size \div 8 + 1 ELSE 0)
    IN  f

Decodable(r) ==
    /\ Starts(r)[Len(Types) + 1] = Len(r.nulls) + 1
    /\ Len(r.cells) = Len(Types) * r.size /\ Len(r.timestamps) = r.size
    /\ \A i, j \in 1..r.size : i < j => r.timestamps[i] <= r.timestamps[j]

\* The writes of request number k of several: what no bitmap masks.
Decoded(k, r) ==
    LET starts == Starts(r)
        Masked(c, i) == /\ Flagged(r, starts[c])
                        /\ (i - 1) % 8 \in r.nulls[starts[c] + 1 + (i - 1) \div 8]
    IN  FlattenSeq([i \in 1..r.size |->
            FlattenSeq([c \in Columns |->
                IF Masked(c, i) THEN <<>>
                ELSE <<[key |-> <<k, r.model, r.timestamps[i], c>>,
                        val |-> r.cells[(c - 1) * r.size + i]]>>])])

Inserted(rs) ==
    IF \A k \in DOMAIN rs : Decodable(rs[k])
    THEN LastWrite(FlattenSeq([k \in DOMAIN rs |-> Decoded(k, rs[k])]))
    ELSE None

-----------------------------------------------------------------------------
(* inserting *)

Send(ts, rs) ==
    /\ sent' = ts
    /\ \/ /\ \E k \in DOMAIN ts : Panics(ts[k])
          /\ returned' = "panic" /\ received' = None
       \/ /\ \A k \in DOMAIN ts : ~Panics(ts[k])
          /\ returned' = "ok" /\ received' = Inserted(rs)
    /\ UNCHANGED <<tablet, tablets>>

\* insert_tablet sends a sorted clone; the caller's tablet stays as it is.
InsertTablet == Send(<<tablet>>, <<Serialized(tablet)>>)

\* TableSession::insert takes table-model tablets only.
TableInsert ==
    \/ /\ tablet.model = "table"
       /\ InsertTablet
    \/ /\ tablet.model # "table"
       /\ returned' = "client_error" /\ Quiet
       /\ UNCHANGED <<tablet, tablets>>

\* The request of insert_tablets has no writeToTable field: all trees.
TreeRequest(t) == [Serialized(t) EXCEPT !.model = "tree"]

\* insert_tablets rejects an empty list and one with a table-model tablet.
InsertTablets ==
    \/ /\ tablets # <<>> /\ \A k \in DOMAIN tablets : tablets[k].model = "tree"
       /\ Send(tablets, [k \in DOMAIN tablets |-> TreeRequest(tablets[k])])
    \/ /\ tablets = <<>> \/ \E k \in DOMAIN tablets : tablets[k].model = "table"
       /\ returned' = "client_error" /\ Quiet
       /\ UNCHANGED <<tablet, tablets>>

\* Rows of the right length, and one that is too long.
CallerRows == [Columns -> CallerCells] \cup {[c \in 1..(Len(Types) + 1) |-> NoCell]}

TabletNext ==
    \/ \E t \in Timestamps, row \in CallerRows : AddRow(t, row)
    \/ \E i \in 1..MaxTabletRows, t \in Timestamps : Rebase(i, t)
    \/ \E m \in Models : Collect(m)
    \/ Serialize \/ SerializeTimestamps \/ InsertTablet \/ TableInsert \/ InsertTablets

TabletSpec == TabletInit /\ [][TabletNext]_tabletVars

-----------------------------------------------------------------------------
\* The rows a tablet stands for, in the order its owner sees, as writes.
Meaning(k, t) ==
    FlattenSeq([i \in 1..RowCount(t) |->
        FlattenSeq([c \in Columns |->
            IF t.values[c][i] = NoCell THEN <<>>
            ELSE <<[key |-> <<k, t.model, t.timestamps[i], c>>, val |-> t.values[c][i]]>>])])

\* Columns are as long as the tablet, debug_assert!ed by serialize_values, and
\* hold only None and values of their type.
TypeOK ==
    /\ tablet.model \in Models
    /\ \A i \in DOMAIN tablet.timestamps : tablet.timestamps[i] \in Timestamps
    /\ \A c \in Columns :
         /\ DOMAIN tablet.values[c] = DOMAIN tablet.timestamps
         /\ Range(tablet.values[c]) \subseteq Cell(c)
    /\ Len(tablets) <= MaxBatch /\ Len(sent) <= MaxBatch + 1
    /\ returned \in {"ok", "client_error", "panic"}

\* What the server stores is what the caller's rows mean in the caller's order:
\* nulls write nothing, the later row for a time wins, at every row count.
ReceivedAsBuilt ==
    sent # <<>> /\ returned = "ok" =>
        received = LastWrite(FlattenSeq([k \in DOMAIN sent |-> Meaning(k, sent[k])]))

\* Serialising in place reorders rows without changing what the tablet means.
SortKeepsMeaning ==
    [][Serialize \/ SerializeTimestamps =>
         /\ LastWrite(Meaning(1, tablet)') = LastWrite(Meaning(1, tablet))
         /\ \A i, j \in DOMAIN tablet'.timestamps :
              i < j => tablet'.timestamps[i] <= tablet'.timestamps[j]]_tabletVars

\* The inductive invariant: every tablet has columns of its length and of their
\* types, and what was received is what the server read in the last request.
Tablets ==
    {t \in [model : Models, timestamps : Seq(Timestamps), values : [Columns -> Seq({NoCell} \cup CallerCells)]] :
        \A c \in Columns : Len(t.values[c]) = Len(t.timestamps) /\ Range(t.values[c]) \subseteq Cell(c)}
TabletInv ==
    /\ tablet \in Tablets /\ tablets \in Seq(Tablets) /\ sent \in Seq(Tablets)
    /\ Len(tablets) <= MaxBatch /\ Len(sent) <= MaxBatch + 1
    /\ returned \in {"ok", "client_error", "panic"}
    /\ sent # <<>> /\ returned = "ok" =>
         received = Inserted([k \in DOMAIN sent |-> Serialized(sent[k])])

\* The catch-all arm of write_cell is not reached: "add_row validates cell
\* types; Vector/Unknown are not insertable".
NeverPanics == returned # "panic"
=============================================================================
