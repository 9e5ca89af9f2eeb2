------------------------------- MODULE Records -------------------------------
(***************************************************************************)
(* The record inserts of src/client/session.rs: insert_record,             *)
(* insert_records and insert_records_of_one_device, from the caller's      *)
(* parallel lists to the request (arity checks, null filtering, sorting,   *)
(* row buffers of src/data/record.rs), and from the server's status back   *)
(* to the caller's result and the redirect hints.  The aligned variants    *)
(* only set a flag of the same request.                                    *)
(*                                                                         *)
(* The server is external: it stores the rows it can, in the order of the  *)
(* request, and answers with one sub-status per row, possibly nested, when *)
(* one failed.  A call may end in a transport error, its rows stored or    *)
(* not; with_retry then sends the same rows once more or gives up.         *)
(***************************************************************************)
EXTENDS WriteOrder, SequencesExt

CONSTANTS
    Devices, Times,
    Cells,          \* rows a caller passes: pairs of a measurement list and a value list
    Null,           \* Value::Null; the others are records [type, data]
    MaxRows,        \* bound: rows per batch
    Leader,         \* the node a server recommends for a device
    NoNode, NoSubs  \* no redirectNode, no subStatus in a status

\* What a cell holds that is not null, and the statuses of rows; the codes are
\* 200, 400, 302, and any other one.
Values == [type : STRING \ {"TYPE_NULL"}, data : STRING]
Codes == {"SUCCESS", "REDIRECT", "MULTIPLE_ERROR", "FAIL"}
PlainStatuses == [code : Codes, node : {NoNode}, subs : {NoSubs}]
NestedStatuses == [code : Codes, node : {NoNode}, subs : Seq(PlainStatuses)]

ASSUME RecordsAssumption ==
    /\ Times \subseteq Int /\ MaxRows \in Nat /\ Leader \in [Devices -> STRING]
    /\ \A c \in Cells : c[1] \in Seq(STRING) /\ c[2] \in Seq({Null} \cup Values)
    /\ Null \notin Values /\ NoSubs \notin Seq(PlainStatuses \cup NestedStatuses)

VARIABLES
    pc,         \* "Build", "Send", "Reply" or "Done"
    kind,       \* which insert is called
    batch,      \* the caller's parallel lists
    req,        \* the request's parallel lists
    log,        \* writes the server performed, in order
    failed,     \* rows of the request it did not store, in the answered attempt
    resent,     \* with_retry has sent the request a second time
    status,     \* the TSStatus answered
    hints,      \* devices and nodes handed to the redirect cache
    outcome     \* what the call returned

vars == <<pc, kind, batch, req, log, failed, resent, status, hints, outcome>>

NoRows == [devs |-> <<>>, tss |-> <<>>, mss |-> <<>>, vss |-> <<>>]
NoReq == [devs |-> <<>>, tss |-> <<>>, mss |-> <<>>, bufs |-> <<>>]

Status(code, node, subs) == [code |-> code, node |-> node, subs |-> subs]
NoStatus == Status("NONE", NoNode, NoSubs)

Init ==
    /\ pc = "Build" /\ kind \in {"record", "records", "one_device"}
    /\ batch = NoRows /\ req = NoReq /\ log = <<>> /\ failed = {} /\ resent = FALSE
    /\ status = NoStatus /\ hints = {} /\ outcome = "none"

-----------------------------------------------------------------------------
(* the caller *)

\* Only insert_records names a device per row; insert_record takes one row.
AddRecord(d, t, c) ==
    /\ pc = "Build" /\ Len(batch.devs) < (IF kind = "record" THEN 1 ELSE MaxRows)
    /\ kind = "records" \/ \A x \in Range(batch.devs) : x = d
    /\ batch' = [devs |-> Append(batch.devs, d), tss |-> Append(batch.tss, t),
                 mss |-> Append(batch.mss, c[1]), vss |-> Append(batch.vss, c[2])]
    /\ UNCHANGED <<pc, kind, req, log, failed, resent, status, hints, outcome>>

Lists == CASE kind = "record" -> {} [] kind = "records" -> {"devs", "tss", "mss", "vss"}
           [] OTHER -> {"tss", "mss", "vss"}

\* A caller whose lists differ in length makes no more rows.
Ragged(l) ==
    /\ pc = "Build" /\ l \in Lists /\ batch.devs # <<>>
    /\ \A x \in Lists : Len(batch[x]) = Len(batch.devs)
    /\ batch' = [batch EXCEPT ![l] = Front(@)]
    /\ pc' = "Call"
    /\ UNCHANGED <<kind, req, log, failed, resent, status, hints, outcome>>

-----------------------------------------------------------------------------
(* the request *)

NonNull(vs) == InOrder({i \in DOMAIN vs : vs[i] # Null})

\* Mutant: nulls are dropped from the values only.
FilterNullCellsShifted(ms, vs) ==
    [ms |-> SubSeq(ms, 1, Len(NonNull(vs))), vs |-> Reordered(vs, NonNull(vs))]

\* Mutant: null cells are sent.
FilterNullCellsNone(ms, vs) ==
    IF NonNull(vs) = <<>> THEN [ms |-> <<>>, vs |-> <<>>] ELSE [ms |-> ms, vs |-> vs]

\* filter_null_cells: a null cell goes with its measurement.
FilterNullCells(ms, vs) == [ms |-> Reordered(ms, NonNull(vs)), vs |-> Reordered(vs, NonNull(vs))]

\* serialize_record_values: marker and payload per cell, a bare marker for a null.
SerializeRecordValues(vs) ==
    FlattenSeq([i \in DOMAIN vs |->
        IF vs[i] = Null THEN <<"TYPE_NULL">> ELSE <<vs[i].type, vs[i].data>>])

LengthMismatch == \E l, k \in Lists : Len(batch[l]) # Len(batch[k])
ArityMismatch == \E i \in DOMAIN batch.mss \cap DOMAIN batch.vss : Len(batch.mss[i]) # Len(batch.vss[i])

\* The rows with a value left, in the caller's order.
KeptRows ==
    InOrder({i \in DOMAIN batch.mss \cap DOMAIN batch.vss :
               FilterNullCells(batch.mss[i], batch.vss[i]).vs # <<>>})

\* Mutant: rows with equal times are reversed.
RowOrderReversed(kept) ==
    IF kind = "one_device"
    THEN LET n == Len(kept)
             order == StableOrder([i \in 1..n |-> batch.tss[kept[n + 1 - i]]])
         IN  [p \in 1..n |-> kept[n + 1 - order[p]]]
    ELSE kept

\* sort_one_device_rows, by stable order; the other calls keep the caller's.
RowOrder(kept) ==
    IF kind = "one_device" THEN Reordered(kept, StableOrder(Reordered(batch.tss, kept))) ELSE kept

Request(kept) ==
    LET rows == RowOrder(kept)
        Row(i) == FilterNullCells(batch.mss[i], batch.vss[i])
    IN  [devs |-> Reordered(batch.devs, rows), tss |-> Reordered(batch.tss, rows),
         mss |-> [p \in DOMAIN rows |-> Row(rows[p]).ms],
         bufs |-> [p \in DOMAIN rows |-> SerializeRecordValues(Row(rows[p]).vs)]]

\* The call up to its RPC.  A bad row anywhere, or no value at all, and
\* nothing is sent.
Call ==
    /\ pc \in {"Build", "Call"} /\ (kind = "record" => Len(batch.devs) = 1)
    /\ \/ /\ LengthMismatch \/ ArityMismatch \/ KeptRows = <<>>
          /\ pc' = "Done" /\ outcome' = "client_error"
          /\ UNCHANGED req
       \/ /\ ~LengthMismatch
          /\ ~ArityMismatch
          /\ KeptRows # <<>>
          /\ pc' = "Send" /\ req' = Request(KeptRows)
          /\ UNCHANGED outcome
    /\ UNCHANGED <<kind, batch, log, failed, resent, status, hints>>

-----------------------------------------------------------------------------
(* the server *)

Rows == DOMAIN req.devs

\* A row buffer holds a marker and a payload per measurement, none of them null.
Readable(i) ==
    /\ Len(req.bufs[i]) = 2 * Len(req.mss[i])
    /\ \A j \in DOMAIN req.mss[i] : req.bufs[i][2 * j - 1] # "TYPE_NULL"

Writes(i) ==
    [j \in DOMAIN req.mss[i] |->
        [key |-> <<req.devs[i], req.tss[i], req.mss[i][j]>>,
         val |-> [type |-> req.bufs[i][2 * j - 1], data |-> req.bufs[i][2 * j]]]]

Ascending(ts) == \A i, j \in DOMAIN ts : i < j => ts[i] <= ts[j]

\* Rows that cannot be stored: unreadable ones, all of an unsorted one-device
\* batch, and any the server rejects for reasons of its own.
Failures ==
    IF kind = "one_device" /\ ~Ascending(req.tss) THEN {Rows}
    ELSE {F \in SUBSET Rows : {i \in Rows : ~Readable(i)} \subseteq F}

\* The writes of all rows but those of F.
Attempt(F) == FlattenSeq([i \in Rows |-> IF i \in F THEN <<>> ELSE Writes(i)])
Store(F) == log' = log \o Attempt(F)

RowStatus(i, F) == Status(IF i \in F THEN "FAIL" ELSE "SUCCESS", NoNode, NoSubs)

\* Answers that go with a failed set: redirections when all is well (per row for
\* insert_records, else for the one device), sub-statuses, flat or nested, or
\* one failure code.
Answers(F) ==
    IF F = {}
    THEN {Status("SUCCESS", NoNode, NoSubs)} \cup
         (IF kind = "records"
          THEN {Status("REDIRECT", NoNode,
                       [i \in Rows |-> Status("REDIRECT", IF i \in R THEN Leader[req.devs[i]] ELSE NoNode, NoSubs)])
                  : R \in SUBSET Rows}
          ELSE {Status("REDIRECT", Leader[req.devs[1]], NoSubs)})
    ELSE {Status("MULTIPLE_ERROR", NoNode, [i \in Rows |-> RowStatus(i, F)]),
          Status("MULTIPLE_ERROR", NoNode,
                 [i \in Rows |-> Status("MULTIPLE_ERROR", NoNode, <<RowStatus(i, F)>>)])}
         \cup (IF F = Rows THEN {Status("FAIL", NoNode, NoSubs)} ELSE {})

\* The op fails at transport level: the request never arrived, or it was
\* executed and its reply lost.
TransportFails == UNCHANGED log \/ \E F \in Failures : Store(F)

\* with_retry reconnects and runs the op once more.
Resend ==
    /\ pc = "Send" /\ ~resent
    /\ TransportFails
    /\ resent' = TRUE
    /\ UNCHANGED <<pc, kind, batch, req, failed, status, hints, outcome>>

\* with_retry returns the transport error: of the first op if it may not or
\* cannot reconnect, or of the second.
GiveUp ==
    /\ pc = "Send"
    /\ TransportFails
    /\ pc' = "Done" /\ outcome' = "transport_error"
    /\ UNCHANGED <<kind, batch, req, failed, resent, status, hints>>

\* connection_mut refuses: the session is not open, and nothing is retried.
NotOpen ==
    /\ pc = "Send" /\ ~resent
    /\ pc' = "Done" /\ outcome' = "client_error"
    /\ UNCHANGED <<kind, batch, req, log, failed, resent, status, hints>>

\* The op is answered.
Execute ==
    /\ pc = "Send"
    /\ \E F \in Failures :
         /\ Store(F) /\ failed' = F
         /\ status' \in Answers(F)
    /\ pc' = "Reply"
    /\ UNCHANGED <<kind, batch, req, resent, hints, outcome>>

-----------------------------------------------------------------------------
(* the answer *)

\* Mutant: a redirection is an error.
CheckStatusStrict(s) == s.code = "SUCCESS"

\* The statuses check_status goes on to from those of S, and all it comes to
\* from s: only a 302 is descended into, and answers nest twice.
SubStatuses(S) ==
    UNION {Range(s.subs) : s \in {t \in S : t.code = "MULTIPLE_ERROR" /\ t.subs # NoSubs}}
Visited(s) == {s} \cup SubStatuses({s}) \cup SubStatuses(SubStatuses({s}))

\* check_status: success, a redirection, or a 302 all of whose parts succeed.
CheckStatus(s) == \A t \in Visited(s) : t.code \in {"SUCCESS", "REDIRECT", "MULTIPLE_ERROR"}

\* Mutant: hints are paired with the devices the caller named.
HintDevicesGiven == IF kind = "records" THEN batch.devs ELSE <<batch.devs[1]>>

\* The devices check_insert_status pairs with the sub-statuses: those sent.
HintDevices == IF kind = "records" THEN req.devs ELSE <<req.devs[1]>>

\* The puts of record_redirects (see RedirectCache).
Recommended(devs) ==
    LET Node(i) == IF status.subs # NoSubs /\ Len(status.subs) = Len(devs)
                   THEN status.subs[i].node ELSE status.node
    IN  {<<devs[i], Node(i)>> : i \in {k \in DOMAIN devs : Node(k) # NoNode}}

Answer ==
    /\ pc = "Reply"
    /\ hints' = Recommended(HintDevices)
    /\ outcome' = IF CheckStatus(status) THEN "ok" ELSE "server_error"
    /\ pc' = "Done"
    /\ UNCHANGED <<kind, batch, req, log, failed, resent, status>>

Next ==
    \/ \E d \in Devices, t \in Times, c \in Cells : AddRecord(d, t, c)
    \/ \E l \in Lists : Ragged(l)
    \/ Call \/ Resend \/ GiveUp \/ NotOpen \/ Execute \/ Answer

Spec == Init /\ [][Next]_vars

-----------------------------------------------------------------------------
\* The caller's values, row by row in the caller's order.
GivenRow(i) ==
    LET kept == NonNull(batch.vss[i])
    IN  [j \in DOMAIN kept |-> [key |-> <<batch.devs[i], batch.tss[i], batch.mss[i][kept[j]]>>,
                               val |-> batch.vss[i][kept[j]]]]
Given == FlattenSeq([i \in DOMAIN batch.vss |-> GivenRow(i)])

\* The caller's lists pair up: one entry per row in each, one value per measurement.
Paired ==
    /\ \A l, k \in Lists : Len(batch[l]) = Len(batch[k])
    /\ \A i \in DOMAIN batch.mss : Len(batch.mss[i]) = Len(batch.vss[i])

\* An insert that returned Ok was given lists that pair up, so that zip cut
\* nothing off, and left every value the caller passed where the caller put it,
\* the later of two rows for the same time winning, whatever was filtered,
\* reordered or sent twice; and no other value.
StoredAsGiven == outcome = "ok" => Paired /\ LastWrite(log) = LastWrite(Given)

\* Where check_status finds an error, the server refused a row of the attempt it
\* answered: no insert all of whose rows were stored is reported as refused.  (A
\* transport error says nothing: all, some or none of the rows may be stored.)
FailureHonest == outcome = "server_error" => failed # {}

\* What an insert that failed at the server or on the way left there is never
\* in the way: whatever its one or two attempts stored, repeating the call
\* until it succeeds leaves exactly the values given.
FailureRepairable ==
    outcome \in {"server_error", "transport_error"} =>
        LastWrite(log \o Attempt({})) = LastWrite(Given)

\* The server can read what it is sent: no null cells, no row without values,
\* and the rows of one device by ascending time.
ServerReadable ==
    pc = "Send" =>
        /\ \A i \in Rows : Readable(i) /\ req.mss[i] # <<>>
        /\ kind = "one_device" => Ascending(req.tss)

\* A hint is recorded for a device exactly if the server recommended a node for
\* a row of that device, although rows were dropped on the way.
HintsExact ==
    pc = "Done" /\ outcome # "client_error" =>
        hints = IF status.subs # NoSubs
                THEN {<<req.devs[i], status.subs[i].node>> :
                        i \in {k \in Rows : status.subs[k].node # NoNode}}
                ELSE IF status.node # NoNode THEN {<<req.devs[1], status.node>>} ELSE {}

\* The inductive invariant: the lists, how far the call has come, and where its
\* request and its writes come from.
ListsInv ==
    batch \in [devs : Seq(Devices), tss : Seq(Times),
               mss : Seq(Seq(STRING)), vss : Seq(Seq({Null} \cup Values))]

SameLengths == /\ Len(batch.tss) = Len(batch.devs) /\ Len(batch.mss) = Len(batch.devs)
               /\ Len(batch.vss) = Len(batch.devs)

\* A request was made of the caller's rows.
Asked == SameLengths /\ ~ArityMismatch /\ KeptRows # <<>> /\ req = Request(KeptRows)

\* What may have been written before the last attempt.
Earlier == {<<>>} \cup {Attempt(F) : F \in SUBSET Rows}
Executed == /\ failed \in SUBSET Rows /\ status \in Answers(failed)
            /\ \E w \in Earlier : log = w \o Attempt(failed)
GivenUp == \E v, w \in Earlier : log = v \o w

CallInv ==
    /\ pc = "Build" => SameLengths
    /\ pc = "Call" => LengthMismatch
    /\ pc \in {"Build", "Call"} => log = <<>> /\ outcome = "none" /\ ~resent
    /\ pc = "Send" => Asked /\ log \in Earlier /\ (~resent => log = <<>>) /\ outcome = "none"
    /\ pc \in {"Build", "Call", "Send"} => status = NoStatus /\ hints = {}
    /\ pc = "Reply" => Asked /\ Executed /\ outcome = "none"
    /\ pc = "Done" =>
         \/ outcome = "client_error" /\ log = <<>>
         \/ Asked /\ GivenUp /\ outcome = "transport_error" /\ status = NoStatus /\ hints = {}
         \/ /\ Asked /\ Executed /\ hints = Recommended(HintDevices)
            /\ outcome = IF CheckStatus(status) THEN "ok" ELSE "server_error"

RecordsInv ==
    /\ pc \in {"Build", "Call", "Send", "Reply", "Done"} /\ kind \in {"record", "records", "one_device"}
    /\ ListsInv /\ CallInv
=============================================================================
