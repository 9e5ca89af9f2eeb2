# A TLA+ model of the Apache IoTDB Rust client

This directory specifies the client library in `src/` (crate `iotdb-client`): the
session pool, the session with its reconnects, the redirect cache, the result-set
cursor, the preparation and decoding of the data that travels, and the RPC layer
under all of it: connections, calls and the messages of the service. Source paths
below are relative to the crate's `src/src`. `PROJECT.json` maps every definition
to the lines it models.

## 1. Inventory

| Component | Source | State | Operations that change it |
|---|---|---|---|
| Session pool | `client/pool.rs` | idle queue, `closed`, `last_sweep` under a mutex; a condition variable; the atomic `live`; the pool's database under a mutex of its own | `new`, `acquire`, `acquire_for_device`, `sweep_idle`, `open_session`, `hand_out`, `release`, `close` |
| Session | `client/session.rs` | connection, session and statement id, database, last endpoint | `open`, `authenticate`, `reconnect`, `with_retry`, statements, queries, `fetch_results`, `close_query`, `close` |
| Redirect cache | `client/redirect.rs` | bounded map from devices to endpoints, insertion counter, stamps | `put`, `get`, `clear`, `record_redirects` |
| Result set | `client/dataset.rs` | buffered blocks, current block, row index, `more_data`, `closed` | `next_row`, `close`, drop |
| Record inserts, statuses | `client/session.rs`, `data/record.rs` | none between calls | `insert_record`, `insert_records`, `insert_records_of_one_device`, `check_status`, `check_insert_status` |
| Tablets | `data/tablet.rs`, `data/bitmap.rs`, `client/session.rs` | times and columns of a tablet | `add_row`, `timestamps_mut`, `serialize_values`, `serialize_timestamps`, `insert_tablet(s)` |
| Result decoding | `data/tsblock.rs`, `data/bitmap.rs` | a reader's position | `TsBlock::decode` |
| Table session | `client/table_session.rs` | a session | `insert`; the rest delegates |
| Connection | `connection/mod.rs` | a TCP or TLS stream, framed | `open` |
| Values, types, errors | `data/value.rs`, `data/mod.rs`, `error.rs` | none | conversions |
| Thrift stubs | `protocol/` | the sequence number; what of a frame is unread | the 69 methods of the client, their process functions, a reader and a writer per struct (generated) |

How they interact. The pool owns sessions: a session is in the idle queue, inside
a guard, or local to one call of the pool, and moves between threads only through
the pool. A session owns its redirect cache, which every insert response feeds and
`acquire_for_device` reads. A result set borrows the session that produced it, so
no other statement runs on that session until it is dropped. Inserts turn rows or
tablets into requests, send them under `with_retry`, and interpret the status.
Every one of them ends in a method of the generated client, which writes one frame
to the session's connection and blocks until it has read one.

What is hard here, and what makes each part correct:

* *Pool*: threads share a counter that is changed partly outside the mutex, while
  time-outs, notifications, failures and `close` race. Correct means: the counter
  is exact and never wraps, capacity holds, sweeps keep `min_size` sessions, dead
  sessions are not parked, nobody is blocked for ever, and a closed pool empties.
  (That a session is neither in two places nor left open is Rust's doing: a `Session`
  is moved, never copied, and its drop closes it.)
* *Session*: any RPC may fail before or after the server executed it, and a
  reconnect changes the identity of the server session. Correct means: ids and
  database always belong to the connection in use, statements run at most twice,
  every endpoint is tried, cursors stay with their server session, calls return.
* *Redirect cache*: bounded, oldest put evicted, hints usable and latest.
* *Result set*: blocks, pages, errors and empty parts in any order; correct means
  that the reader sees the answer, each row once and in order.
* *Inserts and decoding*: bit and byte layouts, sorting, null filtering and
  positional pairing must agree between both sides, and an insert that failed half
  way must be safe to repeat.
* *Calls and messages*: a reply is matched to its call by a number alone, over a
  connection that remembers what an earlier, failed call did not read; and client
  and server may be of different versions. Correct means: a call never returns
  another call's answer, values arrive as they were sent or not at all, calls return.

`PROJECT.json` lists these hazards one by one with the line where each bites and
the properties that would notice it.

## 2. Modules

| Module | What it is |
|---|---|
| `SessionPool` | the pool, one action per step other threads can observe |
| `MCSessionPool`, `MCPoolLiveness`, `MCPoolDatabase` | its instances for TLC: symmetry; bounded calls and fairness; a record of `USE` statements |
| `PoolFloor` | the pool with a count of the sessions it gave up, which its floor is stated with |
| `SessionPoolProofs` | theorems about both |
| `Session` | one session over failing connections (TLC runs it directly) |
| `SessionProofs` | theorems about it |
| `RedirectCache` | the cache and its harvest |
| `HintQueue` | abstract: a bounded queue of hints |
| `RedirectHistory` | the cache with a history of what servers recommended, and its refinement mapping to the queue |
| `MCRedirect`, `RedirectProofs` | its instance; theorems about both |
| `DataSet` | the result set, and its refinement mapping to the next |
| `ResultStream` | abstract: reading an answer |
| `MCDataSet`, `DataSetProofs` | its instance; theorems about it |
| `WriteOrder` | "the last write wins", stable sorting, times in order; shared by the next two |
| `Records`, `MCRecords` | record inserts, the server's status, the caller's result |
| `Tablet`, `MCTablet` | tablets and their inserts |
| `InsertProofs` | the theorems about both |
| `TsBlock`, `MCTsBlock`, `TsBlockProofs` | decoding of result blocks; theorems |
| `SequenceLemmas` | what the proofs need of sequences: flattening, offsets, sorting, and what a sequence of writes leaves behind |
| `Rpc` | a connection and the calls made on it, for any service and any decoder |
| `ThriftStructs` | every struct and enum a method of the service reaches |
| `RpcService` | the 69 methods: their arguments and results |
| `ThriftCodec` | what the generated readers and writers do, for any struct |
| `ThriftRpc` | `Rpc` with the service's methods and the codec: what a call sends and gets |
| `MCRpc`, `RpcProofs` | its instance; theorems about calls, codec and messages |

Operators marked *Mutant* in a comment are variants of the operator that follows,
with a plausible mistake. No specification uses them; they record, for each
property, an error it is known to detect (`mutants` in `PROJECT.json`).

### SessionPool

`pc[t]` is where thread `t` is in the pool's code; `lock`, `waiters`, `idle`,
`closed`, `live`, `poolDb` are the shared state; `sess[t]` and `expired[t]` are the
sessions a thread has in its hands; `status` and `sessDb` are what a `Session`
value answers to `is_open` and `database`.

| Code | Actions |
|---|---|
| `acquire` | `AcquireCall`, `AcquireLock`, (sweep), `TakeIdle`, `CheckCapacity`, `Grow`, `Exhausted`, `Wait`, `Timeout` |
| `acquire_for_device` | `AcquireForDevice`; without a match it is `AcquireCall` |
| `sweep_idle` and its callers' closing | `SweepRemove`, `SweepStop`, `SweepCommit`, `CloseExpired` |
| `open_session`, `hand_out` | `OpenSession`, `OpenOk`, `OpenErr`, `HandOut`, `UseOk`, `UseErr` |
| the client, through its guard | `ClientUse`, `ClientFail` |
| `release` | `ReleaseDead`, `ReleaseDb`, `ReleaseIdle`, `ReleaseClosed`, `ReleaseUncount`, `ReleaseClose`, `Notify` |
| `close`, drop of the pool | `Close`, `CloseUncount`, `CloseDrained`, `NotifyAll` |

A step has at most one access to state that is reachable without the mutex. What
is abstracted: time (how many idle entries have expired is a choice of the step
that starts a sweep; entries are stamped under the mutex as they are pushed, so
they expire as a prefix); the `Relaxed` atomics are sequentially consistent, which
they are for a single location; spurious wake-ups do not happen (one is a timed
wait that ends early and goes back to the loop's top, where it can only see what a
notified thread sees); a thread uses one guard at a time, and `close` is called by
threads that hold none (a caller with several guards is several threads of the
model). Which idle session a redirect hint selects is any open one.

`PoolFloor` adds `lost`, the number of sessions given up because an open, a `USE` at
hand-out or the connection failed, up to `min_size`. The floor of the sweep is a
promise about what sweeps do: those failures shrink the pool below it, and nothing
refills it.

### Session

`link` is the connection with the server session behind it, `connected` says
whether `Session::connection` is `Some`. `Open`, `ConnectOk/Err`,
`HandshakeSession/Err/Statement` and `NextEndpoint` are `open`, `authenticate` and
`reconnect`; `Statement`, `ReplyOk`, `ReplyRefused`, `CallLost`, `CallException` and
`TransportError` are a statement under `with_retry`; `Fetch`, `CloseCursor` and
`Close` are never retried. `visits`, `tries` and `execs` record history: attempts
per endpoint, runs of the closure, executions by servers. `Break` is the network.

Servers are external: a handshake gets a session id this client is not using, and
the database its request names. `USE` is tracked where the code tracks it, in
`execute_non_query`. `QueryHandle`s used without a result set are the caller's
responsibility and are not modelled. The shared `ENDPOINT_START_INDEX` is seen by
one session as an arbitrary start.

### RedirectCache

`Harvest` is `record_redirects` on one response, `Put` one iteration of its loop
with the `put` in it, `Get`, `Clear` and `Tick` the rest. `enable_redirection` is
on: off, neither `Harvest` nor `Get` happens. Ports keep their i32/u16 ranges.

### DataSet

`NextRow` calls, and `Yield`, `Decode`, `FetchOk`, `FetchErr` and `Exhausted` are the
numbered steps of the loop in `next_row`; `Close` is `close` and drop. A block is a
row count and what will happen to it: good, undecodable, or decodable with columns
the column map does not find. An answer is any sequence of pages of any blocks with
these rows (`Blocks`, over the constant `BlockIds`); the run bounds how many there are.
`FetchResults` is the end of `Session::fetch_results`: a response without a result set is
an empty last page, whatever it says of more data (`FetchResponses`, the server).

### Records

`AddRecord` and `Ragged` build a caller's lists, `Call` is the whole way to the
request, `Execute` an attempt that is answered, `Answer` the way back. `with_retry` adds
the ways in which it is not: `Resend` (the transport failed and the reconnect worked),
`GiveUp` (it failed with reconnecting off, or the reconnect or the second attempt
failed) and `NotOpen`. When the transport fails, the server may have stored all,
some or none of the request's rows (`TransportFails`). An attempt is executed before
the next one is made: a request still on its way when the connection fails is lost. A value is a
type and a datum; a row buffer is a sequence of markers and data. Aligned variants
set a flag of the same request. A status of the server nests twice: a batch status
over the statuses of rows, some of which are themselves batches. `CheckStatus` is
`check_status` unfolded to that depth, over the statuses it visits (`Visited`).

### Tablet

`AddRow`, `Rebase` (`timestamps_mut`), `Serialize`, `SerializeTimestamps`,
`InsertTablet`, `InsertTablets`, `TableInsert`; `Collect` is the caller. A cell is
one token; the null section keeps its bytes, as sets of bits, because its length is
what the layout depends on. Constructors get equally many names and types. `Send` is
the building of the request; the retry around it and the status after it are the same
calls as for records and are modelled in `Session` and `Records`.

### TsBlock

`Send` is the server and the network; `ReadHeader`, `ReadTime`, `ReadColumn`,
`Finish` are `decode`. One number takes one place of a buffer whatever its width, so
cuts fall between numbers; bits within bytes are kept. The server's encoding is the
concatenation of parts (`HeaderPart`, and per column `NullPart` and `ValuePart`), so that
what the decoder has read can be compared with a number of whole parts.

### Rpc

`pc` is where the caller's thread is; `seq` is `_sequence_number`; `sent` and `inbox`
are the frames on their way, `gone` counts the ones the network lost, and `rest` says
that the frame the reader last started is not used up, which `TFramedReadTransport`
keeps for the next read. `failed` is history.

| Code | Actions |
|---|---|
| `connect_stream` | `Open` (the lookup), `ConnectAddr` (once per address) |
| the rest of `Connection::open` | `SetUp`: `set_nodelay`, the TLS handshake, the split |
| a method of the client, up to `flush` | `Call` |
| from `read_message_begin` to `ok_or` | `ReadReply`; when an earlier call left part of a frame `ReadRest`, or `ReadOver` if it is shorter than a header; `ReadEof` |
| `process_*` of the generated processor | `Serve` (the server) |
| the network | `Break` |

The 69 client methods are one template, and so are the 69 process functions: they
differ in a name, an `Args` and a `Result` struct, which is what `RpcService` lists.

Abstractions. What is left of a frame is never itself a message header: `ReadRest`
fails after taking some of it or all of it, `ReadOver` after all of it and the start of
the next frame, for which it has to wait. How long the rest is, is not known. Exceptions
can be read. A write fails, if it does, at the flush, because
`TFramedWriteTransport` buffers. The range of the sequence number is a parameter.

### ThriftStructs, RpcService, ThriftCodec, ThriftRpc

A definition of `ThriftStructs` names the fields of a struct with id, type and
requiredness as its `read_from_in_protocol` and `write_to_out_protocol` have them
(they agree). `ThriftCodec` is the loop all readers share and the sequence of `if
let Some` all writers share, over tokens: field headers with id and wire type, stop,
list and map headers, scalars. Binary and compact protocol differ below the tokens.
Scalars are numbers. Peers agree on the wire types of the fields both know, which
generated readers do not check. A map is sent as its keys and values in turn, in the
order in which the sender iterates it; `skip` is a reader for the types `AnyOf`, of
which only the wire type is known.

Structs nest, so readers and writers are recursive. They are functions defined level
by level: at depth `d` a reader (`Reader(w)[d]`) is `ReadBy` with the reader of depth
`d - 1` for the parts, and so for writing (`Writer`), for being of a type (`Typed`), for
lacking nothing (`Legal`) and for the value a reader of this version should get
(`Meant`). `MaxDepth` bounds the nesting; `Universe` holds all types and values. `Extra`
are fields only a newer peer knows, `Orders` the orders in which peers write fields
(the crate's is `Ascending`).

`ThriftRpc` puts the two halves together: a request is an `Args` struct as the client
writes it and the process function reads it (`ArgsRead`), a reply a `Result` struct as
some peer writes it and the client reads it, with `read_message_end` and `ok_or`
(`ResultRead`). These are the values of the parameters `ReadArgs` and `Decode` of `Rpc`.

Two oddities of the generated code are kept. `ServerProperties` presets
`maxConcurrentClientNum` to `Some(0)`, so that an absent field does not read as
`None`. And the `Args` of `handshake`, `pipeTransfer` and `pipeSubscribe` have field id
-1, for which the generator wrote the match arm `neg1`: an identifier pattern, which
takes every field whatever its id (`protocol/client.rs:19070`, `19414`, `19525`). With
the one field these structs have, as written by the same IDL, both read correctly.

## 3. Runs

Times are for two workers on a small machine.

| Run | Instance | Distinct states | What it shows |
|---|---|---|---|
| `pool_safety` | 3 threads, `min_size` 1, `max_size` 2, two databases | 552,438 (thread symmetry) | `Accounting`, `Capacity`, `NoUnderflow`, `IdleUsable`, `FloorKept` |
| `pool_liveness` | 3 threads, 1 session, 2 calls each | 203,173 | `CloseWakesAll`, `AcquireReturns`, `DrainsAfterClose` |
| `pool_lost_wakeup` | 2 threads, 1 session | violation | see findings |
| `pool_database` | 2 threads, 2 databases | violation | see findings |
| `redirect_cache` | 3 devices, 2 entries, lifetime 1, batches of 2, 4 puts, clock to 2 | 12,006 (device symmetry) | `Bounded`, `EvictionDetermined`, `HintsUsable`, `HintIsLatest`, refinement `ImplementsQueue` |
| `session_reconnect` | 3 endpoints, 2 passes, 2 databases | 313,777 | `IdsCurrent`, `RequestCurrent`, `DatabaseTracked`, `RetryOnce`, `EveryEndpointTried`, `CursorPinned`, `CallReturns` |
| `dataset` | every answer of up to 3 pages and 3 blocks of up to 2 rows | 52,688 | `ClosedOnce`, `NextRowReturns`, refinement `ReadsTheAnswer` |
| `records` | batches of up to 3 rows, 2 devices, 2 times | 693,869 (device symmetry) | `StoredAsGiven`, `FailureHonest`, `FailureRepairable`, `ServerReadable`, `HintsExact` |
| `tablet` | 2 columns, any 3 rows, restricted rows up to 9, batches of 2 | 74,649 | `ReceivedAsBuilt`, `SortKeepsMeaning` |
| `tablet_vector` | a `VECTOR` column, one row | violation | see findings |
| `tsblock` | blocks of up to 2 columns and 2 rows, booleans of 7 to 9 rows; every cut; every change of one number in one-column blocks | 780,840 | `RoundTrip`, `CutDetected`, `WellShaped` |
| `rpc` | all 69 methods, every sequence of up to 2 unanswered calls, sequence numbers -1 to 1, 2 addresses | 34,595 | `TakesOwnReply`, `FailureIsFinal`, `ArgsDelivered`, `ReplyIntact`, `ReplyTolerated`, `CallEnds` |

`TypeOK` of `tablet` says more than types: a tablet's columns are as long as its
times, also after a row was refused. The type invariants of the pool, the session,
the cache and the connection are parts of the invariants TLAPS proves.

Why the bounds are enough to be interesting:

* Pool: with three threads and two sessions one thread can wait while another
  discards and a third closes; `min_size` 1 below `max_size` 2 makes the floor of the
  sweep matter: a sweep over two idle sessions may take one. `NumSessions` is large enough never to run out, which `PoolAssumption` demands.
* Session: three endpoints distinguish start, wrap and end of the rotation, two
  passes distinguish first and last. Three server session ids are enough because
  only the current one, the one in a request and the new one can matter at a time.
* Redirect cache: three devices in two entries force eviction, and refreshing
  before it changes which entry goes; a clock to 2 passes the lifetime of 1 and
  stops exactly at it. The nodes sit at ports 0, 1, 65535, 65536
  and at an empty host.
* Result set: three blocks over three pages give empty pages at the start, in the
  middle and at the end, and errors between good blocks. An empty last page comes both
  as a result set and as none, with either value of `moreData`.
* Tablets and blocks: up to nine rows cross the boundary between bytes on both
  sides of eight, where `rows/8 + 1` and the number of bytes needed differ.
* Records: three rows give a dropped row before and after kept ones, two rows with
  equal times out of order, and a failed one among successful ones, in each of the two
  attempts of a call.
* RPC: the first call on a connection is any method with any shape of arguments:
  all optional fields set, none, or the ones with odd ids; later calls are
  `closeOperation` (`LateRequests`), since what a call finds on the connection does not
  depend on its method. A reply has one of these shapes too, or all of its fields
  and unknown ones (a struct with a list, and a map of lists), in the order of ids or
  in reverse, so that unknown fields come after and before known ones; or it lacks a
  required field, has an enum number of a newer server, or no result; or the message is
  an exception, or of a type that is no answer. Lists have none
  or two elements, the second one bare, maps none or two entries. No message of the run nests deeper than `MaxDepth` 10: TLC evaluates `MessagesAssumption`, by which
  all of them are `Typed`. Two unanswered calls (`MaxOwed`) are enough for a call to find
  the reply, or the rest of the reply, of an earlier one, and three sequence numbers
  for that to happen across the wrap.

Runs that end by design (`pool_liveness`, where calls are bounded; `records` and
`tsblock`, which model one call or one buffer) do not check for deadlock. All
others do.

### Fairness

* Pool: weak fairness of each thread's steps inside a call. `std::sync::Mutex` is
  not fair, so nothing is assumed about who gets a contended lock; instead each
  thread makes at most `MaxCalls` calls, after which contention ends. Clients are
  never obliged to call, to `USE`, or to drop a guard. `Timeout` is fair because
  `wait_timeout` is given the remaining time.
* Session and result set: weak fairness of the steps inside a call. A connection
  attempt is bounded by `connect_timeout`. The client sets no read timeout, so that
  an RPC ends is an assumption about the environment: the server answers or the
  connection is reset. Without it no call has to return.
* RPC: the same assumption, as weak fairness of `Serve`, of the reading thread's steps
  and of opening. `ReadRest` is not fair: what is left of a frame may be too short for
  it, so `CallEnds` has to hold by the next frame or the end of the stream. `Break` is
  never obliged to happen.

## 4. Findings

Three statements in the code's comments do not hold of the code:

* `pool_lost_wakeup`. The comment on `live` says it is "Only mutated while holding
  `state`" (`client/pool.rs:121`), and `acquire` is documented to block "when the pool
  is at capacity with nothing idle". `release`, `hand_out` and the failed open in
  `acquire` decrement and notify without the mutex. Both can fall between another
  thread's capacity check and its wait, which then sleeps until its deadline beside a
  free slot. `Capacity` is not affected (and is proved): only decrements happen
  outside. Nor is termination: `AcquireReturns` holds because the wait is timed.
* `pool_database`. The pool "tracks the most recent `USE <db>` seen on any released
  session" (`client/pool.rs:114`). `release` copies the released session's database
  whenever it differs, also if nobody executed `USE` on it: a guard taken before
  another client's `USE d2` and dropped after it moves the pool back to `d1`.
* `tablet_vector`. The last arm of `write_cell` is marked unreachable because "add_row
  validates cell types; Vector/Unknown are not insertable" (`data/tablet.rs:278`).
  `add_row` accepts a null cell in a column of any type, so a null in such a column
  panics when it is serialised.

## 5. Proofs

Eight modules hold theorems that TLAPS checks: `SessionPoolProofs`, `SessionProofs`,
`RedirectProofs`, `DataSetProofs`, `InsertProofs`, `TsBlockProofs`, `RpcProofs` and the
lemmas of `SequenceLemmas`. They
hold for every value of the constants allowed by the assumptions, which are what the
constructors demand (`min_size <= max_size`, at least one endpoint) and that special
values such as `NoDb` differ from ordinary ones. Batches, blocks and answers have any
length: the bounds of the runs are not among the assumptions.

**Pool** (`PoolAssumption`: also finitely many threads, and enough names for
sessions). `PoolInvariant` proves `PoolInv`, from which follow `TypeCorrect`,
`LiveIsExact`, `NeverOverCapacity`, `NeverUnderflows` and
`IdleAlwaysUsable`. None of these is inductive alone. `Accounting` needs `Exclusive`
(a session removed from the queue was counted once; in the code this is ownership,
in the model it has to be shown), which needs `Ownership` (a
thread has a session exactly at certain points of its code), which needs `Blocking`
(who holds the mutex, by program counter). Capacity follows from `Accounting` and
`Bounded`: between the check and the `fetch_add` the thread holds the mutex, and
whatever happens meanwhile only lowers `live`. `InTransitOpen` is why only open
sessions are parked, so that `FirstOpen` is always the first: the eviction loop of
`acquire` finds nothing to evict. There is one lemma per action or per group of
actions that change the same state. `CloseWakesEveryone` adds `OpenWhileLocked`: a
thread that passed the closed check still holds the mutex, so `close` comes after
its wait and its `notify_all` finds it. `SweepsKeepTheFloor` proves `FloorKept` for
`PoolFloor`. By `Accounting`, `live` counts the sessions in service and those the sweeping
thread has taken out but not yet subtracted; the sweep, which subtracts these before it
compares, therefore compares the sessions in service with `min_size`, and the mutex keeps
out every other thread that might take one. The strengthening `AfterClose` says that the
steps that take sessions out because the pool is closed happen only then, so that until
then every other session that leaves service is counted by `lost`.

**Session** (`SessionAssumption`). `SessionInvariant` proves `SessionInv` and each of
its safety properties is a corollary. The strengthening has two parts.
`VisitsCounted` relates the attempts on each endpoint to the loop counters through
`Offset`, an endpoint's place in the rotation; the lemmas `Wrap` and `CandidateNext` do
the modular arithmetic. `UnderWay` says what holds during a call: no connection
during a handshake, one run of the closure before a reconnect, no open cursor. The
proof covers `AutoReconnect` off and `MaxAttempts` 0, which the run leaves out.

**Redirect cache** (`RedirectAssumption`). `CacheInvariant` proves `CacheInv`:
`NeverOverfull`, `AlwaysOneOldest` and `OnlyUsableHints` follow. `PutsUsable` is needed
because a harvest checks endpoints before it stores them, and `TypeOK` carries that
counters never exceed `seq`. The proof covers capacity 0 and lifetime 0 too.

**Connection** (`RpcAssumption`: 0 is in the range of the sequence number, which is
wider than the number of unanswered calls; a decoder that accepts a body has
consumed it, one that gives up has not, which `LeavesWhenUndecodable` proves of the
generated readers). `RpcInvariant` proves `RpcInv`, from which `OwnReplyOnly` and
`FailureStays` follow. The argument is a debt: `Debt` counts the replies still to come
or lost, and the rest of a frame. `Settled` says that a caller finds it 0 before a
call and 1 during one, and at least one more after any failure; `Numbered` says that
the frames on the connection are numbered in the order of the calls, `Dist` counting
around the wrap (`OneFurther`). So a frame with the expected number is the last one
owed (`ExpectedIsLast`), and after a failure there is none. This is what lets
`Session` treat any `Error::Thrift` as the end of the connection, and `DataSet` a
failed fetch: neither `fetch_results` nor `close_query` reconnects, and they could not
succeed without.

**Messages** (`CodecAssumption`: no order names an id twice. `MessagesAssumption`: the
messages are of their types; a request lacks nothing, since it comes from a Rust
struct; of replies nothing of the kind is assumed. `WellFormed`, part of being of a
type, asks that ids tell the fields of a struct apart, also from the fields of `Extra`,
and that every order covers them.) `RoundTrip` is the theorem about the codec: for any
struct, any depth, any choice of optional fields, any order and any extra fields, what
the reader makes of a message is what was meant, with nothing of the message left; or
the reader fails, exactly when the value is not `Legal`. The argument:

* each recursive function satisfies its equation (`TypedEquation` to `ItemEquation`);
* the loop over a list or map reads the elements that lie in the message one after the
  other (`ItemLoopReads`), the loop over fields the fields, with as many turns as it
  needs (`FieldTurn`, `FieldLoopReads`); both by induction from the last one backwards;
* so a reader is `Faithful` at depth `d` if it is at `d - 1`: wherever in a message a
  written value lies, it is read, or skipped, up to its end (`ScalarUnderstood`,
  `ItemsUnderstood`, `StructUnderstood`). That this holds anywhere in a message, not just
  for a whole one, and of `AnyOf` types too, is the strengthening that the induction
  (`Faithfulness`) needs;
* a reader that gives up does so before the last token (`StopsBeforeEnd`), from which
  `LeavesWhenUndecodable` follows: the stop field of the `Result` struct stays unread.

`HandledRead` and `GotRead` are the invariants that tie these to a connection: the last
request handled and the last reply taken were read from messages of this service. With
them `ArgsAlwaysDelivered`, `ReplyAlwaysIntact` and `ReplyAlwaysTolerated` state the three
properties of the run for every message, where the run has samples of each struct.

**History of hints** (in `RedirectProofs`). `HintIsLatest` holds only between
harvests, so it is not inductive. `HistoryInv` adds `PendingIsLatest`: while a harvest
runs, the last put still to come for a device is its latest recommendation, and if
none is to come the entry is. The interesting case is a batch that names a device
twice, where only the last of its puts counts.

**Cache and queue** (in `RedirectProofs`). `CacheIsAQueue` proves the refinement
`ImplementsQueue`. The mapping is a choice: `QueueOf(entries)` is the sequence of hints in
the order of their counters. Counters are unique, so there is at most one (`OnlyQueue`),
and each action constructs the next one from the last, so there is always one
(`QueueInv`). `StoreIsLearn` has the three cases of `put`: a hint renewed moves to the end,
a new one is appended while there is room, and else replaces the one in front, which is
the entry `Oldest` evicts. `GetIsAsk` has the two of `get_at`, with and without expiry.

**Result set** (`StreamsAssumption`). `DataSetInv` says that `next_row` loops only on an
open set, that `more_data` agrees with the pages the server has left, and that the row
cursor stays in a block that decoded. `ClosedOnce` follows, and so does the refinement
`ReadsTheAnswer`: the mapping takes the blocks buffered and the pages to come to one
stream of rows, so fetching and decoding are stutters (flattening the pages commutes
with taking the next one off), `Yield` takes the stream's head, and `Exhausted` is only
possible when the stream is empty.

**Record inserts** (`RecordsAssumption`). `RecordsInv` has one part for each stage of
a call: the lists are the caller's rows (`ListsInv`, `SameLengths`), the request is those
rows without their nulls (`Asked`), every earlier attempt was at this request
(`Earlier`), the last one is what was answered (`Executed`), or none was (`GivenUp`). `InsertsStoreWhatWasGiven`
then compares two databases, the one the servers wrote and the one the caller meant:
dropping nulls drops no cell, sorting is stable and so permutes only rows of different
times (`RearrangedSame`), and writing the same request again changes nothing
(`WrittenAgain`), which is what makes the retry of an insert harmless.
`FailuresAreRepairable` is the same argument for the caller's own retry: whatever the
attempts of a failed call stored are cells of that call (`EarlierKeys`), which a
successful repetition overwrites (`AttemptRepairs`). `FailuresAreHonest`, which is about
answers only (a transport error says nothing of what was stored),
`RequestsAreReadable` and `HintsAreExact` follow from the same invariant; the last one
because the devices kept for `record_redirects` are permuted along with the rows.

**Tablets** (`TabletAssumption`, in `InsertProofs`). `TabletInv` is short: every tablet, the
caller's, the collected ones and the sent ones, has columns as long as its times, and
what was received is what the server read in the buffers of the tablets sent. The work
is in the lemmas about one tablet. A null entry says of each row whether its cell is null,
in rows/8 + 1 bytes (`NullEntryIs`), so the server, which finds the next entry from the flag
of the last, finds each where the client put it (`StartsIs`, an induction over the columns),
looks at the bit of the right row (`MaskedIs`) and at the right cell (`CellRead`: columns of
`n` cells begin at multiples of `n`). So it reads what the sorted tablet means (`DecodedIs`),
which is what the unsorted one means because equal times keep their order
(`SortedMeansTheSame`). `TabletsArriveAsBuilt` puts several of these together.

**Result decoding** (`TsBlockAssumption`). Two invariants. `ShapeInv` holds for every
buffer, damaged ones included: the cursor stays within it, columns are as long as the
block. `DecodeInv` holds for undamaged and for cut buffers: the bytes that arrived are
a prefix of the encoding (`Arrived`), and what was read is what the server wrote up to
the cursor, column by column (`ReadSoFar`). With the parts' lengths summed as offsets it
gives `DecodeInvertsEncode` and `CutIsDetected`. The null bits need that bit `i` of a byte
is the null of row `8 * byte + i`; the run-length encoding that its single value is read
for every row.

**Induction over data.** Lengths are arbitrary, so facts about flattened and sorted
sequences are proved by induction, in `SequenceLemmas`. Each one is phrased as "the set
of the naturals for which this holds contains 0 and with `n` also `n + 1`", because the
provers can instantiate a set but not a predicate. A recursive function is first shown
to have a solution, which makes its `CHOOSE` one.

**Only model-checked**: liveness under fairness (`AcquireReturns`, `DrainsAfterClose`,
`CallReturns`, `NextRowReturns`, `CallEnds`), which the installed provers cannot do. Every
safety property of a passing run is stated by a theorem. What remains with TLC about the
messages is that the 69 methods and their structs meet `MessagesAssumption`, for the
messages of `MCRpc`.

## 6. Not modelled

* Of `connection/mod.rs`: TLS configuration and certificate loading, and
  `Endpoint::parse` with its `Display`. A TLS handshake is an outcome of `SetUp`,
  which does not tell its error from those of `set_nodelay` and of the split.
* Of `protocol/`: the 43 structs and enums no method of the service reaches (most of
  `common.rs`), the processor's dispatch by method name, and the constructors. The
  wire encodings under the tokens belong to the `thrift` crate.
* Builders and configuration, the tables in `data/value.rs` and `data/mod.rs`, and
  `error.rs`. Of errors, `Error::Thrift` is told apart from the others.
* Examples and the benchmark.
* `TableSession` apart from `insert`: it delegates to a `Session` with the SQL dialect
  set to table.
* The contents of rows in `dataset.rs` (column map, logical types of values): whether
  `assemble_row` succeeds on a block is an input.
* Memory: a count read from a damaged block is also used as a capacity, and one that is
  large enough to exhaust memory is not told apart from one that is merely wrong.

## 7. Plan

1. Compose session and result set: a cursor of several pages over connections that
   break and over a session that is closed or dropped in the pool.
2. The contents of rows: the column map of `SessionDataSet`, duplicate and
   time columns, checked against a reference definition.
