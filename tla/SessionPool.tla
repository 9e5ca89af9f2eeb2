----------------------------- MODULE SessionPool -----------------------------
(***************************************************************************)
(* The bounded session pool of src/client/pool.rs: a queue of idle         *)
(* sessions under a mutex, a condition variable, an atomic counter `live`  *)
(* and the pool's current database under a mutex of its own.               *)
(*                                                                         *)
(* A step contains at most one access to state that other threads reach    *)
(* without the mutex (`live`, the condition variable, the database), so    *)
(* every interleaving of those accesses is a behaviour.  What happens      *)
(* under the mutex and touches nothing else is part of the step that       *)
(* locks, unlocks or reads `live`.                                         *)
(*                                                                         *)
(* Time is abstract.  `aged` is how many sessions at the head of the idle  *)
(* queue the sweep in progress finds past max_idle_time (0 also when the   *)
(* sweep interval has not elapsed).  Entries are stamped under the mutex   *)
(* when pushed at the back, so the expired ones always form a prefix.      *)
(* A deadline may have passed whenever the clock is read, and has passed   *)
(* once a timed wait has run out (`late`).                                 *)
(***************************************************************************)
EXTENDS Integers, Sequences, FiniteSets, Functions

CONSTANTS
    Threads,      \* threads that share the pool
    MaxSize,      \* SessionPoolConfig::max_size
    MinSize,      \* SessionPoolConfig::min_size
    NumSessions,  \* identities available to Session values
    Databases,    \* database names clients USE
    InitDb,       \* SessionConfig::database, or NoDb
    NoDb,         \* Option::None for a database
    NoThread,     \* the mutex is free
    NoSession     \* the thread owns no session

Sessions == 1..NumSessions

\* The first conjuncts are what SessionPool::new demands of its configuration;
\* enough identities exist for every session that can be open at one time.
ASSUME PoolAssumption ==
    /\ MaxSize \in Nat /\ MinSize \in 0..MaxSize
    /\ IsFiniteSet(Threads)
    /\ NumSessions \in Nat /\ NumSessions >= MaxSize * (Cardinality(Threads) + 1)
    /\ NoSession \notin Sessions /\ NoThread \notin Threads /\ NoDb \notin Databases
    /\ InitDb \in Databases \cup {NoDb}

VARIABLES
    pc,       \* where each thread is in the pool's code
    lock,     \* holder of the `state` mutex
    waiters,  \* threads blocked in Condvar::wait_timeout
    idle,     \* PoolState::idle, front first
    closed,   \* PoolState::closed
    aged,     \* see above; meaningful during a sweep
    live,     \* the AtomicUsize
    poolDb,   \* SessionPool::database
    sess,     \* session a thread owns: in transit, or inside its guard
    expired,  \* sessions a thread took out of the pool to close
    late,     \* the deadline of the thread's acquire has passed
    want,     \* database a hand-out is switching its session to
    status,   \* connection state of each session
    sessDb    \* Session::database

vars == <<pc, lock, waiters, idle, closed, aged, live, poolDb,
          sess, expired, late, want, status, sessDb>>
local == <<late, want>>

Dbs == Databases \cup {NoDb}

LockedPCs == {"AcqSweep", "AcqSwept", "AcqTake", "AcqGrow", "AcqFull",
              "RelSweep", "RelSwept"}
AcquirePCs == {"AcqLock", "AcqSweep", "AcqSwept", "AcqClose", "AcqTake", "AcqGrow",
               "AcqFull", "Waiting", "OpenDb", "Opening", "HandOut", "Using"}
ReleasePCs == {"RelLock", "RelSweep", "RelSwept", "RelClose", "RelUncount", "RelCloseSelf"}
ClosePCs == {"Draining", "ClosingAll", "NotifyAll"}
PCs == {"Out", "Held", "Notify"} \cup AcquirePCs \cup ReleasePCs \cup ClosePCs

Goto(t, label) == pc' = [pc EXCEPT ![t] = label]
Own(t, s) == sess' = [sess EXCEPT ![t] = s]

\* Closing or dropping a session forgets it; its identity may be used again.
Shut(S) ==
    /\ status' = [s \in Sessions |-> IF s \in S THEN "free" ELSE status[s]]
    /\ sessDb' = [s \in Sessions |-> IF s \in S THEN NoDb ELSE sessDb[s]]

-----------------------------------------------------------------------------
\* SessionPool::new has opened min_size sessions and counted them.
Init ==
    /\ pc = [t \in Threads |-> "Out"]
    /\ lock = NoThread
    /\ waiters = {}
    /\ idle = [i \in 1..MinSize |-> i]
    /\ closed = FALSE
    /\ aged = 0
    /\ live = MinSize
    /\ poolDb = InitDb
    /\ sess = [t \in Threads |-> NoSession]
    /\ expired = [t \in Threads |-> {}]
    /\ late = [t \in Threads |-> FALSE]
    /\ want = [t \in Threads |-> NoDb]
    /\ status = [s \in Sessions |-> IF s <= MinSize THEN "open" ELSE "free"]
    /\ sessDb = [s \in Sessions |-> IF s <= MinSize THEN InitDb ELSE NoDb]

-----------------------------------------------------------------------------
(* acquire *)

AcquireCall(t) ==
    /\ pc[t] = "Out"
    /\ Goto(t, "AcqLock")
    /\ UNCHANGED <<lock, waiters, idle, closed, aged, live, poolDb, sess, expired, local, status, sessDb>>

\* acquire_for_device finds an idle session connected to the endpoint some idle
\* session's redirect hint names.  Which one that is depends on the responses
\* of the servers: any position may match.  Without a match the call is acquire.
AcquireForDevice(t) ==
    /\ pc[t] = "Out" /\ lock = NoThread /\ ~closed
    /\ \E pos \in 1..Len(idle) :
        /\ status[idle[pos]] = "open"
        /\ Own(t, idle[pos])
        /\ idle' = SubSeq(idle, 1, pos - 1) \o SubSeq(idle, pos + 1, Len(idle))
    /\ Goto(t, "HandOut")
    /\ UNCHANGED <<lock, waiters, closed, aged, live, poolDb, expired, local, status, sessDb>>

\* Top of the loop: fail if the pool is closed, otherwise start the sweep.
AcquireLock(t) ==
    /\ pc[t] = "AcqLock" /\ lock = NoThread
    /\ \/ /\ closed
          /\ Goto(t, "Out")
          /\ late' = [late EXCEPT ![t] = FALSE]
          /\ UNCHANGED <<lock, aged>>
       \/ /\ ~closed
          /\ Goto(t, "AcqSweep")
          /\ lock' = t
          /\ aged' \in 0..Len(idle)
          /\ UNCHANGED late
    /\ UNCHANGED <<waiters, idle, closed, live, poolDb, sess, expired, want, status, sessDb>>

-----------------------------------------------------------------------------
(* sweep_idle, called with the mutex held *)

\* Mutant: sessions already taken out are not deducted.
AboveFloorStale(t) == live > MinSize

\* The load of `live` in the loop: the counter drops only after it.
AboveFloor(t) == live - Cardinality(expired[t]) > MinSize

\* Mutant: the counter drops per removal as well.
SweepRemoveTwice(t) ==
    /\ pc[t] \in {"AcqSweep", "RelSweep"}
    /\ aged > 0 /\ AboveFloor(t)
    /\ expired' = [expired EXCEPT ![t] = @ \cup {Head(idle)}]
    /\ idle' = Tail(idle)
    /\ aged' = aged - 1
    /\ live' = live - 1
    /\ UNCHANGED <<pc, lock, waiters, closed, poolDb, sess, local, status, sessDb>>

SweepRemove(t) ==
    /\ pc[t] \in {"AcqSweep", "RelSweep"}
    /\ aged > 0 /\ AboveFloor(t)
    /\ expired' = [expired EXCEPT ![t] = @ \cup {Head(idle)}]
    /\ idle' = Tail(idle)
    /\ aged' = aged - 1
    /\ UNCHANGED <<pc, lock, waiters, closed, live, poolDb, sess, local, status, sessDb>>

\* The loop ends: `live` is at the floor, or no expired entry is left.
SweepStop(t) ==
    /\ aged = 0 \/ ~AboveFloor(t)
    /\ aged' = 0
    /\ \/ /\ pc[t] = "AcqSweep"
          /\ Goto(t, IF expired[t] = {} THEN "AcqTake" ELSE "AcqSwept")
          /\ UNCHANGED lock
       \/ /\ pc[t] = "RelSweep" /\ expired[t] # {}
          /\ Goto(t, "RelSwept")
          /\ UNCHANGED lock
       \/ /\ pc[t] = "RelSweep" /\ expired[t] = {}
          /\ Goto(t, "Notify")
          /\ lock' = NoThread
    /\ UNCHANGED <<waiters, idle, closed, live, poolDb, sess, expired, local, status, sessDb>>

\* The counter drops by what was removed, and the caller unlocks.
SweepCommit(t) ==
    /\ \/ pc[t] = "AcqSwept" /\ Goto(t, "AcqClose")
       \/ pc[t] = "RelSwept" /\ Goto(t, "RelClose")
    /\ live' = live - Cardinality(expired[t])
    /\ lock' = NoThread
    /\ UNCHANGED <<waiters, idle, closed, aged, poolDb, sess, expired, local, status, sessDb>>

\* The caller closes the swept sessions; acquire then locks again, release notifies.
CloseExpired(t) ==
    /\ \/ pc[t] = "AcqClose" /\ Goto(t, "AcqLock")
       \/ pc[t] = "RelClose" /\ Goto(t, "Notify")
    /\ Shut(expired[t])
    /\ expired' = [expired EXCEPT ![t] = {}]
    /\ UNCHANGED <<lock, waiters, idle, closed, aged, live, poolDb, sess, local>>

-----------------------------------------------------------------------------
(* acquire, after the sweep *)

\* Position of the first open idle session; the dead ones before it are evicted.
FirstOpen ==
    CHOOSE i \in 1..(Len(idle) + 1) :
        /\ i <= Len(idle) => status[idle[i]] = "open"
        /\ \A j \in 1..(i - 1) : status[idle[j]] # "open"

Evict(n) ==
    /\ Shut({idle[j] : j \in 1..n})
    /\ idle' = SubSeq(idle, n + 2, Len(idle))

TakeIdle(t) ==
    /\ pc[t] = "AcqTake" /\ FirstOpen <= Len(idle)
    /\ Own(t, idle[FirstOpen])
    /\ Evict(FirstOpen - 1)
    /\ live' = live - (FirstOpen - 1)
    /\ lock' = NoThread
    /\ late' = [late EXCEPT ![t] = FALSE]
    /\ Goto(t, "HandOut")
    /\ UNCHANGED <<waiters, closed, aged, poolDb, expired, want>>

\* Mutant: grows at max_size as well.
CheckCapacityOffByOne(t) ==
    /\ pc[t] = "AcqTake" /\ FirstOpen > Len(idle)
    /\ Evict(Len(idle))
    /\ live' = live - Len(idle)
    /\ \/ live' <= MaxSize /\ Goto(t, "AcqGrow")
       \/ live' > MaxSize /\ Goto(t, "AcqFull")
    /\ UNCHANGED <<lock, waiters, closed, aged, poolDb, sess, expired, local>>

\* Nothing idle: `live` is read once and compared with max_size.
CheckCapacity(t) ==
    /\ pc[t] = "AcqTake" /\ FirstOpen > Len(idle)
    /\ Evict(Len(idle))
    /\ live' = live - Len(idle)
    /\ \/ live' < MaxSize /\ Goto(t, "AcqGrow")
       \/ live' >= MaxSize /\ Goto(t, "AcqFull")
    /\ UNCHANGED <<lock, waiters, closed, aged, poolDb, sess, expired, local>>

\* The slot is counted before the mutex is dropped.
Grow(t) ==
    /\ pc[t] = "AcqGrow"
    /\ \E s \in Sessions :
        /\ s = CHOOSE r \in Sessions : status[r] = "free"
        /\ status[s] = "free"
        /\ Own(t, s)
        /\ status' = [status EXCEPT ![s] = "opening"]
    /\ live' = live + 1
    /\ lock' = NoThread
    /\ late' = [late EXCEPT ![t] = FALSE]
    /\ Goto(t, "OpenDb")
    /\ UNCHANGED <<waiters, idle, closed, aged, poolDb, expired, want, sessDb>>

\* The deadline has passed: pool exhausted.
Exhausted(t) ==
    /\ pc[t] = "AcqFull"
    /\ lock' = NoThread
    /\ late' = [late EXCEPT ![t] = FALSE]
    /\ Goto(t, "Out")
    /\ UNCHANGED <<waiters, idle, closed, aged, live, poolDb, sess, expired, want, status, sessDb>>

\* wait_timeout unlocks and blocks in one step.
Wait(t) ==
    /\ pc[t] = "AcqFull" /\ ~late[t]
    /\ waiters' = waiters \cup {t}
    /\ lock' = NoThread
    /\ Goto(t, "Waiting")
    /\ UNCHANGED <<idle, closed, aged, live, poolDb, sess, expired, local, status, sessDb>>

\* Mutant: every wait gets a fresh deadline.
TimeoutRestarts(t) ==
    /\ pc[t] = "Waiting" /\ t \in waiters
    /\ waiters' = waiters \ {t}
    /\ Goto(t, "AcqLock")
    /\ UNCHANGED <<lock, idle, closed, aged, live, poolDb, sess, expired, local, status, sessDb>>

Timeout(t) ==
    /\ pc[t] = "Waiting" /\ t \in waiters
    /\ waiters' = waiters \ {t}
    /\ late' = [late EXCEPT ![t] = TRUE]
    /\ Goto(t, "AcqLock")
    /\ UNCHANGED <<lock, idle, closed, aged, live, poolDb, sess, expired, want, status, sessDb>>

-----------------------------------------------------------------------------
(* open_session and hand_out *)

\* The new session is configured with the pool's current database.
OpenSession(t) ==
    /\ pc[t] = "OpenDb"
    /\ sessDb' = [sessDb EXCEPT ![sess[t]] = poolDb]
    /\ Goto(t, "Opening")
    /\ UNCHANGED <<lock, waiters, idle, closed, aged, live, poolDb, sess, expired, local, status>>

OpenOk(t) ==
    /\ pc[t] = "Opening"
    /\ status' = [status EXCEPT ![sess[t]] = "open"]
    /\ Goto(t, "HandOut")
    /\ UNCHANGED <<lock, waiters, idle, closed, aged, live, poolDb, sess, expired, local, sessDb>>

\* Mutant: the slot of a discarded session stays counted.
DiscardKeepsCount(t) ==
    /\ Shut({sess[t]})
    /\ Own(t, NoSession)
    /\ want' = [want EXCEPT ![t] = NoDb]
    /\ Goto(t, "Notify")
    /\ UNCHANGED <<lock, waiters, idle, closed, aged, live, poolDb, expired, late>>

\* A session that is given up: closed, uncounted without the mutex; notify_one is next.
Discard(t) ==
    /\ Shut({sess[t]})
    /\ Own(t, NoSession)
    /\ live' = live - 1
    /\ want' = [want EXCEPT ![t] = NoDb]
    /\ Goto(t, "Notify")
    /\ UNCHANGED <<lock, waiters, idle, closed, aged, poolDb, expired, late>>

OpenErr(t) == pc[t] = "Opening" /\ Discard(t)

\* The pool's database is read; a session elsewhere needs a USE first.
HandOut(t) ==
    /\ pc[t] = "HandOut"
    /\ \/ /\ poolDb \in {NoDb, sessDb[sess[t]]}
          /\ Goto(t, "Held")
          /\ UNCHANGED want
       \/ /\ poolDb \notin {NoDb, sessDb[sess[t]]}
          /\ Goto(t, "Using")
          /\ want' = [want EXCEPT ![t] = poolDb]
    /\ UNCHANGED <<lock, waiters, idle, closed, aged, live, poolDb, sess, expired, late, status, sessDb>>

UseOk(t) ==
    /\ pc[t] = "Using"
    /\ sessDb' = [sessDb EXCEPT ![sess[t]] = want[t]]
    /\ want' = [want EXCEPT ![t] = NoDb]
    /\ Goto(t, "Held")
    /\ UNCHANGED <<lock, waiters, idle, closed, aged, live, poolDb, sess, expired, late, status>>

UseErr(t) == pc[t] = "Using" /\ Discard(t)

-----------------------------------------------------------------------------
(* the client, through its PooledSession guard *)

\* The client executes `USE d`.
ClientUse(t, d) ==
    /\ pc[t] = "Held" /\ status[sess[t]] = "open"
    /\ sessDb' = [sessDb EXCEPT ![sess[t]] = d]
    /\ UNCHANGED <<pc, lock, waiters, idle, closed, aged, live, poolDb, sess, expired, local, status>>

\* The connection is lost and cannot be re-established, or the client closes the session.
ClientFail(t) ==
    /\ pc[t] = "Held" /\ status[sess[t]] = "open"
    /\ status' = [status EXCEPT ![sess[t]] = "dead"]
    /\ UNCHANGED <<pc, lock, waiters, idle, closed, aged, live, poolDb, sess, expired, local, sessDb>>

-----------------------------------------------------------------------------
(* release, called when the guard drops *)

ReleaseDead(t) ==
    /\ pc[t] = "Held" /\ status[sess[t]] # "open"
    /\ Discard(t)

\* Mutant: release does not ask whether the session is still open.
ReleaseDbUnchecked(t) ==
    /\ pc[t] = "Held"
    /\ poolDb' = IF sessDb[sess[t]] = NoDb THEN poolDb ELSE sessDb[sess[t]]
    /\ Goto(t, "RelLock")
    /\ UNCHANGED <<lock, waiters, idle, closed, aged, live, sess, expired, local, status, sessDb>>

\* The pool adopts the session's database.
ReleaseDb(t) ==
    /\ pc[t] = "Held" /\ status[sess[t]] = "open"
    /\ poolDb' = IF sessDb[sess[t]] = NoDb THEN poolDb ELSE sessDb[sess[t]]
    /\ Goto(t, "RelLock")
    /\ UNCHANGED <<lock, waiters, idle, closed, aged, live, sess, expired, local, status, sessDb>>

\* Mutant: release does not look at `closed`.
ReleaseIdleUnchecked(t) ==
    /\ pc[t] = "RelLock" /\ lock = NoThread
    /\ idle' = Append(idle, sess[t])
    /\ Own(t, NoSession)
    /\ lock' = t
    /\ aged' \in 0..Len(idle')
    /\ Goto(t, "RelSweep")
    /\ UNCHANGED <<waiters, closed, live, poolDb, expired, local, status, sessDb>>

ReleaseIdle(t) ==
    /\ pc[t] = "RelLock" /\ lock = NoThread /\ ~closed
    /\ idle' = Append(idle, sess[t])
    /\ Own(t, NoSession)
    /\ lock' = t
    /\ aged' \in 0..Len(idle')
    /\ Goto(t, "RelSweep")
    /\ UNCHANGED <<waiters, closed, live, poolDb, expired, local, status, sessDb>>

ReleaseClosed(t) ==
    /\ pc[t] = "RelLock" /\ lock = NoThread /\ closed
    /\ Goto(t, "RelUncount")
    /\ UNCHANGED <<lock, waiters, idle, closed, aged, live, poolDb, sess, expired, local, status, sessDb>>

ReleaseUncount(t) ==
    /\ pc[t] = "RelUncount"
    /\ live' = live - 1
    /\ Goto(t, "RelCloseSelf")
    /\ UNCHANGED <<lock, waiters, idle, closed, aged, poolDb, sess, expired, local, status, sessDb>>

ReleaseClose(t) ==
    /\ pc[t] = "RelCloseSelf"
    /\ Shut({sess[t]})
    /\ Own(t, NoSession)
    /\ Goto(t, "Notify")
    /\ UNCHANGED <<lock, waiters, idle, closed, aged, live, poolDb, expired, local>>

\* notify_one: some waiter, if there is one, goes back to the top of its loop.
Notify(t) ==
    /\ pc[t] = "Notify"
    /\ \/ /\ waiters = {}
          /\ Goto(t, "Out")
          /\ UNCHANGED waiters
       \/ \E w \in waiters :
          /\ pc' = [pc EXCEPT ![t] = "Out", ![w] = "AcqLock"]
          /\ waiters' = waiters \ {w}
    /\ UNCHANGED <<lock, idle, closed, aged, live, poolDb, sess, expired, local, status, sessDb>>

-----------------------------------------------------------------------------
(* close, called by a client or by Drop *)

Close(t) ==
    /\ pc[t] = "Out" /\ lock = NoThread
    /\ closed' = TRUE
    /\ expired' = [expired EXCEPT ![t] = Range(idle)]
    /\ idle' = <<>>
    /\ Goto(t, "Draining")
    /\ UNCHANGED <<lock, waiters, aged, live, poolDb, sess, local, status, sessDb>>

CloseUncount(t) ==
    /\ pc[t] = "Draining"
    /\ live' = live - Cardinality(expired[t])
    /\ Goto(t, "ClosingAll")
    /\ UNCHANGED <<lock, waiters, idle, closed, aged, poolDb, sess, expired, local, status, sessDb>>

CloseDrained(t) ==
    /\ pc[t] = "ClosingAll"
    /\ Shut(expired[t])
    /\ expired' = [expired EXCEPT ![t] = {}]
    /\ Goto(t, "NotifyAll")
    /\ UNCHANGED <<lock, waiters, idle, closed, aged, live, poolDb, sess, local>>

\* Mutant: close does not notify.
NotifyAllMissing(t) ==
    /\ pc[t] = "NotifyAll"
    /\ Goto(t, "Out")
    /\ UNCHANGED <<waiters, lock, idle, closed, aged, live, poolDb, sess, expired, local, status, sessDb>>

NotifyAll(t) ==
    /\ pc[t] = "NotifyAll"
    /\ pc' = [u \in Threads |-> IF u = t THEN "Out"
                                ELSE IF u \in waiters THEN "AcqLock" ELSE pc[u]]
    /\ waiters' = {}
    /\ UNCHANGED <<lock, idle, closed, aged, live, poolDb, sess, expired, local, status, sessDb>>

-----------------------------------------------------------------------------
\* Steps of a call that has begun; the client decides only about the others.
AcquireStep(t) ==
    \/ AcquireLock(t) \/ SweepRemove(t) \/ SweepStop(t) \/ SweepCommit(t) \/ CloseExpired(t)
    \/ TakeIdle(t) \/ CheckCapacity(t) \/ Grow(t) \/ Exhausted(t) \/ Wait(t) \/ Timeout(t)
    \/ OpenSession(t) \/ OpenOk(t) \/ OpenErr(t) \/ HandOut(t) \/ UseOk(t) \/ UseErr(t)
ReleaseStep(t) ==
    \/ ReleaseIdle(t) \/ ReleaseClosed(t) \/ ReleaseUncount(t) \/ ReleaseClose(t) \/ Notify(t)
CloseStep(t) == CloseUncount(t) \/ CloseDrained(t) \/ NotifyAll(t)

ClientStep(t) ==
    \/ AcquireCall(t) \/ AcquireForDevice(t) \/ Close(t)
    \/ (\E d \in Databases : ClientUse(t, d)) \/ ClientFail(t)
    \/ ReleaseDead(t) \/ ReleaseDb(t)

Next == \E t \in Threads : AcquireStep(t) \/ ReleaseStep(t) \/ CloseStep(t) \/ ClientStep(t)

Spec == Init /\ [][Next]_vars

-----------------------------------------------------------------------------
(* where sessions are *)

\* Threads that took sessions out of the queue and have not yet subtracted
\* them from `live`, and those that have and still have to close them.
RemovingPCs == {"AcqSweep", "AcqSwept", "RelSweep", "RelSwept", "Draining"}
ClosingPCs == {"AcqClose", "RelClose", "ClosingAll"}

\* Thread t owns s, in a guard or on its way in or out of one, and s is counted.
InUse(t, s) == sess[t] = s /\ pc[t] # "RelCloseSelf"

\* Sessions `live` counts.
Counted ==
    {s \in Sessions :
        \/ s \in Range(idle)
        \/ \E t \in Threads : InUse(t, s) \/ (s \in expired[t] /\ pc[t] \in RemovingPCs)}

\* Sessions that are idle, being opened or handed out, held or being returned.
InService == {s \in Sessions : s \in Range(idle) \/ \E t \in Threads : InUse(t, s)}

\* Sessions some part of the pool still has to use or close.
Reachable ==
    {s \in Sessions : s \in Range(idle) \/ \E t \in Threads : sess[t] = s \/ s \in expired[t]}

-----------------------------------------------------------------------------
(* invariants *)

TypeOK ==
    /\ pc \in [Threads -> PCs]
    /\ lock \in Threads \cup {NoThread}
    /\ waiters \in SUBSET Threads
    /\ idle \in Seq(Sessions)
    /\ closed \in BOOLEAN
    /\ aged \in Nat
    /\ live \in Int
    /\ poolDb \in Dbs
    /\ sess \in [Threads -> Sessions \cup {NoSession}]
    /\ expired \in [Threads -> SUBSET Sessions]
    /\ late \in [Threads -> BOOLEAN]
    /\ want \in [Threads -> Dbs]
    /\ status \in [Sessions -> {"free", "opening", "open", "dead"}]
    /\ sessDb \in [Sessions -> Dbs]

\* `live` is exactly the number of counted sessions at every step, however the
\* unlocked fetch_sub calls of release, hand_out, acquire and close interleave
\* with the locked ones.
Accounting == live = Cardinality(Counted)

\* However calls interleave, no more than max_size sessions are idle, being
\* opened, handed out, held by guards or being returned.
Capacity == Cardinality(InService) <= MaxSize

\* The usize subtraction in sweep_idle (live - expired.len()) and each fetch_sub
\* is applied to a counter at least as large.
NoUnderflow ==
    \A t \in Threads :
        /\ pc[t] \in RemovingPCs => live >= Cardinality(expired[t])
        /\ \A s \in Sessions : InUse(t, s) => live >= 1

\* Every idle session is open, and a closed pool keeps none: a guard dropped
\* while close runs never puts its session back.
IdleUsable ==
    /\ \A i \in DOMAIN idle : status[idle[i]] = "open"
    /\ closed => idle = <<>>

\* Nobody is left blocked by close: once the pool is closed, threads wait
\* only while some close has not reached its notify_all.
CloseWakesAll ==
    closed => waiters = {} \/ \E t \in Threads : pc[t] \in ClosePCs

-----------------------------------------------------------------------------
(* the inductive invariant *)

\* Who holds the mutex and who waits, by program counter.
Blocking ==
    /\ \A t \in Threads : lock = t <=> pc[t] \in LockedPCs
    /\ \A t \in Threads : t \in waiters <=> pc[t] = "Waiting"

\* What a thread owns, by program counter.
OwningPCs == {"OpenDb", "Opening", "HandOut", "Using", "Held",
              "RelLock", "RelUncount", "RelCloseSelf"}
Ownership ==
    \A t \in Threads :
        /\ sess[t] # NoSession <=> pc[t] \in OwningPCs
        /\ expired[t] # {} => pc[t] \in RemovingPCs \cup ClosingPCs
        /\ pc[t] \in {"AcqSweep", "RelSweep"} => aged <= Len(idle)

\* What Rust's ownership guarantees: a session has one owner, and one that was
\* not closed has an owner.  Without it `live` could not be the size of a set.
Exclusive ==
    /\ IsInjective(idle)
    /\ \A t \in Threads :
        /\ sess[t] \notin Range(idle)
        /\ Range(idle) \cap expired[t] = {}
        /\ \A u \in Threads :
            /\ sess[t] \notin expired[u]
            /\ t # u => /\ sess[t] = sess[u] => sess[t] = NoSession
                        /\ expired[t] \cap expired[u] = {}

NoLeak == \A s \in Sessions : status[s] # "free" <=> s \in Reachable

\* Why growing cannot overshoot: only the holder of the mutex increases `live`,
\* and it has seen room since it locked.
Bounded ==
    /\ live <= MaxSize
    /\ \A t \in Threads : pc[t] = "AcqGrow" => live < MaxSize

\* A session being handed out or returned is connected.
InTransitOpen ==
    \A t \in Threads : pc[t] \in {"HandOut", "Using", "RelLock"} => status[sess[t]] = "open"

PoolInv ==
    /\ TypeOK /\ Blocking /\ Ownership /\ Exclusive /\ NoLeak
    /\ IdleUsable /\ InTransitOpen /\ Accounting /\ Bounded

=============================================================================
