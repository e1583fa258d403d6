--------------------------------- MODULE Db ---------------------------------
(***************************************************************************)
(* The shared database of mini-redis (src/db.rs): the key-value entries,   *)
(* the index of expirations, the background task that purges what expired, *)
(* and the tokio Notify and timer through which the two sides meet.        *)
(*                                                                         *)
(* A critical section of the std Mutex is one step; what the code does     *)
(* before taking the lock or after releasing it is a step of its own, so   *)
(* the window between unlocking and notify_one is there.  Module PubSub    *)
(* has the other half of State, the pub/sub channels.                      *)
(***************************************************************************)
EXTENDS Integers

CONSTANTS
    Keys,        \* the keys clients use
    Values,      \* the payloads clients store
    Handlers,    \* the connection tasks, each with a clone of Db
    Durations,   \* the time-to-live values a SET may carry
    MaxInstant,  \* the greatest Instant the platform can represent
    Horizon,     \* bound on the clock: it stops here
    MaxId        \* bound on next_id: no SET is served after this many

ASSUME DurationsAssumption == Durations \subseteq Nat
ASSUME BoundsAssumption    == MaxInstant \in Nat /\ Horizon \in Nat /\ MaxId \in Nat

VARIABLES
    \* State, guarded by the mutex
    entries,      \* entries[k] is {} or the one Entry stored under k
    expirations,  \* the map (Instant, id) -> key, as a set of records
    next_id,      \* the identifier of the next SET
    shutdown,     \* the database is shutting down
    poisoned,     \* a thread panicked while it held the mutex
    \* the world
    now,          \* the reading of the monotonic clock
    \* the background task and its Notify
    task,         \* where the background task is
    wake_at,      \* the Instant it sleeps until; {}: it only waits for Notify
    permit,       \* Notify stores one permit when nobody waits
    notified,     \* the parked task has been handed a notification
    \* the users of Db
    handler,      \* where each connection task is
    reply,        \* what its last GET returned
    guard         \* the life of the DbDropGuard

state == <<entries, expirations, next_id, shutdown, poisoned>>
background == <<task, wake_at, permit, notified>>
vars == <<state, now, background, handler, reply, guard>>

-----------------------------------------------------------------------------
\* Rust's Option<T>: the empty set is None, a singleton is Some.
Opt(S) == {o \in SUBSET S : \A x, y \in o : x = y}

Entry      == [id : Nat, data : Values, expires_at : Opt(Nat)]
Expiration == [when : Nat, id : Nat, key : Keys]

\* Instant::now() + duration, for an optional duration.
Deadline(ttl) == {now + d : d \in ttl}

\* Instant + Duration panics when the sum is not representable.
Overflows(ttl) == \E t \in Deadline(ttl) : t > MaxInstant

\* BTreeMap::insert: a record with the same (when, id) is replaced.
Inserted(exp, expires_at, k) ==
    {x \in exp : ~(x.id = next_id /\ x.when \in expires_at)}
        \cup {[when |-> t, id |-> next_id, key |-> k] : t \in expires_at}

\* Mutant: set forgets to clear the expiration of the value it replaces.
RemovedForgotten(exp, prev) == exp

\* BTreeMap::remove of the expiration of each entry of prev, if it has one.
Removed(exp, prev) ==
    {x \in exp : ~\E e \in prev : x.id = e.id /\ x.when \in e.expires_at}

\* State::next_expiration: the earliest Instant of the index, {} if empty.
NextExpiration(exp) ==
    {t \in {x.when : x \in exp} : \A y \in exp : t <= y.when}

\* Mutant: the comparison of purge_expired_keys is off by one.
DueStrictly(exp) == {x \in exp : x.when < now}

\* The expirations the purge loop removes: it stops at when > now.
Due(exp) == {x \in exp : x.when <= now}

\* The sleep of the background task is over.
Elapsed == \E t \in wake_at : t <= now

Init ==
    /\ entries = [k \in Keys |-> {}]
    /\ expirations = {}
    /\ next_id = 0
    /\ shutdown = FALSE
    /\ poisoned = FALSE
    /\ now = 0
    /\ task = "check"
    /\ wake_at = {}
    /\ permit = FALSE
    /\ notified = FALSE
    /\ handler = [h \in Handlers |-> "idle"]
    /\ reply = [h \in Handlers |-> {}]
    /\ guard = "held"

-----------------------------------------------------------------------------
(***************************************************************************)
(* The clients of Db: connection tasks.                                    *)
(***************************************************************************)

\* The lock is poisoned: lock().unwrap() panics in the caller.
LockPanics(h) ==
    /\ handler[h] = "idle"
    /\ poisoned
    /\ handler' = [handler EXCEPT ![h] = "panicked"]
    /\ UNCHANGED <<state, now, background, reply, guard>>

\* Db::get.  The entry's deadline is not looked at.
Get(h, k) ==
    /\ handler[h] = "idle"
    /\ ~poisoned
    /\ reply' = [reply EXCEPT ![h] = {e.data : e \in entries[k]}]
    /\ UNCHANGED <<state, now, background, handler, guard>>

\* Mutant: set compares with next_expiration after it inserted its own.
BecomesNextTooLate(ttl) ==
    \E when \in Deadline(ttl) : \A t \in NextExpiration(expirations) \cup {when} : t > when

\* The task must be told when the new deadline precedes every tracked one.
BecomesNext(ttl) ==
    \E when \in Deadline(ttl) : \A t \in NextExpiration(expirations) : t > when

\* The critical section of Db::set.
Set(h, k, v, ttl) ==
    /\ handler[h] = "idle"
    /\ ~poisoned
    /\ next_id < MaxId
    /\ ~Overflows(ttl)
    /\ next_id' = next_id + 1
    /\ expirations' = Removed(Inserted(expirations, Deadline(ttl), k), entries[k])
    /\ entries' = [entries EXCEPT ![k] =
                     {[id |-> next_id, data |-> v, expires_at |-> Deadline(ttl)]}]
    /\ handler' = [handler EXCEPT ![h] = IF BecomesNext(ttl) THEN "notify" ELSE "idle"]
    /\ UNCHANGED <<shutdown, poisoned, now, background, reply, guard>>

\* Db::set when now + duration overflows: it panics with the lock held, after
\* next_id was incremented and before anything was inserted.
SetOverflows(h, ttl) ==
    /\ handler[h] = "idle"
    /\ ~poisoned
    /\ next_id < MaxId
    /\ Overflows(ttl)
    /\ next_id' = next_id + 1
    /\ poisoned' = TRUE
    /\ handler' = [handler EXCEPT ![h] = "panicked"]
    /\ UNCHANGED <<entries, expirations, shutdown, now, background, reply, guard>>

\* Mutant: notify_waiters in place of notify_one, which stores no permit.
NotifyWaiters ==
    /\ notified' = (notified \/ task = "parked")
    /\ UNCHANGED permit

\* Notify::notify_one: the waiter is handed the notification; without a waiter
\* one permit is stored.
NotifyOne ==
    IF task = "parked" /\ ~notified
    THEN notified' = TRUE /\ UNCHANGED permit
    ELSE permit' = TRUE /\ UNCHANGED notified

\* The end of Db::set, after the mutex was released.
SetNotifies(h) ==
    /\ handler[h] = "notify"
    /\ NotifyOne
    /\ handler' = [handler EXCEPT ![h] = "idle"]
    /\ UNCHANGED <<state, now, task, wake_at, reply, guard>>

-----------------------------------------------------------------------------
(***************************************************************************)
(* DbDropGuard::drop, that is shutdown_purge_task.                         *)
(***************************************************************************)

SignalShutdown ==
    /\ guard = "held"
    /\ IF poisoned
       THEN guard' = "panicked" /\ UNCHANGED shutdown
       ELSE guard' = "notify" /\ shutdown' = TRUE
    /\ UNCHANGED <<entries, expirations, next_id, poisoned, now, background, handler, reply>>

ShutdownNotifies ==
    /\ guard = "notify"
    /\ NotifyOne
    /\ guard' = "dropped"
    /\ UNCHANGED <<state, now, task, wake_at, handler, reply>>

-----------------------------------------------------------------------------
(***************************************************************************)
(* purge_expired_tasks, the background task.                               *)
(***************************************************************************)

\* A lock of the poisoned mutex ends the task.
TaskPanics ==
    /\ task \in {"check", "purge"}
    /\ poisoned
    /\ task' = "dead"
    /\ UNCHANGED <<state, now, wake_at, permit, notified, handler, reply, guard>>

\* while !is_shutdown()
Check ==
    /\ task = "check"
    /\ ~poisoned
    /\ task' = IF shutdown THEN "done" ELSE "purge"
    /\ UNCHANGED <<state, now, wake_at, permit, notified, handler, reply, guard>>

\* purge_expired_keys: entries whose expiration has been reached are removed
\* by key, and the task learns when the next one is due.
Purge ==
    /\ task = "purge"
    /\ ~poisoned
    /\ task' = "poll"
    /\ IF shutdown
       THEN /\ wake_at' = {}
            /\ UNCHANGED <<entries, expirations>>
       ELSE /\ expirations' = expirations \ Due(expirations)
            /\ entries' = [k \in Keys |->
                    IF \E x \in Due(expirations) : x.key = k THEN {} ELSE entries[k]]
            /\ wake_at' = NextExpiration(expirations')
    /\ UNCHANGED <<next_id, shutdown, poisoned, now, permit, notified, handler, reply, guard>>

\* The first poll of select! (or of the bare notified()): a stored permit is
\* consumed, an elapsed timer ends the wait, otherwise the task parks.
Poll ==
    /\ task = "poll"
    /\ \/ permit  /\ permit' = FALSE /\ task' = "check"
       \/ Elapsed /\ UNCHANGED permit /\ task' = "check"
       \/ ~permit /\ ~Elapsed /\ UNCHANGED permit /\ task' = "parked"
    /\ UNCHANGED <<state, now, wake_at, notified, handler, reply, guard>>

\* The parked task was handed a notification.
WakeNotified ==
    /\ task = "parked"
    /\ notified
    /\ notified' = FALSE
    /\ task' = "check"
    /\ UNCHANGED <<state, now, wake_at, permit, handler, reply, guard>>

\* The timer wins the select!: dropping Notified passes a notification it
\* already holds on, and with no other waiter that stores a permit.
WakeElapsed ==
    /\ task = "parked"
    /\ Elapsed
    /\ permit' = (permit \/ notified)
    /\ notified' = FALSE
    /\ task' = "check"
    /\ UNCHANGED <<state, now, wake_at, handler, reply, guard>>

Tick ==
    /\ now < Horizon
    /\ now' = now + 1
    /\ UNCHANGED <<state, background, handler, reply, guard>>

-----------------------------------------------------------------------------
Task == TaskPanics \/ Check \/ Purge \/ Poll \/ WakeNotified \/ WakeElapsed

Call(h) ==
    \/ LockPanics(h)
    \/ \E k \in Keys : Get(h, k)
    \/ \E k \in Keys, v \in Values, ttl \in Opt(Durations) : Set(h, k, v, ttl)
    \/ \E ttl \in Opt(Durations) : SetOverflows(h, ttl)

Next ==
    \/ \E h \in Handlers : Call(h) \/ SetNotifies(h)
    \/ SignalShutdown
    \/ ShutdownNotifies
    \/ Task
    \/ Tick

\* A woken task is polled again, and code between two awaits runs to its end.
\* Nothing obliges a client to send a command, the guard to drop or the clock
\* to move.
Fairness ==
    /\ WF_vars(Task)
    /\ \A h \in Handlers : WF_vars(SetNotifies(h))
    /\ WF_vars(ShutdownNotifies)

Spec == Init /\ [][Next]_vars
FairSpec == Spec /\ Fairness

-----------------------------------------------------------------------------
TypeOK ==
    /\ entries \in [Keys -> Opt(Entry)]
    /\ expirations \subseteq Expiration
    /\ next_id \in Nat
    /\ shutdown \in BOOLEAN
    /\ poisoned \in BOOLEAN
    /\ now \in Nat
    /\ task \in {"check", "purge", "poll", "parked", "done", "dead"}
    /\ wake_at \in Opt(Nat)
    /\ permit \in BOOLEAN
    /\ notified \in BOOLEAN
    /\ handler \in [Handlers -> {"idle", "notify", "panicked"}]
    /\ reply \in [Handlers -> Opt(Values)]
    /\ guard \in {"held", "notify", "dropped", "panicked"}

(***************************************************************************)
(* The index and the entries agree in both directions: each tracked        *)
(* expiration names the entry it was made for, and each entry with a       *)
(* deadline is tracked.  If set removed the wrong expiration, or forgot    *)
(* one, the purge would later remove a value that replaced it, or an       *)
(* expired value would stay forever (db.rs:194-216, 318-328).              *)
(***************************************************************************)
ExpirationsMatchEntries ==
    /\ \A x \in expirations :
          \E e \in entries[x.key] : e.id = x.id /\ e.expires_at = {x.when}
    /\ \A k \in Keys : \A e \in entries[k] : \A t \in e.expires_at :
          [when |-> t, id |-> e.id, key |-> k] \in expirations

\* An identifier is given to one SET only, so (when, id) never collides.
IdsAreFresh ==
    /\ \A k \in Keys : \A e \in entries[k] : e.id < next_id
    /\ \A j, k \in Keys : \A e \in entries[j], f \in entries[k] : e.id = f.id => j = k

\* Something will still take the task out of its wait: a permit it has yet to
\* consume, a notification it was handed, or a caller about to notify.
WakeUpComing ==
    \/ task \in {"purge", "poll"} /\ permit
    \/ task = "parked" /\ notified
    \/ \E h \in Handlers : handler[h] = "notify"
    \/ guard = "notify"

(***************************************************************************)
(* No lost wake-up: a waiting task either sleeps no longer than until the  *)
(* earliest tracked expiration or has a wake-up on the way.  set decides   *)
(* under the lock whether to notify and notifies after releasing it, while *)
(* the task computes its sleep in another critical section (db.rs:188-227, *)
(* 355-375).                                                               *)
(***************************************************************************)
NoLostWakeup ==
    task \in {"poll", "parked"} /\ ~shutdown =>
        \/ WakeUpComing
        \/ \A x \in expirations : \E t \in wake_at : t <= x.when

(***************************************************************************)
(* The shutdown signal is not lost: after the flag is set the task cannot  *)
(* be about to wait without a wake-up on the way, although it may have     *)
(* read the flag before it was set (db.rs:282-293, 357-373).               *)
(***************************************************************************)
ShutdownNotLost ==
    shutdown /\ task \in {"purge", "poll", "parked"} => WakeUpComing

-----------------------------------------------------------------------------
\* What a client sees of the entries: identifiers are the server's own.
store == [k \in Keys |->
            {[data |-> e.data, expires_at |-> e.expires_at] : e \in entries[k]}]

\* The abstract store, with the identifiers, the index, the background task,
\* the notifications and the mutex hidden.
KV == INSTANCE KeyValue WITH store <- store

(***************************************************************************)
(* Db implements KeyValue: a purge removes exactly what is due by the      *)
(* clock, whatever was set, replaced and re-set in between, and every      *)
(* other step of the task, the notifications and the shutdown is invisible *)
(* to clients (db.rs:153-228, 299-331).                                    *)
(***************************************************************************)
ImplementsKeyValue == KV!Spec

Expired(k) == \E e \in entries[k] : \E t \in e.expires_at : t <= now

(***************************************************************************)
(* An expired value does not stay: it is purged or replaced, unless the    *)
(* database shuts down or a panic poisoned the mutex (db.rs:355-375).      *)
(***************************************************************************)
ExpiredIsPurged ==
    \A k \in Keys : Expired(k) ~> (~Expired(k) \/ shutdown \/ poisoned)

(***************************************************************************)
(* Once the shutdown flag is set the background task ends, whatever it was *)
(* doing and whatever its Notify held (db.rs:282-293, 355-377).            *)
(***************************************************************************)
TaskStopsAfterShutdown == shutdown ~> task \in {"done", "dead"}

(***************************************************************************)
(* The task does not spin: when the clock and the clients rest (and both   *)
(* do, at their bounds) it comes to rest too, because it sleeps until an   *)
(* instant strictly after the clock it purged by (db.rs:316-322, 366-369). *)
(***************************************************************************)
TaskComesToRest == <>[](task \in {"parked", "done", "dead"})

-----------------------------------------------------------------------------
(***************************************************************************)
(* What the documentation of Db says: the background task runs until all   *)
(* instances of Db are dropped (db.rs:27-30).  The code does not ensure it.*)
(***************************************************************************)
TaskRunsUntilShutdown == task \in {"done", "dead"} => shutdown
=============================================================================
