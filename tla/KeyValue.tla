------------------------------ MODULE KeyValue ------------------------------
(***************************************************************************)
(* What mini-redis promises of its key-value space, with no background     *)
(* task, no expiration index, no mutex and no wake-ups: each operation is  *)
(* one atomic step on a map from keys to values with optional deadlines,   *)
(* and from time to time everything whose deadline has passed goes away at *)
(* once.  Module Db shows that the code implements this.                   *)
(***************************************************************************)
EXTENDS Integers

CONSTANTS
    Keys,       \* the keys clients use
    Values,     \* the payloads clients store
    Handlers,   \* the connection tasks that call the store
    Durations   \* the time-to-live values a SET may carry

VARIABLES
    store,      \* store[k] is {} or the one record stored under k
    now,        \* the reading of the monotonic clock
    reply       \* reply[h] is what the last GET of h returned

vars == <<store, now, reply>>

\* Rust's Option<T>: the empty set is None, a singleton is Some.
Opt(S) == {o \in SUBSET S : \A x, y \in o : x = y}

\* The deadlines of an optional duration, counted from now.
Deadline(ttl) == {now + d : d \in ttl}

Init ==
    /\ store = [k \in Keys |-> {}]
    /\ now = 0
    /\ reply = [h \in Handlers |-> {}]

Set(k, v, ttl) ==
    /\ store' = [store EXCEPT ![k] = {[data |-> v, expires_at |-> Deadline(ttl)]}]
    /\ UNCHANGED <<now, reply>>

Get(h, k) ==
    /\ reply' = [reply EXCEPT ![h] = {e.data : e \in store[k]}]
    /\ UNCHANGED <<store, now>>

\* Everything whose deadline has been reached is removed, nothing else is.
Expire ==
    /\ store' = [k \in Keys |-> {e \in store[k] : \A t \in e.expires_at : t > now}]
    /\ UNCHANGED <<now, reply>>

Tick ==
    /\ now' = now + 1
    /\ UNCHANGED <<store, reply>>

Next ==
    \/ \E k \in Keys, v \in Values, ttl \in Opt(Durations) : Set(k, v, ttl)
    \/ \E h \in Handlers, k \in Keys : Get(h, k)
    \/ Expire
    \/ Tick

Spec == Init /\ [][Next]_vars
=============================================================================
