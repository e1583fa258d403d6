----------------------------- MODULE MiniRedis -----------------------------
(***************************************************************************)
(* The server and the database together: the handlers of Server are the    *)
(* users of Db.  A command is read and executed (src/cmd) in one step of   *)
(* both, a panic inside the database unwinds its handler, and the guard    *)
(* whose drop shuts the database down belongs to the Listener.             *)
(*                                                                         *)
(* The pub/sub half of the database takes part with its use of the mutex.  *)
(***************************************************************************)
EXTENDS Integers, FiniteSets

CONSTANTS
    Conns, MaxConnections, MaxBackoff,                      \* as in Server
    Keys, Values, Durations, MaxInstant, Horizon, MaxId     \* as in Db

ASSUME ConnsAssumption     == IsFiniteSet(Conns)
ASSUME LimitsAssumption    == MaxConnections \in Nat \ {0} /\ MaxBackoff \in Nat
ASSUME DurationsAssumption == Durations \subseteq Nat
ASSUME BoundsAssumption    == MaxInstant \in Nat /\ Horizon \in Nat /\ MaxId \in Nat

VARIABLES
    \* Server
    listener, backoff, failures, permits, taken, run,
    handler, subscribed, received, owed, outcome, sent, closed,
    \* Db; user[c] is where the handler of c is in it
    entries, expirations, next_id, shutdown, poisoned, now,
    task, wake_at, permit, notified, user, reply, guard

server == <<listener, backoff, failures, permits, taken, run,
            handler, subscribed, received, owed, outcome, sent, closed>>
database == <<entries, expirations, next_id, shutdown, poisoned, now,
              task, wake_at, permit, notified, user, reply, guard>>
vars == <<server, database>>

S == INSTANCE Server
D == INSTANCE Db WITH Handlers <- Conns, handler <- user

Init == S!Init /\ D!Init

-----------------------------------------------------------------------------
(***************************************************************************)
(* The commands of a connection.                                           *)
(***************************************************************************)

\* Get::apply and Set::apply, up to the write of the reply.
Get(c) == \E k \in Keys : D!Get(c, k)

Set(c) == \E k \in Keys, v \in Values, ttl \in D!Opt(Durations) : D!Set(c, k, v, ttl)

\* Publish::apply and subscribe_to_channel lock the database.
Locks == ~poisoned /\ UNCHANGED database

\* Unknown::apply, and what the subscribed loop answers, do without it.
Bypasses == UNCHANGED database

\* Command::apply
Apply(c) ==
    \/ sent[c] = {"request"} /\ ~subscribed[c] /\ (Get(c) \/ Set(c) \/ Locks)
    \/ sent[c] = {"request"} /\ Bypasses
    \/ sent[c] = {"subscribe"} /\ Locks

Execute(c) == S!Execute(c) /\ Apply(c)

\* The mutex is poisoned, or Db::set poisons it.
Panic(c) ==
    /\ S!Panic(c)
    /\ \/ D!LockPanics(c)
       \/ sent[c] = {"request"} /\ \E ttl \in D!Opt(Durations) : D!SetOverflows(c, ttl)

Read(c) ==
    \/ Execute(c)
    \/ Panic(c)
    \/ (S!Reject(c) \/ S!HangUp(c) \/ S!Reset(c)) /\ UNCHANGED database

\* Db::set notifies the purge task before it returns.
SetNotifies(c) == D!SetNotifies(c) /\ UNCHANGED server

Write(c) ==
    /\ user[c] # "notify"
    /\ S!Write(c)
    /\ UNCHANGED database

ReceiveShutdown(c) == S!ReceiveShutdown(c) /\ UNCHANGED database

Proceed(c) == (S!Loop(c) \/ S!Drop(c)) /\ UNCHANGED database

-----------------------------------------------------------------------------
(***************************************************************************)
(* The function run, and the guard.                                        *)
(***************************************************************************)

ShutDown == S!ShutDown /\ UNCHANGED database

\* Mutant: run takes the guard out of the Listener and drops it with the
\* sender of the shutdown signal.
DropGuardEarly ==
    /\ run \in {"release", "wait", "returned"}
    /\ D!SignalShutdown
    /\ UNCHANGED server

\* run returns and drops the Listener, its DbDropGuard first.
DropGuard ==
    /\ run = "returned"
    /\ D!SignalShutdown
    /\ UNCHANGED server

ShutdownNotifies == D!ShutdownNotifies /\ UNCHANGED server

Task == D!Task /\ UNCHANGED server

-----------------------------------------------------------------------------
Next ==
    \/ \E c \in Conns :
         \/ Read(c) \/ SetNotifies(c) \/ Write(c) \/ ReceiveShutdown(c) \/ Proceed(c)
         \/ (S!Message(c) \/ S!Peer(c)) /\ UNCHANGED database
    \/ (S!Listen \/ S!ShutdownFires) /\ UNCHANGED database
    \/ ShutDown
    \/ DropGuard
    \/ ShutdownNotifies
    \/ Task
    \/ D!Tick /\ UNCHANGED server

Spec == Init /\ [][Next]_vars

\* As in Server and Db: tasks run, a branch of a select! that is ready again
\* and again is taken, peers read what is written to them.
Fairness ==
    /\ WF_vars(ShutDown)
    /\ WF_vars(DropGuard)
    /\ WF_vars(ShutdownNotifies)
    /\ WF_vars(Task)
    /\ \A c \in Conns : /\ WF_vars(Proceed(c))
                        /\ WF_vars(SetNotifies(c))
                        /\ WF_vars(Write(c))
                        /\ SF_vars(Read(c))
                        /\ SF_vars(ReceiveShutdown(c))

FairSpec == Spec /\ Fairness

-----------------------------------------------------------------------------
\* Everything proved of the server and of the database holds of the two.
ImplementsServer == S!Spec
ImplementsDb == D!Spec

(***************************************************************************)
(* The purge task ends by itself only when run has returned and no handler *)
(* holds a Db any more: no connection is ever served by a database that    *)
(* does not expire its values, unless the mutex is poisoned (db.rs:27-30,  *)
(* 120-125; server.rs:188-208).                                            *)
(***************************************************************************)
TaskOutlivesHandlers == task = "done" => run = "returned" /\ S!HoldsDb = {}

(***************************************************************************)
(* Once the database is shutting down its entries stay as they are: no     *)
(* command is still being executed, and a purge that was under way leaves  *)
(* them alone (db.rs:282-293, 299-306; server.rs:204-208).                 *)
(***************************************************************************)
FrozenAfterShutdown == [][shutdown => UNCHANGED <<entries, expirations, next_id>>]_vars

(***************************************************************************)
(* A shutdown reaches everybody: run returns once the handlers have gone,  *)
(* and then the purge task ends, unless a panic has poisoned the mutex, in *)
(* which case the guard panics and nobody tells the task (server.rs:188-   *)
(* 208; db.rs:120-125, 282-293, 355-377).                                  *)
(***************************************************************************)
EverythingEnds == run # "serving" ~> run = "returned" /\ (task = "done" \/ poisoned)
=============================================================================
