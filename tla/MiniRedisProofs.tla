-------------------------- MODULE MiniRedisProofs --------------------------
(***************************************************************************)
(* Proofs about module MiniRedis, for every finite set of connections and  *)
(* all bounds.  The server and the database together do what each does on  *)
(* its own, so that the theorems of ServerProofs and DbProofs carry over;  *)
(* what holds of the two together follows from those.                      *)
(***************************************************************************)
EXTENDS MiniRedis, TLAPS

SP == INSTANCE ServerProofs

LEMMA ConnsFinite == SP!IsFiniteSet(Conns)
BY ConnsAssumption DEF SP!IsFiniteSet, IsFiniteSet

-----------------------------------------------------------------------------
(***************************************************************************)
(* Each step is one of the server, of the database, or of both.            *)
(***************************************************************************)

LEMMA CommandSteps ==
    ASSUME NEW c \in Conns, Read(c) \/ Write(c) \/ SetNotifies(c) \/ ReceiveShutdown(c) \/ Proceed(c)
    PROVE  [S!Next]_server /\ [D!Next]_database
<1>1. CASE Execute(c)
  <2>1. S!Next
    BY <1>1 DEF Execute, S!Next, S!Handle, S!Read
  <2>2. CASE UNCHANGED database
    BY <2>1, <2>2
  <2>3. CASE Get(c)
    BY <2>1, <2>3 DEF Get, D!Next, D!Call
  <2>4. CASE Set(c)
    BY <2>1, <2>4 DEF Set, D!Next, D!Call
  <2> QED  BY <1>1, <2>2, <2>3, <2>4 DEF Execute, Apply, Locks, Bypasses
<1>2. CASE Panic(c)
  <2>1. S!Next
    BY <1>2 DEF Panic, S!Next, S!Handle, S!Read
  <2>2. D!Next
    BY <1>2 DEF Panic, D!Next, D!Call
  <2> QED  BY <2>1, <2>2
<1>3. CASE (S!Reject(c) \/ S!HangUp(c) \/ S!Reset(c)) /\ UNCHANGED database
  BY <1>3 DEF S!Next, S!Handle, S!Read
<1>4. CASE Write(c)
  BY <1>4 DEF Write, S!Next, S!Handle
<1>5. CASE SetNotifies(c)
  BY <1>5 DEF SetNotifies, D!Next
<1>6. CASE ReceiveShutdown(c)
  BY <1>6 DEF ReceiveShutdown, S!Next, S!Handle
<1>7. CASE Proceed(c)
  BY <1>7 DEF Proceed, S!Next, S!Handle
<1> QED  BY <1>1, <1>2, <1>3, <1>4, <1>5, <1>6, <1>7 DEF Read

LEMMA Steps == [Next]_vars => [S!Next]_server /\ [D!Next]_database
<1> SUFFICES ASSUME [Next]_vars
             PROVE  [S!Next]_server /\ [D!Next]_database
  OBVIOUS
<1>1. ASSUME NEW c \in Conns,
             Read(c) \/ SetNotifies(c) \/ Write(c) \/ ReceiveShutdown(c) \/ Proceed(c)
      PROVE  [S!Next]_server /\ [D!Next]_database
  BY <1>1, CommandSteps
<1>2. ASSUME NEW c \in Conns, (S!Message(c) \/ S!Peer(c)) /\ UNCHANGED database
      PROVE  [S!Next]_server /\ [D!Next]_database
  BY <1>2 DEF S!Next, S!Handle
<1>3. CASE (S!Listen \/ S!ShutdownFires) /\ UNCHANGED database
  BY <1>3 DEF S!Next
<1>4. CASE ShutDown
  BY <1>4 DEF ShutDown, S!Next
<1>5. CASE DropGuard
  BY <1>5 DEF DropGuard, D!Next
<1>6. CASE ShutdownNotifies
  BY <1>6 DEF ShutdownNotifies, D!Next
<1>7. CASE Task
  BY <1>7 DEF Task, D!Next
<1>8. CASE D!Tick /\ UNCHANGED server
  BY <1>8 DEF D!Next
<1>9. CASE UNCHANGED vars
  BY <1>9 DEF vars
<1> QED  BY <1>1, <1>2, <1>3, <1>4, <1>5, <1>6, <1>7, <1>8, <1>9 DEF Next

LEMMA SameVars ==
    /\ UNCHANGED server <=> UNCHANGED S!vars
    /\ UNCHANGED database <=> UNCHANGED D!vars
BY DEF server, S!vars, S!listening, S!conn, S!peer, database, D!vars, D!state, D!background

\* ServerProofs is about an instance of its own; the definitions are the same.
LEMMA SameServer == S!Spec <=> SP!Spec
<1>1. S!Init <=> SP!Init
  BY DEF S!Init, SP!Init
<1>2. [S!Next]_S!vars <=> [SP!Next]_SP!vars
  BY DEF S!Next, SP!Next, S!Listen, SP!Listen, S!Handle, SP!Handle, S!Drop, SP!Drop, S!Read, SP!Read,
       S!Write, SP!Write, S!Peer, SP!Peer, S!ShutDown, SP!ShutDown, S!Acquire, SP!Acquire,
       S!Accept, SP!Accept, S!AcceptFails, SP!AcceptFails, S!BackoffElapses,
       SP!BackoffElapses, S!FreshBackoff, SP!FreshBackoff, S!Loop, SP!Loop, S!Ends, SP!Ends,
       S!Execute, SP!Execute, S!Reject, SP!Reject, S!Panic, SP!Panic, S!HangUp, SP!HangUp,
       S!Reset, SP!Reset, S!Message, SP!Message, S!ReceiveShutdown, SP!ReceiveShutdown,
       S!Signalled, SP!Signalled, S!WriteCompletes, SP!WriteCompletes, S!WriteFails,
       SP!WriteFails, S!DropPermit, SP!DropPermit, S!DropDb, SP!DropDb, S!DropComplete,
       SP!DropComplete, S!PeerConnects, SP!PeerConnects, S!PeerSends, SP!PeerSends,
       S!PeerCloses, SP!PeerCloses, S!ShutdownFires, SP!ShutdownFires, S!Signal, SP!Signal,
       S!Release, SP!Release, S!Return, SP!Return, S!HoldsComplete, SP!HoldsComplete,
       S!HoldsDb, SP!HoldsDb, S!HoldsPermit, SP!HoldsPermit, S!Running, SP!Running, S!Kinds,
       SP!Kinds, S!vars, SP!vars, S!listening, SP!listening, S!conn, SP!conn, S!peer,
       SP!peer
<1> QED  BY <1>1, <1>2, PTL DEF S!Spec, SP!Spec

(***************************************************************************)
(* The server, with its database, behaves like Server.                     *)
(***************************************************************************)
THEOREM MiniRedisImplementsServer == Spec => ImplementsServer
<1>1. Init => S!Init
  BY DEF Init
<1>2. [Next]_vars => [S!Next]_S!vars
  BY Steps, SameVars
<1> QED  BY <1>1, <1>2, PTL DEF Spec, ImplementsServer, S!Spec

(***************************************************************************)
(* The database behaves like Db with the connections as its users and, as  *)
(* DbDropGuard, the one that run drops.                                    *)
(***************************************************************************)
THEOREM MiniRedisImplementsDb == Spec => ImplementsDb
<1>1. Init => D!Init
  BY DEF Init
<1>2. [Next]_vars => [D!Next]_D!vars
  BY Steps, SameVars
<1> QED  BY <1>1, <1>2, PTL DEF Spec, ImplementsDb, D!Spec

LEMMA ServerInv == Spec => [](S!ListenerStops /\ S!NoHandlerOutlivesRun)
<1>1. SP!Spec => []SP!ReturnInv
  BY SP!ReturnInvHolds, ConnsFinite, LimitsAssumption
<1>2. SP!ReturnInv => S!ListenerStops /\ S!NoHandlerOutlivesRun
  BY DEF SP!ReturnInv, SP!ListenerStops, SP!NoHandlerOutlivesRun, SP!HoldsDb, SP!HoldsPermit,
         SP!Running, S!ListenerStops, S!NoHandlerOutlivesRun, S!HoldsDb, S!HoldsPermit, S!Running
<1> QED  BY <1>1, <1>2, MiniRedisImplementsServer, SameServer, PTL DEF ImplementsServer

-----------------------------------------------------------------------------
(***************************************************************************)
(* The end: what the guard says, and when it says it.                      *)
(***************************************************************************)

GuardInv ==
    /\ guard # "held" => run = "returned"
    /\ shutdown => guard # "held"
    /\ task = "done" => shutdown

\* run has returned for good: the listener has stopped before.
LEMMA ReturnedStays ==
    ASSUME S!ListenerStops, run = "returned", [S!Next]_server
    PROVE  run' = "returned"
<1>1. listener \in {"failed", "stopped"}
  BY DEF S!ListenerStops
<1> QED
  BY <1>1 DEF S!Next, S!Listen, S!Handle, S!Drop, S!Read, S!Write, S!Peer, S!ShutDown, S!Acquire,
     S!Accept, S!AcceptFails, S!BackoffElapses, S!Loop, S!Execute, S!Reject, S!Panic, S!HangUp,
     S!Reset, S!Message, S!ReceiveShutdown, S!WriteCompletes, S!WriteFails, S!DropPermit,
     S!DropDb, S!DropComplete, S!PeerConnects, S!PeerSends, S!PeerCloses, S!ShutdownFires,
     S!Signal, S!Release, S!Return, server

\* Only the drop of the guard takes it away, and only with the guard does the
\* flag come; the task ends by itself only when it sees the flag.
LEMMA GuardSteps ==
    ASSUME [Next]_vars
    PROVE  /\ guard' # "held" => guard # "held" \/ run = "returned"
           /\ guard # "held" => guard' # "held"
           /\ shutdown' => shutdown \/ guard' # "held"
           /\ shutdown => shutdown'
           /\ task' = "done" => task = "done" \/ shutdown
<1>1. ASSUME NEW c \in Conns,
             Read(c) \/ SetNotifies(c) \/ Write(c) \/ ReceiveShutdown(c) \/ Proceed(c)
      PROVE  UNCHANGED <<guard, shutdown, task>>
  BY <1>1 DEF Read, Execute, Apply, Get, Set, Locks, Bypasses, Panic, SetNotifies, Write,
     ReceiveShutdown, Proceed, D!Get, D!Set, D!LockPanics, D!SetOverflows, D!SetNotifies,
     D!state, D!background, database
<1>2. CASE DropGuard
  BY <1>2 DEF DropGuard, D!SignalShutdown, D!background
<1>3. CASE ShutdownNotifies
  BY <1>3 DEF ShutdownNotifies, D!ShutdownNotifies, D!state
<1>4. CASE Task
  BY <1>4 DEF Task, D!Task, D!TaskPanics, D!Check, D!Purge, D!Poll, D!WakeNotified,
     D!WakeElapsed, D!state
<1>5. CASE D!Tick
  BY <1>5 DEF D!Tick, D!state, D!background
<1>6. CASE UNCHANGED database
  BY <1>6 DEF database
<1> QED  BY <1>1, <1>2, <1>3, <1>4, <1>5, <1>6 DEF Next, ShutDown, vars

LEMMA GuardInvHolds == Spec => []GuardInv
<1>1. Init => GuardInv
  BY DEF Init, D!Init, GuardInv
<1>2. GuardInv /\ S!ListenerStops /\ [Next]_vars => GuardInv'
  BY GuardSteps, ReturnedStays, Steps DEF GuardInv
<1> QED  BY <1>1, <1>2, ServerInv, PTL DEF Spec

(***************************************************************************)
(* The purge task ends by itself only when run has returned and no handler *)
(* holds a Db any more.                                                    *)
(***************************************************************************)
THEOREM TaskOutlives == Spec => []TaskOutlivesHandlers
<1>1. GuardInv /\ S!NoHandlerOutlivesRun => TaskOutlivesHandlers
  BY DEF GuardInv, S!NoHandlerOutlivesRun, TaskOutlivesHandlers
<1> QED  BY <1>1, GuardInvHolds, ServerInv, PTL

(***************************************************************************)
(* Once the database is shutting down its entries stay as they are.        *)
(***************************************************************************)
THEOREM Frozen == Spec => FrozenAfterShutdown
<1>1. ASSUME GuardInv, S!NoHandlerOutlivesRun, [Next]_vars, shutdown
      PROVE  UNCHANGED <<entries, expirations, next_id>>
  <2>1. \A c \in Conns : handler[c] # "select"
    BY <1>1 DEF GuardInv, S!NoHandlerOutlivesRun, S!HoldsDb, S!HoldsPermit, S!Running
  <2>2. ASSUME NEW c \in Conns,
               Read(c) \/ SetNotifies(c) \/ Write(c) \/ ReceiveShutdown(c) \/ Proceed(c)
        PROVE  UNCHANGED <<entries, expirations, next_id>>
    BY <2>1, <2>2 DEF Read, Execute, Panic, S!Execute, S!Panic, SetNotifies, Write,
       ReceiveShutdown, Proceed, D!SetNotifies, D!state, database
  <2>3. CASE DropGuard
    BY <2>3 DEF DropGuard, D!SignalShutdown
  <2>4. CASE ShutdownNotifies
    BY <2>4 DEF ShutdownNotifies, D!ShutdownNotifies, D!state
  <2>5. CASE Task
    BY <1>1, <2>5 DEF Task, D!Task, D!TaskPanics, D!Check, D!Purge, D!Poll, D!WakeNotified,
       D!WakeElapsed, D!state
  <2>6. CASE D!Tick
    BY <2>6 DEF D!Tick, D!state
  <2>7. CASE UNCHANGED database
    BY <2>7 DEF database
  <2> QED  BY <1>1, <2>2, <2>3, <2>4, <2>5, <2>6, <2>7 DEF Next, ShutDown, vars
<1>2. GuardInv /\ S!NoHandlerOutlivesRun /\ [Next]_vars
        => [shutdown => UNCHANGED <<entries, expirations, next_id>>]_vars
  BY <1>1
<1> QED  BY <1>2, GuardInvHolds, ServerInv, PTL DEF Spec, FrozenAfterShutdown
=============================================================================
