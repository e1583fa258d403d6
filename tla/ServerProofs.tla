---------------------------- MODULE ServerProofs ----------------------------
(***************************************************************************)
(* Proofs about module Server, for every finite set of connections, every  *)
(* number of permits and every back-off limit.                             *)
(***************************************************************************)
EXTENDS Server, FiniteSetTheorems, TLAPS

-----------------------------------------------------------------------------
(***************************************************************************)
(* Counting the handlers that hold a permit.                               *)
(***************************************************************************)

LEMMA SubsetOfConns ==
    ASSUME NEW S \in SUBSET Conns
    PROVE  IsFiniteSet(S) /\ Cardinality(S) \in Nat
BY ConnsAssumption, FS_Subset, FS_CardinalityType

LEMMA HoldsPermitCount == HoldsPermit \in SUBSET Conns /\ Cardinality(HoldsPermit) \in Nat
<1>1. HoldsPermit \in SUBSET Conns
  BY DEF HoldsPermit, Running
<1> QED  BY <1>1, SubsetOfConns

\* A holder of a permit is counted.
LEMMA HolderCounts ==
    ASSUME NEW c \in HoldsPermit
    PROVE  Cardinality(HoldsPermit) >= 1
<1>1. Cardinality(HoldsPermit \ {c}) \in Nat
  BY HoldsPermitCount, SubsetOfConns
<1>2. Cardinality(HoldsPermit \ {c}) = Cardinality(HoldsPermit) - 1
  BY HoldsPermitCount, SubsetOfConns, FS_RemoveElement
<1> QED  BY <1>1, <1>2, HoldsPermitCount

-----------------------------------------------------------------------------
(***************************************************************************)
(* Types and permits.  That the semaphore never exceeds its initial count  *)
(* is only true because permits are conserved, so both are proved at once. *)
(***************************************************************************)

PermitInv == TypeOK /\ TakenWhileAccepting /\ PermitsConserved

LEMMA PermitInvInit == Init => PermitInv
<1> SUFFICES ASSUME Init
             PROVE  PermitInv
  OBVIOUS
<1>1. HoldsPermit = {}
  BY DEF Init, HoldsPermit, Running
<1>2. PermitsConserved
  BY <1>1, FS_EmptySet, LimitsAssumption DEF Init, PermitsConserved
<1>3. /\ listener \in {"acquire", "accept", "backoff", "failed", "stopped"}
      /\ backoff \in Nat \ {0} /\ failures \in Nat /\ permits \in 0..MaxConnections
      /\ run \in {"serving", "signal", "release", "wait", "returned"}
  BY LimitsAssumption DEF Init
<1>4. /\ handler \in [Conns -> {"absent", "backlog", "loop", "select", "reply",
                                "drop_permit", "drop_db", "drop_complete", "gone"}]
      /\ outcome \in [Conns -> {"none", "ok", "error", "panic"}]
      /\ sent \in [Conns -> SUBSET Kinds]
  BY DEF Init
<1>5. /\ taken \in BOOLEAN
      /\ subscribed \in [Conns -> BOOLEAN] /\ received \in [Conns -> BOOLEAN]
      /\ owed \in [Conns -> BOOLEAN]
      /\ closed \in [Conns -> {"no", "between", "within"}]
  BY DEF Init
<1>6. TakenWhileAccepting
  BY DEF Init, TakenWhileAccepting
<1> QED  BY <1>2, <1>3, <1>4, <1>5, <1>6 DEF PermitInv, TypeOK

\* Nothing about permits changes in a step that keeps the set of holders.
LEMMA SameHolders ==
    ASSUME PermitsConserved, HoldsPermit' = HoldsPermit, UNCHANGED <<permits, taken>>
    PROVE  PermitsConserved'
BY DEF PermitsConserved

\* A handler that stays within, or outside, the part of its life in which it
\* holds the permit.
LEMMA HolderStays ==
    ASSUME TypeOK, NEW c \in Conns, NEW pc, handler' = [handler EXCEPT ![c] = pc],
           (c \in HoldsPermit) <=> pc \in {"loop", "select", "reply", "drop_permit"}
    PROVE  HoldsPermit' = HoldsPermit
BY DEF TypeOK, HoldsPermit, Running

LEMMA EndsType ==
    ASSUME TypeOK, NEW c \in Conns, NEW how \in {"ok", "error", "panic"}, Ends(c, how)
    PROVE  /\ handler' \in [Conns -> {"absent", "backlog", "loop", "select", "reply",
                                      "drop_permit", "drop_db", "drop_complete", "gone"}]
           /\ outcome' \in [Conns -> {"none", "ok", "error", "panic"}]
BY DEF TypeOK, Ends

LEMMA AcquireInv ==
    ASSUME PermitInv, Acquire
    PROVE  PermitInv'
<1> USE DEF PermitInv
<1>1. TypeOK'
  BY LimitsAssumption DEF TypeOK, Acquire, conn, peer
<1>2. HoldsPermit' = HoldsPermit
  BY DEF Acquire, conn, HoldsPermit, Running
<1>3. ~taken /\ taken' /\ permits' = permits - 1 /\ permits \in Nat
  BY DEF Acquire, TakenWhileAccepting, TypeOK
<1>4. PermitsConserved'
  BY <1>2, <1>3, HoldsPermitCount, LimitsAssumption DEF PermitsConserved
<1>5. TakenWhileAccepting'
  BY <1>3 DEF Acquire, TakenWhileAccepting
<1> QED  BY <1>1, <1>4, <1>5

LEMMA AcceptInv ==
    ASSUME PermitInv, NEW c \in Conns, Accept(c)
    PROVE  PermitInv'
<1> USE DEF PermitInv
<1>1. TypeOK'
  <2>1. handler' \in [Conns -> {"absent", "backlog", "loop", "select", "reply",
                               "drop_permit", "drop_db", "drop_complete", "gone"}]
    BY DEF TypeOK, Accept
  <2>2. /\ listener' \in {"acquire", "accept", "backoff", "failed", "stopped"}
        /\ backoff' \in Nat \ {0} /\ failures' \in Nat
    BY DEF Accept, FreshBackoff
  <2>4. taken' \in BOOLEAN
    BY DEF Accept
  <2>3. UNCHANGED <<permits, run, subscribed, received, owed, outcome, sent, closed>>
    BY DEF Accept, peer
  <2> QED  BY <2>1, <2>2, <2>3, <2>4 DEF TypeOK
<1>2. HoldsPermit' = HoldsPermit \cup {c} /\ c \notin HoldsPermit
  BY DEF TypeOK, Accept, HoldsPermit, Running
<1>3. Cardinality(HoldsPermit') = Cardinality(HoldsPermit) + 1
  BY <1>2, HoldsPermitCount, SubsetOfConns, FS_AddElement
<1>4. taken /\ ~taken' /\ UNCHANGED permits /\ permits \in Nat
  BY DEF Accept, TakenWhileAccepting, TypeOK
<1>5. PermitsConserved'
  BY <1>3, <1>4, HoldsPermitCount, LimitsAssumption DEF PermitsConserved
<1>6. TakenWhileAccepting'
  BY <1>4 DEF Accept, TakenWhileAccepting
<1> QED  BY <1>1, <1>5, <1>6

LEMMA DropPermitInv ==
    ASSUME PermitInv, NEW c \in Conns, DropPermit(c)
    PROVE  PermitInv'
<1> USE DEF PermitInv
<1>1. HoldsPermit' = HoldsPermit \ {c} /\ c \in HoldsPermit
  BY DEF TypeOK, DropPermit, HoldsPermit, Running
<1>2. Cardinality(HoldsPermit') = Cardinality(HoldsPermit) - 1
  BY <1>1, HoldsPermitCount, SubsetOfConns, FS_RemoveElement
<1>3. UNCHANGED taken /\ permits' = permits + 1 /\ permits \in Nat
  BY DEF DropPermit, TypeOK
<1>4. PermitsConserved'
  BY <1>2, <1>3, HoldsPermitCount, LimitsAssumption DEF PermitsConserved
<1>5. permits' \in 0..MaxConnections
  <2>1. Cardinality(HoldsPermit) >= 1
    BY <1>1, HolderCounts
  <2>2. permits + Cardinality(HoldsPermit) <= MaxConnections
    BY <1>3, HoldsPermitCount, LimitsAssumption DEF PermitsConserved
  <2> QED  BY <1>3, <2>1, <2>2, HoldsPermitCount, LimitsAssumption
<1>6. TypeOK'
  BY <1>5 DEF TypeOK, DropPermit, listening, peer
<1>7. TakenWhileAccepting'
  BY DEF DropPermit, TakenWhileAccepting, listening
<1> QED  BY <1>4, <1>6, <1>7

\* The other steps of a handler that runs: it keeps its permit.
LEMMA HandlerRunsInv ==
    ASSUME PermitInv, NEW c \in Conns,
           Loop(c) \/ Read(c) \/ Message(c) \/ ReceiveShutdown(c) \/ Write(c)
    PROVE  PermitInv'
<1> USE DEF PermitInv
<1>1. UNCHANGED <<listening, permits, taken, run>>
  BY DEF Loop, Read, Execute, Reject, Panic, HangUp, Reset, Message, ReceiveShutdown,
     Write, WriteCompletes, WriteFails
<1>2. /\ handler[c] \in {"loop", "select", "reply"}
      /\ \E pc \in {"loop", "select", "reply", "drop_permit"} :
            handler' = [handler EXCEPT ![c] = pc]
  BY DEF Loop, Read, Execute, Reject, Panic, HangUp, Reset, Message, ReceiveShutdown,
     Write, WriteCompletes, WriteFails, Ends
<1>3. HoldsPermit' = HoldsPermit
  <2>1. c \in HoldsPermit
    BY <1>2 DEF HoldsPermit, Running
  <2> QED  BY <1>2, <2>1, HolderStays
<1>4. \/ UNCHANGED outcome
      \/ \E how \in {"ok", "error", "panic"} : outcome' = [outcome EXCEPT ![c] = how]
  BY DEF Loop, Read, Execute, Reject, Panic, HangUp, Reset, Message, ReceiveShutdown,
     Write, WriteCompletes, WriteFails, Ends
<1>5. /\ subscribed' \in [Conns -> BOOLEAN] /\ received' \in [Conns -> BOOLEAN]
      /\ owed' \in [Conns -> BOOLEAN] /\ closed' \in [Conns -> {"no", "between", "within"}]
      /\ sent' \in [Conns -> SUBSET Kinds]
  BY DEF TypeOK, Loop, Read, Execute, Reject, Panic, HangUp, Reset, Message, ReceiveShutdown,
     Write, WriteCompletes, WriteFails, peer
<1>6. /\ handler' \in [Conns -> {"absent", "backlog", "loop", "select", "reply",
                                 "drop_permit", "drop_db", "drop_complete", "gone"}]
      /\ outcome' \in [Conns -> {"none", "ok", "error", "panic"}]
  BY <1>2, <1>4 DEF TypeOK
<1>7. TypeOK'
  BY <1>1, <1>5, <1>6 DEF TypeOK, listening
<1>8. TakenWhileAccepting'
  BY <1>1 DEF TakenWhileAccepting, listening
<1> QED  BY <1>1, <1>3, <1>7, <1>8, SameHolders

LEMMA PermitInvNext == PermitInv /\ [Next]_vars => PermitInv'
<1> SUFFICES ASSUME PermitInv, [Next]_vars
             PROVE  PermitInv'
  OBVIOUS
<1> USE DEF PermitInv
<1>1. CASE Acquire
  BY <1>1, AcquireInv
<1>2. ASSUME NEW c \in Conns, Accept(c)
      PROVE  PermitInv'
  BY <1>2, AcceptInv
<1>3. ASSUME AcceptFails \/ BackoffElapses \/ ShutdownFires \/ ShutDown
      PROVE  PermitInv'
  <2>1. UNCHANGED <<permits, taken, conn, peer>>
    BY <1>3 DEF AcceptFails, BackoffElapses, ShutdownFires, ShutDown, Signal, Release, Return
  <2>2. HoldsPermit' = HoldsPermit
    BY <2>1 DEF conn, HoldsPermit, Running
  <2>3. TypeOK'
    BY <1>3, <2>1 DEF TypeOK, conn, peer, listening, AcceptFails, BackoffElapses,
       ShutdownFires, FreshBackoff, ShutDown, Signal, Release, Return
  <2>4. TakenWhileAccepting'
    BY <1>3, <2>1 DEF TakenWhileAccepting, listening, AcceptFails, BackoffElapses,
       ShutdownFires, ShutDown, Signal, Release, Return
  <2> QED  BY <2>1, <2>2, <2>3, <2>4, SameHolders
<1>4. ASSUME NEW c \in Conns,
             Loop(c) \/ Read(c) \/ Message(c) \/ ReceiveShutdown(c) \/ Write(c)
      PROVE  PermitInv'
  BY <1>4, HandlerRunsInv
<1>5. ASSUME NEW c \in Conns, DropPermit(c)
      PROVE  PermitInv'
  BY <1>5, DropPermitInv
<1>6. ASSUME NEW c \in Conns, DropDb(c) \/ DropComplete(c) \/ PeerConnects(c)
      PROVE  PermitInv'
  <2>1. /\ c \notin HoldsPermit
        /\ \E pc \in {"drop_complete", "gone", "backlog"} : handler' = [handler EXCEPT ![c] = pc]
    BY <1>6 DEF DropDb, DropComplete, PeerConnects, HoldsPermit, Running
  <2>2. HoldsPermit' = HoldsPermit
    BY <2>1, HolderStays
  <2>3. UNCHANGED <<listening, permits, taken, run, subscribed, received, owed, outcome>>
    BY <1>6 DEF DropDb, DropComplete, PeerConnects
  <2>4. sent' \in [Conns -> SUBSET Kinds] /\ closed' \in [Conns -> {"no", "between", "within"}]
    BY <1>6 DEF DropDb, DropComplete, PeerConnects, peer, TypeOK
  <2>5. TypeOK'
    <3>1. handler' \in [Conns -> {"absent", "backlog", "loop", "select", "reply",
                               "drop_permit", "drop_db", "drop_complete", "gone"}]
      BY <2>1 DEF TypeOK
    <3> QED  BY <2>3, <2>4, <3>1 DEF TypeOK, listening
  <2>6. TakenWhileAccepting'
    BY <2>3 DEF TakenWhileAccepting, listening
  <2> QED  BY <2>2, <2>3, <2>5, <2>6, SameHolders
<1>7. ASSUME NEW c \in Conns, (\E kind \in Kinds : PeerSends(c, kind)) \/ PeerCloses(c)
      PROVE  PermitInv'
  <2>1. UNCHANGED <<listening, permits, taken, run, conn>>
    BY <1>7 DEF PeerSends, PeerCloses
  <2>2. sent' \in [Conns -> SUBSET Kinds] /\ closed' \in [Conns -> {"no", "between", "within"}]
    <3>1. ASSUME NEW kind \in Kinds, PeerSends(c, kind)
          PROVE  sent' \in [Conns -> SUBSET Kinds] /\ UNCHANGED closed
      BY <3>1 DEF PeerSends, TypeOK
    <3>2. CASE PeerCloses(c)
      BY <3>2 DEF PeerCloses, TypeOK
    <3> QED  BY <1>7, <3>1, <3>2 DEF TypeOK
  <2>3. HoldsPermit' = HoldsPermit
    BY <2>1 DEF conn, HoldsPermit, Running
  <2>4. TypeOK' /\ TakenWhileAccepting'
    BY <2>1, <2>2 DEF TypeOK, TakenWhileAccepting, listening, conn
  <2> QED  BY <2>1, <2>3, <2>4, SameHolders
<1>8. CASE UNCHANGED vars
  <2>1. HoldsPermit' = HoldsPermit
    BY <1>8 DEF vars, conn, HoldsPermit, Running
  <2>2. TypeOK' /\ TakenWhileAccepting'
    BY <1>8 DEF vars, listening, conn, peer, TypeOK, TakenWhileAccepting
  <2>3. UNCHANGED <<permits, taken>>
    BY <1>8 DEF vars
  <2> QED  BY <2>1, <2>2, <2>3, SameHolders
<1> QED
  BY <1>1, <1>2, <1>3, <1>4, <1>5, <1>6, <1>7, <1>8 DEF Next, Listen, Handle, Drop, Peer

LEMMA PermitInvHolds == Spec => []PermitInv
BY PermitInvInit, PermitInvNext, PTL DEF Spec

(***************************************************************************)
(* Every variable keeps its type; in particular the semaphore never holds  *)
(* more permits than it was created with.                                  *)
(***************************************************************************)
THEOREM TypeCorrect == Spec => []TypeOK
<1>1. PermitInv => TypeOK
  BY DEF PermitInv
<1> QED  BY <1>1, PermitInvHolds, PTL

(***************************************************************************)
(* Permits are neither lost nor made, however handlers end.                *)
(***************************************************************************)
THEOREM PermitsCorrect == Spec => []PermitsConserved
<1>1. PermitInv => PermitsConserved
  BY DEF PermitInv
<1> QED  BY <1>1, PermitInvHolds, PTL

(***************************************************************************)
(* The server never processes more connections than its limit.             *)
(***************************************************************************)
THEOREM ConnectionsBounded == Spec => []AtMostMaxConnections
<1>1. PermitInv => AtMostMaxConnections
  <2> SUFFICES ASSUME PermitInv
               PROVE  Cardinality(Running) <= MaxConnections
    BY DEF AtMostMaxConnections
  <2>1. Running \in SUBSET HoldsPermit
    BY DEF HoldsPermit
  <2>2. Cardinality(Running) <= Cardinality(HoldsPermit)
    BY <2>1, HoldsPermitCount, SubsetOfConns, FS_Subset
  <2>3. Cardinality(Running) \in Nat
    BY SubsetOfConns DEF Running
  <2>4. Cardinality(HoldsPermit) <= MaxConnections
    BY HoldsPermitCount, LimitsAssumption DEF PermitInv, TypeOK, PermitsConserved
  <2> QED  BY <2>2, <2>3, <2>4, HoldsPermitCount, LimitsAssumption
<1> QED  BY <1>1, PermitInvHolds, PTL

-----------------------------------------------------------------------------
(***************************************************************************)
(* The end of run.  That nothing is spawned after recv() returned None     *)
(* needs to know that the listener stopped before run began to wait.       *)
(***************************************************************************)

ReturnInv == ListenerStops /\ NoHandlerOutlivesRun

LEMMA ReturnInvInit == Init => ReturnInv
BY DEF Init, ReturnInv, ListenerStops, NoHandlerOutlivesRun

LEMMA ReturnInvNext == TypeOK /\ ReturnInv /\ [Next]_vars => ReturnInv'
<1> SUFFICES ASSUME TypeOK, ReturnInv, [Next]_vars
             PROVE  ReturnInv'
  OBVIOUS
<1> USE DEF ReturnInv
<1>1. ListenerStops'
  BY DEF Next, Listen, Handle, Drop, Read, Write, Peer, ShutDown, Acquire, Accept, AcceptFails,
     BackoffElapses, Loop, Execute, Reject, Panic, HangUp, Reset, Message, ReceiveShutdown,
     WriteCompletes, WriteFails, DropPermit, DropDb, DropComplete, PeerConnects, PeerSends,
     PeerCloses, ShutdownFires, Signal, Release, Return, vars, listening, ListenerStops
<1>2. ASSUME run = "returned", run' = "returned"
      PROVE  HoldsDb' = {}
  <2>1. HoldsDb = {} /\ listener \in {"failed", "stopped"}
    BY <1>2 DEF NoHandlerOutlivesRun, ListenerStops
  <2>2. \A c \in Conns :
           handler[c] \notin {"loop", "select", "reply", "drop_permit", "drop_db"}
    BY <2>1 DEF HoldsDb, HoldsPermit, Running
  <2>3. \A c \in Conns :
           handler'[c] \notin {"loop", "select", "reply", "drop_permit", "drop_db"}
    BY <1>2, <2>1, <2>2 DEF TypeOK, Next, Listen, Handle, Drop, Read, Write, Peer, ShutDown,
       Acquire, Accept, AcceptFails, BackoffElapses, Loop, Execute, Reject, Panic, HangUp, Reset,
       Message, ReceiveShutdown, WriteCompletes, WriteFails, DropPermit, DropDb, DropComplete,
       PeerConnects, PeerSends, PeerCloses, ShutdownFires, Signal, Release, Return, vars, conn
  <2> QED  BY <2>3 DEF HoldsDb, HoldsPermit, Running
<1>3. ASSUME run # "returned", run' = "returned"
      PROVE  HoldsDb' = {}
  <2>1. Return
    BY <1>3 DEF Next, Listen, Handle, Drop, Read, Write, Peer, ShutDown, Acquire, Accept,
       AcceptFails, BackoffElapses, Loop, Execute, Reject, Panic, HangUp, Reset, Message,
       ReceiveShutdown, WriteCompletes, WriteFails, DropPermit, DropDb, DropComplete,
       PeerConnects, PeerSends, PeerCloses, ShutdownFires, Signal, Release, vars
  <2>2. HoldsDb = {}
    BY <2>1 DEF Return, HoldsComplete
  <2>3. HoldsDb' = HoldsDb
    BY <2>1 DEF Return, conn, HoldsDb, HoldsPermit, Running
  <2> QED  BY <2>2, <2>3
<1> QED  BY <1>1, <1>2, <1>3 DEF NoHandlerOutlivesRun

LEMMA ReturnInvHolds == Spec => []ReturnInv
<1>1. TypeOK /\ ReturnInv /\ [Next]_vars => ReturnInv'
  BY ReturnInvNext
<1> QED  BY <1>1, ReturnInvInit, TypeCorrect, PTL DEF Spec

(***************************************************************************)
(* When run returns and drops the DbDropGuard, no handler holds a Db.      *)
(***************************************************************************)
THEOREM NoHandlerOutlives == Spec => []NoHandlerOutlivesRun
<1>1. ReturnInv => NoHandlerOutlivesRun
  BY DEF ReturnInv
<1> QED  BY <1>1, ReturnInvHolds, PTL

-----------------------------------------------------------------------------
(***************************************************************************)
(* Replies.  A reply is owed while it is written, and for good once the    *)
(* write failed; a handler that has ended stays ended.                     *)
(***************************************************************************)

Ending == {"drop_permit", "drop_db", "drop_complete", "gone"}

ReplyOwed(c) ==
    /\ owed[c] => handler[c] = "reply" \/ outcome[c] = "error"
    /\ outcome[c] # "none" => handler[c] \in Ending

ReplyInv == \A c \in Conns : ReplyOwed(c)

\* A step of another connection, or of the listener or run, keeps both.
LEMMA ReplyOwedElsewhere ==
    ASSUME NEW c \in Conns, ReplyOwed(c),
           owed'[c] = owed[c], outcome'[c] = outcome[c], handler'[c] = handler[c]
    PROVE  ReplyOwed(c)'
BY DEF ReplyOwed

LEMMA HandleReplyOwed ==
    ASSUME TypeOK, NEW d \in Conns, ReplyOwed(d), Handle(d)
    PROVE  ReplyOwed(d)'
<1>1. CASE Loop(d)
  BY <1>1 DEF Loop, Ends, ReplyOwed, Ending, TypeOK
<1>2. CASE Read(d)
  BY <1>2 DEF Read, Execute, Reject, Panic, HangUp, Reset, Ends, ReplyOwed, Ending, TypeOK
<1>3. CASE Message(d) \/ ReceiveShutdown(d)
  BY <1>3 DEF Message, ReceiveShutdown, Ends, ReplyOwed, Ending, TypeOK
<1>4. CASE Write(d)
  BY <1>4 DEF Write, WriteCompletes, WriteFails, Ends, ReplyOwed, Ending, TypeOK
<1>5. CASE Drop(d)
  BY <1>5 DEF Drop, DropPermit, DropDb, DropComplete, ReplyOwed, Ending, TypeOK
<1> QED  BY <1>1, <1>2, <1>3, <1>4, <1>5 DEF Handle

LEMMA HandleElsewhere ==
    ASSUME TypeOK, NEW d \in Conns, Handle(d), NEW c \in Conns, c # d
    PROVE  owed'[c] = owed[c] /\ outcome'[c] = outcome[c] /\ handler'[c] = handler[c]
<1>1. CASE Loop(d) \/ Read(d)
  BY <1>1 DEF Loop, Read, Execute, Reject, Panic, HangUp, Reset, Ends, TypeOK
<1>2. CASE Message(d) \/ ReceiveShutdown(d) \/ Write(d)
  BY <1>2 DEF Message, ReceiveShutdown, Write, WriteCompletes, WriteFails, Ends, TypeOK
<1>3. CASE Drop(d)
  BY <1>3 DEF Drop, DropPermit, DropDb, DropComplete, TypeOK
<1> QED  BY <1>1, <1>2, <1>3 DEF Handle

LEMMA ReplyInvNext == TypeOK /\ ReplyInv /\ [Next]_vars => ReplyInv'
<1> SUFFICES ASSUME TypeOK, ReplyInv, [Next]_vars, NEW c \in Conns
             PROVE  ReplyOwed(c)'
  BY DEF ReplyInv
<1>0. ReplyOwed(c)
  BY DEF ReplyInv
<1>1. ASSUME NEW d \in Conns, Handle(d)
      PROVE  ReplyOwed(c)'
  BY <1>0, <1>1, HandleReplyOwed, HandleElsewhere, ReplyOwedElsewhere
<1>2. ASSUME NEW d \in Conns, Accept(d) \/ PeerConnects(d)
      PROVE  ReplyOwed(c)'
  BY <1>0, <1>2 DEF Accept, PeerConnects, ReplyOwed, Ending, TypeOK
<1>3. ASSUME NEW d \in Conns, (\E kind \in Kinds : PeerSends(d, kind)) \/ PeerCloses(d)
      PROVE  ReplyOwed(c)'
  <2>1. UNCHANGED conn
    BY <1>3 DEF PeerSends, PeerCloses
  <2> QED  BY <1>0, <2>1, ReplyOwedElsewhere DEF conn
<1>4. CASE Acquire \/ AcceptFails \/ BackoffElapses \/ ShutdownFires \/ ShutDown \/ UNCHANGED vars
  <2>1. UNCHANGED conn
    BY <1>4 DEF Acquire, AcceptFails, BackoffElapses, ShutdownFires, ShutDown, Signal, Release,
       Return, vars
  <2> QED  BY <1>0, <2>1, ReplyOwedElsewhere DEF conn
<1> QED  BY <1>1, <1>2, <1>3, <1>4 DEF Next, Listen, Peer

(***************************************************************************)
(* A handler that ends without an error owes its peer no reply.            *)
(***************************************************************************)
THEOREM NoReplyOwed == Spec => []NoReplyOwedAtExit
<1>1. Init => ReplyInv
  BY DEF Init, ReplyInv, ReplyOwed
<1>2. ReplyInv => NoReplyOwedAtExit
  BY DEF ReplyInv, ReplyOwed, Ending, NoReplyOwedAtExit
<1>3. TypeOK /\ ReplyInv /\ [Next]_vars => ReplyInv'
  BY ReplyInvNext
<1> QED  BY <1>1, <1>2, <1>3, TypeCorrect, PTL DEF Spec

-----------------------------------------------------------------------------
(***************************************************************************)
(* The back-off.  The pause before the next try tells how often this       *)
(* accept has failed, whenever the listener waits for a connection or      *)
(* pauses; outside of accept nothing is left of an earlier one.            *)
(***************************************************************************)

BackoffInv ==
    /\ listener = "acquire" => failures = 0 /\ backoff = 1
    /\ listener = "accept" =>
         <<failures, backoff>> \in {<<0, 1>>, <<1, 2>>, <<2, 4>>, <<3, 8>>, <<4, 16>>,
                                   <<5, 32>>, <<6, 64>>, <<7, 128>>}
    /\ listener = "backoff" =>
         <<failures, backoff>> \in {<<1, 1>>, <<2, 2>>, <<3, 4>>, <<4, 8>>, <<5, 16>>,
                                   <<6, 32>>, <<7, 64>>}
    /\ listener = "failed" => failures = 8

LEMMA BackoffInvNext ==
    ASSUME MaxBackoff = 64, BackoffInv, [Next]_vars
    PROVE  BackoffInv'
<1>1. CASE Acquire \/ (\E c \in Conns : Accept(c)) \/ ShutdownFires
  BY <1>1 DEF BackoffInv, Acquire, Accept, ShutdownFires, FreshBackoff
<1>2. CASE AcceptFails
  BY <1>2 DEF BackoffInv, AcceptFails
<1>3. CASE BackoffElapses
  BY <1>3 DEF BackoffInv, BackoffElapses
<1>4. ASSUME UNCHANGED listening
      PROVE  BackoffInv'
  BY <1>4 DEF BackoffInv, listening
<1>5. ASSUME NEW c \in Conns, Handle(c) \/ Peer(c)
      PROVE  UNCHANGED listening
  BY <1>5 DEF Handle, Loop, Read, Execute, Reject, Panic, HangUp, Reset, Message, ReceiveShutdown,
     Write, WriteCompletes, WriteFails, Drop, DropPermit, DropDb, DropComplete, Peer, PeerConnects,
     PeerSends, PeerCloses
<1>6. CASE ShutDown \/ UNCHANGED vars
  BY <1>4, <1>6 DEF ShutDown, Signal, Release, Return, vars
<1> QED  BY <1>1, <1>2, <1>3, <1>4, <1>5, <1>6 DEF Next, Listen

(***************************************************************************)
(* With the limit of the code, accept keeps to its schedule of pauses and  *)
(* gives up after the longest, whatever earlier accepts went through.      *)
(***************************************************************************)
THEOREM KeepsSchedule ==
    ASSUME MaxBackoff = 64
    PROVE  Spec => []BackoffSchedule
<1>1. Init => BackoffInv
  BY DEF Init, BackoffInv
<1>2. BackoffInv /\ [Next]_vars => BackoffInv'
  BY BackoffInvNext
<1>3. BackoffInv => BackoffSchedule
  BY DEF BackoffInv, BackoffSchedule, Pauses
<1> QED  BY <1>1, <1>2, <1>3, PTL DEF Spec
=============================================================================
