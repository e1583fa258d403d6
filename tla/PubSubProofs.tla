---------------------------- MODULE PubSubProofs ----------------------------
(***************************************************************************)
(* Proofs about module PubSub, for every finite set of clients, every set  *)
(* of channels and every capacity, request and number of messages.         *)
(***************************************************************************)
EXTENDS PubSub, FiniteSetTheorems, SequenceTheorems, TLAPS

-----------------------------------------------------------------------------
(***************************************************************************)
(* Types, and what the place of a session says about its other variables.  *)
(***************************************************************************)

\* The places at which a command still has a channel to work on.
Working == {"subscribing", "registered", "ack", "unsubscribing", "unack"}

Places ==
    \A c \in Clients :
        /\ session[c] \in Working => todo[c] # <<>>
        /\ session[c] = "registered" => fresh[c] # {}
        /\ message[c] # {} => session[c] = "deliver"
        /\ session[c] \in {"idle", "dropping", "ended"} => acked[c] = {}

TypeInv == TypeOK /\ Places

LEMMA RequestType ==
    ASSUME NEW channels \in Requests
    PROVE  channels \in Seq(Channels) /\ channels # <<>>
<1>1. PICK n \in 1..MaxRequest : channels \in [1..n -> Channels]
  BY DEF Requests
<1>2. n \in Nat /\ n # 0
  BY PubSubAssumption
<1>3. channels \in Seq(Channels)
  BY <1>1, <1>2, SeqDef
<1>4. 1 \in DOMAIN channels
  BY <1>1, <1>2
<1> QED  BY <1>3, <1>4

LEMMA AllType ==
    ASSUME NEW c \in Clients, NEW channels \in SetToSeqs(Subscriptions(c))
    PROVE  channels \in Seq(Channels)
<1>1. Subscriptions(c) \in SUBSET Channels
  BY DEF Subscriptions
<1>2. Cardinality(Subscriptions(c)) \in Nat
  BY <1>1, PubSubAssumption, FS_Subset, FS_CardinalityType
<1>3. channels \in [1..Cardinality(Subscriptions(c)) -> Subscriptions(c)]
  BY DEF SetToSeqs
<1>4. channels \in [1..Cardinality(Subscriptions(c)) -> Channels]
  BY <1>1, <1>3
<1> QED  BY <1>2, <1>4, SeqDef

\* The channel that a session works on.
LEMMA HeadType ==
    ASSUME TypeInv, NEW c \in Clients, session[c] \in Working
    PROVE  Head(todo[c]) \in Channels
<1>1. todo[c] \in Seq(Channels) /\ todo[c] # <<>>
  BY DEF TypeInv, TypeOK, Places, Working
<1> QED  BY <1>1, HeadTailProperties

\* A session works on the next channel, if there is one.
LEMMA ContinueType ==
    ASSUME TypeInv, NEW c \in Clients, session[c] \in Working,
           NEW pc \in {"subscribing", "unsubscribing"}, Continue(c, pc)
    PROVE  /\ todo' \in [Clients -> Seq(Channels)]
           /\ session' = [session EXCEPT ![c] = session'[c]]
           /\ session'[c] \in {"select", pc}
           /\ session'[c] = pc => todo'[c] # <<>>
           /\ \A d \in Clients \ {c} : todo'[d] = todo[d]
<1>1. todo \in [Clients -> Seq(Channels)] /\ todo[c] # <<>> /\ DOMAIN session = Clients
  BY DEF TypeInv, TypeOK, Places, Working
<1>2. Tail(todo[c]) \in Seq(Channels) /\ Len(Tail(todo[c])) = Len(todo[c]) - 1 /\ Len(todo[c]) \in Nat
  BY <1>1, HeadTailProperties, LenProperties
<1>3. ASSUME Tail(todo[c]) = <<>>
      PROVE  Len(todo[c]) = 1
  <2>1. Len(Tail(todo[c])) = 0
    BY <1>3, EmptySeq
  <2> QED  BY <1>2, <2>1
<1> QED  BY <1>1, <1>2, <1>3 DEF Continue

LEMMA TypeInvInit == Init => TypeInv
BY DEF Init, TypeInv, TypeOK, Places, Opt, Working

\* The position at which a receiver goes on.
LEMMA NextPositionType ==
    ASSUME TypeOK, NEW c \in Clients, NEW ch \in Channels, NEW n \in NextPosition(c, ch)
    PROVE  /\ n \in Nat
           /\ Oldest(ch) \in Nat /\ Oldest(ch) <= tail[ch]
           /\ \E m \in cursor[c][ch] : m \in Nat /\ m <= n
BY PubSubAssumption DEF TypeOK, NextPosition, Oldest, Opt

LEMMA OptType ==
    ASSUME NEW S
    PROVE  {} \in Opt(S) /\ \A x \in S : {x} \in Opt(S)
BY DEF Opt

\* One entry of a StreamMap changes.
LEMMA CursorType ==
    ASSUME TypeOK, NEW c \in Clients, NEW ch \in Channels, NEW entry \in Opt(Nat),
           cursor' = [cursor EXCEPT ![c][ch] = entry]
    PROVE  /\ cursor' \in [Clients -> [Channels -> Opt(Nat)]]
           /\ cursor'[c][ch] = entry
           /\ \A d \in Clients, x \in Channels :
                 d # c \/ x # ch => cursor'[d][x] = cursor[d][x]
BY DEF TypeOK

LEMMA TypeInvNext == TypeInv /\ [Next]_vars => TypeInv'
<1> SUFFICES ASSUME TypeInv, [Next]_vars
             PROVE  TypeInv'
  OBVIOUS
<1> USE DEF TypeInv, broadcast, streams, told
<1>1. ASSUME NEW ch \in Channels, Publish(ch)
      PROVE  TypeInv'
  BY <1>1 DEF Publish, TypeOK, Places
<1>2. ASSUME NEW c \in Clients, Command(c)
      PROVE  TypeInv'
  <2>1. ASSUME NEW channels \in Requests, Subscribe(c, channels) \/ Unsubscribe(c, channels)
        PROVE  TypeInv'
    BY <2>1, RequestType DEF Subscribe, Unsubscribe, TypeOK, Places, Working
  <2>2. CASE UnsubscribeAll(c)
    <3>1. PICK channels \in SetToSeqs(Subscriptions(c)) :
                 /\ todo' = [todo EXCEPT ![c] = channels]
                 /\ session' = [session EXCEPT ![c] =
                                  IF channels = <<>> THEN "select" ELSE "unsubscribing"]
      BY <2>2 DEF UnsubscribeAll
    <3>2. channels \in Seq(Channels)
      BY AllType
    <3> QED  BY <2>2, <3>1, <3>2 DEF UnsubscribeAll, TypeOK, Places, Working
  <2>3. CASE OtherCommand(c)
    BY <2>3 DEF OtherCommand, TypeOK, Places, Working
  <2> QED  BY <1>2, <2>1, <2>2, <2>3 DEF Command
<1>3. ASSUME NEW c \in Clients, Proceed(c)
      PROVE  TypeInv'
  <2>1. CASE Register(c)
    <3>1. Head(todo[c]) \in Channels
      BY <2>1, HeadType DEF Register, Working
    <3>2. tail[Head(todo[c])] \in Nat /\ {tail[Head(todo[c])]} \in Opt(Nat)
      BY <3>1, OptType DEF TypeOK
    <3>3. TypeOK'
      BY <2>1, <3>1, <3>2 DEF Register, TypeOK
    <3>4. Places'
      BY <2>1, <3>2 DEF Register, TypeOK, Places, Working
    <3> QED  BY <3>3, <3>4
  <2>2. CASE Insert(c)
    <3>1. Head(todo[c]) \in Channels
      BY <2>2, HeadType DEF Insert, Working
    <3>2. fresh[c] \in Opt(Nat)
      BY DEF TypeOK
    <3>3. cursor' \in [Clients -> [Channels -> Opt(Nat)]]
      BY <2>2, <3>1, <3>2, CursorType DEF Insert
    <3>4. TypeOK'
      BY <2>2, <3>1, <3>3, OptType DEF Insert, TypeOK
    <3>5. Places'
      BY <2>2 DEF Insert, TypeOK, Places, Working
    <3> QED  BY <3>4, <3>5
  <2>3. CASE RemoveStream(c)
    <3>1. Head(todo[c]) \in Channels
      BY <2>3, HeadType DEF RemoveStream, Working
    <3>2. cursor' \in [Clients -> [Channels -> Opt(Nat)]]
      BY <2>3, <3>1, OptType, CursorType DEF RemoveStream
    <3>3. TypeOK'
      BY <2>3, <3>1, <3>2 DEF RemoveStream, TypeOK
    <3>4. Places'
      BY <2>3 DEF RemoveStream, TypeOK, Places, Working
    <3> QED  BY <3>3, <3>4
  <2>4. CASE AckWritten(c)
    <3>1. Head(todo[c]) \in Channels
      BY <2>4, HeadType DEF AckWritten, Working
    <3>2. /\ todo' \in [Clients -> Seq(Channels)]
          /\ session' = [session EXCEPT ![c] = session'[c]]
          /\ session'[c] \in {"select", "subscribing"}
          /\ session'[c] = "subscribing" => todo'[c] # <<>>
          /\ \A d \in Clients \ {c} : todo'[d] = todo[d]
      BY <2>4, ContinueType DEF AckWritten, Working
    <3> QED  BY <2>4, <3>1, <3>2 DEF AckWritten, TypeOK, Places, Working
  <2>5. CASE UnackWritten(c)
    <3>1. Head(todo[c]) \in Channels
      BY <2>5, HeadType DEF UnackWritten, Working
    <3>2. /\ todo' \in [Clients -> Seq(Channels)]
          /\ session' = [session EXCEPT ![c] = session'[c]]
          /\ session'[c] \in {"select", "unsubscribing"}
          /\ session'[c] = "unsubscribing" => todo'[c] # <<>>
          /\ \A d \in Clients \ {c} : todo'[d] = todo[d]
      BY <2>5, ContinueType DEF UnackWritten, Working
    <3> QED  BY <2>5, <3>1, <3>2 DEF UnackWritten, TypeOK, Places, Working
  <2>6. CASE MessageWritten(c)
    BY <2>6 DEF MessageWritten, TypeOK, Places, Opt, Message, Working
  <2>7. CASE ReplyWritten(c)
    BY <2>7 DEF ReplyWritten, TypeOK, Places, Working
  <2>8. ASSUME NEW ch \in Channels, DropReceiver(c, ch)
        PROVE  TypeInv'
    <3>1. cursor' \in [Clients -> [Channels -> Opt(Nat)]]
      BY <2>8, OptType, CursorType DEF DropReceiver
    <3>2. TypeOK'
      BY <2>8, <3>1 DEF DropReceiver, TypeOK
    <3>3. Places'
      BY <2>8 DEF DropReceiver, TypeOK, Places, Working
    <3> QED  BY <3>2, <3>3
  <2>9. CASE Dropped(c)
    BY <2>9 DEF Dropped, TypeOK, Places, Working
  <2> QED  BY <1>3, <2>1, <2>2, <2>3, <2>4, <2>5, <2>6, <2>7, <2>8, <2>9 DEF Proceed
<1>4. ASSUME NEW c \in Clients, NEW ch \in Channels, Receive(c, ch)
      PROVE  TypeInv'
  <2>1. PICK n \in NextPosition(c, ch) :
               /\ message' = [message EXCEPT ![c] = {[channel |-> ch, position |-> n]}]
               /\ cursor' = [cursor EXCEPT ![c][ch] = {n + 1}]
    BY <1>4 DEF Receive
  <2>2. n \in Nat
    BY NextPositionType
  <2>3. cursor' \in [Clients -> [Channels -> Opt(Nat)]]
    <3>1. n + 1 \in Nat /\ {n + 1} \in Opt(Nat)
      BY <2>2, OptType
    <3> QED  BY <2>1, <3>1, CursorType
  <2>4. {[channel |-> ch, position |-> n]} \in Opt(Message)
    BY <2>2, OptType DEF Message
  <2>5. TypeOK'
    BY <1>4, <2>1, <2>3, <2>4 DEF Receive, TypeOK
  <2>6. Places'
    BY <1>4, <2>1 DEF Receive, TypeOK, Places, Working
  <2> QED  BY <2>5, <2>6
<1>5. ASSUME NEW c \in Clients, Leave(c)
      PROVE  TypeInv'
  <2>1. TypeOK'
    BY <1>5, OptType, EmptySeq DEF Leave, TypeOK
  <2>2. Places'
    BY <1>5 DEF Leave, TypeOK, Places, Working
  <2> QED  BY <2>1, <2>2
<1>6. CASE UNCHANGED vars
  BY <1>6 DEF vars, TypeOK, Places
<1> QED  BY <1>1, <1>2, <1>3, <1>4, <1>5, <1>6 DEF Next

LEMMA TypeInvHolds == Spec => []TypeInv
BY TypeInvInit, TypeInvNext, PTL DEF Spec

\* Every variable keeps its type.
THEOREM TypeCorrect == Spec => []TypeOK
BY TypeInvHolds, PTL DEF TypeInv

-----------------------------------------------------------------------------
(***************************************************************************)
(* Receivers are counted.                                                  *)
(***************************************************************************)

LEMMA Counts ==
    ASSUME NEW ch \in Channels
    PROVE  /\ IsFiniteSet(Subscribers(ch)) /\ Cardinality(Subscribers(ch)) \in Nat
           /\ IsFiniteSet(Registering(ch)) /\ Cardinality(Registering(ch)) \in Nat
<1>1. Subscribers(ch) \in SUBSET Clients /\ Registering(ch) \in SUBSET Clients
  BY DEF Subscribers, Registering
<1> QED  BY <1>1, PubSubAssumption, FS_Subset, FS_CardinalityType

LEMMA SubscribersChange ==
    ASSUME TypeOK, NEW c \in Clients, NEW ch \in Channels, NEW entry \in Opt(Nat),
           cursor' = [cursor EXCEPT ![c][ch] = entry]
    PROVE  /\ Subscribers(ch)' = IF entry = {} THEN Subscribers(ch) \ {c}
                                 ELSE Subscribers(ch) \cup {c}
           /\ \A x \in Channels \ {ch} : Subscribers(x)' = Subscribers(x)
           /\ c \in Subscribers(ch) <=> cursor[c][ch] # {}
<1>1. /\ cursor'[c][ch] = entry
      /\ \A d \in Clients, x \in Channels : d # c \/ x # ch => cursor'[d][x] = cursor[d][x]
  BY DEF TypeOK
<1> QED  BY <1>1 DEF Subscribers

LEMMA SameRegistering ==
    ASSUME TypeInv, NEW c \in Clients,
           session' = [session EXCEPT ![c] = session'[c]],
           session[c] # "registered", session'[c] # "registered",
           \A d \in Clients \ {c} : todo'[d] = todo[d]
    PROVE  \A ch \in Channels : Registering(ch)' = Registering(ch)
<1>1. \A d \in Clients \ {c} : session'[d] = session[d]
  BY DEF TypeInv, TypeOK
<1> QED  BY <1>1 DEF Registering

LEMMA SameReceivers ==
    ASSUME ReceiversCounted, UNCHANGED rx_count,
           \A ch \in Channels : /\ Subscribers(ch)' = Subscribers(ch)
                                /\ Registering(ch)' = Registering(ch)
    PROVE  ReceiversCounted'
BY DEF ReceiversCounted

\* Sessions that keep their streams and do not register.
LEMMA SameStreams ==
    ASSUME TypeInv, ReceiversCounted, UNCHANGED <<rx_count, cursor>>, NEW c \in Clients,
           session' = [session EXCEPT ![c] = session'[c]],
           session[c] # "registered", session'[c] # "registered",
           \A d \in Clients \ {c} : todo'[d] = todo[d]
    PROVE  ReceiversCounted'
<1>1. \A ch \in Channels : Registering(ch)' = Registering(ch)
  BY SameRegistering
<1>2. \A ch \in Channels : Subscribers(ch)' = Subscribers(ch)
  BY DEF Subscribers
<1> QED  BY <1>1, <1>2, SameReceivers

Counted(ch) ==
    rx_count[ch] = Cardinality(Subscribers(ch)) + Cardinality(Registering(ch))

LEMMA RegisterCounts ==
    ASSUME TypeInv, ReceiversCounted, NEW c \in Clients, Register(c)
    PROVE  ReceiversCounted'
<1>1. PICK ch \in Channels : ch = Head(todo[c])
  BY HeadType DEF Register, Working
<1>2. /\ Registering(ch)' = Registering(ch) \cup {c} /\ c \notin Registering(ch)
      /\ \A x \in Channels \ {ch} : Registering(x)' = Registering(x)
  BY <1>1 DEF Register, Registering, TypeInv, TypeOK
<1>3. Cardinality(Registering(ch)') = Cardinality(Registering(ch)) + 1
  BY <1>1, <1>2, Counts, FS_AddElement
<1>4. \A x \in Channels : Subscribers(x)' = Subscribers(x)
  BY DEF Register, Subscribers
<1>5. rx_count'[ch] = rx_count[ch] + 1 /\ \A x \in Channels \ {ch} : rx_count'[x] = rx_count[x]
  BY <1>1 DEF Register, TypeInv, TypeOK
<1>6. Counted(ch)'
  BY <1>3, <1>4, <1>5, Counts DEF Counted, ReceiversCounted
<1>7. ASSUME NEW x \in Channels \ {ch}
      PROVE  Counted(x)'
  BY <1>2, <1>4, <1>5 DEF Counted, ReceiversCounted
<1> QED  BY <1>6, <1>7 DEF Counted, ReceiversCounted

LEMMA InsertCounts ==
    ASSUME TypeInv, ReceiversCounted, NEW c \in Clients, Insert(c)
    PROVE  ReceiversCounted'
<1>1. PICK ch \in Channels : ch = Head(todo[c])
  BY HeadType DEF Insert, Working
<1>2. /\ Registering(ch)' = Registering(ch) \ {c} /\ c \in Registering(ch)
      /\ \A x \in Channels \ {ch} : Registering(x)' = Registering(x)
  BY <1>1 DEF Insert, Registering, TypeInv, TypeOK
<1>3. Cardinality(Registering(ch)') = Cardinality(Registering(ch)) - 1
  BY <1>1, <1>2, Counts, FS_RemoveElement
<1>4. /\ Subscribers(ch)' = Subscribers(ch) \cup {c}
      /\ \A x \in Channels \ {ch} : Subscribers(x)' = Subscribers(x)
      /\ c \in Subscribers(ch) <=> cursor[c][ch] # {}
  <2>1. fresh[c] \in Opt(Nat) /\ fresh[c] # {}
    BY DEF Insert, TypeInv, TypeOK, Places
  <2>2. cursor' = [cursor EXCEPT ![c][ch] = fresh[c]]
    BY <1>1 DEF Insert
  <2> QED  BY <2>1, <2>2, SubscribersChange DEF TypeInv
<1>5. /\ rx_count'[ch] = IF cursor[c][ch] = {} THEN rx_count[ch] ELSE rx_count[ch] - 1
      /\ \A x \in Channels \ {ch} : rx_count'[x] = rx_count[x]
      /\ rx_count[ch] \in Int
  BY <1>1 DEF Insert, TypeInv, TypeOK
<1>6. Counted(ch)'
  <2>1. CASE cursor[c][ch] = {}
    <3>1. Cardinality(Subscribers(ch)') = Cardinality(Subscribers(ch)) + 1
      BY <2>1, <1>4, Counts, FS_AddElement
    <3> QED  BY <2>1, <3>1, <1>3, <1>5, Counts DEF Counted, ReceiversCounted
  <2>2. CASE cursor[c][ch] # {}
    <3>1. Subscribers(ch)' = Subscribers(ch)
      BY <2>2, <1>4
    <3> QED  BY <2>2, <3>1, <1>3, <1>5, Counts DEF Counted, ReceiversCounted
  <2> QED  BY <2>1, <2>2
<1>7. ASSUME NEW x \in Channels \ {ch}
      PROVE  Counted(x)'
  BY <1>2, <1>4, <1>5 DEF Counted, ReceiversCounted
<1> QED  BY <1>6, <1>7 DEF Counted, ReceiversCounted

\* A session, not registering, whose stream of ch, if it has one, is dropped.
LEMMA RemovalCounts ==
    ASSUME TypeInv, ReceiversCounted, NEW c \in Clients, NEW ch \in Channels,
           session' = [session EXCEPT ![c] = session'[c]],
           session[c] # "registered", session'[c] # "registered",
           UNCHANGED todo,
           rx_count' = [rx_count EXCEPT ![ch] = IF cursor[c][ch] = {} THEN @ ELSE @ - 1],
           cursor' = [cursor EXCEPT ![c][ch] = {}]
    PROVE  ReceiversCounted'
<1>1. \A x \in Channels : Registering(x)' = Registering(x)
  BY SameRegistering
<1>2. /\ Subscribers(ch)' = Subscribers(ch) \ {c}
      /\ \A x \in Channels \ {ch} : Subscribers(x)' = Subscribers(x)
      /\ c \in Subscribers(ch) <=> cursor[c][ch] # {}
  BY OptType, SubscribersChange DEF TypeInv
<1>3. /\ rx_count'[ch] = IF cursor[c][ch] = {} THEN rx_count[ch] ELSE rx_count[ch] - 1
      /\ \A x \in Channels \ {ch} : rx_count'[x] = rx_count[x]
      /\ rx_count[ch] \in Int
  BY DEF TypeInv, TypeOK
<1>4. Counted(ch)'
  <2>1. CASE cursor[c][ch] = {}
    <3>1. Subscribers(ch)' = Subscribers(ch)
      BY <2>1, <1>2
    <3> QED  BY <2>1, <3>1, <1>1, <1>3 DEF Counted, ReceiversCounted
  <2>2. CASE cursor[c][ch] # {}
    <3>1. Cardinality(Subscribers(ch)') = Cardinality(Subscribers(ch)) - 1
      BY <2>2, <1>2, Counts, FS_RemoveElement
    <3> QED  BY <2>2, <3>1, <1>1, <1>3, Counts DEF Counted, ReceiversCounted
  <2> QED  BY <2>1, <2>2
<1>5. ASSUME NEW x \in Channels \ {ch}
      PROVE  Counted(x)'
  BY <1>1, <1>2, <1>3 DEF Counted, ReceiversCounted
<1> QED  BY <1>4, <1>5 DEF Counted, ReceiversCounted

LEMMA ReceiversCountedNext ==
    ASSUME TypeInv, ReceiversCounted, [Next]_vars
    PROVE  ReceiversCounted'
<1> USE DEF broadcast, streams, told
<1>1. ASSUME NEW ch \in Channels, Publish(ch)
      PROVE  ReceiversCounted'
  BY <1>1 DEF Publish, ReceiversCounted, Subscribers, Registering
<1>2. ASSUME NEW c \in Clients, Command(c)
      PROVE  ReceiversCounted'
  <2>1. /\ UNCHANGED <<rx_count, cursor>>
        /\ session' = [session EXCEPT ![c] = session'[c]]
        /\ session[c] # "registered" /\ session'[c] # "registered"
        /\ \A d \in Clients \ {c} : todo'[d] = todo[d]
    BY <1>2 DEF Command, Subscribe, Unsubscribe, UnsubscribeAll, OtherCommand, TypeInv, TypeOK
  <2> QED  BY <2>1, SameStreams
<1>3. ASSUME NEW c \in Clients, Proceed(c)
      PROVE  ReceiversCounted'
  <2>1. CASE Register(c)
    BY <2>1, RegisterCounts
  <2>2. CASE Insert(c)
    BY <2>2, InsertCounts
  <2>3. CASE RemoveStream(c)
    <3>1. PICK ch \in Channels : ch = Head(todo[c])
      BY <2>3, HeadType DEF RemoveStream, Working
    <3>2. session' = [session EXCEPT ![c] = session'[c]] /\ session'[c] = "unack"
      BY <2>3 DEF RemoveStream, TypeInv, TypeOK
    <3> QED  BY <2>3, <3>1, <3>2, RemovalCounts DEF RemoveStream
  <2>4. CASE AckWritten(c) \/ UnackWritten(c)
    <3>1. /\ session' = [session EXCEPT ![c] = session'[c]] /\ session'[c] # "registered"
          /\ \A d \in Clients \ {c} : todo'[d] = todo[d]
      BY <2>4 DEF AckWritten, UnackWritten, Continue, TypeInv, TypeOK
    <3> QED  BY <2>4, <3>1, SameStreams DEF AckWritten, UnackWritten
  <2>5. CASE MessageWritten(c) \/ ReplyWritten(c) \/ Dropped(c)
    <3>1. session' = [session EXCEPT ![c] = session'[c]] /\ session'[c] # "registered"
      BY <2>5 DEF MessageWritten, ReplyWritten, Dropped, TypeInv, TypeOK
    <3> QED  BY <2>5, <3>1, SameStreams DEF MessageWritten, ReplyWritten, Dropped
  <2>6. ASSUME NEW ch \in Channels, DropReceiver(c, ch)
        PROVE  ReceiversCounted'
    <3>1. session' = [session EXCEPT ![c] = session'[c]] /\ session'[c] = "dropping"
      BY <2>6 DEF DropReceiver, TypeInv, TypeOK
    <3>2. rx_count' = [rx_count EXCEPT ![ch] = IF cursor[c][ch] = {} THEN @ ELSE @ - 1]
      BY <2>6 DEF DropReceiver
    <3> QED  BY <2>6, <3>1, <3>2, RemovalCounts DEF DropReceiver
  <2> QED  BY <1>3, <2>1, <2>2, <2>3, <2>4, <2>5, <2>6 DEF Proceed
<1>4. ASSUME NEW c \in Clients, NEW ch \in Channels, Receive(c, ch)
      PROVE  ReceiversCounted'
  <2>1. PICK n \in NextPosition(c, ch) : cursor' = [cursor EXCEPT ![c][ch] = {n + 1}]
    BY <1>4 DEF Receive
  <2>2. n + 1 \in Nat /\ cursor[c][ch] # {}
    BY NextPositionType DEF TypeInv
  <2>3. \A x \in Channels : Subscribers(x)' = Subscribers(x)
    <3>1. {n + 1} \in Opt(Nat)
      BY <2>2, OptType
    <3>2. /\ Subscribers(ch)' = Subscribers(ch) \cup {c}
          /\ \A x \in Channels \ {ch} : Subscribers(x)' = Subscribers(x)
          /\ c \in Subscribers(ch)
      BY <2>1, <2>2, <3>1, SubscribersChange DEF TypeInv
    <3> QED  BY <3>2
  <2>4. session' = [session EXCEPT ![c] = session'[c]] /\ session'[c] = "deliver"
    BY <1>4 DEF Receive, TypeInv, TypeOK
  <2>5. \A x \in Channels : Registering(x)' = Registering(x)
    BY <1>4, <2>4, SameRegistering DEF Receive
  <2> QED  BY <1>4, <2>3, <2>5, SameReceivers DEF Receive
<1>5. ASSUME NEW c \in Clients, Leave(c)
      PROVE  ReceiversCounted'
  <2>1. /\ session' = [session EXCEPT ![c] = session'[c]] /\ session'[c] # "registered"
        /\ \A d \in Clients \ {c} : todo'[d] = todo[d]
    BY <1>5 DEF Leave, TypeInv, TypeOK
  <2> QED  BY <1>5, <2>1, SameStreams DEF Leave
<1>6. CASE UNCHANGED vars
  BY <1>6 DEF vars, ReceiversCounted, Subscribers, Registering
<1> QED  BY <1>1, <1>2, <1>3, <1>4, <1>5, <1>6 DEF Next

\* PUBLISH counts every receiver once, however sessions interleave, fail and
\* end (db.rs:265-278; cmd/subscribe.rs:178-193, 235-236).
THEOREM CountCorrect == Spec => []ReceiversCounted
<1>1. Init => ReceiversCounted
  <2> SUFFICES ASSUME Init, NEW ch \in Channels
               PROVE  Counted(ch)
    BY DEF ReceiversCounted, Counted
  <2>1. Subscribers(ch) = {} /\ Registering(ch) = {} /\ rx_count[ch] = 0
    BY DEF Init, Subscribers, Registering
  <2> QED  BY <2>1, FS_EmptySet DEF Counted
<1>2. TypeInv /\ ReceiversCounted /\ [Next]_vars => ReceiversCounted'
  BY ReceiversCountedNext
<1> QED  BY <1>1, <1>2, TypeInvHolds, PTL DEF Spec

-----------------------------------------------------------------------------
(***************************************************************************)
(* What a client has been told.  A stream is live before its confirmation  *)
(* and removed before that of its end; in between the two agree.           *)
(***************************************************************************)

Told(c) ==
    /\ session[c] = "ack" => cursor[c][Head(todo[c])] # {}
    /\ session[c] = "unack" => cursor[c][Head(todo[c])] = {}
    /\ \A ch \in acked[c] :
          cursor[c][ch] # {} \/ (session[c] = "unack" /\ ch = Head(todo[c]))
    /\ \A ch \in Subscriptions(c) :
          \/ ch \in acked[c]
          \/ session[c] = "ack" /\ ch = Head(todo[c])
          \/ session[c] = "dropping"
    /\ \A m \in message[c] : m.channel \in acked[c]

ToldInv == \A c \in Clients : Told(c)

\* What one session does is no business of the others.
LEMMA OthersTold ==
    ASSUME ToldInv, NEW c \in Clients, Told(c)',
           \A d \in Clients \ {c} :
               /\ session'[d] = session[d] /\ todo'[d] = todo[d] /\ cursor'[d] = cursor[d]
               /\ acked'[d] = acked[d] /\ message'[d] = message[d]
    PROVE  ToldInv'
<1>1. ASSUME NEW d \in Clients \ {c}
      PROVE  Told(d)'
  <2>1. Told(d) /\ Subscriptions(d)' = Subscriptions(d)
    BY DEF ToldInv, Subscriptions
  <2> QED  BY <2>1 DEF Told
<1> QED  BY <1>1 DEF ToldInv

LEMMA ToldInvNext ==
    ASSUME TypeInv, ToldInv, [Next]_vars
    PROVE  ToldInv'
<1> USE DEF broadcast, streams, told
<1>1. ASSUME NEW ch \in Channels, Publish(ch)
      PROVE  ToldInv'
  BY <1>1 DEF Publish, ToldInv, Told, Subscriptions
<1>2. ASSUME NEW c \in Clients, Command(c)
      PROVE  ToldInv'
  <2>1. Told(c)
    BY DEF ToldInv
  <2>2. /\ UNCHANGED <<cursor, acked, message>>
        /\ session[c] \in {"idle", "select"}
        /\ session'[c] \in {"subscribing", "unsubscribing", "select", "reply"}
        /\ \A d \in Clients \ {c} : session'[d] = session[d] /\ todo'[d] = todo[d]
    BY <1>2 DEF Command, Subscribe, Unsubscribe, UnsubscribeAll, OtherCommand, TypeInv, TypeOK
  <2>3. Told(c)'
    BY <2>1, <2>2 DEF Told, Subscriptions
  <2> QED  BY <2>2, <2>3, OthersTold
<1>3. ASSUME NEW c \in Clients, Proceed(c)
      PROVE  ToldInv'
  <2>0. Told(c)
    BY DEF ToldInv
  <2>1. CASE Register(c)
    <3>1. Told(c)'
      BY <2>0, <2>1 DEF Register, Told, Subscriptions, TypeInv, TypeOK
    <3> QED  BY <2>1, <3>1, OthersTold DEF Register, TypeInv, TypeOK
  <2>2. CASE Insert(c)
    <3>1. PICK ch \in Channels : ch = Head(todo[c])
      BY <2>2, HeadType DEF Insert, Working
    <3>2. /\ cursor'[c][ch] # {}
          /\ \A x \in Channels \ {ch} : cursor'[c][x] = cursor[c][x]
          /\ session'[c] = "ack" /\ session[c] = "registered"
          /\ UNCHANGED <<todo, acked, message>>
          /\ acked[c] \in SUBSET Channels
      BY <2>2, <3>1 DEF Insert, TypeInv, TypeOK, Places
    <3>3. Told(c)'
      BY <2>0, <3>1, <3>2 DEF Told, Subscriptions
    <3> QED  BY <2>2, <3>3, OthersTold DEF Insert, TypeInv, TypeOK
  <2>3. CASE RemoveStream(c)
    <3>1. PICK ch \in Channels : ch = Head(todo[c])
      BY <2>3, HeadType DEF RemoveStream, Working
    <3>2. /\ cursor'[c][ch] = {}
          /\ \A x \in Channels \ {ch} : cursor'[c][x] = cursor[c][x]
          /\ session'[c] = "unack" /\ session[c] = "unsubscribing"
          /\ UNCHANGED <<todo, acked, message>>
          /\ acked[c] \in SUBSET Channels
      BY <2>3, <3>1 DEF RemoveStream, TypeInv, TypeOK
    <3>3. Told(c)'
      BY <2>0, <3>1, <3>2 DEF Told, Subscriptions
    <3> QED  BY <2>3, <3>3, OthersTold DEF RemoveStream, TypeInv, TypeOK
  <2>4. CASE AckWritten(c)
    <3>1. /\ session[c] = "ack" /\ session'[c] \in {"select", "subscribing"}
          /\ acked'[c] = acked[c] \cup {Head(todo[c])}
          /\ UNCHANGED <<cursor, message>>
      BY <2>4 DEF AckWritten, Continue, TypeInv, TypeOK
    <3>2. Told(c)'
      BY <2>0, <3>1 DEF Told, Subscriptions
    <3> QED  BY <2>4, <3>2, OthersTold DEF AckWritten, Continue, TypeInv, TypeOK
  <2>5. CASE UnackWritten(c)
    <3>1. /\ session[c] = "unack" /\ session'[c] \in {"select", "unsubscribing"}
          /\ acked'[c] = acked[c] \ {Head(todo[c])}
          /\ UNCHANGED <<cursor, message>> /\ message[c] = {}
      BY <2>5 DEF UnackWritten, Continue, TypeInv, TypeOK, Places
    <3>2. Told(c)'
      BY <2>0, <3>1 DEF Told, Subscriptions
    <3> QED  BY <2>5, <3>2, OthersTold DEF UnackWritten, Continue, TypeInv, TypeOK
  <2>6. CASE MessageWritten(c) \/ ReplyWritten(c)
    <3>1. /\ session[c] \in {"deliver", "reply"} /\ session'[c] = "select"
          /\ UNCHANGED <<cursor, acked>> /\ message'[c] \in {message[c], {}}
      BY <2>6 DEF MessageWritten, ReplyWritten, TypeInv, TypeOK
    <3>2. Told(c)'
      BY <2>0, <3>1 DEF Told, Subscriptions
    <3> QED  BY <2>6, <3>2, OthersTold DEF MessageWritten, ReplyWritten, TypeInv, TypeOK
  <2>7. ASSUME NEW ch \in Channels, DropReceiver(c, ch)
        PROVE  ToldInv'
    <3>1. /\ session'[c] = "dropping" /\ acked'[c] = {}
          /\ message[c] = {} /\ UNCHANGED message
      BY <2>7 DEF DropReceiver, TypeInv, TypeOK, Places
    <3>2. Told(c)'
      BY <3>1 DEF Told
    <3> QED  BY <2>7, <3>2, OthersTold DEF DropReceiver, TypeInv, TypeOK
  <2>8. CASE Dropped(c)
    <3>1. /\ session'[c] = "ended" /\ acked'[c] = {} /\ Subscriptions(c)' = {}
          /\ message[c] = {} /\ UNCHANGED message
      BY <2>8 DEF Dropped, TypeInv, TypeOK, Places, Subscriptions
    <3>2. Told(c)'
      BY <3>1 DEF Told
    <3> QED  BY <2>8, <3>2, OthersTold DEF Dropped, TypeInv, TypeOK
  <2> QED  BY <1>3, <2>1, <2>2, <2>3, <2>4, <2>5, <2>6, <2>7, <2>8 DEF Proceed
<1>4. ASSUME NEW c \in Clients, NEW ch \in Channels, Receive(c, ch)
      PROVE  ToldInv'
  <2>1. Told(c)
    BY DEF ToldInv
  <2>2. PICK n \in NextPosition(c, ch) :
               /\ message' = [message EXCEPT ![c] = {[channel |-> ch, position |-> n]}]
               /\ cursor' = [cursor EXCEPT ![c][ch] = {n + 1}]
    BY <1>4 DEF Receive
  <2>3. cursor[c][ch] # {}
    BY NextPositionType DEF TypeInv
  <2>4. /\ session[c] = "select" /\ session'[c] = "deliver" /\ UNCHANGED <<todo, acked>>
        /\ cursor'[c][ch] # {}
        /\ \A x \in Channels \ {ch} : cursor'[c][x] = cursor[c][x]
        /\ \A m \in message'[c] : m.channel = ch
        /\ acked[c] \in SUBSET Channels
    <3>1. cursor'[c][ch] = {n + 1} /\ \A x \in Channels \ {ch} : cursor'[c][x] = cursor[c][x]
      BY <2>2 DEF TypeInv, TypeOK
    <3>2. message'[c] = {[channel |-> ch, position |-> n]}
      BY <2>2 DEF TypeInv, TypeOK
    <3>3. \A m \in message'[c] : m.channel = ch
      BY <3>2
    <3>4. /\ session[c] = "select" /\ session'[c] = "deliver" /\ UNCHANGED <<todo, acked>>
          /\ acked[c] \in SUBSET Channels
      BY <1>4 DEF Receive, TypeInv, TypeOK
    <3>5. cursor'[c][ch] # {}
      BY <3>1
    <3> QED  BY <3>1, <3>3, <3>4, <3>5
  <2>5. Told(c)'
    BY <2>1, <2>3, <2>4 DEF Told, Subscriptions
  <2> QED  BY <1>4, <2>2, <2>5, OthersTold DEF Receive, TypeInv, TypeOK
<1>5. ASSUME NEW c \in Clients, Leave(c)
      PROVE  ToldInv'
  <2>1. session'[c] = "dropping" /\ acked'[c] = {} /\ message'[c] = {}
    BY <1>5 DEF Leave, TypeInv, TypeOK
  <2>2. Told(c)'
    BY <2>1 DEF Told
  <2> QED  BY <1>5, <2>2, OthersTold DEF Leave, TypeInv, TypeOK
<1>6. CASE UNCHANGED vars
  BY <1>6 DEF vars, ToldInv, Told, Subscriptions
<1> QED  BY <1>1, <1>2, <1>3, <1>4, <1>5, <1>6 DEF Next

LEMMA ToldInvHolds == Spec => []ToldInv
<1>1. Init => ToldInv
  BY DEF Init, ToldInv, Told, Subscriptions
<1>2. TypeInv /\ ToldInv /\ [Next]_vars => ToldInv'
  BY ToldInvNext
<1> QED  BY <1>1, <1>2, TypeInvHolds, PTL DEF Spec

\* A client is listening on the channels of which it has a confirmation, and
\* the publishers see its receiver (cmd/subscribe.rs:178-199, 235-240).
THEOREM Listening == Spec => []AckedIsListening
<1>1. TypeInv /\ ReceiversCounted /\ ToldInv => AckedIsListening
  <2> SUFFICES ASSUME TypeInv, ReceiversCounted, ToldInv,
                      NEW c \in Clients, NEW ch \in acked[c], cursor[c][ch] # {}
               PROVE  rx_count[ch] > 0
    BY DEF AckedIsListening, ToldInv, Told
  <2>1. ch \in Channels
    BY DEF TypeInv, TypeOK
  <2>2. c \in Subscribers(ch)
    BY DEF Subscribers
  <2>3. Cardinality(Subscribers(ch) \ {c}) = Cardinality(Subscribers(ch)) - 1
    BY <2>1, <2>2, Counts, FS_RemoveElement
  <2>4. Cardinality(Subscribers(ch) \ {c}) \in Nat
    BY <2>1, Counts, FS_Subset, FS_CardinalityType
  <2> QED  BY <2>1, <2>3, <2>4, Counts DEF ReceiversCounted
<1> QED  BY <1>1, TypeInvHolds, CountCorrect, ToldInvHolds, PTL

\* The number in a confirmation is that of the channels the client has been
\* told of (cmd/subscribe.rs:193-199, 228-240).
THEOREM NumberCorrect == Spec => []ConfirmedNumberIsTrue
<1>1. TypeInv /\ ToldInv => ConfirmedNumberIsTrue
  <2> SUFFICES ASSUME TypeInv, ToldInv, NEW c \in Clients
               PROVE  /\ session[c] = "ack" =>
                            Subscriptions(c) = acked[c] \cup {Head(todo[c])}
                      /\ session[c] = "unack" =>
                            Subscriptions(c) = acked[c] \ {Head(todo[c])}
    BY DEF ConfirmedNumberIsTrue, NumSubs
  <2>1. Told(c) /\ acked[c] \subseteq Channels
    BY DEF ToldInv, TypeInv, TypeOK
  <2>2. ASSUME session[c] \in {"ack", "unack"}
        PROVE  Head(todo[c]) \in Channels
    BY <2>2, HeadType DEF Working
  <2>3. ASSUME session[c] = "ack"
        PROVE  Subscriptions(c) = acked[c] \cup {Head(todo[c])}
    BY <2>1, <2>2, <2>3 DEF Told, Subscriptions
  <2>4. ASSUME session[c] = "unack"
        PROVE  Subscriptions(c) = acked[c] \ {Head(todo[c])}
    BY <2>1, <2>2, <2>4 DEF Told, Subscriptions
  <2> QED  BY <2>3, <2>4
<1> QED  BY <1>1, TypeInvHolds, ToldInvHolds, PTL

\* A message comes only while the client is told to be subscribed
\* (cmd/subscribe.rs:123-149, 193-199, 235-240).
THEOREM MessagesMatch == Spec => []MessagesOnlyWhileSubscribed
<1>1. ToldInv => MessagesOnlyWhileSubscribed
  BY DEF ToldInv, Told, MessagesOnlyWhileSubscribed
<1> QED  BY <1>1, ToldInvHolds, PTL

-----------------------------------------------------------------------------
(***************************************************************************)
(* Positions: what a client has seen, the message it is being written, its *)
(* stream, a receiver not yet in the StreamMap, and the channel, in this   *)
(* order.                                                                  *)
(***************************************************************************)

Ordered(c, ch) ==
    /\ seen[c][ch] <= tail[ch]
    /\ \A n \in cursor[c][ch] : seen[c][ch] <= n /\ n <= tail[ch]
    /\ \A m \in message[c] : m.channel = ch =>
          /\ seen[c][ch] <= m.position /\ m.position < tail[ch]
          /\ \A n \in cursor[c][ch] : m.position < n
    /\ session[c] = "registered" /\ Head(todo[c]) = ch =>
          \A f \in fresh[c] :
             /\ seen[c][ch] <= f /\ f <= tail[ch]
             /\ \A n \in cursor[c][ch] : n <= f

OrderInv == \A c \in Clients, ch \in Channels : Ordered(c, ch)

LEMMA OthersOrdered ==
    ASSUME OrderInv, NEW c \in Clients, \A ch \in Channels : Ordered(c, ch)',
           UNCHANGED tail,
           \A d \in Clients \ {c} :
               /\ session'[d] = session[d] /\ todo'[d] = todo[d] /\ fresh'[d] = fresh[d]
               /\ cursor'[d] = cursor[d] /\ seen'[d] = seen[d] /\ message'[d] = message[d]
    PROVE  OrderInv'
<1>1. ASSUME NEW d \in Clients \ {c}, NEW ch \in Channels
      PROVE  Ordered(d, ch)'
  <2>1. Ordered(d, ch)
    BY DEF OrderInv
  <2> QED  BY <2>1 DEF Ordered
<1> QED  BY <1>1 DEF OrderInv

\* A session that does not register, keeps its streams or loses some.
LEMMA FewerStreams ==
    ASSUME TypeInv, OrderInv, NEW c \in Clients, UNCHANGED <<tail, seen>>,
           session' = [session EXCEPT ![c] = session'[c]], session'[c] # "registered",
           message'[c] \in {message[c], {}},
           \A ch \in Channels : cursor'[c][ch] \in {cursor[c][ch], {}},
           \A d \in Clients \ {c} :
               /\ todo'[d] = todo[d] /\ fresh'[d] = fresh[d]
               /\ cursor'[d] = cursor[d] /\ message'[d] = message[d]
    PROVE  OrderInv'
<1>1. \A d \in Clients \ {c} : session'[d] = session[d]
  BY DEF TypeInv, TypeOK
<1>2. ASSUME NEW ch \in Channels
      PROVE  Ordered(c, ch)'
  <2>1. Ordered(c, ch)
    BY DEF OrderInv
  <2> QED  BY <2>1 DEF Ordered
<1> QED  BY <1>1, <1>2, OthersOrdered

LEMMA OrderInvNext ==
    ASSUME TypeInv, OrderInv, [Next]_vars
    PROVE  OrderInv'
<1> USE DEF broadcast, streams, told
<1>1. ASSUME NEW ch \in Channels, Publish(ch)
      PROVE  OrderInv'
  <2>1. ASSUME NEW c \in Clients, NEW x \in Channels
        PROVE  Ordered(c, x)'
    <3>1. Ordered(c, x) /\ tail[x] \in Nat /\ tail'[x] \in {tail[x], tail[x] + 1}
      BY <1>1 DEF OrderInv, Publish, TypeInv, TypeOK
    <3>2. /\ seen[c][x] \in Nat /\ cursor[c][x] \subseteq Nat /\ fresh[c] \subseteq Nat
          /\ \A m \in message[c] : m.position \in Nat
      BY DEF TypeInv, TypeOK, Opt, Message
    <3> QED  BY <1>1, <3>1, <3>2 DEF Ordered, Publish
  <2> QED  BY <2>1 DEF OrderInv
<1>2. ASSUME NEW c \in Clients, Command(c)
      PROVE  OrderInv'
  <2>1. /\ UNCHANGED <<tail, seen, cursor, message, fresh>>
        /\ session' = [session EXCEPT ![c] = session'[c]] /\ session'[c] # "registered"
        /\ \A d \in Clients \ {c} : todo'[d] = todo[d]
    BY <1>2 DEF Command, Subscribe, Unsubscribe, UnsubscribeAll, OtherCommand, TypeInv, TypeOK
  <2> QED  BY <2>1, FewerStreams
<1>3. ASSUME NEW c \in Clients, Proceed(c)
      PROVE  OrderInv'
  <2>1. CASE Register(c)
    <3>1. ASSUME NEW ch \in Channels
          PROVE  Ordered(c, ch)'
      <4>1. Ordered(c, ch) /\ tail[ch] \in Nat
        BY DEF OrderInv, TypeInv, TypeOK
      <4>2. UNCHANGED <<tail, todo, cursor, message, seen>> /\ fresh'[c] = {tail[Head(todo[c])]}
        BY <2>1 DEF Register, TypeInv, TypeOK
      <4> QED  BY <4>1, <4>2 DEF Ordered
    <3> QED  BY <2>1, <3>1, OthersOrdered DEF Register, TypeInv, TypeOK
  <2>2. CASE Insert(c)
    <3>1. PICK x \in Channels : x = Head(todo[c])
      BY <2>2, HeadType DEF Insert, Working
    <3>2. ASSUME NEW ch \in Channels
          PROVE  Ordered(c, ch)'
      <4>1. Ordered(c, ch) /\ message[c] = {}
        BY <2>2 DEF OrderInv, Insert, TypeInv, Places
      <4>2. /\ UNCHANGED <<tail, message, seen>> /\ session[c] = "registered" /\ session'[c] = "ack"
            /\ cursor'[c][ch] = IF ch = x THEN fresh[c] ELSE cursor[c][ch]
        BY <2>2, <3>1 DEF Insert, TypeInv, TypeOK
      <4> QED  BY <3>1, <4>1, <4>2 DEF Ordered
    <3> QED  BY <2>2, <3>2, OthersOrdered DEF Insert, TypeInv, TypeOK
  <2>3. CASE RemoveStream(c)
    <3>1. PICK x \in Channels : x = Head(todo[c])
      BY <2>3, HeadType DEF RemoveStream, Working
    <3>2. \A ch \in Channels : cursor'[c][ch] \in {cursor[c][ch], {}}
      BY <2>3, <3>1 DEF RemoveStream, TypeInv, TypeOK
    <3>3. session' = [session EXCEPT ![c] = session'[c]] /\ session'[c] = "unack"
      BY <2>3 DEF RemoveStream, TypeInv, TypeOK
    <3>4. \A d \in Clients \ {c} : cursor'[d] = cursor[d]
      BY <2>3 DEF RemoveStream, TypeInv, TypeOK
    <3> QED  BY <2>3, <3>2, <3>3, <3>4, FewerStreams DEF RemoveStream
  <2>4. CASE AckWritten(c) \/ UnackWritten(c)
    <3>1. /\ session' = [session EXCEPT ![c] = session'[c]] /\ session'[c] # "registered"
          /\ \A d \in Clients \ {c} : todo'[d] = todo[d]
      BY <2>4 DEF AckWritten, UnackWritten, Continue, TypeInv, TypeOK
    <3> QED  BY <2>4, <3>1, FewerStreams DEF AckWritten, UnackWritten
  <2>5. CASE ReplyWritten(c) \/ Dropped(c)
    <3>1. session' = [session EXCEPT ![c] = session'[c]] /\ session'[c] # "registered"
      BY <2>5 DEF ReplyWritten, Dropped, TypeInv, TypeOK
    <3> QED  BY <2>5, <3>1, FewerStreams DEF ReplyWritten, Dropped
  <2>6. CASE MessageWritten(c)
    <3>1. PICK m \in message[c] : seen' = [seen EXCEPT ![c][m.channel] = m.position + 1]
      BY <2>6 DEF MessageWritten
    <3>2. m.channel \in Channels /\ m.position \in Nat
      BY <3>1 DEF TypeInv, TypeOK, Opt, Message
    <3>3. ASSUME NEW ch \in Channels
          PROVE  Ordered(c, ch)'
      <4>1. Ordered(c, ch) /\ tail[ch] \in Nat /\ cursor[c][ch] \subseteq Nat
        BY DEF OrderInv, TypeInv, TypeOK, Opt
      <4>2. /\ UNCHANGED <<tail, cursor>> /\ session'[c] = "select" /\ message'[c] = {}
            /\ seen'[c][ch] = IF ch = m.channel THEN m.position + 1 ELSE seen[c][ch]
        BY <2>6, <3>1, <3>2 DEF MessageWritten, TypeInv, TypeOK
      <4> QED  BY <3>1, <3>2, <4>1, <4>2 DEF Ordered
    <3>4. \A d \in Clients \ {c} : seen'[d] = seen[d]
      BY <3>1 DEF TypeInv, TypeOK
    <3> QED  BY <2>6, <3>3, <3>4, OthersOrdered DEF MessageWritten, TypeInv, TypeOK
  <2>7. ASSUME NEW ch \in Channels, DropReceiver(c, ch)
        PROVE  OrderInv'
    <3>1. \A x \in Channels : cursor'[c][x] \in {cursor[c][x], {}}
      BY <2>7 DEF DropReceiver, TypeInv, TypeOK
    <3>2. session' = [session EXCEPT ![c] = session'[c]] /\ session'[c] = "dropping"
      BY <2>7 DEF DropReceiver, TypeInv, TypeOK
    <3>3. \A d \in Clients \ {c} : cursor'[d] = cursor[d]
      BY <2>7 DEF DropReceiver, TypeInv, TypeOK
    <3> QED  BY <2>7, <3>1, <3>2, <3>3, FewerStreams DEF DropReceiver
  <2> QED  BY <1>3, <2>1, <2>2, <2>3, <2>4, <2>5, <2>6, <2>7 DEF Proceed
<1>4. ASSUME NEW c \in Clients, NEW x \in Channels, Receive(c, x)
      PROVE  OrderInv'
  <2>1. PICK n \in NextPosition(c, x) :
               /\ n < tail[x]
               /\ message' = [message EXCEPT ![c] = {[channel |-> x, position |-> n]}]
               /\ cursor' = [cursor EXCEPT ![c][x] = {n + 1}]
    BY <1>4 DEF Receive
  <2>2. n \in Nat /\ \E k \in cursor[c][x] : k \in Nat /\ k <= n
    BY NextPositionType DEF TypeInv
  <2>3. message'[c] = {[channel |-> x, position |-> n]}
    BY <2>1 DEF TypeInv, TypeOK
  <2>4. ASSUME NEW ch \in Channels
        PROVE  Ordered(c, ch)'
    <3>1. Ordered(c, ch) /\ tail[ch] \in Nat /\ seen[c][ch] \in Nat
      BY DEF OrderInv, TypeInv, TypeOK
    <3>2. /\ UNCHANGED <<tail, seen>> /\ session'[c] = "deliver"
          /\ cursor'[c][ch] = IF ch = x THEN {n + 1} ELSE cursor[c][ch]
      BY <1>4, <2>1 DEF Receive, TypeInv, TypeOK
    <3>3. CASE ch = x
      <4>1. seen[c][ch] <= n
        BY <2>2, <3>1, <3>3 DEF Ordered
      <4> QED  BY <2>1, <2>2, <2>3, <3>1, <3>2, <3>3, <4>1 DEF Ordered
    <3>4. CASE ch # x
      BY <2>3, <3>1, <3>2, <3>4 DEF Ordered
    <3> QED  BY <3>3, <3>4
  <2>5. \A d \in Clients \ {c} : cursor'[d] = cursor[d] /\ message'[d] = message[d]
    BY <2>1 DEF TypeInv, TypeOK
  <2> QED  BY <1>4, <2>4, <2>5, OthersOrdered DEF Receive, TypeInv, TypeOK
<1>5. ASSUME NEW c \in Clients, Leave(c)
      PROVE  OrderInv'
  <2>1. /\ session' = [session EXCEPT ![c] = session'[c]] /\ session'[c] # "registered"
        /\ message'[c] = {}
        /\ \A d \in Clients \ {c} : todo'[d] = todo[d] /\ message'[d] = message[d]
    BY <1>5 DEF Leave, TypeInv, TypeOK
  <2> QED  BY <1>5, <2>1, FewerStreams DEF Leave
<1>6. CASE UNCHANGED vars
  BY <1>6 DEF vars, OrderInv, Ordered
<1> QED  BY <1>1, <1>2, <1>3, <1>4, <1>5, <1>6 DEF Next

LEMMA OrderInvHolds == Spec => []OrderInv
<1>1. Init => OrderInv
  BY DEF Init, OrderInv, Ordered
<1>2. TypeInv /\ OrderInv /\ [Next]_vars => OrderInv'
  BY OrderInvNext
<1> QED  BY <1>1, <1>2, TypeInvHolds, PTL DEF Spec

\* The messages of a channel come in order and once (db.rs:243-260;
\* cmd/subscribe.rs:181-193).
THEOREM OrderCorrect == Spec => []InOrderWithoutDuplicates
<1>1. TypeInv /\ OrderInv => InOrderWithoutDuplicates
  <2> SUFFICES ASSUME TypeInv, OrderInv, NEW c \in Clients, NEW m \in message[c]
               PROVE  m.position >= seen[c][m.channel]
    BY DEF InOrderWithoutDuplicates
  <2>1. m.channel \in Channels /\ m.position \in Nat
    BY DEF TypeInv, TypeOK, Opt, Message
  <2>2. Ordered(c, m.channel) /\ seen[c][m.channel] \in Nat
    BY <2>1 DEF OrderInv, TypeInv, TypeOK
  <2> QED  BY <2>1, <2>2 DEF Ordered
<1> QED  BY <1>1, TypeInvHolds, OrderInvHolds, PTL

LEMMA SkipsNext ==
    ASSUME TypeInv, OrderInv, [Next]_vars,
           NEW d \in Clients, NEW x \in Channels, NEW n \in cursor[d][x], NEW m \in cursor'[d][x]
    PROVE  \/ m \in {n, n + 1}
           \/ n + Capacity < tail[x] /\ m = tail[x] - Capacity + 1
           \/ session[d] = "registered" /\ fresh[d] = {m} /\ m >= n
<1> USE DEF broadcast, streams, told
<1>0. cursor[d][x] = {n} /\ n \in Nat
  BY DEF TypeInv, TypeOK, Opt
<1>1. CASE cursor'[d][x] = cursor[d][x]
  BY <1>0, <1>1
<1>2. ASSUME NEW c \in Clients, Insert(c)
      PROVE  \/ cursor'[d][x] = cursor[d][x]
             \/ session[d] = "registered" /\ fresh[d] = {m} /\ m >= n
  <2>1. PICK ch \in Channels : ch = Head(todo[c])
    BY <1>2, HeadType DEF Insert, Working
  <2>2. CASE d = c /\ x = ch
    <3>1. session[d] = "registered" /\ cursor'[d][x] = fresh[d]
      BY <1>2, <2>1, <2>2 DEF Insert, TypeInv, TypeOK
    <3>2. fresh[d] = {m} /\ m \in Nat
      BY <3>1 DEF TypeInv, TypeOK, Opt
    <3>3. Ordered(d, x)
      BY DEF OrderInv
    <3> QED  BY <1>0, <2>1, <2>2, <3>1, <3>2, <3>3 DEF Ordered
  <2>3. CASE d # c \/ x # ch
    BY <1>2, <2>1, <2>3 DEF Insert, TypeInv, TypeOK
  <2> QED  BY <2>2, <2>3
<1>3. ASSUME NEW c \in Clients, RemoveStream(c)
      PROVE  cursor'[d][x] = cursor[d][x]
  <2>1. PICK ch \in Channels : ch = Head(todo[c])
    BY <1>3, HeadType DEF RemoveStream, Working
  <2> QED  BY <1>3, <2>1 DEF RemoveStream, TypeInv, TypeOK
<1>4. ASSUME NEW c \in Clients, NEW ch \in Channels, DropReceiver(c, ch)
      PROVE  cursor'[d][x] = cursor[d][x]
  BY <1>4 DEF DropReceiver, TypeInv, TypeOK
<1>5. ASSUME NEW c \in Clients, NEW ch \in Channels, Receive(c, ch)
      PROVE  \/ m \in {n, n + 1}
             \/ n + Capacity < tail[x] /\ m = tail[x] - Capacity + 1
  <2>1. PICK k \in NextPosition(c, ch) : cursor' = [cursor EXCEPT ![c][ch] = {k + 1}]
    BY <1>5 DEF Receive
  <2>2. CASE d = c /\ x = ch
    <3>1. m = k + 1
      BY <2>1, <2>2 DEF TypeInv, TypeOK
    <3>2. k = IF n >= Oldest(x) THEN n ELSE Oldest(x)
      BY <1>0, <2>2 DEF NextPosition
    <3>3. tail[x] \in Nat
      BY DEF TypeInv, TypeOK
    <3> QED  BY <1>0, <3>1, <3>2, <3>3, PubSubAssumption DEF Oldest
  <2>3. CASE d # c \/ x # ch
    BY <1>0, <2>1, <2>3 DEF TypeInv, TypeOK
  <2> QED  BY <2>2, <2>3
<1>6. \/ UNCHANGED cursor
      \/ \E c \in Clients : \/ Insert(c) \/ RemoveStream(c)
                           \/ \E ch \in Channels : DropReceiver(c, ch) \/ Receive(c, ch)
  BY DEF Next, vars, Publish, Command, Subscribe, Unsubscribe, UnsubscribeAll, OtherCommand,
         Proceed, Register, AckWritten, UnackWritten, MessageWritten, ReplyWritten, Dropped, Leave
<1> QED  BY <1>1, <1>2, <1>3, <1>4, <1>5, <1>6

\* A subscription skips only what the channel no longer holds, or by a new
\* SUBSCRIBE (db.rs:248-255; cmd/subscribe.rs:184-186, 193).
THEOREM SkipsCorrect == Spec => SkipsOnlyWhatIsGone
<1>1. TypeInv /\ OrderInv /\ [Next]_vars =>
        [\A c \in Clients, ch \in Channels : \A n \in cursor[c][ch], m \in cursor'[c][ch] :
           \/ m \in {n, n + 1}
           \/ n + Capacity < tail[ch] /\ m = tail[ch] - Capacity + 1
           \/ session[c] = "registered" /\ fresh[c] = {m} /\ m >= n]_vars
  BY SkipsNext
<1> QED  BY <1>1, TypeInvHolds, OrderInvHolds, PTL DEF Spec, SkipsOnlyWhatIsGone
=============================================================================
