---------------------------- MODULE SessionProofs ----------------------------
(***************************************************************************)
(* Proofs about module Session, for every set of channels, finite or not,  *)
(* and every bound.                                                        *)
(***************************************************************************)
EXTENDS Session, SequenceTheorems, FiniteSetTheorems, TLAPS

-----------------------------------------------------------------------------
(***************************************************************************)
(* Lists of channels.                                                      *)
(***************************************************************************)

LEMMA ListsType ==
    /\ <<>> \in Lists
    /\ \A list \in Lists : list \in Seq(Channels) /\ Len(list) \in Nat
<1>1. Lists = UNION {[1..m -> Channels] : m \in 0..MaxList}
  BY DEF Lists, BoundedSeq, SeqOf
<1>2. 0 \in 0..MaxList /\ <<>> \in [1..0 -> Channels]
  BY SessionAssumption
<1>3. \A list \in Lists : list \in Seq(Channels)
  <2> SUFFICES ASSUME NEW m \in 0..MaxList, NEW list \in [1..m -> Channels]
               PROVE  list \in Seq(Channels)
    BY <1>1
  <2>1. m \in Nat
    BY SessionAssumption
  <2> QED  BY <2>1, SeqDef
<1> QED  BY <1>1, <1>2, <1>3, LenProperties

LEMMA ListRange ==
    ASSUME NEW list \in Seq(Channels)
    PROVE  Range(list) \subseteq Channels /\ IsFiniteSet(Range(list))
<1>1. Range(list) = {list[i] : i \in 1..Len(list)} /\ Len(list) \in Nat
  BY RangeEquality, LenProperties
<1>2. IsFiniteSet(1..Len(list))
  BY <1>1, FS_Interval
<1>3. list \in Surjection(1..Len(list), Range(list))
  BY <1>1, LenProperties DEF Surjection
<1> QED  BY <1>2, <1>3, FS_Surjection, RangeOfSeq

\* Any order of a finite set of channels names each of them once.
LEMMA AllOf ==
    ASSUME NEW S \in SUBSET Channels, IsFiniteSet(S), NEW all \in SetToSeqs(S)
    PROVE  all \in Seq(Channels) /\ Range(all) = S /\ IsInjective(all)
<1> DEFINE D == 1..Cardinality(S)
<1>1. Cardinality(S) \in Nat
  BY FS_CardinalityType
<1>2. all \in [D -> S] /\ \A i, j \in D : i # j => all[i] # all[j]
  BY DEF SetToSeqs
<1>3. all \in Seq(Channels)
  <2>1. all \in [D -> Channels]
    BY <1>2
  <2> QED  BY <1>1, <2>1, SeqDef
<1>4. all \in Injection(D, S) /\ IsInjective(all)
  BY <1>2 DEF Injection, IsInjective
<1>5. Cardinality(D) = Cardinality(S)
  BY <1>1, FS_Interval
<1>6. all \in Surjection(D, S)
  BY <1>4, <1>5, FS_Injection
<1>7. Range(all) = S
  BY <1>2, <1>6 DEF Surjection, Range
<1> QED  BY <1>3, <1>4, <1>7

\* Each rank up to the number of the entries that are kept belongs to one of them.
LEMMA Ranks ==
    ASSUME NEW n \in Nat, NEW Kept \in SUBSET (1..n), NEW rank,
           rank = [i \in Kept |-> Cardinality({j \in Kept : j <= i})]
    PROVE  /\ Cardinality(Kept) \in Nat
           /\ rank \in Surjection(Kept, 1..Cardinality(Kept))
           /\ rank \in Injection(Kept, 1..Cardinality(Kept))
<1> DEFINE UpTo(i) == {j \in Kept : j <= i}
<1>0. \A i \in Kept : i \in Nat
  OBVIOUS
<1>1. IsFiniteSet(Kept) /\ Cardinality(Kept) \in Nat
  <2>1. IsFiniteSet(1..n)
    BY FS_Interval
  <2>2. IsFiniteSet(Kept)
    BY <2>1, FS_Subset
  <2> QED  BY <2>2, FS_CardinalityType
<1>2. ASSUME NEW i \in Kept
      PROVE  IsFiniteSet(UpTo(i)) /\ rank[i] = Cardinality(UpTo(i)) /\ rank[i] \in 1..Cardinality(Kept)
  <2>1. UpTo(i) \in SUBSET Kept /\ i \in UpTo(i)
    OBVIOUS
  <2>2. rank[i] = Cardinality(UpTo(i))
    OBVIOUS
  <2> HIDE DEF UpTo
  <2>3. IsFiniteSet(UpTo(i)) /\ Cardinality(UpTo(i)) <= Cardinality(Kept)
    BY <1>1, <2>1, FS_Subset
  <2>4. Cardinality(UpTo(i)) \in Nat /\ Cardinality(UpTo(i)) # 0
    BY <2>1, <2>3, FS_CardinalityType, FS_EmptySet
  <2> QED  BY <1>1, <2>2, <2>3, <2>4
<1>3. ASSUME NEW i \in Kept, NEW j \in Kept, i < j
      PROVE  rank[i] # rank[j]
  <2>1. UpTo(i) \in SUBSET UpTo(j)
    <3> SUFFICES ASSUME NEW x \in Kept, x <= i
                 PROVE  x <= j
      OBVIOUS
    <3> HIDE DEF UpTo
    <3> QED  BY <1>0, <1>3
  <2>2. j \in UpTo(j) /\ j \notin UpTo(i)
    BY <1>0, <1>3
  <2> HIDE DEF UpTo
  <2>3. Cardinality(UpTo(i)) # Cardinality(UpTo(j))
    BY <1>2, <2>1, <2>2, FS_Subset
  <2> QED  BY <1>2, <2>3
<1>4. rank \in Injection(Kept, 1..Cardinality(Kept))
  <2>1. rank \in [Kept -> 1..Cardinality(Kept)]
    BY <1>2
  <2>2. \A i, j \in Kept : rank[i] = rank[j] => i = j
    BY <1>0, <1>3
  <2> HIDE DEF UpTo
  <2> QED  BY <2>1, <2>2 DEF Injection, IsInjective
<1>5. IsFiniteSet(1..Cardinality(Kept)) /\ Cardinality(1..Cardinality(Kept)) = Cardinality(Kept)
  BY <1>1, FS_Interval
<1> QED  BY <1>1, <1>4, <1>5, FS_Injection

\* What is left are the other channels, each as often as it was named.
LEMMA WithoutKeeps ==
    ASSUME NEW list \in Seq(Channels), NEW channel
    PROVE  LET Kept == {i \in DOMAIN list : list[i] # channel}
           IN  /\ Cardinality(Kept) \in Nat /\ Len(Without(list, channel)) = Cardinality(Kept)
               /\ \E at \in Bijection(1..Cardinality(Kept), Kept) :
                    Without(list, channel) = [k \in 1..Cardinality(Kept) |-> list[at[k]]]
<1> DEFINE Kept == {i \in DOMAIN list : list[i] # channel}
           n == Cardinality(Kept)
           rank == [i \in Kept |-> Cardinality({j \in Kept : j <= i})]
           at == [k \in 1..n |->
                    CHOOSE i \in Kept : Cardinality({j \in Kept : j <= i}) = k]
<1>1. DOMAIN list = 1..Len(list) /\ Len(list) \in Nat
  BY LenProperties
<1>2. Without(list, channel) = [k \in 1..n |-> list[at[k]]]
  <2>1. Without(list, channel) =
          [k \in 1..n |-> list[CHOOSE i \in Kept : Cardinality({j \in Kept : j <= i}) = k]]
    BY Zenon DEF Without
  <2> HIDE DEF Kept, rank
  <2> QED  BY <2>1
<1>3. n \in Nat /\ rank \in Surjection(Kept, 1..n) /\ rank \in Injection(Kept, 1..n)
  <2>1. Kept \in SUBSET (1..Len(list))
    BY <1>1
  <2> HIDE DEF Kept
  <2> QED  BY <1>1, <2>1, Ranks
<1> HIDE DEF Kept, rank
<1>4. ASSUME NEW k \in 1..n
      PROVE  at[k] \in Kept /\ rank[at[k]] = k
  <2>1. \A i \in Kept : rank[i] = Cardinality({j \in Kept : j <= i})
    BY DEF rank
  <2>2. \E i \in Kept : rank[i] = k
    BY <1>3 DEF Surjection
  <2>3. \E i \in Kept : Cardinality({j \in Kept : j <= i}) = k
    BY <2>1, <2>2
  <2>4. at[k] \in Kept /\ Cardinality({j \in Kept : j <= at[k]}) = k
    BY <2>3
  <2> QED  BY <2>1, <2>4
<1>5. at \in Bijection(1..n, Kept)
  <2>1. at \in [1..n -> Kept]
    BY <1>4
  <2>2. \A k, l \in 1..n : at[k] = at[l] => k = l
    BY <1>4
  <2>3. ASSUME NEW i \in Kept
        PROVE  \E k \in 1..n : at[k] = i
    <3>1. rank[i] \in 1..n
      BY <1>3 DEF Injection
    <3>2. rank[at[rank[i]]] = rank[i] /\ at[rank[i]] \in Kept
      BY <1>4, <3>1
    <3>3. at[rank[i]] = i
      BY <1>3, <3>2 DEF Injection, IsInjective
    <3> QED  BY <3>1, <3>3
  <2> HIDE DEF at
  <2> QED  BY <2>1, <2>2, <2>3 DEF Bijection, Injection, Surjection, IsInjective
<1> HIDE DEF at
<1>6. Len(Without(list, channel)) = n
  BY <1>2, <1>3
<1> QED  BY <1>2, <1>3, <1>5, <1>6 DEF Kept

LEMMA WithoutType ==
    ASSUME NEW list \in Seq(Channels), NEW channel
    PROVE  /\ Without(list, channel) \in Seq(Channels)
           /\ Range(Without(list, channel)) = Range(list) \ {channel}
<1> DEFINE Kept == {i \in DOMAIN list : list[i] # channel}
           n == Cardinality(Kept)
<1>1. DOMAIN list = 1..Len(list) /\ \A i \in 1..Len(list) : list[i] \in Channels
  BY LenProperties, ElementOfSeq
<1>2. PICK at \in Bijection(1..n, Kept) :
        Without(list, channel) = [k \in 1..n |-> list[at[k]]]
  BY WithoutKeeps
<1>3. n \in Nat
  BY WithoutKeeps
<1>4. \A i \in Kept : i \in 1..Len(list) /\ list[i] # channel
  BY <1>1
<1>5. \A i \in 1..Len(list) : list[i] # channel => i \in Kept
  BY <1>1
<1> HIDE DEF Kept, n
<1>6. /\ \A k \in 1..n : at[k] \in Kept
      /\ \A i \in Kept : \E k \in 1..n : at[k] = i
  BY <1>2 DEF Bijection, Injection, Surjection
<1>7. Without(list, channel) \in [1..n -> Channels]
  BY <1>1, <1>2, <1>4, <1>6
<1>8. Without(list, channel) \in Seq(Channels)
  BY <1>3, <1>7, SeqDef
<1>9. Range(Without(list, channel)) = Range(list) \ {channel}
  BY <1>1, <1>2, <1>4, <1>5, <1>6 DEF Range
<1> QED  BY <1>8, <1>9

\* A list that names no channel twice is shorter by the one it loses.
LEMMA WithoutOne ==
    ASSUME NEW list \in Seq(Channels), IsInjective(list), NEW channel \in Range(list)
    PROVE  /\ IsInjective(Without(list, channel))
           /\ Len(Without(list, channel)) = Len(list) - 1
<1> DEFINE Kept == {i \in DOMAIN list : list[i] # channel}
           n == Cardinality(Kept)
<1>1. DOMAIN list = 1..Len(list) /\ Len(list) \in Nat
  BY LenProperties
<1>2. PICK at \in Bijection(1..n, Kept) :
        Without(list, channel) = [k \in 1..n |-> list[at[k]]]
  BY WithoutKeeps
<1>3. Len(Without(list, channel)) = n
  BY WithoutKeeps
<1>4. PICK place \in 1..Len(list) : list[place] = channel
  BY <1>1 DEF Range
<1>5. Kept = (1..Len(list)) \ {place}
  BY <1>1, <1>4 DEF IsInjective
<1>6. n = Len(list) - 1
  <2>1. IsFiniteSet(1..Len(list)) /\ Cardinality(1..Len(list)) = Len(list)
    BY <1>1, FS_Interval
  <2>2. Cardinality((1..Len(list)) \ {place}) = Len(list) - 1
    BY <2>1, FS_RemoveElement
  <2> QED  BY <1>5, <2>2
<1> HIDE DEF Kept, n
<1>7. /\ \A k \in 1..n : at[k] \in Kept
      /\ \A k, l \in 1..n : at[k] = at[l] => k = l
  BY <1>2 DEF Bijection, Injection, IsInjective
<1>8. \A k, l \in 1..n : list[at[k]] = list[at[l]] => k = l
  BY <1>1, <1>5, <1>7 DEF IsInjective
<1>9. IsInjective(Without(list, channel))
  BY <1>2, <1>8 DEF IsInjective
<1> QED  BY <1>3, <1>6, <1>9

LEMMA ConfirmationsType ==
    ASSUME NEW kind \in {"subscribe", "unsubscribe"}, NEW list \in Seq(Channels)
    PROVE  /\ Confirmations(kind, list) \in Seq(Replies)
           /\ Len(Confirmations(kind, list)) = Len(list)
           /\ \A i \in 1..Len(list) : Confirmations(kind, list)[i] = Reply(kind, list[i])
<1>1. Len(list) \in Nat /\ DOMAIN list = 1..Len(list)
  BY LenProperties
<1>2. \A i \in 1..Len(list) : Reply(kind, list[i]) \in Replies
  BY <1>1, ElementOfSeq DEF Reply, Replies
<1>3. Confirmations(kind, list) = [i \in 1..Len(list) |-> Reply(kind, list[i])]
  BY <1>1 DEF Confirmations
<1>4. Confirmations(kind, list) \in [1..Len(list) -> Replies]
  BY <1>2, <1>3
<1>5. Confirmations(kind, list) \in Seq(Replies)
  BY <1>1, <1>4, SeqDef
<1> QED  BY <1>1, <1>3, <1>4, <1>5, LenProperties

\* Two lists without a channel twice or in common.
LEMMA ConcatInjects ==
    ASSUME NEW seq \in Seq(Channels), NEW other \in Seq(Channels),
           IsInjective(seq), IsInjective(other), Range(other) \cap Range(seq) = {}
    PROVE  IsInjective(seq \o other)
<1>1. /\ Len(seq) \in Nat /\ DOMAIN seq = 1..Len(seq)
      /\ Len(other) \in Nat /\ DOMAIN other = 1..Len(other)
      /\ DOMAIN (seq \o other) = 1..Len(seq) + Len(other)
  BY LenProperties, ConcatProperties
<1>2. \A i \in 1..Len(seq) + Len(other) :
         (seq \o other)[i] = IF i <= Len(seq) THEN seq[i] ELSE other[i - Len(seq)]
  BY ConcatProperties
<1>3. \A i \in 1..Len(seq), j \in 1..Len(other) : seq[i] # other[j]
  BY <1>1 DEF Range
<1> SUFFICES ASSUME NEW i \in 1..Len(seq) + Len(other), NEW j \in 1..Len(seq) + Len(other),
                    (seq \o other)[i] = (seq \o other)[j]
             PROVE  i = j
  BY <1>1 DEF IsInjective
<1>4. CASE i <= Len(seq) /\ j <= Len(seq)
  BY <1>1, <1>2, <1>4 DEF IsInjective
<1>5. CASE i > Len(seq) /\ j > Len(seq)
  <2>1. i - Len(seq) \in 1..Len(other) /\ j - Len(seq) \in 1..Len(other)
    BY <1>1, <1>5
  <2>2. other[i - Len(seq)] = other[j - Len(seq)]
    BY <1>1, <1>2, <1>5
  <2>3. i - Len(seq) = j - Len(seq)
    BY <1>1, <2>1, <2>2 DEF IsInjective
  <2> QED  BY <1>1, <2>3
<1>6. CASE (i <= Len(seq)) # (j <= Len(seq))
  BY <1>1, <1>2, <1>3, <1>6
<1> QED  BY <1>1, <1>4, <1>5, <1>6

LEMMA ReplyType ==
    ASSUME NEW reply \in Replies, reply.kind \in {"subscribe", "unsubscribe", "message"}
    PROVE  reply.channel \in Channels
BY DEF Replies

-----------------------------------------------------------------------------
(***************************************************************************)
(* Types.  A count of awaited replies is never taken below zero.           *)
(***************************************************************************)

TypeInv ==
    /\ TypeOK
    /\ IsFiniteSet(subscriptions)
    /\ call # "none" => awaited > 0

LEMMA SendType ==
    ASSUME TypeInv, NEW command \in ClientCalls \cup {"subscribe", "unsubscribe"},
           NEW list \in Lists, NEW count \in Nat, Send(command, list, count),
           mode' \in {"client", "subscriber", "dropped"}, careful' \in BOOLEAN
    PROVE  TypeInv'
<1> USE DEF TypeInv
<1>1. requests' \in Seq(Requests)
  <2>1. [command |-> command, channels |-> list] \in Requests
    BY DEF Requests
  <2> QED  BY <2>1, AppendProperties DEF TypeOK, Send
<1>2. calls' \in 0..MaxCalls
  BY SessionAssumption DEF TypeOK, Send
<1> QED  BY <1>1, <1>2 DEF TypeOK, Send, server, ClientCalls

LEMMA CallType ==
    ASSUME TypeInv,
           \/ \E command \in ClientCalls : CallClient(command)
           \/ \E list \in Lists : CallSubscribe(list) \/ CallUnsubscribe(list)
    PROVE  TypeInv'
<1>1. ASSUME NEW command \in ClientCalls, CallClient(command)
      PROVE  TypeInv'
  <2>1. Send(command, <<>>, 1) /\ UNCHANGED <<mode, careful>>
    BY <1>1 DEF CallClient
  <2>2. mode' \in {"client", "subscriber", "dropped"} /\ careful' \in BOOLEAN
    BY <2>1 DEF TypeInv, TypeOK
  <2> QED  BY <2>1, <2>2, ListsType, SendType
<1>2. ASSUME NEW list \in Lists, CallSubscribe(list)
      PROVE  TypeInv'
  <2>1. /\ Send("subscribe", list, Len(list))
        /\ mode' \in {"client", "subscriber", "dropped"} /\ careful' \in BOOLEAN
    BY <1>2 DEF CallSubscribe, TypeInv, TypeOK
  <2> QED  BY <2>1, ListsType, SendType
<1>3. ASSUME NEW list \in Lists, CallUnsubscribe(list)
      PROVE  TypeInv'
  <2> DEFINE count == IF list = <<>> THEN Len(subscribed_channels) ELSE Len(list)
  <2>1. /\ Send("unsubscribe", list, count)
        /\ mode' \in {"client", "subscriber", "dropped"} /\ careful' \in BOOLEAN
    BY <1>3 DEF CallUnsubscribe, TypeInv, TypeOK
  <2>2. count \in Nat
    BY ListsType, LenProperties DEF TypeInv, TypeOK
  <2> HIDE DEF count
  <2> QED  BY <2>1, <2>2, SendType
<1> QED  BY <1>1, <1>2, <1>3

\* What all steps that take a reply off the connection have in common.
LEMMA ResponseType ==
    ASSUME TypeInv, Response
    PROVE  /\ Head(replies) \in Replies
           /\ replies' \in Seq(Replies)
           /\ channels' \in Lists /\ calls' \in 0..MaxCalls /\ drops' \in 0..MaxDrops
           /\ requests' \in Seq(Requests) /\ messages' \in 0..MaxMessages
           /\ subscriptions' \subseteq Channels /\ IsFiniteSet(subscriptions)'
           /\ handler' \in {"open", "closed"} /\ careful' \in BOOLEAN
BY HeadTailProperties DEF TypeInv, TypeOK, Response, server

LEMMA CallEnds ==
    ASSUME TypeInv, call # "none", (Confirmed /\ mode' \in {mode, "subscriber"}) \/ Fails
    PROVE  /\ call' \in {"none", "subscribe", "unsubscribe"} \cup ClientCalls
           /\ awaited' \in Nat /\ (call' # "none" => awaited' > 0)
           /\ mode' \in {"client", "subscriber", "dropped"}
           /\ failure' \in {"none", "subscribe", "unsubscribe", "next_message", "dropped"}
                             \cup ClientCalls
BY DEF TypeInv, TypeOK, Confirmed, Fails, GivesUp

LEMMA ReadType ==
    ASSUME TypeInv, Read
    PROVE  TypeInv'
<1>1. call # "none" /\ ((Confirmed /\ mode' \in {mode, "subscriber"}) \/ Fails)
  BY DEF Read, ReadAnswer, ReadSubscribed, ReadUnsubscribed, ReadEnd, ClientCalls
<1>2. subscribed_channels' \in Seq(Channels)
  <2>1. CASE ReadAnswer \/ ReadEnd
    BY <2>1 DEF TypeInv, TypeOK, ReadAnswer, ReadEnd
  <2>2. CASE ReadSubscribed
    <3>1. channels \in Seq(Channels) /\ subscribed_channels \in Seq(Channels)
      BY ListsType DEF TypeInv, TypeOK
    <3>2. subscribed_channels \o channels \in Seq(Channels)
      BY <3>1, ConcatProperties
    <3> QED  BY <2>2, <3>1, <3>2 DEF ReadSubscribed
  <2>3. CASE ReadUnsubscribed
    BY <2>3, WithoutType DEF TypeInv, TypeOK, ReadUnsubscribed
  <2> QED  BY <2>1, <2>2, <2>3 DEF Read
<1>3. /\ call' \in {"none", "subscribe", "unsubscribe"} \cup ClientCalls
      /\ awaited' \in Nat /\ (call' # "none" => awaited' > 0)
      /\ mode' \in {"client", "subscriber", "dropped"}
      /\ failure' \in {"none", "subscribe", "unsubscribe", "next_message", "dropped"}
                        \cup ClientCalls
  BY <1>1, CallEnds
<1>4. CASE Response
  <2>1. /\ replies' \in Seq(Replies)
        /\ channels' \in Lists /\ calls' \in 0..MaxCalls /\ drops' \in 0..MaxDrops
        /\ requests' \in Seq(Requests) /\ messages' \in 0..MaxMessages
        /\ subscriptions' \subseteq Channels /\ IsFiniteSet(subscriptions)'
        /\ handler' \in {"open", "closed"} /\ careful' \in BOOLEAN
    BY <1>4, ResponseType
  <2> QED  BY <1>2, <1>3, <2>1 DEF TypeInv, TypeOK
<1>5. CASE ReadEnd
  BY <1>2, <1>3, <1>5 DEF TypeInv, TypeOK, ReadEnd, server
<1> QED  BY <1>4, <1>5 DEF Read, ReadAnswer, ReadSubscribed, ReadUnsubscribed

LEMMA ServeType ==
    ASSUME TypeInv, Serve
    PROVE  TypeInv'
<1> DEFINE list == Head(requests).channels
           command == Head(requests).command
<1>1. /\ requests # <<>> /\ requests \in Seq(Requests)
      /\ UNCHANGED <<client, messages, careful>>
      /\ requests' = Tail(requests)
  BY DEF Serve, TypeInv, TypeOK
<1>2. Head(requests) \in Requests /\ requests' \in Seq(Requests)
  BY <1>1, HeadTailProperties
<1>3. list \in Lists /\ list \in Seq(Channels)
  BY <1>2, ListsType DEF Requests
<1>4. Range(list) \subseteq Channels /\ IsFiniteSet(Range(list))
  BY <1>3, ListRange
<1>5. replies \in Seq(Replies) /\ subscriptions \subseteq Channels /\ IsFiniteSet(subscriptions)
      /\ handler \in {"open", "closed"}
  BY DEF TypeInv, TypeOK
<1>6. /\ \/ command = "subscribe" /\ (ServeSubscribe(list) \/ RejectSubscribe(list))
         \/ command = "unsubscribe" /\ ServeUnsubscribe(list)
         \/ command \in ClientCalls /\ ServeClient(command)
  BY DEF Serve
<1> HIDE DEF list, command
<1>7. /\ replies' \in Seq(Replies) /\ handler' \in {"open", "closed"}
      /\ subscriptions' \subseteq Channels /\ IsFiniteSet(subscriptions')
  <2>1. CASE ServeSubscribe(list)
    <3>1. Confirmations("subscribe", list) \in Seq(Replies)
      BY <1>3, ConfirmationsType
    <3>2. IsFiniteSet(subscriptions \cup Range(list))
      BY <1>4, <1>5, FS_Union
    <3> QED  BY <1>4, <1>5, <2>1, <3>1, <3>2, ConcatProperties DEF ServeSubscribe
  <2>2. CASE RejectSubscribe(list)
    BY <1>5, <2>2 DEF RejectSubscribe
  <2>3. CASE ServeUnsubscribe(list)
    <3>1. PICK all \in SetToSeqs(subscriptions) :
            LET removed == IF list = <<>> THEN all ELSE list
            IN  /\ subscriptions' = subscriptions \ Range(removed)
                /\ replies' = replies \o Confirmations("unsubscribe", removed)
                /\ UNCHANGED handler
      BY <2>3 DEF ServeUnsubscribe
    <3> DEFINE removed == IF list = <<>> THEN all ELSE list
    <3>2. removed \in Seq(Channels)
      BY <1>3, <1>5, AllOf
    <3>3. /\ subscriptions' = subscriptions \ Range(removed)
          /\ replies' = replies \o Confirmations("unsubscribe", removed)
          /\ UNCHANGED handler
      BY <3>1
    <3> HIDE DEF removed
    <3>4. Confirmations("unsubscribe", removed) \in Seq(Replies)
      BY <3>2, ConfirmationsType
    <3>5. IsFiniteSet(subscriptions \ Range(removed))
      BY <1>5, FS_Difference
    <3> QED  BY <1>5, <3>3, <3>4, <3>5, ConcatProperties
  <2>4. CASE command \in ClientCalls /\ ServeClient(command)
    <3>1. Answer(command) \in Replies
      BY <2>4 DEF Answer, Replies, ClientCalls
    <3> QED  BY <1>5, <2>4, <3>1, AppendProperties DEF ServeClient
  <2> QED  BY <1>6, <2>1, <2>2, <2>3, <2>4
<1> QED  BY <1>1, <1>2, <1>7 DEF TypeInv, TypeOK, client

LEMMA TypeInvNext == TypeInv /\ [Next]_vars => TypeInv'
<1> SUFFICES ASSUME TypeInv, [Next]_vars
             PROVE  TypeInv'
  OBVIOUS
<1>1. CASE Abandon
  BY <1>1, SessionAssumption DEF TypeInv, TypeOK, Abandon, GivesUp, server
<1>2. CASE NextMessage
  <2>1. /\ UNCHANGED <<mode, subscribed_channels, call, awaited>>
        /\ failure' \in {failure, "next_message"}
    BY <1>2 DEF NextMessage
  <2> QED  BY <1>2, <2>1, ResponseType DEF TypeInv, TypeOK, NextMessage
<1>3. ASSUME NEW channel \in Channels, Deliver(channel)
      PROVE  TypeInv'
  <2>1. Reply("message", channel) \in Replies
    BY DEF Reply, Replies
  <2>2. replies' \in Seq(Replies)
    BY <1>3, <2>1, AppendProperties DEF Deliver, TypeInv, TypeOK
  <2> QED  BY <1>3, <2>2, SessionAssumption DEF TypeInv, TypeOK, Deliver, client
<1>4. CASE Shutdown
  BY <1>4 DEF TypeInv, TypeOK, Shutdown, client
<1>5. CASE UNCHANGED vars
  BY <1>5 DEF TypeInv, TypeOK, vars, client, server
<1> QED  BY <1>1, <1>2, <1>3, <1>4, <1>5, CallType, ReadType, ServeType DEF Next

LEMMA TypeInvInit == Init => TypeInv
<1>1. Init => TypeOK
  BY ListsType, EmptySeq, SessionAssumption DEF Init, TypeOK
<1> QED  BY <1>1, FS_EmptySet DEF Init, TypeInv

(***************************************************************************)
(* Every variable keeps its type: the connection carries requests and      *)
(* replies only, and no count goes below zero.                             *)
(***************************************************************************)
THEOREM TypeCorrect == Spec => []TypeOK
<1>1. TypeInv => TypeOK
  BY DEF TypeInv
<1> QED  BY <1>1, TypeInvInit, TypeInvNext, PTL DEF Spec

-----------------------------------------------------------------------------
(***************************************************************************)
(* Where the two sides are as long as no call has failed.                  *)
(***************************************************************************)

OnlyMessages(from) ==
    \A i \in from..Len(replies) :
        replies[i].kind = "message" /\ replies[i].channel \in subscriptions

\* What no call waits for: a SUBSCRIBE without channels ends the handler, an
\* UNSUBSCRIBE without any is confirmed by no frame.
Trivial(request) ==
    /\ request.channels = <<>>
    /\ \/ request.command = "subscribe"
       \/ request.command = "unsubscribe" /\ subscribed_channels = <<>>

\* Both sides agree, but for n trivial requests that are on their way.
Quiet(n) ==
    /\ n \in 0..Len(requests)
    /\ \A i \in 1..n : Trivial(requests[i])
    /\ Range(subscribed_channels) = subscriptions
    /\ OnlyMessages(1)
    /\ mode = "client" => n = 0

\* The answers that the waiting call still has to read.
Due ==
    CASE call \in ClientCalls -> 1
      [] call = "subscribe" -> Len(channels)
      [] call = "unsubscribe" ->
           IF channels = <<>> THEN Len(subscribed_channels) ELSE Len(channels)

\* The request of the waiting call is the last one on its way.
Unserved ==
    /\ requests # <<>>
    /\ Quiet(Len(requests) - 1)
    /\ requests[Len(requests)] = [command |-> call, channels |-> channels]
    /\ awaited = Due
    /\ careful /\ call = "subscribe" => New(channels)
    /\ careful /\ call = "unsubscribe" => Own(channels)

\* The confirmations are the replies from one place to another: only messages
\* come before them, and after them only messages of the new subscriptions.
Confirming(kind, from, to) ==
    /\ from <= to + 1 /\ to <= Len(replies)
    /\ \A i \in 1..from - 1 : replies[i].kind = "message"
    /\ \A i \in from..to : replies[i].kind = kind
    /\ OnlyMessages(to + 1)

Named(from, to) == {replies[i].channel : i \in from..to}

Distinct(from, to) ==
    \A i, j \in from..to : replies[i].channel = replies[j].channel => i = j

Places == 1..Len(replies) + 1

AnswerComes ==
    /\ call \in ClientCalls
    /\ awaited = 1
    /\ replies = <<Answer(call)>>
    /\ subscriptions = {}

SubscribedComes ==
    /\ call = "subscribe"
    /\ subscriptions = Range(subscribed_channels) \cup Range(channels)
    /\ awaited <= Len(channels)
    /\ careful => New(channels)
    /\ \E from \in Places, to \in 0..Len(replies) :
         /\ Confirming("subscribe", from, to)
         /\ awaited = to - from + 1
         /\ \A i \in from..to : replies[i].channel = channels[Len(channels) - to + i]

UnsubscribedComes ==
    /\ call = "unsubscribe"
    /\ \E from \in Places, to \in 0..Len(replies) :
         /\ Confirming("unsubscribe", from, to)
         /\ subscriptions = Range(subscribed_channels) \ Named(from, to)
         /\ channels # <<>> => awaited = to - from + 1
         /\ channels = <<>> => /\ awaited = Len(subscribed_channels)
                               /\ Named(from, to) = Range(subscribed_channels)
                               /\ Distinct(from, to)
         /\ careful => /\ Distinct(from, to)
                       /\ Named(from, to) \subseteq Range(subscribed_channels)

Served == requests = <<>> /\ (AnswerComes \/ SubscribedComes \/ UnsubscribedComes)

Waiting ==
    /\ call # "none"
    /\ awaited > 0
    /\ call \in ClientCalls => mode = "client"
    /\ call = "unsubscribe" => mode = "subscriber"
    /\ Unserved \/ Served

Agreed ==
    /\ mode # "dropped"
    /\ mode = "client" => subscribed_channels = <<>>
    /\ careful => IsInjective(subscribed_channels)
    /\ (call = "none" /\ Quiet(Len(requests))) \/ Waiting

StepInv == Untroubled => Agreed

-----------------------------------------------------------------------------
(***************************************************************************)
(* Calls.                                                                  *)
(***************************************************************************)

LEMMA LenReplies ==
    ASSUME TypeInv
    PROVE  /\ Len(replies) \in Nat /\ DOMAIN replies = 1..Len(replies)
           /\ Len(requests) \in Nat /\ DOMAIN requests = 1..Len(requests)
           /\ Len(subscribed_channels) \in Nat /\ Len(channels) \in Nat
           /\ Range(channels) \subseteq Channels
BY LenProperties, ListsType, ListRange DEF TypeInv, TypeOK

\* Between two calls both sides agree, whatever trivial requests are under way.
LEMMA IdleQuiet ==
    ASSUME TypeInv, Agreed, call = "none"
    PROVE  Quiet(Len(requests))
BY DEF Agreed, Waiting

LEMMA SendQuiet ==
    ASSUME TypeInv, Agreed, NEW command \in ClientCalls \cup {"subscribe", "unsubscribe"},
           NEW list \in Lists, NEW count, Send(command, list, count)
    PROVE  /\ Len(requests') = Len(requests) + 1
           /\ requests'[Len(requests')] = [command |-> command, channels |-> list]
           /\ \A i \in 1..Len(requests) : Trivial(requests[i]) /\ Trivial(requests[i])'
           /\ Range(subscribed_channels) = subscriptions
           /\ UNCHANGED <<subscribed_channels, subscriptions, replies>>
           /\ OnlyMessages(1)'
           /\ mode = "client" => Len(requests) = 0
<1>1. Quiet(Len(requests))
  BY IdleQuiet DEF Send, Idle
<1>2. /\ requests' = Append(requests, [command |-> command, channels |-> list])
      /\ UNCHANGED <<subscribed_channels, subscriptions, replies>>
  BY DEF Send, server
<1>3. /\ Len(requests') = Len(requests) + 1
      /\ requests'[Len(requests')] = [command |-> command, channels |-> list]
      /\ \A i \in 1..Len(requests) : requests'[i] = requests[i]
  <2>1. [command |-> command, channels |-> list] \in Requests
    BY DEF Requests
  <2> QED  BY <1>2, <2>1, AppendProperties DEF TypeInv, TypeOK
<1>4. \A i \in 1..Len(requests) : Trivial(requests[i]) /\ Trivial(requests[i])'
  BY <1>1, <1>2, <1>3 DEF Quiet, Trivial
<1>5. OnlyMessages(1)'
  BY <1>1, <1>2 DEF Quiet, OnlyMessages
<1> QED  BY <1>1, <1>2, <1>3, <1>4, <1>5, LenReplies DEF Quiet

LEMMA CallClientAgreed ==
    ASSUME TypeInv, Agreed, NEW command \in ClientCalls, CallClient(command)
    PROVE  Agreed'
<1>1. Send(command, <<>>, 1) /\ mode = "client" /\ UNCHANGED <<mode, careful>>
  BY DEF CallClient
<1>2. /\ Len(requests') = Len(requests) + 1
      /\ requests'[Len(requests')] = [command |-> command, channels |-> <<>>]
      /\ Range(subscribed_channels) = subscriptions
      /\ UNCHANGED <<subscribed_channels, subscriptions, replies>>
      /\ OnlyMessages(1)'
      /\ Len(requests) = 0
  BY <1>1, SendQuiet, ListsType
<1>3. call' = command /\ channels' = <<>> /\ awaited' = 1
  BY <1>1 DEF Send
<1>4. requests' # <<>> /\ Quiet(Len(requests) - 1)'
  BY <1>1, <1>2 DEF Quiet
<1>5. Unserved'
  BY <1>2, <1>3, <1>4 DEF Unserved, Due, ClientCalls
<1>6. Waiting'
  BY <1>1, <1>3, <1>5 DEF Waiting, ClientCalls
<1> QED  BY <1>1, <1>2, <1>6 DEF Agreed

LEMMA CallListAgreed ==
    ASSUME TypeInv, Agreed, NEW list \in Lists, CallSubscribe(list) \/ CallUnsubscribe(list)
    PROVE  Agreed'
<1> DEFINE command == IF CallSubscribe(list) THEN "subscribe" ELSE "unsubscribe"
           count == IF CallSubscribe(list) \/ list # <<>> THEN Len(list)
                    ELSE Len(subscribed_channels)
<1>1. /\ Send(command, list, count)
      /\ command \in {"subscribe", "unsubscribe"} /\ count \in Nat
      /\ command = "unsubscribe" => mode = "subscriber" /\ UNCHANGED mode
      /\ command = "unsubscribe" /\ list = <<>> => count = Len(subscribed_channels)
      /\ command = "subscribe" => mode' = IF list = <<>> THEN "subscriber" ELSE mode
      /\ command = "subscribe" \/ list # <<>> => count = Len(list)
      /\ careful' => careful
      /\ careful' /\ command = "subscribe" => New(list)
      /\ careful' /\ command = "unsubscribe" => Own(list)
  BY ListsType, LenReplies DEF CallSubscribe, CallUnsubscribe
<1> HIDE DEF command, count
<1>2. /\ Len(requests') = Len(requests) + 1
      /\ requests'[Len(requests')] = [command |-> command, channels |-> list]
      /\ \A i \in 1..Len(requests) : Trivial(requests[i])'
      /\ Range(subscribed_channels) = subscriptions
      /\ UNCHANGED <<subscribed_channels, subscriptions, replies>>
      /\ OnlyMessages(1)'
      /\ mode = "client" => Len(requests) = 0
  BY <1>1, SendQuiet
<1>3. /\ call' = IF count = 0 THEN "none" ELSE command
      /\ channels' = list /\ awaited' = count
  BY <1>1 DEF Send
<1>4. /\ mode' # "dropped"
      /\ mode' = "client" => mode = "client" /\ command = "subscribe" /\ list # <<>>
  BY <1>1 DEF Agreed
<1>5. CASE count = 0
  <2>1. list = <<>> /\ (command = "unsubscribe" => subscribed_channels = <<>>)
    BY <1>1, <1>5, ListsType, EmptySeq DEF TypeInv, TypeOK
  <2>2. Trivial(requests[Len(requests)])'
    BY <1>1, <1>2, <2>1 DEF Trivial
  <2>3. mode' # "client"
    BY <1>4, <2>1
  <2>4. Quiet(Len(requests))'
    BY <1>2, <2>2, <2>3, LenReplies DEF Quiet
  <2> QED  BY <1>1, <1>2, <1>3, <1>4, <1>5, <2>3, <2>4 DEF Agreed
<1>6. CASE count # 0
  <2>1. requests' # <<>> /\ Quiet(Len(requests) - 1)'
    BY <1>2, <1>4, LenReplies DEF Quiet
  <2>2. awaited' = Due'
    BY <1>1, <1>2, <1>3, <1>6 DEF Due, ClientCalls
  <2>3. Unserved'
    BY <1>1, <1>2, <1>3, <1>6, <2>1, <2>2 DEF Unserved, New, Own
  <2>4. Waiting'
    BY <1>1, <1>3, <1>6, <2>3 DEF Waiting, ClientCalls
  <2> QED  BY <1>1, <1>2, <1>4, <2>4 DEF Agreed
<1> QED  BY <1>5, <1>6

-----------------------------------------------------------------------------
(***************************************************************************)
(* Reads.  Each is shown to keep the agreement if it finds what it expects *)
(* and, for a careful application, to find that or a message.              *)
(***************************************************************************)

LEMMA ResponseShift ==
    ASSUME TypeInv, Response
    PROVE  /\ Len(replies) >= 1 /\ Head(replies) = replies[1]
           /\ Len(replies') = Len(replies) - 1
           /\ \A i \in 1..Len(replies') : replies'[i] = replies[i + 1]
           /\ UNCHANGED <<channels, requests, subscriptions, careful>>
<1>1. replies \in Seq(Replies) /\ replies # <<>> /\ replies' = Tail(replies)
  BY DEF TypeInv, TypeOK, Response
<1>2. Len(replies) \in Nat /\ Len(replies) # 0
  BY <1>1, EmptySeq, LenProperties
<1> QED  BY <1>1, <1>2, HeadTailProperties DEF Response, server

\* Before its request is served a call finds nothing but messages.
LEMMA UnservedReads ==
    ASSUME TypeInv, Agreed, Unserved, Response
    PROVE  Head(replies).kind = "message" /\ Head(replies).channel \in Range(subscribed_channels)
BY ResponseShift, LenReplies DEF Unserved, Quiet, OnlyMessages

\* What is left of the confirmations after the first one has been read.
LEMMA ConfirmingShift ==
    ASSUME TypeInv, Response, NEW kind, NEW to \in 1..Len(replies), Confirming(kind, 1, to)
    PROVE  /\ Confirming(kind, 1, to - 1)'
           /\ to - 1 \in 0..Len(replies') /\ 1 \in Places' /\ to - 1 - 1 + 1 = to - 1
           /\ Named(1, to) = {Head(replies).channel} \cup Named(1, to - 1)'
           /\ Distinct(1, to) => /\ Distinct(1, to - 1)'
                                 /\ Head(replies).channel \notin Named(1, to - 1)'
<1>1. /\ Len(replies) >= 1 /\ Head(replies) = replies[1]
      /\ Len(replies') = Len(replies) - 1
      /\ \A i \in 1..Len(replies') : replies'[i] = replies[i + 1]
      /\ UNCHANGED <<channels, requests, subscriptions, careful>>
  BY ResponseShift
<1>2. Len(replies) \in Nat /\ to \in Nat
  BY LenReplies
<1>3. \A i \in 1..to - 1 : i \in 1..Len(replies') /\ i + 1 \in 2..to
  BY <1>1, <1>2
<1>4. \A i \in to - 1 + 1..Len(replies') : i \in 1..Len(replies') /\ i + 1 \in to + 1..Len(replies)
  BY <1>1, <1>2
<1>5. to - 1 <= Len(replies') /\ 1 <= to - 1 + 1 /\ 1..1 - 1 = {}
  BY <1>1, <1>2
<1>6. \A i \in 1..to - 1 : replies'[i].kind = kind
  BY <1>1, <1>3 DEF Confirming
<1>7. OnlyMessages(to - 1 + 1)'
  BY <1>1, <1>4 DEF Confirming, OnlyMessages
<1>8. Confirming(kind, 1, to - 1)'
  BY <1>5, <1>6, <1>7 DEF Confirming
<1>9. Named(1, to) = {Head(replies).channel} \cup Named(1, to - 1)'
  <2>1. ASSUME NEW i \in 1..to
        PROVE  replies[i].channel \in {Head(replies).channel} \cup Named(1, to - 1)'
    <3>1. CASE i = 1
      BY <1>1, <3>1
    <3>2. CASE i # 1
      <4>1. i - 1 \in 1..to - 1 /\ i - 1 + 1 = i
        BY <1>2, <3>2
      <4>2. replies'[i - 1] = replies[i]
        BY <1>1, <1>3, <4>1
      <4>3. replies'[i - 1].channel \in Named(1, to - 1)'
        BY <4>1 DEF Named
      <4> QED  BY <4>2, <4>3
    <3> QED  BY <3>1, <3>2
  <2>2. ASSUME NEW i \in 1..to - 1
        PROVE  replies'[i].channel \in Named(1, to)
    <3>1. i + 1 \in 1..to /\ replies'[i] = replies[i + 1]
      BY <1>1, <1>2, <1>3
    <3> QED  BY <3>1 DEF Named
  <2>3. Head(replies).channel \in Named(1, to)
    <3>1. 1 \in 1..to
      BY <1>2
    <3> QED  BY <1>1, <3>1 DEF Named
  <2>4. Named(1, to) \subseteq {Head(replies).channel} \cup Named(1, to - 1)'
    BY <2>1 DEF Named
  <2>5. Named(1, to - 1)' \subseteq Named(1, to)
    BY <2>2 DEF Named
  <2> QED  BY <2>3, <2>4, <2>5
<1>10. ASSUME Distinct(1, to)
       PROVE  /\ Distinct(1, to - 1)'
              /\ Head(replies).channel \notin Named(1, to - 1)'
  <2>1. \A i \in 1..to - 1 : i + 1 \in 1..to /\ i + 1 # 1 /\ replies'[i] = replies[i + 1]
    BY <1>1, <1>2, <1>3
  <2>2. 1 \in 1..to
    BY <1>2
  <2>3. ASSUME NEW i \in 1..to - 1, NEW j \in 1..to - 1,
               replies'[i].channel = replies'[j].channel
        PROVE  i = j
    <3>1. i + 1 = j + 1
      BY <1>10, <2>1, <2>3 DEF Distinct
    <3> QED  BY <3>1
  <2>4. ASSUME NEW i \in 1..to - 1
        PROVE  replies'[i].channel # Head(replies).channel
    BY <1>1, <1>10, <2>1, <2>2 DEF Distinct
  <2>5. Distinct(1, to - 1)'
    BY <2>3 DEF Distinct
  <2>6. Head(replies).channel \notin Named(1, to - 1)'
    BY <2>4 DEF Named
  <2> QED  BY <2>5, <2>6
<1> QED  BY <1>1, <1>2, <1>8, <1>9, <1>10 DEF Places

LEMMA EmptyRange == Range(<<>>) = {}
BY DEF Range

LEMMA ReadAnswerAgreed ==
    ASSUME TypeInv, Agreed, Untroubled, ReadAnswer
    PROVE  Untroubled' /\ Agreed'
<1>1. Response /\ call \in ClientCalls
  BY DEF ReadAnswer
<1>2. /\ call \notin {"none", "subscribe", "unsubscribe"}
      /\ mode = "client" /\ subscribed_channels = <<>>
      /\ Unserved \/ Served
  BY <1>1 DEF Agreed, Waiting, ClientCalls
<1>3. ~Unserved
  BY <1>1, <1>2, UnservedReads, EmptyRange
<1>4. requests = <<>> /\ AnswerComes
  BY <1>2, <1>3 DEF Served, SubscribedComes, UnsubscribedComes
<1>5. Head(replies).kind \in Accepted(call) /\ Len(replies') = 0
  <2>1. Len(replies) = 1 /\ Head(replies) = Answer(call)
    BY <1>4 DEF AnswerComes
  <2> QED  BY <1>1, <2>1, ResponseShift DEF Answer, Accepted, ClientCalls
<1>6. Confirmed /\ UNCHANGED <<mode, subscribed_channels>>
  BY <1>5 DEF ReadAnswer
<1>7. call' = "none" /\ Untroubled'
  BY <1>4, <1>6 DEF AnswerComes, Confirmed, Untroubled
<1>8. UNCHANGED <<channels, requests, subscriptions, careful>>
  BY <1>1, ResponseShift
<1>9. Len(requests') = 0
  BY <1>4, <1>8
<1>10. Quiet(Len(requests))'
  BY <1>2, <1>4, <1>5, <1>6, <1>8, <1>9, EmptyRange DEF Quiet, OnlyMessages, AnswerComes
<1> QED  BY <1>2, <1>6, <1>7, <1>8, <1>10 DEF Agreed

LEMMA ReadSubscribedAgreed ==
    ASSUME TypeInv, Agreed, Untroubled, ReadSubscribed
    PROVE  \/ Untroubled' /\ Agreed'
           \/ ~Untroubled' /\ Head(replies).kind = "message"
<1>1. Response /\ call = "subscribe"
  BY DEF ReadSubscribed
<1>2. CASE Head(replies).kind = "message"
  <2>1. Fails
    BY <1>2 DEF ReadSubscribed, Reply
  <2> QED  BY <1>1, <1>2, <2>1 DEF Fails, Untroubled
<1>3. CASE Head(replies).kind # "message"
  <2>1. Served /\ awaited > 0
    BY <1>1, <1>3, UnservedReads DEF Agreed, Waiting
  <2>2. requests = <<>> /\ SubscribedComes
    BY <1>1, <2>1 DEF Served, AnswerComes, UnsubscribedComes, ClientCalls
  <2>3. PICK from \in Places, to \in 0..Len(replies) :
          /\ Confirming("subscribe", from, to)
          /\ awaited = to - from + 1
          /\ \A i \in from..to : replies[i].channel = channels[Len(channels) - to + i]
    BY <2>2 DEF SubscribedComes
  <2>4. /\ Len(replies) >= 1 /\ Head(replies) = replies[1]
        /\ Len(replies') = Len(replies) - 1
        /\ \A i \in 1..Len(replies') : replies'[i] = replies[i + 1]
        /\ UNCHANGED <<channels, requests, subscriptions, careful>>
    BY <1>1, ResponseShift
  <2>5. awaited \in Nat /\ awaited <= Len(channels) /\ Len(replies) \in Nat
        /\ Len(channels) \in Nat
    BY <2>2, LenReplies DEF TypeInv, TypeOK, SubscribedComes
  <2>6. from = 1 /\ to = awaited /\ to \in 1..Len(replies)
    <3>1. from = 1
      BY <1>3, <2>3, <2>4, <2>5 DEF Confirming, Places
    <3> QED  BY <2>1, <2>3, <2>5, <3>1
  <2>7. Head(replies) = Reply("subscribe", channels[Len(channels) - awaited + 1])
    <3>1. 1 \in from..to
      BY <2>6
    <3>2. Head(replies).kind = "subscribe"
      BY <2>3, <2>4, <3>1 DEF Confirming
    <3>3. Head(replies).channel = channels[Len(channels) - awaited + 1]
      BY <2>3, <2>4, <2>6, <3>1
    <3>4. Head(replies) \in Replies
      BY <1>1, ResponseType
    <3> QED  BY <3>2, <3>3, <3>4 DEF Replies, Reply
  <2>8. /\ Confirmed
        /\ subscribed_channels' = IF awaited = 1 THEN subscribed_channels \o channels
                                  ELSE subscribed_channels
        /\ mode' = IF awaited = 1 THEN "subscriber" ELSE mode
    BY <2>7 DEF ReadSubscribed
  <2>9. Untroubled' /\ awaited' = awaited - 1
    BY <2>8 DEF Confirmed, Untroubled
  <2>10. /\ Confirming("subscribe", 1, to - 1)' /\ to - 1 \in 0..Len(replies')
         /\ 1 \in Places' /\ to - 1 - 1 + 1 = to - 1
    BY <1>1, <2>3, <2>6, ConfirmingShift
  <2>11. CASE awaited = 1
    <3>1. call' = "none" /\ mode' = "subscriber" /\ Len(requests') = 0
      BY <2>2, <2>4, <2>8, <2>11 DEF Confirmed
    <3>2. OnlyMessages(1)'
      <4>1. to - 1 + 1 = 1
        BY <2>6, <2>11
      <4> QED  BY <2>10, <4>1 DEF Confirming
    <3>3. subscribed_channels \in Seq(Channels) /\ channels \in Seq(Channels)
      BY ListsType DEF TypeInv, TypeOK
    <3>4. Range(subscribed_channels') = subscriptions'
      BY <2>2, <2>4, <2>8, <2>11, <3>3, RangeConcatenation DEF SubscribedComes
    <3>5. Quiet(Len(requests))'
      BY <3>1, <3>2, <3>4 DEF Quiet
    <3>6. careful' => IsInjective(subscribed_channels')
      <4> SUFFICES ASSUME careful
                   PROVE  IsInjective(subscribed_channels \o channels)
        BY <2>4, <2>8, <2>11
      <4>1. IsInjective(subscribed_channels) /\ New(channels)
        BY <2>2 DEF Agreed, SubscribedComes
      <4> QED  BY <3>3, <4>1, ConcatInjects DEF New
    <3> QED  BY <2>9, <3>1, <3>5, <3>6 DEF Agreed
  <2>12. CASE awaited # 1
    <3>1. call' = call /\ UNCHANGED <<mode, subscribed_channels>>
      BY <2>8, <2>12 DEF Confirmed
    <3>2. ASSUME NEW i \in 1..to - 1
          PROVE  replies'[i].channel = channels'[Len(channels') - (to - 1) + i]
      <4>1. i + 1 \in from..to /\ i \in 1..Len(replies')
        BY <2>4, <2>6
      <4>2. Len(channels') - (to - 1) + i = Len(channels) - to + (i + 1)
        BY <2>4, <2>5, <2>6
      <4> QED  BY <2>3, <2>4, <4>1, <4>2
    <3>3. SubscribedComes'
      <4>1. /\ call' = "subscribe"
            /\ subscriptions' = Range(subscribed_channels') \cup Range(channels')
            /\ awaited' <= Len(channels') /\ (careful' => New(channels)')
        BY <1>1, <2>2, <2>4, <2>5, <2>9, <3>1 DEF SubscribedComes, New
      <4>2. awaited' = to - 1 - 1 + 1
        BY <2>6, <2>9, <2>10
      <4> QED  BY <2>10, <3>2, <4>1, <4>2 DEF SubscribedComes
    <3>4. Waiting'
      BY <1>1, <2>1, <2>2, <2>4, <2>5, <2>9, <2>12, <3>1, <3>3 DEF Waiting, Served, ClientCalls
    <3> QED  BY <2>4, <2>9, <3>1, <3>4 DEF Agreed
  <2> QED  BY <2>11, <2>12
<1> QED  BY <1>2, <1>3

LEMMA ReadUnsubscribedAgreed ==
    ASSUME TypeInv, Agreed, Untroubled, ReadUnsubscribed
    PROVE  \/ Untroubled' /\ Agreed'
           \/ ~Untroubled' /\ (careful => Head(replies).kind = "message")
<1> DEFINE channel == Head(replies).channel
           left == Without(subscribed_channels, channel)
<1>1. Response /\ call = "unsubscribe"
  BY DEF ReadUnsubscribed
<1>2. CASE Head(replies).kind = "message"
  <2>1. Fails
    BY <1>2 DEF ReadUnsubscribed
  <2> QED  BY <1>1, <1>2, <2>1 DEF Fails, Untroubled
<1>3. CASE Head(replies).kind # "message"
  <2>1. Served /\ awaited > 0 /\ mode = "subscriber"
    BY <1>1, <1>3, UnservedReads DEF Agreed, Waiting
  <2>2. requests = <<>> /\ UnsubscribedComes
    BY <1>1, <2>1 DEF Served, AnswerComes, SubscribedComes, ClientCalls
  <2>3. PICK from \in Places, to \in 0..Len(replies) :
          /\ Confirming("unsubscribe", from, to)
          /\ subscriptions = Range(subscribed_channels) \ Named(from, to)
          /\ channels # <<>> => awaited = to - from + 1
          /\ channels = <<>> => /\ awaited = Len(subscribed_channels)
                                /\ Named(from, to) = Range(subscribed_channels)
                                /\ Distinct(from, to)
          /\ careful => /\ Distinct(from, to)
                        /\ Named(from, to) \subseteq Range(subscribed_channels)
    BY <2>2 DEF UnsubscribedComes
  <2>4. /\ Len(replies) >= 1 /\ Head(replies) = replies[1]
        /\ Len(replies') = Len(replies) - 1
        /\ UNCHANGED <<channels, requests, subscriptions, careful>>
    BY <1>1, ResponseShift
  <2>5. /\ awaited \in Nat /\ Len(replies) \in Nat /\ Len(subscribed_channels) \in Nat
        /\ subscribed_channels \in Seq(Channels)
    BY LenReplies DEF TypeInv, TypeOK
  <2>6. from = 1
    BY <1>3, <2>3, <2>4, <2>5 DEF Confirming, Places
  <2>7. to \in 1..Len(replies)
    <3>1. CASE channels # <<>>
      BY <2>1, <2>3, <2>5, <2>6, <3>1
    <3>2. CASE channels = <<>>
      <4>1. 1 \in DOMAIN subscribed_channels
        BY <2>1, <2>3, <2>5, <3>2, LenProperties
      <4>2. Named(from, to) # {}
        BY <2>3, <3>2, <4>1 DEF Range
      <4>3. from..to # {}
        BY <4>2 DEF Named
      <4> QED  BY <2>3, <2>6, <4>3
    <3> QED  BY <3>1, <3>2
  <2>8. Confirming("unsubscribe", 1, to)
    BY <2>3, <2>6
  <2>9. /\ Confirming("unsubscribe", 1, to - 1)' /\ to - 1 \in 0..Len(replies')
        /\ 1 \in Places' /\ to - 1 - 1 + 1 = to - 1
        /\ Named(1, to) = {channel} \cup Named(1, to - 1)'
        /\ Distinct(1, to) => Distinct(1, to - 1)' /\ channel \notin Named(1, to - 1)'
    BY <1>1, <2>7, <2>8, ConfirmingShift
  <2>10. Head(replies).kind = "unsubscribe"
    <3>1. 1 \in 1..to
      BY <2>7
    <3> QED  BY <2>4, <2>8, <3>1 DEF Confirming
  <2>11. /\ subscribed_channels' = left
         /\ IF Len(left) = Len(subscribed_channels) - 1 THEN Confirmed /\ UNCHANGED mode
            ELSE Fails
    BY <2>10 DEF ReadUnsubscribed
  <2>12. /\ left \in Seq(Channels) /\ Range(left) = Range(subscribed_channels) \ {channel}
         /\ Len(left) \in Nat
    BY <2>5, WithoutType, LenProperties
  <2>13. ASSUME careful
         PROVE  IsInjective(left) /\ Len(left) = Len(subscribed_channels) - 1
    <3>1. IsInjective(subscribed_channels) /\ channel \in Range(subscribed_channels)
      BY <2>3, <2>6, <2>9, <2>13 DEF Agreed
    <3> QED  BY <2>5, <3>1, WithoutOne
  <2> HIDE DEF channel, left
  <2>14. CASE Len(left) # Len(subscribed_channels) - 1
    <3>1. Fails
      BY <2>11, <2>14
    <3> QED  BY <1>1, <2>13, <2>14, <3>1 DEF Fails, Untroubled
  <2>15. CASE Len(left) = Len(subscribed_channels) - 1
    <3>1. /\ Untroubled' /\ awaited' = awaited - 1 /\ UNCHANGED mode
          /\ call' = IF awaited = 1 THEN "none" ELSE call
      BY <2>11, <2>15 DEF Confirmed, Untroubled
    <3>2. careful' => IsInjective(subscribed_channels')
      BY <2>4, <2>11, <2>13
    <3>3. CASE awaited = 1
      <4>1. to = 1
        <5>1. CASE channels # <<>>
          BY <2>3, <2>6, <2>7, <3>3, <5>1
        <5>2. CASE channels = <<>>
          <6>1. \A c \in Range(subscribed_channels) : c = subscribed_channels[1]
            BY <2>3, <2>5, <3>3, <5>2, LenProperties DEF Range
          <6>2. 1 \in from..to /\ to \in from..to
            BY <2>6, <2>7
          <6>3. replies[1].channel = replies[to].channel
            BY <2>3, <5>2, <6>1, <6>2 DEF Named
          <6> QED  BY <2>3, <5>2, <6>2, <6>3 DEF Distinct
        <5> QED  BY <5>1, <5>2
      <4>2. OnlyMessages(1)'
        BY <2>9, <4>1 DEF Confirming
      <4>3. Named(1, to - 1)' = {}
        BY <4>1 DEF Named
      <4>4. Range(subscribed_channels') = subscriptions'
        BY <2>3, <2>4, <2>6, <2>9, <2>11, <2>12, <4>3
      <4>5. call' = "none" /\ Len(requests') = 0 /\ mode' = "subscriber"
        BY <2>1, <2>2, <2>4, <3>1, <3>3
      <4>6. Quiet(Len(requests))'
        BY <4>2, <4>4, <4>5 DEF Quiet
      <4> QED  BY <3>1, <3>2, <4>5, <4>6 DEF Agreed
    <3>4. CASE awaited # 1
      <4>1. call' = "unsubscribe" /\ awaited' > 0
        BY <1>1, <2>1, <2>5, <3>1, <3>4
      <4>2. subscriptions' = Range(subscribed_channels') \ Named(1, to - 1)'
        BY <2>3, <2>4, <2>6, <2>9, <2>11, <2>12
      <4>3. channels' # <<>> => awaited' = to - 1 - 1 + 1
        BY <2>3, <2>4, <2>5, <2>6, <2>9, <3>1
      <4>4. channels' = <<>> => /\ awaited' = Len(subscribed_channels')
                                /\ Named(1, to - 1)' = Range(subscribed_channels')
                                /\ Distinct(1, to - 1)'
        BY <2>3, <2>4, <2>5, <2>6, <2>9, <2>11, <2>12, <2>15, <3>1
      <4>5. careful' => /\ Distinct(1, to - 1)'
                        /\ Named(1, to - 1)' \subseteq Range(subscribed_channels')
        BY <2>3, <2>4, <2>6, <2>9, <2>11, <2>12
      <4>6. UnsubscribedComes'
        BY <2>9, <4>1, <4>2, <4>3, <4>4, <4>5 DEF UnsubscribedComes
      <4>7. Waiting'
        BY <2>1, <2>2, <2>4, <3>1, <4>1, <4>6 DEF Waiting, Served, ClientCalls
      <4> QED  BY <2>1, <3>1, <3>2, <4>1, <4>7 DEF Agreed
    <3> QED  BY <3>3, <3>4
  <2> QED  BY <2>14, <2>15
<1> QED  BY <1>2, <1>3

LEMMA NextMessageAgreed ==
    ASSUME TypeInv, Agreed, Untroubled, NextMessage
    PROVE  Untroubled' /\ Agreed'
<1>1. /\ call = "none" /\ Response
      /\ UNCHANGED <<mode, subscribed_channels, call, awaited>>
      /\ mode = "subscriber"
  BY DEF NextMessage, Idle
<1>2. Quiet(Len(requests))
  BY <1>1, IdleQuiet
<1>3. /\ Len(replies) >= 1 /\ Head(replies) = replies[1]
      /\ Len(replies') = Len(replies) - 1
      /\ \A i \in 1..Len(replies') : replies'[i] = replies[i + 1]
      /\ UNCHANGED <<channels, requests, subscriptions, careful>>
  BY <1>1, ResponseShift
<1>4. Head(replies).kind = "message" /\ OnlyMessages(1)'
  <2>1. 1 \in 1..Len(replies) /\ \A i \in 1..Len(replies') : i + 1 \in 1..Len(replies)
    BY <1>3, LenReplies
  <2>2. Head(replies).kind = "message"
    BY <1>2, <1>3, <2>1 DEF Quiet, OnlyMessages
  <2>3. ASSUME NEW i \in 1..Len(replies')
        PROVE  replies'[i].kind = "message" /\ replies'[i].channel \in subscriptions'
    <3>1. replies'[i] = replies[i + 1] /\ i + 1 \in 1..Len(replies)
      BY <1>3, <2>1
    <3> QED  BY <1>2, <1>3, <3>1 DEF Quiet, OnlyMessages
  <2> QED  BY <2>2, <2>3 DEF OnlyMessages
<1>5. Untroubled'
  BY <1>4 DEF NextMessage, Untroubled
<1>6. Quiet(Len(requests))'
  BY <1>1, <1>2, <1>3, <1>4 DEF Quiet, Trivial
<1> QED  BY <1>1, <1>3, <1>5, <1>6 DEF Agreed

-----------------------------------------------------------------------------
(***************************************************************************)
(* The handler.                                                            *)
(***************************************************************************)

LEMMA ServeShift ==
    ASSUME TypeInv, Serve
    PROVE  /\ Len(requests) >= 1 /\ Head(requests) = requests[1]
           /\ requests[1] \in Requests /\ requests[1].channels \in Seq(Channels)
           /\ Len(requests') = Len(requests) - 1
           /\ \A i \in 1..Len(requests') : requests'[i] = requests[i + 1]
           /\ UNCHANGED <<client, careful>>
<1>1. requests \in Seq(Requests) /\ requests # <<>> /\ requests' = Tail(requests)
  BY DEF TypeInv, TypeOK, Serve
<1>2. Len(requests) \in Nat /\ Len(requests) # 0
  BY <1>1, EmptySeq, LenProperties
<1>3. requests[1] \in Requests /\ requests[1].channels \in Lists
  <2>1. 1 \in 1..Len(requests)
    BY <1>2
  <2>2. requests[1] \in Requests
    BY <1>1, <2>1, ElementOfSeq
  <2> QED  BY <2>2 DEF Requests
<1> QED  BY <1>1, <1>2, <1>3, HeadTailProperties, ListsType DEF Serve

\* A trivial request ends the handler or changes nothing.
LEMMA ServeTrivial ==
    ASSUME TypeInv, Serve, Trivial(requests[1]), Range(subscribed_channels) = subscriptions
    PROVE  UNCHANGED <<replies, subscriptions>>
<1>1. /\ Head(requests) = requests[1] /\ requests[1].channels = <<>>
      /\ requests[1].command \in {"subscribe", "unsubscribe"}
      /\ requests[1].command = "unsubscribe" => subscriptions = {}
  BY ServeShift, EmptyRange DEF Trivial
<1>2. CASE RejectSubscribe(<<>>)
  BY <1>2 DEF RejectSubscribe
<1>3. CASE ServeUnsubscribe(<<>>) /\ subscriptions = {}
  <2>1. PICK all \in SetToSeqs(subscriptions) :
          /\ subscriptions' = subscriptions \ Range(all)
          /\ replies' = replies \o Confirmations("unsubscribe", all)
    BY <1>3 DEF ServeUnsubscribe
  <2>2. all \in Seq(Channels) /\ Range(all) = {}
    BY <1>3, AllOf, FS_EmptySet
  <2>3. all = <<>>
    <3>1. Len(all) \in Nat /\ DOMAIN all = 1..Len(all)
      BY <2>2, LenProperties
    <3>2. DOMAIN all = {}
      BY <2>2 DEF Range
    <3>3. Len(all) = 0
      BY <3>1, <3>2
    <3> QED  BY <2>2, <3>3, EmptySeq
  <2>4. Confirmations("unsubscribe", all) = <<>>
    <3>1. Confirmations("unsubscribe", all) \in Seq(Replies)
          /\ Len(Confirmations("unsubscribe", all)) = 0
      BY <2>2, <2>3, ConfirmationsType
    <3> QED  BY <3>1, EmptySeq
  <2>5. replies \in Seq(Replies)
    BY DEF TypeInv, TypeOK
  <2> QED  BY <1>3, <2>1, <2>2, <2>4, <2>5, ConcatEmptySeq
<1> QED  BY <1>1, <1>2, <1>3 DEF Serve, ServeSubscribe, ClientCalls

LEMMA ServeQuiet ==
    ASSUME TypeInv, Serve, NEW n \in Nat \ {0}, Quiet(n)
    PROVE  Quiet(n - 1)' /\ UNCHANGED <<replies, subscriptions>>
<1>1. /\ Len(requests) >= 1 /\ Len(requests) \in Nat
      /\ Len(requests') = Len(requests) - 1
      /\ \A i \in 1..Len(requests') : requests'[i] = requests[i + 1]
      /\ UNCHANGED <<mode, subscribed_channels>>
  BY ServeShift, LenReplies DEF client
<1>2. n \in 1..Len(requests) /\ Trivial(requests[1])
  BY <1>1 DEF Quiet
<1>3. UNCHANGED <<replies, subscriptions>>
  BY <1>2, ServeTrivial DEF Quiet
<1>4. ASSUME NEW i \in 1..n - 1
      PROVE  Trivial(requests[i])'
  <2>1. i + 1 \in 1..n /\ requests'[i] = requests[i + 1]
    BY <1>1, <1>2
  <2> QED  BY <1>1, <2>1 DEF Quiet, Trivial
<1>5. mode' # "client" /\ n - 1 \in 0..Len(requests')
  BY <1>1, <1>2 DEF Quiet
<1>6. Range(subscribed_channels') = subscriptions' /\ OnlyMessages(1)'
  BY <1>1, <1>3 DEF Quiet, OnlyMessages
<1> QED  BY <1>3, <1>4, <1>5, <1>6 DEF Quiet

\* Confirmations that are added after messages only.
LEMMA ConfirmationsCome ==
    ASSUME TypeInv, OnlyMessages(1), NEW kind \in {"subscribe", "unsubscribe"},
           NEW list \in Seq(Channels), replies' = replies \o Confirmations(kind, list),
           NEW from \in Nat, NEW to \in Nat,
           from = Len(replies) + 1, to = Len(replies) + Len(list)
    PROVE  /\ from \in Places' /\ to \in 0..Len(replies') /\ to - from + 1 = Len(list)
           /\ Confirming(kind, from, to)'
           /\ \A i \in from..to : replies'[i].channel = list[Len(list) - to + i]
           /\ Named(from, to)' = Range(list)
           /\ IsInjective(list) => Distinct(from, to)'
<1> PICK m \in Nat, n \in Nat : m = Len(replies) /\ n = Len(list)
  BY LenReplies, LenProperties
<1>1. /\ DOMAIN list = 1..n
      /\ Confirmations(kind, list) \in Seq(Replies) /\ replies \in Seq(Replies)
      /\ Len(Confirmations(kind, list)) = n
      /\ \A i \in 1..n : Confirmations(kind, list)[i] = Reply(kind, list[i])
  BY LenReplies, LenProperties, ConfirmationsType DEF TypeInv, TypeOK
<1>2. /\ Len(replies') = m + n
      /\ \A i \in 1..m : replies'[i] = replies[i]
      /\ \A i \in m + 1..m + n : replies'[i] = Confirmations(kind, list)[i - m]
  <2> DEFINE new == Confirmations(kind, list)
  <2>1. Len(new) = n /\ new \in Seq(Replies) /\ replies' = replies \o new
    BY <1>1
  <2> HIDE DEF new
  <2>2. /\ Len(replies \o new) = m + n
        /\ \A i \in 1..m : (replies \o new)[i] = replies[i]
        /\ \A i \in m + 1..m + n : (replies \o new)[i] = new[i - m]
    <3>1. /\ Len(replies \o new) = Len(replies) + Len(new)
          /\ \A i \in 1..Len(replies) + Len(new) :
               (replies \o new)[i] = IF i <= Len(replies) THEN replies[i]
                                     ELSE new[i - Len(replies)]
      BY <1>1, <2>1, ConcatProperties
    <3>2. \A i \in 1..m + n : (replies \o new)[i] = IF i <= m THEN replies[i] ELSE new[i - m]
      BY <2>1, <3>1
    <3>3. \A i \in 1..m : i \in 1..m + n /\ i <= m
      OBVIOUS
    <3>4. \A i \in m + 1..m + n : i \in 1..m + n /\ ~(i <= m)
      OBVIOUS
    <3> QED  BY <2>1, <3>1, <3>2, <3>3, <3>4
  <2> QED  BY <2>1, <2>2 DEF new
<1>0. \A c : Reply(kind, c).kind = kind /\ Reply(kind, c).channel = c
  BY DEF Reply
<1>3. from = m + 1 /\ to = m + n /\ to = Len(replies')
  BY <1>2
<1>4. \A i \in from..to : i - m \in 1..n /\ replies'[i] = Reply(kind, list[i - m])
  BY <1>1, <1>2, <1>3
<1>5. from \in Places' /\ to \in 0..Len(replies') /\ to - from + 1 = n
  BY <1>1, <1>3 DEF Places
<1>6. Confirming(kind, from, to)'
  <2>1. \A i \in 1..from - 1 : replies'[i].kind = "message"
    <3>1. \A i \in 1..from - 1 : i \in 1..m
      BY <1>1, <1>3
    <3> QED  BY <1>2, <3>1 DEF OnlyMessages
  <2>2. \A i \in from..to : replies'[i].kind = kind
    BY <1>0, <1>4
  <2>3. OnlyMessages(to + 1)'
    BY <1>1, <1>3 DEF OnlyMessages
  <2>4. from <= to + 1 /\ to <= Len(replies')
    BY <1>1, <1>3
  <2> QED  BY <2>1, <2>2, <2>3, <2>4 DEF Confirming
<1>7. ASSUME NEW i \in from..to
      PROVE  replies'[i].channel = list[i - m] /\ n - to + i = i - m
  BY <1>0, <1>1, <1>3, <1>4
<1>8. Named(from, to)' = Range(list)
  <2>1. ASSUME NEW i \in from..to
        PROVE  replies'[i].channel \in Range(list)
    BY <1>1, <1>4, <1>7 DEF Range
  <2>2. ASSUME NEW j \in 1..n
        PROVE  list[j] \in Named(from, to)'
    <3>1. m + j \in from..to /\ m + j - m = j
      BY <1>1, <1>3
    <3> DEFINE i == m + j
    <3>2. i \in from..to /\ i - m = j
      BY <3>1
    <3> HIDE DEF i
    <3>3. replies'[i].channel = list[j]
      BY <1>7, <3>2
    <3> QED  BY <3>2, <3>3 DEF Named
  <2>3. Named(from, to)' \subseteq Range(list)
    BY <2>1 DEF Named
  <2>4. Range(list) \subseteq Named(from, to)'
    BY <1>1, <2>2 DEF Range
  <2> QED  BY <2>3, <2>4
<1>9. ASSUME IsInjective(list)
      PROVE  Distinct(from, to)'
  <2> SUFFICES ASSUME NEW i \in from..to, NEW j \in from..to,
                      replies'[i].channel = replies'[j].channel
               PROVE  i = j
    BY DEF Distinct
  <2>1. i - m \in 1..n /\ j - m \in 1..n /\ list[i - m] = list[j - m]
    BY <1>4, <1>7
  <2>2. i - m = j - m
    BY <1>1, <1>9, <2>1 DEF IsInjective
  <2> QED  BY <1>1, <1>3, <2>2
<1> QED  BY <1>5, <1>6, <1>7, <1>8, <1>9

\* The request of the waiting call is served: what it waits for is coming.
LEMMA ServeUnserved ==
    ASSUME TypeInv, Waiting, Unserved, mode = "client" => subscribed_channels = <<>>,
           Len(requests) = 1, Serve
    PROVE  Served'
<1>1. /\ Len(requests') = 0
      /\ UNCHANGED <<mode, subscribed_channels, call, channels, awaited, careful>>
  BY ServeShift DEF client
<1>2. /\ Head(requests) = requests[1]
      /\ requests[1] = [command |-> call, channels |-> channels]
  BY ServeShift DEF Unserved
<1>3. \/ call = "subscribe" /\ (ServeSubscribe(channels) \/ RejectSubscribe(channels))
      \/ call = "unsubscribe" /\ ServeUnsubscribe(channels)
      \/ call \in ClientCalls /\ ServeClient(call)
  <2>1. Head(requests).command = call /\ Head(requests).channels = channels
    BY <1>2
  <2> QED  BY <2>1 DEF Serve
<1>4. /\ Range(subscribed_channels) = subscriptions /\ OnlyMessages(1)
      /\ awaited = Due /\ awaited > 0
      /\ careful /\ call = "subscribe" => New(channels)
      /\ careful /\ call = "unsubscribe" => Own(channels)
  BY DEF Waiting, Unserved, Quiet
<1>5. replies \in Seq(Replies) /\ channels \in Seq(Channels) /\ Len(replies) \in Nat
      /\ subscriptions \subseteq Channels /\ IsFiniteSet(subscriptions)
      /\ Len(channels) \in Nat
  BY ListsType, LenReplies DEF TypeInv, TypeOK
<1>6. requests' = <<>>
  <2>1. Head(requests) \in Requests /\ requests' \in Seq(Requests)
    BY ServeType DEF TypeInv, TypeOK, Serve
  <2> QED  BY <1>1, <2>1, EmptySeq
<1>7. CASE call \in ClientCalls /\ ServeClient(call)
  <2>1. awaited = 1 /\ subscribed_channels = <<>>
    BY <1>4, <1>7 DEF Waiting, Due, ClientCalls
  <2>2. subscriptions = {}
    BY <1>4, <2>1, EmptyRange
  <2>3. replies = <<>>
    <3>1. Len(replies) = 0
      BY <1>4, <1>5, <2>2 DEF OnlyMessages
    <3> QED  BY <1>5, <3>1, EmptySeq
  <2>4. AnswerComes'
    BY <1>1, <1>7, <2>1, <2>2, <2>3 DEF ServeClient, AnswerComes, Answer
  <2> QED  BY <1>6, <2>4 DEF Served
<1>8. CASE call = "subscribe" /\ (ServeSubscribe(channels) \/ RejectSubscribe(channels))
  <2>1. awaited = Len(channels) /\ channels # <<>>
    BY <1>4, <1>5, <1>8, EmptySeq DEF Due, ClientCalls
  <2>2. /\ subscriptions' = subscriptions \cup Range(channels)
        /\ replies' = replies \o Confirmations("subscribe", channels)
    BY <1>8, <2>1 DEF ServeSubscribe, RejectSubscribe
  <2>3. PICK from \in Nat, to \in Nat :
          from = Len(replies) + 1 /\ to = Len(replies) + Len(channels)
    BY <1>5
  <2>4. /\ from \in Places' /\ to \in 0..Len(replies') /\ to - from + 1 = Len(channels)
        /\ Confirming("subscribe", from, to)'
        /\ \A i \in from..to : replies'[i].channel = channels[Len(channels) - to + i]
    BY <1>4, <1>5, <2>2, <2>3, ConfirmationsCome
  <2>5. SubscribedComes'
    <3>1. /\ call' = "subscribe" /\ (careful' => New(channels)')
          /\ subscriptions' = Range(subscribed_channels') \cup Range(channels')
          /\ awaited' <= Len(channels')
      BY <1>1, <1>4, <1>5, <1>8, <2>1, <2>2 DEF New
    <3>2. awaited' = to - from + 1
      BY <1>1, <2>1, <2>4
    <3>3. \A i \in from..to : replies'[i].channel = channels'[Len(channels') - to + i]
      BY <1>1, <2>4
    <3> QED  BY <2>4, <3>1, <3>2, <3>3 DEF SubscribedComes
  <2> QED  BY <1>6, <2>5 DEF Served
<1>9. CASE call = "unsubscribe" /\ ServeUnsubscribe(channels)
  <2>1. PICK all \in SetToSeqs(subscriptions) :
          LET removed == IF channels = <<>> THEN all ELSE channels
          IN  /\ subscriptions' = subscriptions \ Range(removed)
              /\ replies' = replies \o Confirmations("unsubscribe", removed)
    BY <1>9 DEF ServeUnsubscribe
  <2>2. all \in Seq(Channels) /\ Range(all) = subscriptions /\ IsInjective(all)
    BY <1>5, AllOf
  <2> DEFINE removed == IF channels = <<>> THEN all ELSE channels
  <2>3. /\ removed \in Seq(Channels) /\ Len(removed) \in Nat
        /\ channels = <<>> => Range(removed) = subscriptions /\ IsInjective(removed)
        /\ channels # <<>> => Len(removed) = awaited
        /\ channels = <<>> => awaited = Len(subscribed_channels)
        /\ careful => IsInjective(removed) /\ Range(removed) \subseteq subscriptions
    BY <1>4, <1>5, <1>9, <2>2, LenProperties DEF Due, Own, ClientCalls
  <2>4. /\ subscriptions' = subscriptions \ Range(removed)
        /\ replies' = replies \o Confirmations("unsubscribe", removed)
    BY <2>1
  <2> HIDE DEF removed
  <2>5. PICK from \in Nat, to \in Nat :
          from = Len(replies) + 1 /\ to = Len(replies) + Len(removed)
    BY <1>5, <2>3
  <2>6. /\ from \in Places' /\ to \in 0..Len(replies') /\ to - from + 1 = Len(removed)
        /\ Confirming("unsubscribe", from, to)'
        /\ Named(from, to)' = Range(removed)
        /\ IsInjective(removed) => Distinct(from, to)'
    BY <1>4, <2>3, <2>4, <2>5, ConfirmationsCome
  <2>7. UnsubscribedComes'
    BY <1>1, <1>4, <1>9, <2>3, <2>4, <2>6 DEF UnsubscribedComes
  <2> QED  BY <1>6, <2>7 DEF Served
<1> QED  BY <1>3, <1>7, <1>8, <1>9

LEMMA ServeAgreed ==
    ASSUME TypeInv, Agreed, Serve
    PROVE  Agreed'
<1>1. /\ Len(requests) >= 1 /\ Len(requests) \in Nat
      /\ Len(requests') = Len(requests) - 1
      /\ \A i \in 1..Len(requests') : requests'[i] = requests[i + 1]
      /\ UNCHANGED <<mode, subscribed_channels, call, channels, awaited, careful>>
  BY ServeShift, LenReplies DEF client
<1>2. CASE call = "none"
  <2>1. PICK n \in Nat \ {0} : n = Len(requests)
    BY <1>1
  <2>2. Quiet(n - 1)' /\ n - 1 = Len(requests')
    BY <1>1, <1>2, <2>1, IdleQuiet, ServeQuiet
  <2>3. Quiet(Len(requests))'
    BY <2>2 DEF Quiet
  <2> QED  BY <1>1, <1>2, <2>3 DEF Agreed
<1>3. CASE call # "none" /\ Len(requests) = 1
  <2>1. Waiting /\ Unserved /\ (mode = "client" => subscribed_channels = <<>>)
    BY <1>1, <1>3 DEF Agreed, Waiting, Served
  <2>2. Served'
    BY <1>3, <2>1, ServeUnserved
  <2>3. Waiting'
    BY <1>1, <1>3, <2>1, <2>2 DEF Waiting
  <2> QED  BY <1>1, <2>3 DEF Agreed
<1>4. CASE call # "none" /\ Len(requests) # 1
  <2>1. Waiting /\ Unserved
    BY <1>1, <1>4 DEF Agreed, Waiting, Served
  <2>2. PICK n \in Nat \ {0} : n = Len(requests) - 1
    BY <1>1, <1>4
  <2>3. Quiet(n - 1)'
    BY <2>1, <2>2, ServeQuiet DEF Unserved
  <2>4. n - 1 = Len(requests') - 1 /\ Len(requests') \in 1..Len(requests')
    BY <1>1, <2>2
  <2>5. Quiet(Len(requests) - 1)'
    BY <2>3, <2>4 DEF Quiet
  <2>6. requests' # <<>> /\ requests'[Len(requests')] = requests[Len(requests)]
    BY <1>1, <2>4
  <2>7. Unserved'
    BY <1>1, <2>1, <2>5, <2>6 DEF Unserved, Due, New, Own
  <2>8. Waiting'
    BY <1>1, <2>1, <2>7 DEF Waiting
  <2> QED  BY <1>1, <2>8 DEF Agreed
<1> QED  BY <1>2, <1>3, <1>4

\* One more message, of a channel the handler is subscribed to, comes last.
LEMMA DeliverAgreed ==
    ASSUME TypeInv, Agreed, NEW channel \in Channels, Deliver(channel)
    PROVE  Agreed'
<1> DEFINE last == Reply("message", channel)
<1>1. /\ channel \in subscriptions
      /\ replies' = Append(replies, last)
      /\ UNCHANGED <<mode, subscribed_channels, call, channels, awaited, careful>>
      /\ UNCHANGED <<requests, subscriptions>>
  BY DEF Deliver, client
<1>2. last.kind = "message" /\ last.channel = channel /\ last \in Replies
  BY DEF Reply, Replies
<1> HIDE DEF last
<1>3. /\ Len(replies) \in Nat /\ Len(replies') = Len(replies) + 1
      /\ \A i \in 1..Len(replies) : replies'[i] = replies[i]
      /\ replies'[Len(replies')] = last
  BY <1>1, <1>2, LenReplies, AppendProperties DEF TypeInv, TypeOK
<1>4. ASSUME NEW from \in Nat \ {0}, OnlyMessages(from)
      PROVE  OnlyMessages(from)'
  <2>1. \A i \in from..Len(replies') :
          \/ i \in from..Len(replies) /\ i \in 1..Len(replies)
          \/ i = Len(replies')
    BY <1>3
  <2> QED  BY <1>1, <1>2, <1>3, <1>4, <2>1 DEF OnlyMessages
<1>5. ASSUME NEW n, Quiet(n)
      PROVE  Quiet(n)'
  <2>1. OnlyMessages(1)'
    BY <1>4, <1>5 DEF Quiet
  <2> QED  BY <1>1, <1>5, <2>1 DEF Quiet, Trivial
<1>6. ASSUME NEW kind, NEW from \in Places, NEW to \in 0..Len(replies),
             Confirming(kind, from, to)
      PROVE  /\ Confirming(kind, from, to)'
             /\ from \in Places' /\ to \in 0..Len(replies')
             /\ Named(from, to)' = Named(from, to)
             /\ \A i \in from..to : replies'[i] = replies[i]
             /\ Distinct(from, to) => Distinct(from, to)'
  <2>1. from \in Nat /\ to \in Nat /\ from >= 1 /\ to + 1 \in Nat \ {0}
    BY <1>3 DEF Places
  <2>2. \A i \in 1..from - 1 : i \in 1..Len(replies)
    BY <1>3, <2>1 DEF Places
  <2>3. \A i \in from..to : i \in 1..Len(replies)
    BY <1>3, <2>1
  <2>4. OnlyMessages(to + 1)'
    BY <1>4, <1>6, <2>1 DEF Confirming
  <2>5. from <= to + 1 /\ to <= Len(replies')
    BY <1>3, <1>6, <2>1 DEF Confirming
  <2>6. Confirming(kind, from, to)'
    BY <1>3, <1>6, <2>2, <2>3, <2>4, <2>5 DEF Confirming
  <2>7. Named(from, to)' = Named(from, to)
    BY <1>3, <2>3 DEF Named
  <2>8. from \in Places' /\ to \in 0..Len(replies')
    BY <1>3, <2>1 DEF Places
  <2> QED  BY <1>3, <2>3, <2>6, <2>7, <2>8 DEF Distinct
<1>7. CASE call = "none"
  <2>1. PICK n : n = Len(requests)
    OBVIOUS
  <2>2. Quiet(n)'
    BY <1>5, <1>7, <2>1, IdleQuiet
  <2>3. Quiet(Len(requests))'
    BY <1>1, <2>1, <2>2 DEF Quiet
  <2> QED  BY <1>1, <1>7, <2>3 DEF Agreed
<1>8. ASSUME Unserved
      PROVE  Unserved'
  <2>1. PICK n : n = Len(requests) - 1
    OBVIOUS
  <2>2. Quiet(n)'
    BY <1>5, <1>8, <2>1 DEF Unserved
  <2>3. Quiet(Len(requests) - 1)'
    BY <1>1, <2>1, <2>2 DEF Quiet
  <2> QED  BY <1>1, <1>8, <2>3 DEF Unserved, Due, New, Own
<1>9. ASSUME SubscribedComes
      PROVE  SubscribedComes'
  <2>1. PICK from \in Places, to \in 0..Len(replies) :
          /\ Confirming("subscribe", from, to)
          /\ awaited = to - from + 1
          /\ \A i \in from..to : replies[i].channel = channels[Len(channels) - to + i]
    BY <1>9 DEF SubscribedComes
  <2>2. /\ Confirming("subscribe", from, to)'
        /\ from \in Places' /\ to \in 0..Len(replies')
        /\ awaited' = to - from + 1
        /\ \A i \in from..to : replies'[i].channel = channels'[Len(channels') - to + i]
    BY <1>1, <1>6, <2>1
  <2>3. /\ call' = "subscribe" /\ (careful' => New(channels)')
        /\ subscriptions' = Range(subscribed_channels') \cup Range(channels')
        /\ awaited' <= Len(channels')
    BY <1>1, <1>9 DEF SubscribedComes, New
  <2> QED  BY <2>2, <2>3 DEF SubscribedComes
<1>10. ASSUME UnsubscribedComes
       PROVE  UnsubscribedComes'
  <2>1. PICK from \in Places, to \in 0..Len(replies) :
          /\ Confirming("unsubscribe", from, to)
          /\ subscriptions = Range(subscribed_channels) \ Named(from, to)
          /\ channels # <<>> => awaited = to - from + 1
          /\ channels = <<>> => /\ awaited = Len(subscribed_channels)
                                /\ Named(from, to) = Range(subscribed_channels)
                                /\ Distinct(from, to)
          /\ careful => /\ Distinct(from, to)
                        /\ Named(from, to) \subseteq Range(subscribed_channels)
    BY <1>10 DEF UnsubscribedComes
  <2>2. /\ Confirming("unsubscribe", from, to)'
        /\ from \in Places' /\ to \in 0..Len(replies')
        /\ Named(from, to)' = Named(from, to)
        /\ Distinct(from, to) => Distinct(from, to)'
    BY <1>6, <2>1
  <2>3. call' = "unsubscribe"
    BY <1>1, <1>10 DEF UnsubscribedComes
  <2> QED  BY <1>1, <2>1, <2>2, <2>3 DEF UnsubscribedComes
<1>11. ASSUME AnswerComes
       PROVE  AnswerComes'
  BY <1>1, <1>11 DEF AnswerComes
<1>12. CASE Waiting
  <2>1. Unserved' \/ Served'
    <3>1. CASE Unserved
      BY <1>8, <3>1
    <3>2. CASE Served
      <4>1. requests' = <<>>
        BY <1>1, <3>2 DEF Served
      <4> QED  BY <1>9, <1>10, <1>11, <3>2, <4>1 DEF Served
    <3> QED  BY <1>12, <3>1, <3>2 DEF Waiting
  <2>2. Waiting'
    BY <1>1, <1>12, <2>1 DEF Waiting
  <2> QED  BY <1>1, <2>2 DEF Agreed
<1> QED  BY <1>7, <1>12 DEF Agreed

\* Whether the handler still runs does not matter for the agreement.
LEMMA SameAgreed ==
    ASSUME Agreed, UNCHANGED <<client, requests, replies, subscriptions, careful>>
    PROVE  Agreed'
<1>1. /\ UNCHANGED <<mode, subscribed_channels, call, channels, awaited, careful>>
      /\ UNCHANGED <<requests, replies, subscriptions>>
  BY DEF client
<1>2. Quiet(Len(requests)) => Quiet(Len(requests))'
  BY <1>1 DEF Quiet, Trivial, OnlyMessages
<1>3. Unserved => Unserved'
  BY <1>1 DEF Unserved, Quiet, Trivial, OnlyMessages, Due, New, Own
<1>4. Served => Served'
  <2>1. AnswerComes => AnswerComes'
    BY <1>1 DEF AnswerComes
  <2>2. /\ UNCHANGED Places
        /\ \A kind, from, to : /\ Confirming(kind, from, to) => Confirming(kind, from, to)'
                               /\ Named(from, to)' = Named(from, to)
                               /\ Distinct(from, to) => Distinct(from, to)'
    BY <1>1 DEF Places, Confirming, OnlyMessages, Named, Distinct
  <2>3. SubscribedComes => SubscribedComes'
    BY <1>1, <2>2 DEF SubscribedComes, New
  <2>4. UnsubscribedComes => UnsubscribedComes'
    BY <1>1, <2>2 DEF UnsubscribedComes
  <2> QED  BY <1>1, <2>1, <2>3, <2>4 DEF Served
<1> QED  BY <1>1, <1>2, <1>3, <1>4 DEF Agreed, Waiting

-----------------------------------------------------------------------------
(***************************************************************************)
(* The agreement holds until a call fails or is dropped, and one that      *)
(* fails has its cause.                                                    *)
(***************************************************************************)

Cause == IF replies = <<>> THEN handler = "closed" ELSE Head(replies).kind = "message"

LEMMA UntroubledStep ==
    ASSUME TypeInv, Agreed, Untroubled, [Next]_vars
    PROVE  \/ Untroubled' /\ Agreed'
           \/ failure' = "dropped"
           \/ ~Untroubled' /\ (careful => Cause)
<1>1. ASSUME UNCHANGED <<client, requests, replies, subscriptions, careful>>
      PROVE  Untroubled' /\ Agreed'
  BY <1>1, SameAgreed DEF Untroubled, client
<1>2. ASSUME NEW command \in ClientCalls, CallClient(command)
      PROVE  Untroubled' /\ Agreed'
  BY <1>2, CallClientAgreed DEF Untroubled, CallClient, Send
<1>3. ASSUME NEW list \in Lists, CallSubscribe(list) \/ CallUnsubscribe(list)
      PROVE  Untroubled' /\ Agreed'
  BY <1>3, CallListAgreed DEF Untroubled, CallSubscribe, CallUnsubscribe, Send
<1>4. CASE Abandon
  BY <1>4 DEF Abandon
<1>5. CASE ReadAnswer
  BY <1>5, ReadAnswerAgreed
<1>6. CASE ReadSubscribed \/ ReadUnsubscribed
  <2>1. replies # <<>>
    BY <1>6 DEF ReadSubscribed, ReadUnsubscribed, Response
  <2> QED  BY <1>6, <2>1, ReadSubscribedAgreed, ReadUnsubscribedAgreed DEF Cause
<1>7. CASE ReadEnd
  BY <1>7 DEF ReadEnd, Fails, Untroubled, Cause
<1>8. CASE NextMessage
  BY <1>8, NextMessageAgreed
<1>9. CASE Serve
  BY <1>9, ServeAgreed DEF Serve, client, Untroubled
<1>10. ASSUME NEW channel \in Channels, Deliver(channel)
       PROVE  Untroubled' /\ Agreed'
  BY <1>10, DeliverAgreed DEF Deliver, client, Untroubled
<1>11. CASE Shutdown
  BY <1>1, <1>11 DEF Shutdown
<1>12. CASE UNCHANGED vars
  BY <1>1, <1>12 DEF vars, server
<1> QED  BY <1>2, <1>3, <1>4, <1>5, <1>6, <1>7, <1>8, <1>9, <1>10, <1>11, <1>12 DEF Next, Read

\* No step makes the client forget that a call has failed.
LEMMA TroubleLasts ==
    ASSUME ~Untroubled, [Next]_vars
    PROVE  ~Untroubled'
<1>1. CASE Read
  <2>1. CASE ReadEnd
    BY <2>1 DEF ReadEnd, Fails, Untroubled
  <2>2. CASE ReadAnswer \/ ReadSubscribed \/ ReadUnsubscribed
    <3>1. call # "none" /\ (Confirmed \/ Fails)
      BY <2>2 DEF ReadAnswer, ReadSubscribed, ReadUnsubscribed, ClientCalls
    <3> QED  BY <3>1 DEF Confirmed, Fails, Untroubled
  <2> QED  BY <1>1, <2>1, <2>2 DEF Read
<1>2. CASE Abandon \/ NextMessage
  BY <1>2 DEF Abandon, NextMessage, Untroubled
<1>3. CASE UNCHANGED client
  BY <1>3 DEF client, Untroubled
<1>4. ASSUME NEW command \in ClientCalls, CallClient(command)
      PROVE  UNCHANGED failure
  BY <1>4 DEF CallClient, Send
<1>5. ASSUME NEW list \in Lists, CallSubscribe(list) \/ CallUnsubscribe(list)
      PROVE  UNCHANGED failure
  BY <1>5 DEF CallSubscribe, CallUnsubscribe, Send
<1> QED  BY <1>1, <1>2, <1>3, <1>4, <1>5
         DEF Next, Serve, Deliver, Shutdown, vars, Untroubled

LEMMA StepInvNext == TypeInv /\ StepInv /\ [Next]_vars => StepInv'
BY UntroubledStep, TroubleLasts DEF StepInv, Untroubled

LEMMA SessionInv == Spec => [](TypeInv /\ StepInv)
<1>1. Init => TypeInv
  BY TypeInvInit
<1>2. Init => StepInv
  <2> SUFFICES ASSUME Init
               PROVE  Agreed
    BY DEF StepInv
  <2>1. Len(requests) = 0 /\ Len(replies) = 0 /\ Range(subscribed_channels) = {}
    BY EmptyRange DEF Init
  <2>2. Quiet(Len(requests))
    BY <2>1 DEF Init, Quiet, OnlyMessages
  <2>3. IsInjective(subscribed_channels)
    BY DEF Init, IsInjective
  <2> QED  BY <2>2, <2>3 DEF Init, Agreed
<1>3. TypeInv /\ StepInv /\ [Next]_vars => (TypeInv /\ StepInv)'
  BY TypeInvNext, StepInvNext
<1> QED  BY <1>1, <1>2, <1>3, PTL DEF Spec

(***************************************************************************)
(* Between two calls no reply is left over for a later call to trip on,    *)
(* but messages of the Subscriber's channels.                              *)
(***************************************************************************)
THEOREM NoReplyLeftOver == Spec => []OnlyOwnMessages
<1>1. TypeInv /\ StepInv => OnlyOwnMessages
  <2> SUFFICES ASSUME TypeInv, StepInv, Untroubled, call = "none", NEW i \in DOMAIN replies
               PROVE  /\ replies[i].kind = "message"
                      /\ replies[i].channel \in Range(subscribed_channels)
    BY DEF OnlyOwnMessages, Idle
  <2>1. Quiet(Len(requests)) /\ i \in 1..Len(replies)
    BY IdleQuiet, LenReplies DEF StepInv
  <2> QED  BY <2>1 DEF Quiet, OnlyMessages
<1> QED  BY <1>1, SessionInv, PTL

(***************************************************************************)
(* Between two calls that have been served, the Subscriber and the handler *)
(* have the same channels.                                                 *)
(***************************************************************************)
THEOREM SameChannels == Spec => []InStep
<1>1. TypeInv /\ StepInv => InStep
  BY IdleQuiet DEF StepInv, InStep, Idle, Quiet
<1> QED  BY <1>1, SessionInv, PTL

(***************************************************************************)
(* The first call of a careful application that fails does so because the  *)
(* server has closed the connection, or on a message.                      *)
(***************************************************************************)
THEOREM FirstFailureHasCause == Spec => FailsForCause
<1>1. TypeInv /\ StepInv /\ [Next]_vars =>
        (careful /\ Untroubled /\ failure' \notin {"none", "dropped"} => Cause)
  BY UntroubledStep DEF StepInv, Untroubled
<1>2. TypeInv /\ StepInv /\ [Next]_vars =>
        [careful /\ Untroubled /\ failure' \notin {"none", "dropped"} =>
            IF replies = <<>> THEN handler = "closed"
            ELSE Head(replies).kind = "message"]_vars
  BY <1>1 DEF Cause
<1> QED  BY <1>2, SessionInv, PTL DEF Spec, FailsForCause
=============================================================================
