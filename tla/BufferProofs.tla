---------------------------- MODULE BufferProofs ----------------------------
(***************************************************************************)
(* Proofs about module Buffer, for every set of callers, keys and values,  *)
(* every message limit and every bound: it implements SharedStore.         *)
(***************************************************************************)
EXTENDS Buffer, SequenceTheorems, FiniteSetTheorems, WellFoundedInduction, TLAPS

-----------------------------------------------------------------------------
(***************************************************************************)
(* Induction: a set of numbers, or of sequences, that contains the first   *)
(* one and is closed under the step contains all.                          *)
(***************************************************************************)

\* A set with zero and the successors of its numbers has all numbers.
LEMMA NatInduct ==
    ASSUME NEW N \in SUBSET Nat, 0 \in N, \A n \in N : n + 1 \in N
    PROVE  N = Nat
<1> SUFFICES ASSUME Nat \ N # {}
             PROVE  FALSE
  OBVIOUS
<1> DEFINE Less == {pair \in Nat \X Nat : pair[1] < pair[2]}
<1>0. IsWellFoundedOn(Less, Nat)
  BY NatLessThanWellFounded DEF OpToRel
<1>1. PICK m \in Nat \ N : \A k \in Nat \ N : ~ (<<k, m>> \in Less)
  <2> HIDE DEF Less
  <2> QED  BY <1>0, WFMin
<1>2. m - 1 \in Nat /\ m - 1 < m
  BY <1>1
<1>3. m - 1 \in N
  BY <1>1, <1>2
<1> QED  BY <1>1, <1>3

\* A set with the empty sequence and all extensions of its sequences has all
\* sequences.
LEMMA SeqInduct ==
    ASSUME NEW T, NEW P \in SUBSET Seq(T), <<>> \in P,
           \A s \in P, x \in T : Append(s, x) \in P
    PROVE  P = Seq(T)
<1> DEFINE N == {n \in Nat : \A s \in Seq(T) : Len(s) = n => s \in P}
<1>1. 0 \in N
  BY EmptySeq
<1>2. ASSUME NEW n \in N
      PROVE  n + 1 \in N
  <2> SUFFICES ASSUME NEW s \in Seq(T), Len(s) = n + 1
               PROVE  s \in P
    OBVIOUS
  <2>1. PICK front \in Seq(T), x \in T : s = Append(front, x)
    <3>1. s # <<>>
      BY EmptySeq
    <3> QED  BY <3>1, SequenceEmptyOrAppend
  <2>2. Len(front) = n
    BY <2>1, AppendProperties, LenProperties
  <2> QED  BY <2>1, <2>2
<1>3. N = Nat
  <2> HIDE DEF N
  <2>1. N \in SUBSET Nat
    BY DEF N
  <2> QED  BY <1>1, <1>2, <2>1, NatInduct
<1> QED  BY <1>3, LenProperties

-----------------------------------------------------------------------------
(***************************************************************************)
(* The recursive function inside Only.                                     *)
(***************************************************************************)

\* f is that function, up to n.
Runs(f, seq, S, n) ==
    f = [i \in 0..n |->
           IF i = 0 THEN <<>>
           ELSE IF seq[i] \in S THEN Append(f[i - 1], seq[i]) ELSE f[i - 1]]

LEMMA RunStep ==
    ASSUME NEW f, NEW seq, NEW S, NEW n \in Nat, Runs(f, seq, S, n)
    PROVE  /\ f[0] = <<>>
           /\ \A i \in 1..n :
                f[i] = IF seq[i] \in S THEN Append(f[i - 1], seq[i]) ELSE f[i - 1]
<1> DEFINE value(i) == IF i = 0 THEN <<>>
                       ELSE IF seq[i] \in S THEN Append(f[i - 1], seq[i]) ELSE f[i - 1]
<1>1. f = [i \in 0..n |-> value(i)]
  BY DEF Runs
<1>2. \A i \in 0..n : f[i] = value(i)
  <2> HIDE DEF value
  <2> QED  BY <1>1
<1> QED  BY <1>2

LEMMA RunExists ==
    ASSUME NEW seq, NEW S
    PROVE  \A n \in Nat : \E f : Runs(f, seq, S, n)
<1> DEFINE N == {n \in Nat : \E f : Runs(f, seq, S, n)}
<1>1. 0 \in N
  <2>1. Runs([i \in 0..0 |-> <<>>], seq, S, 0)
    BY DEF Runs
  <2> QED  BY <2>1
<1>2. ASSUME NEW n \in N
      PROVE  n + 1 \in N
  <2>1. PICK f : Runs(f, seq, S, n)
    OBVIOUS
  <2> DEFINE g == [i \in 0..n + 1 |->
                     IF i <= n THEN f[i]
                     ELSE IF seq[i] \in S THEN Append(f[i - 1], seq[i]) ELSE f[i - 1]]
  <2>2. /\ \A i \in 0..n : g[i] = f[i]
        /\ g[n + 1] = IF seq[n + 1] \in S THEN Append(f[n], seq[n + 1]) ELSE f[n]
    OBVIOUS
  <2> DEFINE value(i) == IF i = 0 THEN <<>>
                         ELSE IF seq[i] \in S THEN Append(g[i - 1], seq[i]) ELSE g[i - 1]
  <2>3. ASSUME NEW i \in 0..n + 1
        PROVE  g[i] = value(i)
    <3>1. CASE i \in 1..n
      <4>1. g[i] = f[i] /\ g[i - 1] = f[i - 1]
        BY <2>2, <3>1
      <4>2. f[i] = IF seq[i] \in S THEN Append(f[i - 1], seq[i]) ELSE f[i - 1]
        BY <2>1, <3>1, RunStep
      <4> HIDE DEF g
      <4> QED  BY <3>1, <4>1, <4>2
    <3>2. CASE i = 0
      <4>1. g[0] = f[0] /\ f[0] = <<>>
        BY <2>1, <2>2, RunStep
      <4> HIDE DEF g
      <4> QED  BY <3>2, <4>1
    <3>3. CASE i = n + 1
      <4>1. g[n] = f[n]
        BY <2>2
      <4> HIDE DEF g
      <4> QED  BY <2>2, <3>3, <4>1
    <3> QED  BY <3>1, <3>2, <3>3
  <2>4. g = [i \in 0..n + 1 |-> g[i]]
    OBVIOUS
  <2>5. g = [i \in 0..n + 1 |-> value(i)]
    <3> HIDE DEF g, value
    <3> QED  BY <2>3, <2>4
  <2>6. Runs(g, seq, S, n + 1)
    <3> HIDE DEF g
    <3> QED  BY <2>5 DEF Runs
  <2> QED  BY <2>6
<1>3. N = Nat
  <2> HIDE DEF N
  <2>1. N \in SUBSET Nat
    BY DEF N
  <2> QED  BY <1>1, <1>2, <2>1, NatInduct
<1> QED  BY <1>3

\* Two runs agree as far as both go and their sequences agree.
LEMMA RunsAgree ==
    ASSUME NEW f, NEW g, NEW seq, NEW other, NEW S, NEW m \in Nat, NEW n \in Nat, m <= n,
           Runs(f, seq, S, m), Runs(g, other, S, n), \A i \in 1..m : seq[i] = other[i]
    PROVE  f[m] = g[m]
<1> DEFINE N == {k \in Nat : k <= m => f[k] = g[k]}
<1>1. 0 \in N
  BY RunStep
<1>2. ASSUME NEW k \in N
      PROVE  k + 1 \in N
  <2> SUFFICES ASSUME k + 1 <= m
               PROVE  f[k + 1] = g[k + 1]
    OBVIOUS
  <2>1. k \in Nat /\ k + 1 \in 1..m /\ k + 1 \in 1..n /\ k + 1 - 1 = k
    OBVIOUS
  <2>2. f[k] = g[k] /\ seq[k + 1] = other[k + 1]
    BY <2>1
  <2>3. f[k + 1] = IF seq[k + 1] \in S THEN Append(f[k], seq[k + 1]) ELSE f[k]
    BY <2>1, RunStep
  <2>4. g[k + 1] = IF other[k + 1] \in S THEN Append(g[k], other[k + 1]) ELSE g[k]
    BY <2>1, RunStep
  <2> QED  BY <2>2, <2>3, <2>4
<1>3. N = Nat
  <2> HIDE DEF N
  <2>1. N \in SUBSET Nat
    BY DEF N
  <2> QED  BY <1>1, <1>2, <2>1, NatInduct
<1> QED  BY <1>3

LEMMA OnlyRun ==
    ASSUME NEW seq, NEW S, NEW f, Len(seq) \in Nat, Runs(f, seq, S, Len(seq))
    PROVE  Only(seq, S) = f[Len(seq)]
<1> DEFINE g == CHOOSE h : Runs(h, seq, S, Len(seq))
<1>1. Runs(g, seq, S, Len(seq))
  <2> HIDE DEF Runs
  <2> QED  OBVIOUS
<1>2. Only(seq, S) = g[Len(seq)]
  <2>1. CASE seq # <<>>
    BY <2>1 DEF Only, Runs
  <2>2. CASE seq = <<>>
    <3> HIDE DEF g
    <3>1. Len(seq) = 0 /\ g[0] = <<>>
      BY <1>1, <2>2, RunStep
    <3> QED  BY <2>2, <3>1 DEF Only
  <2> QED  BY <2>1, <2>2
<1> HIDE DEF g
<1>3. Len(seq) <= Len(seq) /\ \A i \in 1..Len(seq) : seq[i] = seq[i]
  OBVIOUS
<1>4. f[Len(seq)] = g[Len(seq)]
  BY <1>1, <1>3, RunsAgree
<1> QED  BY <1>2, <1>4

-----------------------------------------------------------------------------
(***************************************************************************)
(* Only, from the front and from the end.                                  *)
(***************************************************************************)

LEMMA OnlyEmpty == \A S : Only(<<>>, S) = <<>>
<1> SUFFICES ASSUME NEW S
             PROVE  Only(<<>>, S) = <<>>
  OBVIOUS
<1>1. PICK f : Runs(f, <<>>, S, 0)
  BY RunExists
<1>2. f[0] = <<>>
  BY <1>1, RunStep
<1>3. Len(<<>>) = 0
  OBVIOUS
<1> QED  BY <1>1, <1>2, <1>3, OnlyRun

LEMMA OnlyAppend ==
    ASSUME NEW T, NEW seq \in Seq(T), NEW x \in T, NEW S
    PROVE  Only(Append(seq, x), S) = IF x \in S THEN Append(Only(seq, S), x) ELSE Only(seq, S)
<1> DEFINE n == Len(seq)
           longer == Append(seq, x)
           m == Len(longer)
<1>1. /\ n \in Nat /\ m \in Nat /\ m = n + 1 /\ longer[m] = x
      /\ \A i \in 1..n : seq[i] = longer[i]
  BY AppendProperties, LenProperties
<1>2. n <= m /\ m \in 1..m /\ m - 1 = n
  BY <1>1
<1>3. PICK f : Runs(f, seq, S, n)
  BY <1>1, RunExists
<1>4. PICK g : Runs(g, longer, S, m)
  BY <1>1, RunExists
<1>5. Only(seq, S) = f[n] /\ Only(longer, S) = g[m]
  BY <1>1, <1>3, <1>4, OnlyRun
<1> HIDE DEF n, longer, m
<1>6. f[n] = g[n]
  BY <1>1, <1>2, <1>3, <1>4, RunsAgree
<1>7. g[m] = IF longer[m] \in S THEN Append(g[m - 1], longer[m]) ELSE g[m - 1]
  BY <1>1, <1>2, <1>4, RunStep
<1>8. Only(longer, S) = IF x \in S THEN Append(Only(seq, S), x) ELSE Only(seq, S)
  BY <1>1, <1>2, <1>5, <1>6, <1>7
<1> QED  BY <1>8 DEF longer

\* The entries that lie in the set, each as often as before.
LEMMA OnlyType ==
    ASSUME NEW T, NEW seq \in Seq(T), NEW S
    PROVE  Only(seq, S) \in Seq(T \cap S)
<1> DEFINE P == {s \in Seq(T) : Only(s, S) \in Seq(T \cap S)}
<1>1. <<>> \in P
  BY OnlyEmpty, EmptySeq
<1>2. ASSUME NEW s \in P, NEW x \in T
      PROVE  Append(s, x) \in P
  <2>1. Append(s, x) \in Seq(T)
    BY AppendProperties
  <2>2. CASE x \in S
    <3>1. Append(Only(s, S), x) \in Seq(T \cap S)
      BY <2>2, AppendProperties
    <3> QED  BY <2>1, <2>2, <3>1, OnlyAppend
  <2>3. CASE x \notin S
    BY <2>1, <2>3, OnlyAppend
  <2> QED  BY <2>2, <2>3
<1>3. P = Seq(T)
  <2> HIDE DEF P
  <2>1. P \in SUBSET Seq(T)
    BY DEF P
  <2> QED  BY <1>1, <1>2, <2>1, SeqInduct
<1> QED  BY <1>3

LEMMA RangeAppend ==
    ASSUME NEW T, NEW seq \in Seq(T), NEW x
    PROVE  Range(Append(seq, x)) = Range(seq) \cup {x}
<1>1. DOMAIN Append(seq, x) = 1..Len(seq) + 1
  BY LenProperties
<1>2. /\ \A i \in 1..Len(seq) : Append(seq, x)[i] = seq[i]
      /\ Append(seq, x)[Len(seq) + 1] = x
  OBVIOUS
<1>3. Len(seq) \in Nat /\ DOMAIN seq = 1..Len(seq)
  BY LenProperties
<1> QED  BY <1>1, <1>2, <1>3 DEF Range

LEMMA OnlyRange ==
    ASSUME NEW T, NEW seq \in Seq(T), NEW S
    PROVE  Range(Only(seq, S)) = Range(seq) \cap S
<1> DEFINE P == {s \in Seq(T) : Range(Only(s, S)) = Range(s) \cap S}
<1>1. <<>> \in P
  BY OnlyEmpty, EmptySeq DEF Range
<1>2. ASSUME NEW s \in P, NEW x \in T
      PROVE  Append(s, x) \in P
  <2>1. Append(s, x) \in Seq(T) /\ Range(Append(s, x)) = Range(s) \cup {x}
    BY RangeAppend, AppendProperties
  <2>2. CASE x \in S
    <3>1. Range(Append(Only(s, S), x)) = Range(Only(s, S)) \cup {x}
      <4>1. Only(s, S) \in Seq(T \cap S)
        BY OnlyType
      <4> QED  BY <4>1, RangeAppend
    <3>2. Only(Append(s, x), S) = Append(Only(s, S), x)
      BY <2>2, OnlyAppend
    <3> QED  BY <2>1, <2>2, <3>1, <3>2
  <2>3. CASE x \notin S
    <3>1. Only(Append(s, x), S) = Only(s, S)
      BY <2>3, OnlyAppend
    <3> QED  BY <2>1, <2>3, <3>1
  <2> QED  BY <2>2, <2>3
<1>3. P = Seq(T)
  <2> HIDE DEF P
  <2>1. P \in SUBSET Seq(T)
    BY DEF P
  <2> QED  BY <1>1, <1>2, <2>1, SeqInduct
<1> QED  BY <1>3

LEMMA OnlyAll ==
    ASSUME NEW S, NEW seq \in Seq(S)
    PROVE  Only(seq, S) = seq
<1> DEFINE P == {s \in Seq(S) : Only(s, S) = s}
<1>1. <<>> \in P
  BY OnlyEmpty, EmptySeq
<1>2. ASSUME NEW s \in P, NEW x \in S
      PROVE  Append(s, x) \in P
  BY AppendProperties, OnlyAppend
<1>3. P = Seq(S)
  <2> HIDE DEF P
  <2>1. P \in SUBSET Seq(S)
    BY DEF P
  <2> QED  BY <1>1, <1>2, <2>1, SeqInduct
<1> QED  BY <1>3

LEMMA ConcatAppend ==
    ASSUME NEW T, NEW seq \in Seq(T), NEW other \in Seq(T), NEW x \in T
    PROVE  other \o Append(seq, x) = Append(other \o seq, x)
BY AppendProperties, ConcatProperties

\* What lies outside of the set goes, whatever it is among.
LEMMA OnlyConcat ==
    ASSUME NEW T, NEW seq \in Seq(T), NEW other \in Seq(T), NEW S
    PROVE  Only(other \o seq, S) = Only(other, S) \o Only(seq, S)
<1> DEFINE P == {s \in Seq(T) : Only(other \o s, S) = Only(other, S) \o Only(s, S)}
<1>0. Only(other, S) \in Seq(T \cap S)
  BY OnlyType
<1>1. <<>> \in P
  <2>1. Only(other, S) \o <<>> = Only(other, S) /\ other \o <<>> = other
    BY <1>0, ConcatEmptySeq
  <2> QED  BY <2>1, OnlyEmpty, EmptySeq
<1>2. ASSUME NEW s \in P, NEW x \in T
      PROVE  Append(s, x) \in P
  <2>1. /\ Append(s, x) \in Seq(T) /\ other \o s \in Seq(T)
        /\ other \o Append(s, x) = Append(other \o s, x)
    BY AppendProperties, ConcatProperties
  <2>2. Only(s, S) \in Seq(T \cap S)
    BY OnlyType
  <2>3. CASE x \in S
    <3>1. Only(Append(other \o s, x), S) = Append(Only(other, S) \o Only(s, S), x)
      BY <2>1, <2>3, OnlyAppend
    <3>2. Only(Append(s, x), S) = Append(Only(s, S), x)
      BY <2>3, OnlyAppend
    <3>3. Append(Only(other, S) \o Only(s, S), x) = Only(other, S) \o Append(Only(s, S), x)
      <4>1. x \in T \cap S
        BY <2>3
      <4> QED  BY <1>0, <2>2, <4>1, ConcatAppend
    <3> QED  BY <2>1, <3>1, <3>2, <3>3
  <2>4. CASE x \notin S
    <3>1. Only(Append(other \o s, x), S) = Only(other, S) \o Only(s, S)
      BY <2>1, <2>4, OnlyAppend
    <3>2. Only(Append(s, x), S) = Only(s, S)
      BY <2>4, OnlyAppend
    <3> QED  BY <2>1, <3>1, <3>2
  <2> QED  BY <2>3, <2>4
<1>3. P = Seq(T)
  <2> HIDE DEF P
  <2>1. P \in SUBSET Seq(T)
    BY DEF P
  <2> QED  BY <1>1, <1>2, <2>1, SeqInduct
<1> QED  BY <1>3

-----------------------------------------------------------------------------
(***************************************************************************)
(* Types.                                                                  *)
(***************************************************************************)

LEMMA OptType ==
    ASSUME NEW S
    PROVE  /\ {} \in Opt(S)
           /\ \A x \in S : {x} \in Opt(S)
           /\ \A o \in Opt(S) : \A x \in o : o = {x} /\ x \in S
BY DEF Opt

LEMMA FramesType == Opt(Values) \subseteq Frames /\ {OK} \in Frames /\ {} \in Frames
BY DEF Frames, Opt

LEMMA ResponseTyped ==
    ASSUME NEW command, NEW frame \in Frames
    PROVE  Response(command, frame) \in [ok : BOOLEAN, value : Frames]
BY FramesType DEF Response, Ok, Err

LEMMA ErrType == Err \in [ok : BOOLEAN, value : Frames]
BY FramesType DEF Err

LEMMA MessageType ==
    ASSUME NEW m \in Message
    PROVE  /\ m.caller \in Callers /\ m.number \in Nat /\ m.number \in 1..MaxCalls
           /\ m.command.key \in Keys /\ m.command.value \in Opt(Values)
BY BufferAssumption DEF Message, Commands

\* What a step does to the first message or frame of a queue.
LEMMA Shift ==
    ASSUME NEW S, NEW seq \in Seq(S), seq # <<>>
    PROVE  /\ Len(seq) \in Nat \ {0} /\ Head(seq) = seq[1] /\ Head(seq) \in S
           /\ Tail(seq) \in Seq(S) /\ Len(Tail(seq)) = Len(seq) - 1
           /\ \A i \in 1..Len(seq) - 1 : Tail(seq)[i] = seq[i + 1]
           /\ Range(Tail(seq)) \subseteq Range(seq) /\ Head(seq) \in Range(seq)
           /\ seq = <<Head(seq)>> \o Tail(seq)
<1>1. Len(seq) \in Nat /\ Len(seq) # 0 /\ DOMAIN seq = 1..Len(seq)
  BY EmptySeq, LenProperties
<1>2. /\ Head(seq) = seq[1] /\ Head(seq) \in S
      /\ Tail(seq) \in Seq(S) /\ Len(Tail(seq)) = Len(seq) - 1
      /\ \A i \in 1..Len(seq) - 1 : Tail(seq)[i] = seq[i + 1]
  BY <1>1, HeadTailProperties
<1>3. DOMAIN Tail(seq) = 1..Len(seq) - 1
  BY <1>2, LenProperties
<1>4. \A i \in 1..Len(seq) - 1 : i + 1 \in 1..Len(seq)
  BY <1>1
<1>5. Range(Tail(seq)) \subseteq Range(seq)
  BY <1>1, <1>2, <1>3, <1>4 DEF Range
<1>6. Head(seq) \in Range(seq)
  BY <1>1, <1>2 DEF Range
<1>7. seq = <<Head(seq)>> \o Tail(seq)
  BY <1>1, <1>2
<1> QED  BY <1>1, <1>2, <1>5, <1>6, <1>7

LEMMA RangeType ==
    ASSUME NEW S, NEW seq \in Seq(S)
    PROVE  /\ Range(seq) \subseteq S /\ Len(seq) \in Nat /\ DOMAIN seq = 1..Len(seq)
           /\ Len(seq) = 0 <=> seq = <<>>
           /\ Range(seq) = {} => seq = <<>>
<1>1. Len(seq) \in Nat /\ DOMAIN seq = 1..Len(seq) /\ (Len(seq) = 0 <=> seq = <<>>)
  BY LenProperties, EmptySeq
<1>2. Range(seq) \subseteq S
  BY <1>1, ElementOfSeq DEF Range
<1>3. ASSUME seq # <<>>
      PROVE  Range(seq) # {}
  <2>1. 1 \in DOMAIN seq
    BY <1>1, <1>3
  <2> QED  BY <2>1 DEF Range
<1> QED  BY <1>1, <1>2, <1>3

\* A call has a number.
TypeInv ==
    /\ TypeOK
    /\ \A c \in Callers : caller[c] = "sending" => number[c] > 0

LEMMA TypeInit == Init => TypeInv
BY OptType, EmptySeq, BufferAssumption DEF Init, TypeInv, TypeOK

LEMMA ForwardType ==
    ASSUME TypeInv, NEW m \in Message, NEW response \in [ok : BOOLEAN, value : Frames],
           Forward(m, response)
    PROVE  /\ answer' \in [Callers -> Opt([ok : BOOLEAN, value : Frames])]
           /\ task' \in {"recv", "read", "done"} /\ current' \in Opt(Message)
<1>1. {response} \in Opt([ok : BOOLEAN, value : Frames]) /\ {} \in Opt(Message)
  BY OptType
<1> QED  BY <1>1 DEF TypeInv, TypeOK, Forward

LEMMA TypeNext == TypeInv /\ [Next]_vars => TypeInv'
<1> SUFFICES ASSUME TypeInv, [Next]_vars
             PROVE  TypeInv'
  OBVIOUS
<1> USE DEF TypeInv, TypeOK
<1>1. ASSUME NEW c \in Callers, Clone(c) \/ DropHandle(c) \/ Return(c)
      PROVE  TypeInv'
  BY <1>1 DEF Clone, DropHandle, Return, running, connection
<1>2. ASSUME NEW c \in Callers, NEW command \in Commands, Call(c, command)
      PROVE  TypeInv'
  <2>1. {command} \in Opt(Commands) /\ {} \in Opt([ok : BOOLEAN, value : Frames])
    BY OptType
  <2>2. number[c] + 1 \in 0..MaxCalls /\ number[c] + 1 > 0
    BY <1>2, BufferAssumption DEF Call
  <2> QED  BY <1>2, <2>1, <2>2 DEF Call, running, connection
<1>3. ASSUME NEW c \in Callers, Send(c)
      PROVE  TypeInv'
  <2>1. PICK command \in asked[c] :
          queue' = Append(queue, [command |-> command, caller |-> c, number |-> number[c]])
    BY <1>3 DEF Send
  <2>2. command \in Commands /\ number[c] \in 1..MaxCalls
    BY <1>3, <2>1, OptType, BufferAssumption DEF Send
  <2>3. [command |-> command, caller |-> c, number |-> number[c]] \in Message
    BY <2>2 DEF Message
  <2>4. queue' \in Seq(Message) /\ Len(queue') <= Limit
    BY <1>3, <2>1, <2>3, AppendProperties, LenProperties, BufferAssumption DEF Send
  <2> QED  BY <1>3, <2>4 DEF Send, running, connection
<1>4. ASSUME NEW c \in Callers, Abandon(c)
      PROVE  TypeInv'
  <2>1. {} \in Opt([ok : BOOLEAN, value : Frames])
    BY OptType
  <2> QED  BY <1>4, <2>1 DEF Abandon, running, connection
<1>5. CASE Recv
  <2>1. /\ Head(queue) \in Message /\ queue' \in Seq(Message) /\ Len(queue') <= Limit
    BY <1>5, Shift, BufferAssumption DEF Recv
  <2>2. current' \in Opt(Message) /\ requests' \in Seq(Message)
    BY <1>5, <2>1, OptType, AppendProperties DEF Recv
  <2> QED  BY <1>5, <2>1, <2>2 DEF Recv, calling
<1>6. CASE Read
  <2>1. PICK m \in current : Forward(m, Response(m.command, Head(replies)))
    BY <1>6 DEF Read
  <2>2. m \in Message /\ Head(replies) \in Frames /\ replies' \in Seq(Frames)
    BY <1>6, <2>1, OptType, Shift DEF Read
  <2>3. /\ answer' \in [Callers -> Opt([ok : BOOLEAN, value : Frames])]
        /\ task' \in {"recv", "read", "done"} /\ current' \in Opt(Message)
    BY <2>1, <2>2, ResponseTyped, ForwardType
  <2> QED  BY <1>6, <2>2, <2>3 DEF Read
<1>7. CASE ReadFails
  <2>1. PICK m \in current : Forward(m, Err)
    BY <1>7 DEF ReadFails
  <2>2. m \in Message
    BY <2>1, OptType
  <2>3. /\ answer' \in [Callers -> Opt([ok : BOOLEAN, value : Frames])]
        /\ task' \in {"recv", "read", "done"} /\ current' \in Opt(Message)
    BY <2>1, <2>2, ErrType, ForwardType
  <2> QED  BY <1>7, <2>3 DEF ReadFails, connection
<1>8. CASE End
  BY <1>8 DEF End, calling
<1>9. CASE Execute
  <2> DEFINE command == Head(requests).command
             reply == IF IsGet(command) THEN store[command.key] ELSE {OK}
  <2>1. Head(requests) \in Message /\ requests' \in Seq(Message)
    BY <1>9, Shift DEF Execute
  <2>2. command.key \in Keys /\ command.value \in Opt(Values)
    BY <2>1, MessageType
  <2>3. reply \in Frames
    BY <2>2, FramesType
  <2>4. replies' \in Seq(Frames) /\ store' \in [Keys -> Opt(Values)]
    <3> HIDE DEF reply
    <3>1. Append(replies, reply) \in Seq(Frames)
      BY <2>3, AppendProperties
    <3> QED  BY <1>9, <2>2, <3>1 DEF Execute, reply
  <2> QED  BY <1>9, <2>1, <2>4 DEF Execute, calling, running
<1>10. CASE Break
  BY <1>10, EmptySeq DEF Break, calling, running
<1>11. CASE UNCHANGED vars
  BY <1>11 DEF vars, calling, running, connection
<1> QED  BY <1>1, <1>2, <1>3, <1>4, <1>5, <1>6, <1>7, <1>8, <1>9, <1>10, <1>11 DEF Next, Run
-----------------------------------------------------------------------------
(***************************************************************************)
(* What holds of the messages under way.                                   *)
(***************************************************************************)

\* The messages of the channel and those with the server.
Sent == Range(queue) \cup Range(requests) \cup current

(***************************************************************************)
(* One request at a time is with the server, and it is the one the task    *)
(* works on; one of an earlier call may be left once the link is down.     *)
(***************************************************************************)
Wire ==
    /\ task = "read" <=> current # {}
    /\ Len(requests) + Len(replies) <= 1
    /\ link = "up" => Range(requests) \subseteq current
    /\ replies # <<>> => task = "read"

(***************************************************************************)
(* The messages of a caller are in the order of its calls, and a call that *)
(* waits for a slot comes after all of them.                               *)
(***************************************************************************)
InOrder ==
    /\ \A i, j \in DOMAIN queue :
         i < j /\ queue[i].caller = queue[j].caller => queue[i].number < queue[j].number
    /\ \A m \in Range(requests) \cup current, i \in DOMAIN queue :
         m.caller = queue[i].caller => m.number < queue[i].number
    /\ \A m \in Sent :
         /\ m.number <= number[m.caller]
         /\ caller[m.caller] = "sending" => m.number < number[m.caller]

(***************************************************************************)
(* No oneshot has an answer before its message has been worked on.         *)
(***************************************************************************)
Unanswered ==
    /\ \A c \in Callers : caller[c] = "sending" => asked[c] # {} /\ answer[c] = {}
    /\ \A m \in Range(queue) \cup current :
         caller[m.caller] = "awaiting" /\ m.number = number[m.caller] => answer[m.caller] = {}

BufferInv == TypeInv /\ Wire /\ InOrder /\ Unanswered

\* A step that leaves a caller where it is or ends its call.
Leaves(c) == Clone(c) \/ DropHandle(c) \/ Return(c) \/ Abandon(c)

LEMMA LeavesKeeps ==
    ASSUME TypeInv, NEW c \in Callers, Leaves(c)
    PROVE  /\ UNCHANGED <<asked, number, queue, current, requests, replies, link, store, task>>
           /\ \A d \in Callers : caller'[d] \in {"sending", "awaiting"} =>
                caller'[d] = caller[d] /\ d # c
           /\ \A d \in Callers : d # c => caller'[d] = caller[d]
           /\ \A d \in Callers : answer'[d] \in {answer[d], {}} /\ (d # c => answer'[d] = answer[d])
BY DEF TypeInv, TypeOK, Leaves, Clone, DropHandle, Return, Abandon, running, connection

LEMMA WireNext == BufferInv /\ [Next]_vars => Wire'
<1> SUFFICES ASSUME BufferInv, [Next]_vars
             PROVE  Wire'
  OBVIOUS
<1>0. /\ Len(requests) \in Nat /\ Len(replies) \in Nat
      /\ Len(requests) = 0 <=> requests = <<>>
      /\ Len(replies) = 0 <=> replies = <<>>
      /\ requests \in Seq(Message) /\ replies \in Seq(Frames) /\ queue \in Seq(Message)
  BY RangeType DEF BufferInv, TypeInv, TypeOK
<1>1. Range(<<>>) = {} /\ \A m : Range(<<m>>) = {m}
  BY DEF Range
<1> PICK a \in Nat, b \in Nat : a = Len(requests) /\ b = Len(replies) /\ a + b <= 1
  BY <1>0 DEF BufferInv, Wire
<1>2. CASE UNCHANGED <<task, current, requests, replies, link>>
  BY <1>2 DEF BufferInv, Wire
<1>3. CASE Recv
  <2>1. current = {} /\ replies = <<>>
    BY <1>3 DEF Recv, BufferInv, Wire
  <2>2. Len(replies) = 0 /\ Len(requests) <= 1
    BY <1>0, <2>1 DEF BufferInv, Wire
  <2>3. task' = "read" /\ current' = {Head(queue)} /\ UNCHANGED <<replies, link>>
    BY <1>3 DEF Recv
  <2>4. CASE link = "up"
    <3>1. requests = <<>>
      BY <1>0, <2>1, <2>4, RangeType DEF BufferInv, Wire
    <3>2. requests' = <<Head(queue)>>
      BY <1>3, <2>4, <3>1 DEF Recv
    <3> QED  BY <1>1, <2>1, <2>2, <2>3, <3>2 DEF Wire
  <2>5. CASE link # "up"
    <3>1. UNCHANGED requests
      BY <1>3, <2>5 DEF Recv
    <3> QED  BY <2>1, <2>2, <2>3, <2>5, <3>1 DEF Wire
  <2> QED  BY <2>4, <2>5
<1>4. CASE Read
  <2>1. Len(replies) = 1 /\ Len(requests) = 0 /\ requests = <<>>
    <3>1. b # 0
      BY <1>0, <1>4 DEF Read
    <3>2. b = 1 /\ a = 0
      BY <3>1
    <3> QED  BY <1>0, <3>2
  <2>2. replies' = <<>>
    BY <1>0, <1>4, <2>1, Shift, EmptySeq DEF Read
  <2>3. task' = "recv" /\ current' = {} /\ UNCHANGED <<requests, link>>
    BY <1>4 DEF Read, Forward
  <2> QED  BY <1>1, <2>1, <2>2, <2>3 DEF Wire
<1>5. CASE ReadFails
  BY <1>5 DEF ReadFails, Forward, connection, BufferInv, Wire
<1>6. CASE End
  BY <1>6 DEF End, BufferInv, Wire
<1>7. CASE Execute
  <2>1. Len(requests) = 1 /\ Len(replies) = 0 /\ replies = <<>>
    <3>1. a # 0
      BY <1>0, <1>7 DEF Execute
    <3>2. a = 1 /\ b = 0
      BY <3>1
    <3> QED  BY <1>0, <3>2
  <2>2. requests' = <<>>
    BY <1>0, <1>7, <2>1, Shift, EmptySeq DEF Execute
  <2>3. UNCHANGED <<task, current, link>>
    BY <1>7 DEF Execute, running
  <2>4. CASE link = "up"
    <3>1. Head(requests) \in Range(requests)
      BY <1>0, <1>7, Shift DEF Execute
    <3>2. task = "read"
      BY <2>4, <3>1 DEF BufferInv, Wire
    <3>3. Len(replies') = 1
      <4>1. PICK reply : replies' = Append(replies, reply)
        BY <1>7, <2>4 DEF Execute
      <4>2. replies' = <<reply>>
        BY <2>1, <4>1
      <4> QED  BY <4>2
    <3> QED  BY <1>1, <2>2, <2>3, <3>2, <3>3 DEF BufferInv, Wire
  <2>5. CASE link # "up"
    <3>1. replies' = <<>>
      BY <1>7, <2>1, <2>5 DEF Execute
    <3> QED  BY <1>1, <2>2, <2>3, <3>1 DEF BufferInv, Wire
  <2> QED  BY <2>4, <2>5
<1>8. CASE Break
  <2>1. Len(requests') \in {Len(requests), 0} /\ Len(replies') \in {Len(replies), 0}
    BY <1>8 DEF Break
  <2>2. Len(requests') + Len(replies') <= 1
    BY <1>0, <2>1 DEF BufferInv, Wire
  <2> QED  BY <1>8, <2>2 DEF Break, running, BufferInv, Wire
<1>9. ASSUME NEW c \in Callers, NEW command \in Commands, Call(c, command)
      PROVE  UNCHANGED <<task, current, requests, replies, link>>
  BY <1>9 DEF Call, running, connection
<1>10. ASSUME NEW c \in Callers, Send(c)
       PROVE  UNCHANGED <<task, current, requests, replies, link>>
  BY <1>10 DEF Send, running, connection
<1>11. ASSUME NEW c \in Callers, Leaves(c)
       PROVE  UNCHANGED <<task, current, requests, replies, link>>
  BY <1>11, LeavesKeeps DEF BufferInv
<1>12. CASE UNCHANGED vars
  BY <1>2, <1>12 DEF vars, running, connection
<1> QED  BY <1>2, <1>3, <1>4, <1>5, <1>6, <1>7, <1>8, <1>9, <1>10, <1>11, <1>12
         DEF Next, Run, Leaves

\* Messages that go away, and calls that end, disturb no order.
LEMMA FewerInOrder ==
    ASSUME BufferInv, UNCHANGED <<queue, number>>,
           Range(requests') \subseteq Range(requests), current' \subseteq current,
           \A c \in Callers : caller'[c] = "sending" => caller[c] = "sending"
    PROVE  InOrder'
<1>1. \A m \in Sent : m.caller \in Callers
  BY RangeType, OptType, MessageType DEF BufferInv, TypeInv, TypeOK, Sent
<1>2. Sent' \subseteq Sent
  BY DEF Sent
<1>3. \A m \in Sent' : /\ m.number <= number'[m.caller]
                       /\ caller'[m.caller] = "sending" => m.number < number'[m.caller]
  BY <1>1, <1>2 DEF BufferInv, InOrder
<1> QED  BY <1>3 DEF BufferInv, InOrder

LEMMA InOrderNext == BufferInv /\ [Next]_vars => InOrder'
<1> SUFFICES ASSUME BufferInv, [Next]_vars
             PROVE  InOrder'
  OBVIOUS
<1>0. /\ queue \in Seq(Message) /\ Len(queue) \in Nat /\ DOMAIN queue = 1..Len(queue)
      /\ requests \in Seq(Message) /\ number \in [Callers -> 0..MaxCalls]
      /\ \A m \in Sent : m.caller \in Callers /\ m.number \in Nat
      /\ MaxCalls \in Nat
  BY RangeType, OptType, MessageType, BufferAssumption DEF BufferInv, TypeInv, TypeOK, Sent
<1>1. CASE UNCHANGED <<caller, number, queue, requests, current>>
  BY <1>1, FewerInOrder
<1>2. ASSUME NEW c \in Callers, Leaves(c)
      PROVE  InOrder'
  BY <1>2, LeavesKeeps, FewerInOrder DEF BufferInv
<1>3. ASSUME NEW c \in Callers, NEW command \in Commands, Call(c, command)
      PROVE  InOrder'
  <2>1. /\ number' = [number EXCEPT ![c] = @ + 1]
        /\ caller' = [caller EXCEPT ![c] = "sending"]
        /\ UNCHANGED <<queue, requests, current>>
    BY <1>3 DEF Call, running, connection
  <2>2. Sent' = Sent
    BY <2>1 DEF Sent
  <2>3. ASSUME NEW m \in Sent
        PROVE  /\ m.number <= number'[m.caller]
               /\ caller'[m.caller] = "sending" => m.number < number'[m.caller]
    <3>1. /\ m.caller \in Callers /\ m.number \in Nat /\ m.number <= number[m.caller]
          /\ caller[m.caller] = "sending" => m.number < number[m.caller]
      BY <1>0 DEF BufferInv, InOrder
    <3>2. CASE m.caller = c
      <4>1. number'[c] = number[c] + 1 /\ number[c] \in Nat
        BY <1>0, <2>1
      <4> QED  BY <3>1, <3>2, <4>1
    <3>3. CASE m.caller # c
      <4>1. number'[m.caller] = number[m.caller] /\ caller'[m.caller] = caller[m.caller]
        BY <1>0, <2>1, <3>1, <3>3 DEF BufferInv, TypeInv, TypeOK
      <4> QED  BY <3>1, <4>1
    <3> QED  BY <3>2, <3>3
  <2> QED  BY <2>1, <2>2, <2>3 DEF BufferInv, InOrder
<1>4. ASSUME NEW c \in Callers, Send(c)
      PROVE  InOrder'
  <2>1. PICK command \in asked[c] :
          queue' = Append(queue, [command |-> command, caller |-> c, number |-> number[c]])
    BY <1>4 DEF Send
  <2> DEFINE new == [command |-> command, caller |-> c, number |-> number[c]]
  <2>2. /\ caller[c] = "sending" /\ caller' = [caller EXCEPT ![c] = "awaiting"]
        /\ UNCHANGED <<number, requests, current>>
    BY <1>4 DEF Send, running, connection
  <2>3. new.caller = c /\ new.number = number[c] /\ number[c] \in Nat /\ queue' = Append(queue, new)
    BY <1>0, <2>1
  <2>4. new \in Message
    <3>1. command \in Commands
      BY <2>1, OptType DEF BufferInv, TypeInv, TypeOK
    <3>2. number[c] \in 1..MaxCalls
      BY <1>0, <2>2 DEF BufferInv, TypeInv
    <3> QED  BY <3>1, <3>2 DEF Message
  <2> HIDE DEF new
  <2>5. /\ DOMAIN queue' = 1..Len(queue) + 1
        /\ \A i \in 1..Len(queue) : queue'[i] = queue[i]
        /\ queue'[Len(queue) + 1] = new
        /\ Range(queue') = Range(queue) \cup {new}
    <3>1. DOMAIN queue' = 1..Len(queue')
      BY <1>0, <2>3, <2>4, AppendProperties, LenProperties
    <3> QED  BY <1>0, <2>3, <2>4, <3>1, AppendProperties, RangeAppend
  <2>6. \A m \in Sent : m.caller = c => m.number < number[c]
    BY <2>2 DEF BufferInv, InOrder
  <2>7. Sent' = Sent \cup {new}
    BY <2>2, <2>5 DEF Sent
  <2>8. \A i \in 1..Len(queue) : queue[i] \in Sent
    BY <1>0 DEF Sent, Range
  <2>9. ASSUME NEW i \in DOMAIN queue', NEW j \in DOMAIN queue',
               i < j, queue'[i].caller = queue'[j].caller
        PROVE  queue'[i].number < queue'[j].number
    <3>1. i \in 1..Len(queue) /\ queue'[i] = queue[i] /\ queue[i] \in Sent
      BY <1>0, <2>5, <2>8, <2>9
    <3>2. CASE j \in 1..Len(queue)
      BY <1>0, <2>5, <2>9, <3>1, <3>2 DEF BufferInv, InOrder
    <3>3. CASE j = Len(queue) + 1
      BY <2>3, <2>5, <2>6, <2>9, <3>1, <3>3
    <3> QED  BY <1>0, <2>5, <3>2, <3>3
  <2>10. ASSUME NEW m \in Range(requests') \cup current', NEW i \in DOMAIN queue',
                m.caller = queue'[i].caller
         PROVE  m.number < queue'[i].number
    <3>1. m \in Range(requests) \cup current /\ m \in Sent
      BY <2>2 DEF Sent
    <3>2. CASE i \in 1..Len(queue)
      BY <1>0, <2>5, <2>10, <3>1, <3>2 DEF BufferInv, InOrder
    <3>3. CASE i = Len(queue) + 1
      BY <2>3, <2>5, <2>6, <2>10, <3>1, <3>3
    <3> QED  BY <1>0, <2>5, <3>2, <3>3
  <2>11. ASSUME NEW m \in Sent'
         PROVE  /\ m.number <= number'[m.caller]
                /\ caller'[m.caller] = "sending" => m.number < number'[m.caller]
    <3>1. CASE m = new
      BY <2>2, <2>3, <3>1 DEF BufferInv, TypeInv, TypeOK
    <3>2. CASE m \in Sent
      <4>1. /\ m.caller \in Callers /\ m.number <= number[m.caller]
            /\ caller[m.caller] = "sending" => m.number < number[m.caller]
        BY <1>0, <3>2 DEF BufferInv, InOrder
      <4>2. caller'[m.caller] = "sending" => caller[m.caller] = "sending"
        BY <2>2, <4>1 DEF BufferInv, TypeInv, TypeOK
      <4> QED  BY <2>2, <4>1, <4>2
    <3> QED  BY <2>7, <3>1, <3>2
  <2> QED  BY <2>9, <2>10, <2>11 DEF InOrder
<1>5. CASE Recv
  <2> DEFINE m == Head(queue)
  <2>1. /\ queue # <<>> /\ queue' = Tail(queue) /\ current' = {m} /\ current = {}
        /\ requests' = IF link = "up" THEN Append(requests, m) ELSE requests
        /\ UNCHANGED <<caller, number>>
    BY <1>5 DEF Recv, calling, BufferInv, Wire
  <2>2. /\ m = queue[1] /\ m \in Range(queue) /\ Range(queue') \subseteq Range(queue)
        /\ DOMAIN queue' = 1..Len(queue) - 1
        /\ \A i \in 1..Len(queue) - 1 : queue'[i] = queue[i + 1] /\ i + 1 \in 2..Len(queue)
    <3>1. /\ m = queue[1] /\ m \in Range(queue) /\ Range(queue') \subseteq Range(queue)
          /\ queue' \in Seq(Message) /\ Len(queue') = Len(queue) - 1
          /\ \A i \in 1..Len(queue) - 1 : queue'[i] = queue[i + 1]
      BY <1>0, <2>1, Shift
    <3>2. DOMAIN queue' = 1..Len(queue) - 1
      BY <3>1, LenProperties
    <3> QED  BY <1>0, <3>1, <3>2
  <2> HIDE DEF m
  <2>3. Range(requests') \subseteq Range(requests) \cup {m}
    BY <1>0, <2>1, RangeAppend
  <2>4. Sent' \subseteq Sent
    BY <2>1, <2>2, <2>3 DEF Sent
  <2>5. ASSUME NEW i \in DOMAIN queue', NEW j \in DOMAIN queue',
               i < j, queue'[i].caller = queue'[j].caller
        PROVE  queue'[i].number < queue'[j].number
    <3>1. i + 1 \in DOMAIN queue /\ j + 1 \in DOMAIN queue /\ i + 1 < j + 1
      BY <1>0, <2>2, <2>5
    <3> QED  BY <2>2, <2>5, <3>1 DEF BufferInv, InOrder
  <2>6. ASSUME NEW x \in Range(requests') \cup current', NEW i \in DOMAIN queue',
               x.caller = queue'[i].caller
        PROVE  x.number < queue'[i].number
    <3>1. i + 1 \in DOMAIN queue /\ 1 \in DOMAIN queue /\ 1 < i + 1 /\ queue'[i] = queue[i + 1]
      BY <1>0, <2>2
    <3>2. CASE x = m
      BY <2>2, <2>6, <3>1, <3>2 DEF BufferInv, InOrder
    <3>3. CASE x \in Range(requests)
      BY <2>6, <3>1, <3>3 DEF BufferInv, InOrder
    <3> QED  BY <2>1, <2>3, <3>2, <3>3
  <2>7. \A x \in Sent' : /\ x.number <= number'[x.caller]
                         /\ caller'[x.caller] = "sending" => x.number < number'[x.caller]
    BY <2>1, <2>4 DEF BufferInv, InOrder
  <2> QED  BY <2>5, <2>6, <2>7 DEF InOrder
<1>6. CASE Read \/ ReadFails \/ End
  <2>1. UNCHANGED <<caller, number, queue, requests>> /\ current' \subseteq current
    BY <1>6 DEF Read, ReadFails, End, Forward, calling, connection
  <2> QED  BY <2>1, FewerInOrder
<1>7. CASE Execute
  <2>1. UNCHANGED <<caller, number, queue, current>> /\ Range(requests') \subseteq Range(requests)
    BY <1>0, <1>7, Shift DEF Execute, calling, running
  <2> QED  BY <2>1, FewerInOrder
<1>8. CASE Break
  <2>1. UNCHANGED <<caller, number, queue, current>> /\ requests' \in {requests, <<>>}
    BY <1>8 DEF Break, calling, running
  <2>2. Range(requests') \subseteq Range(requests)
    BY <2>1 DEF Range
  <2> QED  BY <2>1, <2>2, FewerInOrder
<1>9. CASE UNCHANGED vars
  BY <1>1, <1>9 DEF vars, calling, running, connection
<1> QED  BY <1>2, <1>3, <1>4, <1>5, <1>6, <1>7, <1>8, <1>9 DEF Next, Run, Leaves

LEMMA UnansweredNext == BufferInv /\ [Next]_vars => Unanswered'
<1> SUFFICES ASSUME BufferInv, [Next]_vars
             PROVE  Unanswered'
  OBVIOUS
<1>0. /\ caller \in [Callers -> {"none", "idle", "sending", "awaiting"}]
      /\ asked \in [Callers -> Opt(Commands)] /\ number \in [Callers -> 0..MaxCalls]
      /\ answer \in [Callers -> Opt([ok : BOOLEAN, value : Frames])]
      /\ queue \in Seq(Message)
      /\ \A m \in Range(queue) \cup current : m.caller \in Callers /\ m.number \in Nat
  BY RangeType, OptType, MessageType DEF BufferInv, TypeInv, TypeOK
<1>1. ASSUME UNCHANGED calling, Range(queue') \cup current' \subseteq Range(queue) \cup current
      PROVE  Unanswered'
  BY <1>1 DEF calling, BufferInv, Unanswered
<1>2. ASSUME NEW c \in Callers, Leaves(c)
      PROVE  Unanswered'
  <2>1. /\ UNCHANGED <<asked, number, queue, current>>
        /\ \A d \in Callers : caller'[d] \in {"sending", "awaiting"} =>
             caller'[d] = caller[d] /\ d # c
        /\ \A d \in Callers : d # c => answer'[d] = answer[d]
    BY <1>2, LeavesKeeps DEF BufferInv
  <2>2. \A d \in Callers : caller'[d] = "sending" => asked'[d] # {} /\ answer'[d] = {}
    BY <2>1 DEF BufferInv, Unanswered
  <2>3. ASSUME NEW m \in Range(queue') \cup current',
               caller'[m.caller] = "awaiting", m.number = number'[m.caller]
        PROVE  answer'[m.caller] = {}
    BY <1>0, <2>1, <2>3 DEF BufferInv, Unanswered
  <2> QED  BY <2>2, <2>3 DEF Unanswered
<1>3. ASSUME NEW c \in Callers, NEW command \in Commands, Call(c, command)
      PROVE  Unanswered'
  <2>1. /\ caller' = [caller EXCEPT ![c] = "sending"]
        /\ asked' = [asked EXCEPT ![c] = {command}]
        /\ number' = [number EXCEPT ![c] = @ + 1]
        /\ answer' = [answer EXCEPT ![c] = {}]
        /\ UNCHANGED <<queue, current>>
    BY <1>3 DEF Call, running
  <2> QED  BY <1>0, <2>1 DEF BufferInv, Unanswered
<1>4. ASSUME NEW c \in Callers, Send(c)
      PROVE  Unanswered'
  <2>1. PICK m : /\ queue' = Append(queue, m) /\ m.caller = c
    BY <1>4 DEF Send
  <2>2. /\ caller[c] = "sending" /\ caller' = [caller EXCEPT ![c] = "awaiting"]
        /\ UNCHANGED <<asked, number, answer, current>>
    BY <1>4 DEF Send, running
  <2>3. Range(queue') = Range(queue) \cup {m}
    BY <1>0, <2>1, RangeAppend
  <2> QED  BY <1>0, <2>1, <2>2, <2>3 DEF BufferInv, Unanswered
<1>5. CASE Recv
  <2>1. queue # <<>> /\ queue' = Tail(queue) /\ current' = {Head(queue)} /\ UNCHANGED calling
    BY <1>5 DEF Recv
  <2>2. Range(Tail(queue)) \subseteq Range(queue) /\ Head(queue) \in Range(queue)
    BY <1>0, <2>1, Shift
  <2>3. Range(queue') \cup current' \subseteq Range(queue) \cup current
    BY <2>1, <2>2
  <2> QED  BY <1>1, <2>1, <2>3
<1>6. CASE Read \/ ReadFails
  <2>0. PICK m \in current : \E response : Forward(m, response)
    BY <1>6 DEF Read, ReadFails
  <2>1. PICK response : Forward(m, response)
    BY <2>0
  <2>2. UNCHANGED <<caller, asked, number, queue>> /\ current' = {}
    BY <1>6, <2>1 DEF Read, ReadFails, Forward
  <2>3. \A c \in Callers :
          ~(c = m.caller /\ caller[c] = "awaiting" /\ number[c] = m.number) => answer'[c] = answer[c]
    BY <1>0, <2>1 DEF Forward
  <2>4. ASSUME NEW q \in Range(queue),
               caller[q.caller] = "awaiting", q.number = number[q.caller]
        PROVE  answer'[q.caller] = {}
    <3>1. PICK i \in DOMAIN queue : q = queue[i]
      BY DEF Range
    <3>2. m.caller = q.caller => m.number < q.number
      BY <3>1 DEF BufferInv, InOrder
    <3>3. m.caller = q.caller => m.number # number[q.caller]
      BY <1>0, <2>4, <3>2
    <3> QED  BY <1>0, <2>3, <2>4, <3>3 DEF BufferInv, Unanswered
  <2> QED  BY <1>0, <2>2, <2>3, <2>4 DEF BufferInv, Unanswered
<1>7. CASE End
  BY <1>1, <1>7 DEF End
<1>8. CASE Execute \/ Break
  BY <1>1, <1>8 DEF Execute, Break, running
<1>9. CASE UNCHANGED vars
  BY <1>1, <1>9 DEF vars, running
<1> QED  BY <1>2, <1>3, <1>4, <1>5, <1>6, <1>7, <1>8, <1>9 DEF Next, Run, Leaves

LEMMA BufferInvCorrect == Spec => []BufferInv
<1>1. Init => BufferInv
  <2> SUFFICES ASSUME Init
               PROVE  BufferInv
    OBVIOUS
  <2>1. Range(<<>>) = {} /\ DOMAIN <<>> = {} /\ Len(<<>>) = 0
    BY DEF Range
  <2>2. Wire /\ InOrder
    BY <2>1 DEF Init, Wire, InOrder, Sent
  <2>3. Unanswered
    BY <2>1 DEF Init, Unanswered
  <2> QED  BY <2>2, <2>3, TypeInit DEF BufferInv
<1>2. BufferInv /\ [Next]_vars => BufferInv'
  BY TypeNext, WireNext, InOrderNext, UnansweredNext DEF BufferInv
<1> QED  BY <1>1, <1>2, PTL DEF Spec

(***************************************************************************)
(* Every variable keeps its type, and the channel its limit.               *)
(***************************************************************************)
THEOREM BufferTypeCorrect == Spec => []TypeOK
<1>1. BufferInv => TypeOK
  BY DEF BufferInv, TypeInv
<1> QED  BY <1>1, BufferInvCorrect, PTL

-----------------------------------------------------------------------------
(***************************************************************************)
(* The calls of a caller that are still to take effect.                    *)
(***************************************************************************)

Mine(c) == Only(requests, Own(c)) \o Only(queue, Own(c)) \o SetToSeq(Sending(c))

LEMMA OwnType ==
    ASSUME NEW c \in Callers
    PROVE  /\ \A m \in Message : m \in Own(c) <=> m.caller = c
           /\ \A m \in Own(c) : m.caller = c
           /\ \A seq \in Seq(Message) : /\ Only(seq, Own(c)) \in Seq(Own(c))
                                        /\ Range(Only(seq, Own(c))) = Range(seq) \cap Own(c)
<1>1. \A m \in Message : m \in Own(c) <=> m.caller = c
  BY BufferAssumption DEF Message, Own
<1>2. \A m \in Own(c) : m.caller = c
  BY DEF Own
<1>3. ASSUME NEW seq \in Seq(Message)
      PROVE  /\ Only(seq, Own(c)) \in Seq(Own(c))
             /\ Range(Only(seq, Own(c))) = Range(seq) \cap Own(c)
  <2>1. Only(seq, Own(c)) \in Seq(Message \cap Own(c))
    BY OnlyType
  <2>2. Seq(Message \cap Own(c)) \subseteq Seq(Own(c))
    BY SeqMonotonic
  <2> QED  BY <2>1, <2>2, OnlyRange
<1> QED  BY <1>1, <1>2, <1>3

LEMMA SetToSeqSmall == SetToSeq({}) = <<>> /\ \A m : SetToSeq({m}) = <<m>>
<1>1. SetToSeq({}) = <<>>
  <2>1. <<>> \in [1..0 -> {}] /\ \A f \in [1..0 -> {}] : f = <<>>
    OBVIOUS
  <2>2. IsInjective(<<>>) /\ Cardinality({}) = 0
    BY FS_EmptySet DEF IsInjective
  <2> QED  BY <2>1, <2>2 DEF SetToSeq
<1>2. ASSUME NEW m
      PROVE  SetToSeq({m}) = <<m>>
  <2>1. \A f \in [1..1 -> {m}] : f = <<m>>
    OBVIOUS
  <2>2. <<m>> \in [1..1 -> {m}] /\ IsInjective(<<m>>) /\ Cardinality({m}) = 1
    BY FS_Singleton DEF IsInjective
  <2>3. SetToSeq({m}) \in [1..1 -> {m}]
    BY <2>2 DEF SetToSeq
  <2> QED  BY <2>1, <2>3
<1> QED  BY <1>1, <1>2

\* The message of the call of c, as long as it waits for a slot.
Latest(c, x) == [command |-> x, caller |-> c, number |-> number[c]]

LEMMA SendingType ==
    ASSUME BufferInv, NEW c \in Callers
    PROVE  /\ caller[c] # "sending" => SetToSeq(Sending(c)) = <<>>
           /\ caller[c] = "sending" => \E x \in Commands :
                asked[c] = {x} /\ SetToSeq(Sending(c)) = <<Latest(c, x)>> /\ Latest(c, x) \in Own(c)
           /\ SetToSeq(Sending(c)) \in Seq(Own(c))
<1>1. CASE caller[c] # "sending"
  <2>1. Sending(c) = {}
    BY <1>1 DEF Sending
  <2> QED  BY <1>1, <2>1, SetToSeqSmall, EmptySeq
<1>2. CASE caller[c] = "sending"
  <2>1. PICK x \in Commands : asked[c] = {x}
    BY <1>2, OptType DEF BufferInv, TypeInv, TypeOK, Unanswered
  <2>2. Sending(c) = {Latest(c, x)}
    BY <1>2, <2>1 DEF Sending, Latest
  <2>3. Latest(c, x) \in Own(c)
    BY BufferAssumption DEF Own, Latest, BufferInv, TypeInv, TypeOK
  <2>4. \A m \in Own(c) : <<m>> \in Seq(Own(c))
    OBVIOUS
  <2>5. SetToSeq(Sending(c)) = <<Latest(c, x)>>
    BY <2>2, SetToSeqSmall
  <2> QED  BY <1>2, <2>1, <2>3, <2>4, <2>5
<1> QED  BY <1>1, <1>2

LEMMA MineType ==
    ASSUME BufferInv, NEW c \in Callers
    PROVE  /\ Mine(c) \in Seq(Own(c))
           /\ Only(requests, Own(c)) \in Seq(Own(c)) /\ Only(queue, Own(c)) \in Seq(Own(c))
<1>1. Only(requests, Own(c)) \in Seq(Own(c)) /\ Only(queue, Own(c)) \in Seq(Own(c))
  BY OwnType DEF BufferInv, TypeInv, TypeOK
<1>2. SetToSeq(Sending(c)) \in Seq(Own(c))
  BY SendingType
<1> QED  BY <1>1, <1>2, ConcatProperties DEF Mine

AllMineTyped == \A c \in Callers : Mine(c) \in Seq(Own(c))

LEMMA MineTyped == BufferInv => AllMineTyped
BY MineType DEF AllMineTyped

LEMMA MineTypedNext ==
    ASSUME BufferInv', NEW c \in Callers
    PROVE  Mine(c)' \in Seq(Own(c))
<1>1. AllMineTyped'
  BY MineTyped, PTL
<1> QED  BY <1>1 DEF AllMineTyped, Own

\* A message as SharedStore sees it: the live ones are awaited.
Mark(m, live) == [command |-> m.command, awaited |-> m \in live]

Marked(seq, live) == [i \in DOMAIN seq |-> Mark(seq[i], live)]

Marks == [command : Commands, awaited : BOOLEAN]

Live(c) == {m \in Own(c) : Awaited(m)}

LEMMA MarkedType ==
    ASSUME NEW c \in Callers, NEW seq \in Seq(Own(c)), NEW live
    PROVE  /\ Marked(seq, live) \in Seq(Marks)
           /\ Len(Marked(seq, live)) = Len(seq)
           /\ DOMAIN Marked(seq, live) = 1..Len(seq) /\ Len(seq) \in Nat
           /\ \A i \in 1..Len(seq) : Marked(seq, live)[i] = Mark(seq[i], live)
<1>1. \A m \in Own(c) : Mark(m, live) \in Marks
  BY DEF Own, Mark, Marks
<1>2. Len(seq) \in Nat /\ DOMAIN seq = 1..Len(seq)
  BY LenProperties
<1>3. \A i \in 1..Len(seq) : Mark(seq[i], live) \in Marks
  BY <1>1, <1>2, ElementOfSeq
<1>4. Marked(seq, live) = [i \in 1..Len(seq) |-> Mark(seq[i], live)]
  BY <1>2 DEF Marked
<1>5. Marked(seq, live) \in [1..Len(seq) -> Marks]
  BY <1>3, <1>4
<1>6. Marked(seq, live) \in Seq(Marks)
  BY <1>2, <1>5, SeqDef
<1>7. Len(Marked(seq, live)) = Len(seq)
  BY <1>2, <1>5, <1>6, LenProperties
<1> QED  BY <1>2, <1>4, <1>6, <1>7

LEMMA MarkedConcat ==
    ASSUME NEW c \in Callers, NEW seq \in Seq(Own(c)), NEW other \in Seq(Own(c)), NEW live
    PROVE  Marked(seq \o other, live) = Marked(seq, live) \o Marked(other, live)
<1> DEFINE a == Marked(seq, live)
           b == Marked(other, live)
           all == Marked(seq \o other, live)
<1> PICK m \in Nat, n \in Nat : m = Len(seq) /\ n = Len(other)
  BY LenProperties
<1>1. /\ seq \o other \in Seq(Own(c)) /\ Len(seq \o other) = m + n
      /\ \A i \in 1..m + n : (seq \o other)[i] = IF i <= m THEN seq[i] ELSE other[i - m]
  BY ConcatProperties
<1>2. /\ a \in Seq(Marks) /\ Len(a) = m /\ b \in Seq(Marks) /\ Len(b) = n
      /\ \A i \in 1..m : a[i] = Mark(seq[i], live)
      /\ \A i \in 1..n : b[i] = Mark(other[i], live)
  BY MarkedType
<1>4. /\ all \in Seq(Marks) /\ Len(all) = m + n
      /\ \A i \in 1..m + n : all[i] = Mark((seq \o other)[i], live)
  BY <1>1, MarkedType
<1> HIDE DEF a, b, all
<1>3. /\ a \o b \in Seq(Marks) /\ Len(a \o b) = m + n
      /\ \A i \in 1..m + n : (a \o b)[i] = IF i <= m THEN a[i] ELSE b[i - m]
  <2>1. /\ a \o b \in Seq(Marks) /\ Len(a \o b) = Len(a) + Len(b)
        /\ \A i \in 1..Len(a) + Len(b) : (a \o b)[i] = IF i <= Len(a) THEN a[i] ELSE b[i - Len(a)]
    BY <1>2, ConcatProperties
  <2> QED  BY <1>2, <2>1
<1>5. ASSUME NEW i \in 1..m + n
      PROVE  all[i] = (a \o b)[i]
  <2>1. CASE i <= m
    <3>1. i \in 1..m
      BY <2>1
    <3> QED  BY <1>1, <1>2, <1>3, <1>4, <2>1, <3>1
  <2>2. CASE ~(i <= m)
    <3>1. i - m \in 1..n
      BY <2>2
    <3> QED  BY <1>1, <1>2, <1>3, <1>4, <2>2, <3>1
  <2> QED  BY <2>1, <2>2
<1>6. all = a \o b
  BY <1>3, <1>4, <1>5, SeqEqual
<1> QED  BY <1>6 DEF a, b, all

LEMMA MarkedOne == \A m, live : Marked(<<m>>, live) = <<Mark(m, live)>>
<1> SUFFICES ASSUME NEW m, NEW live
             PROVE  Marked(<<m>>, live) = <<Mark(m, live)>>
  OBVIOUS
<1>1. DOMAIN <<m>> = 1..1 /\ <<m>>[1] = m
  OBVIOUS
<1>2. Marked(<<m>>, live) = [i \in 1..1 |-> Mark(m, live)]
  BY <1>1 DEF Marked
<1> QED  BY <1>2

LEMMA UnlistedMark ==
    \A m, live : m \notin live => Mark(m, live) = [command |-> m.command, awaited |-> FALSE]
<1> SUFFICES ASSUME NEW m, NEW live, m \notin live
             PROVE  Mark(m, live) = [command |-> m.command, awaited |-> FALSE]
  OBVIOUS
<1>1. (m \in live) = FALSE
  OBVIOUS
<1> QED  BY <1>1 DEF Mark

LEMMA ListedMark ==
    \A m, live : m \in live => Mark(m, live) = [command |-> m.command, awaited |-> TRUE]
<1> SUFFICES ASSUME NEW m, NEW live, m \in live
             PROVE  Mark(m, live) = [command |-> m.command, awaited |-> TRUE]
  OBVIOUS
<1>1. (m \in live) = TRUE
  OBVIOUS
<1> QED  BY <1>1 DEF Mark

\* The marks change with the messages that are live.
LEMMA MarkedSame ==
    ASSUME NEW seq, NEW live, NEW other,
           \A m \in Range(seq) : m \in live <=> m \in other
    PROVE  Marked(seq, live) = Marked(seq, other)
<1>1. \A i \in DOMAIN seq : Mark(seq[i], live) = Mark(seq[i], other)
  <2> SUFFICES ASSUME NEW i \in DOMAIN seq
               PROVE  Mark(seq[i], live) = Mark(seq[i], other)
    OBVIOUS
  <2>1. (seq[i] \in live) = (seq[i] \in other)
    BY DEF Range
  <2> QED  BY <2>1 DEF Mark
<1> QED  BY <1>1 DEF Marked

LEMMA AwaitedIs ==
    ASSUME NEW c \in Callers, NEW m \in Own(c)
    PROVE  Awaited(m) = (m \in Live(c)) /\ Awaited(m)' = (m \in Live(c)')
<1>1. Awaited(m) \in BOOLEAN /\ Awaited(m)' \in BOOLEAN
  BY DEF Awaited
<1>2. (Awaited(m) <=> m \in Live(c)) /\ (Awaited(m)' <=> m \in Live(c)')
  BY DEF Live, Own
<1> QED  BY <1>1, <1>2

LEMMA PendingIs ==
    ASSUME NEW c \in Callers
    PROVE  /\ BufferInv => Pending(c) = Marked(Mine(c), Live(c)) /\ Pending(c) \in Seq(Marks)
           /\ BufferInv' => Pending(c)' = Marked(Mine(c)', Live(c)')
<1>1. ASSUME BufferInv
      PROVE  Pending(c) = Marked(Mine(c), Live(c))
  <2>1. \A i \in DOMAIN Mine(c) : Mine(c)[i] \in Own(c)
    BY <1>1, MineType, ElementOfSeq, LenProperties
  <2>2. ASSUME NEW i \in DOMAIN Mine(c)
        PROVE  Awaited(Mine(c)[i]) = (Mine(c)[i] \in Live(c))
    BY <2>1, AwaitedIs
  <2> QED  BY <2>2 DEF Pending, Mine, Marked, Mark
<1>2. ASSUME BufferInv'
      PROVE  Pending(c)' = Marked(Mine(c)', Live(c)')
  <2>1. \A i \in DOMAIN Mine(c)' : Mine(c)'[i] \in Own(c)
    BY <1>2, MineTypedNext, ElementOfSeq, LenProperties
  <2>2. ASSUME NEW i \in DOMAIN Mine(c)'
        PROVE  Awaited(Mine(c)[i])' = (Mine(c)'[i] \in Live(c)')
    <3>1. PICK m \in Own(c) : m = Mine(c)'[i]
      BY <2>1
    <3>2. Awaited(Mine(c)[i])' = Awaited(m)'
      BY <3>1 DEF Awaited
    <3> QED  BY <3>1, <3>2, AwaitedIs
  <2> QED  BY <2>2 DEF Pending, Mine, Marked, Mark
<1> QED  BY <1>1, <1>2, MineType, MarkedType

\* The calls of c are the same, and what is awaited among them.
LEMMA PendingSame ==
    ASSUME BufferInv, BufferInv', NEW c \in Callers, Mine(c)' = Mine(c),
           \A m \in Range(Mine(c)) : m \in Live(c)' <=> m \in Live(c)
    PROVE  Pending(c)' = Pending(c)
BY PendingIs, MarkedSame

-----------------------------------------------------------------------------
(***************************************************************************)
(* What SharedStore sees of a caller, and of the other callers.            *)
(***************************************************************************)

Waits(c) == caller[c] \in {"sending", "awaiting"}

LEMMA LiveIs ==
    ASSUME NEW c \in Callers, NEW m \in Own(c)
    PROVE  /\ m \in Live(c) <=> Waits(c) /\ number[c] = m.number /\ answer[c] = {}
           /\ m \in Live(c)' <=> Waits(c)' /\ number'[c] = m.number /\ answer'[c] = {}
BY DEF Live, Waits, Awaited, Own

\* The reply that is on its way to the call of c.
Coming(c) ==
    {Response(m.command, Head(replies)) :
        m \in {x \in current : x.caller = c /\ Awaited(x) /\ replies # <<>>}}

LEMMA AnswerIs ==
    ASSUME NEW c \in Callers
    PROVE  Answer(c) = answer[c] \cup Coming(c) /\ Answer(c)' = answer'[c] \cup Coming(c)'
BY DEF Answer, Coming

LEMMA NothingComing ==
    ASSUME NEW c \in Callers
    PROVE  /\ (\A m \in current : m.caller = c => ~Awaited(m) \/ replies = <<>>) => Coming(c) = {}
           /\ (\A m \in current' : m.caller = c => ~Awaited(m)' \/ replies' = <<>>) => Coming(c)' = {}
BY DEF Coming

LEMMA ComingSame ==
    ASSUME NEW c \in Callers, UNCHANGED <<current, replies>>,
           \A m \in current : m.caller = c => (Awaited(m)' <=> Awaited(m))
    PROVE  Coming(c)' = Coming(c)
<1>1. ASSUME NEW x \in current
      PROVE  (x.caller = c /\ Awaited(x) /\ replies # <<>>)'
               <=> (x.caller = c /\ Awaited(x) /\ replies # <<>>)
  OBVIOUS
<1> QED  BY <1>1 DEF Coming

Seen(c) == <<Pending(c), Answer(c)>>

\* Nothing happens to a caller and its messages, but that they move on.
LEMMA SeenUntouched ==
    ASSUME BufferInv, BufferInv', NEW c \in Callers, caller'[c] = caller[c],
           asked'[c] = asked[c], number'[c] = number[c], answer'[c] = answer[c],
           Coming(c)' = Coming(c),
           Only(requests, Own(c))' \o Only(queue, Own(c))' = Only(requests, Own(c)) \o Only(queue, Own(c))
    PROVE  UNCHANGED Seen(c) /\ (Waits(c)' <=> Waits(c))
<1>1. Mine(c)' = Mine(c)
  BY DEF Mine, Sending
<1>2. \A m \in Own(c) : m \in Live(c)' <=> m \in Live(c)
  BY LiveIs DEF Waits
<1>3. Pending(c)' = Pending(c)
  BY <1>1, <1>2, PendingSame, MineType, RangeType
<1> QED  BY <1>3, AnswerIs DEF Seen, Waits

\* A step of which SharedStore sees nothing.
LEMMA Unseen ==
    ASSUME \A c \in Callers : UNCHANGED Seen(c) /\ (Waits(c)' <=> Waits(c)),
           UNCHANGED <<store, link>>
    PROVE  UNCHANGED SS!vars
BY DEF SS!vars, Seen, Waits

\* What SharedStore's variables stand for.
Todo == [d \in Callers |-> Pending(d)]
Waiting == [d \in Callers |-> caller[d] \in {"sending", "awaiting"}]
Answers == [d \in Callers |-> Answer(d)]

\* A step of which SharedStore sees only what it does to one caller.
LEMMA SeenOf ==
    ASSUME NEW c \in Callers,
           \A d \in Callers : d # c => UNCHANGED Seen(d) /\ (Waits(d)' <=> Waits(d))
    PROVE  /\ Todo' = [Todo EXCEPT ![c] = Pending(c)']
           /\ Answers' = [Answers EXCEPT ![c] = Answer(c)']
           /\ Waiting' = [Waiting EXCEPT ![c] = Waits(c)']
           /\ Todo[c] = Pending(c) /\ Answers[c] = Answer(c) /\ Waiting[c] = Waits(c)
           /\ DOMAIN Todo = Callers
<1>1. Todo' = [Todo EXCEPT ![c] = Pending(c)'] /\ Todo[c] = Pending(c)
  BY DEF Todo, Seen
<1>2. Answers' = [Answers EXCEPT ![c] = Answer(c)'] /\ Answers[c] = Answer(c)
  BY DEF Answers, Seen
<1>3. Waiting' = [Waiting EXCEPT ![c] = Waits(c)'] /\ Waiting[c] = Waits(c)
  <2>1. Waiting = [d \in Callers |-> Waits(d)] /\ Waiting' = [d \in Callers |-> Waits(d)']
    BY DEF Waiting, Waits
  <2>2. \A d \in Callers : d # c => Waits(d)' = Waits(d)
    BY DEF Waits
  <2> QED  BY <2>1, <2>2
<1> QED  BY <1>1, <1>2, <1>3 DEF Todo

LEMMA SharedCommands == SS!Commands = Commands
BY DEF SS!Commands, SS!Opt, Commands, Opt

-----------------------------------------------------------------------------
(***************************************************************************)
(* The steps of the callers.                                               *)
(***************************************************************************)

LEMMA LeavesOthers ==
    ASSUME BufferInv, BufferInv', NEW c \in Callers, Leaves(c)
    PROVE  \A d \in Callers : d # c => UNCHANGED Seen(d) /\ (Waits(d)' <=> Waits(d))
<1>1. /\ UNCHANGED <<asked, number, queue, current, requests, replies, link, store, task>>
      /\ \A d \in Callers : d # c => caller'[d] = caller[d] /\ answer'[d] = answer[d]
  BY LeavesKeeps DEF BufferInv
<1> SUFFICES ASSUME NEW d \in Callers, d # c
             PROVE  UNCHANGED Seen(d) /\ (Waits(d)' <=> Waits(d))
  OBVIOUS
<1>2. Only(requests, Own(d))' \o Only(queue, Own(d))' = Only(requests, Own(d)) \o Only(queue, Own(d))
  BY <1>1 DEF Own
<1>3. \A m : m.caller = d => (Awaited(m)' <=> Awaited(m))
  BY <1>1 DEF Awaited
<1> QED  BY <1>1, <1>2, <1>3, ComingSame, SeenUntouched

LEMMA HandleStep ==
    ASSUME BufferInv, BufferInv', NEW c \in Callers, Clone(c) \/ DropHandle(c)
    PROVE  UNCHANGED SS!vars
<1>1. /\ caller[c] \in {"none", "idle"} /\ caller'[c] \in {"none", "idle"}
      /\ UNCHANGED <<asked, number, answer, queue, current, requests, replies, link, store>>
  BY DEF Clone, DropHandle, running, connection, BufferInv, TypeInv, TypeOK
<1>2. ~Waits(c) /\ ~Waits(c)'
  BY <1>1 DEF Waits
<1>3. Mine(c)' = Mine(c)
  BY <1>1 DEF Mine, Sending, Own
<1>4. Pending(c)' = Pending(c)
  BY <1>2, <1>3, LiveIs, PendingSame, MineType, RangeType
<1>5. \A m : m.caller = c => (Awaited(m)' <=> Awaited(m))
  BY <1>2 DEF Waits, Awaited
<1>6. Answer(c)' = Answer(c)
  BY <1>1, <1>5, ComingSame, AnswerIs
<1>7. \A d \in Callers : UNCHANGED Seen(d) /\ (Waits(d)' <=> Waits(d))
  BY <1>2, <1>4, <1>6, LeavesOthers DEF Leaves, Seen
<1> QED  BY <1>1, <1>7, Unseen

LEMMA ReturnStep ==
    ASSUME BufferInv, BufferInv', NEW c \in Callers, Return(c)
    PROVE  SS!Return(c)
<1>1. /\ caller[c] = "awaiting" /\ caller' = [caller EXCEPT ![c] = "idle"] /\ answer[c] # {}
      /\ UNCHANGED <<asked, number, answer, queue, current, requests, replies, link, store>>
  BY DEF Return, running, connection
<1>2. caller'[c] = "idle"
  BY <1>1 DEF BufferInv, TypeInv, TypeOK
<1>3. Mine(c)' = Mine(c)
  BY <1>1, <1>2 DEF Mine, Sending, Own
<1>4. Pending(c)' = Pending(c)
  BY <1>1, <1>3, LiveIs, PendingSame, MineType, RangeType
<1>5. \A m : m.caller = c => ~Awaited(m) /\ ~Awaited(m)'
  BY <1>1 DEF Awaited
<1>6. Answer(c)' = Answer(c) /\ Answer(c) # {}
  BY <1>1, <1>5, ComingSame, AnswerIs
<1>7. \A d \in Callers : d # c => UNCHANGED Seen(d) /\ (Waits(d)' <=> Waits(d))
  BY LeavesOthers DEF Leaves
<1>8. Waits(c) = TRUE /\ Waits(c)' = FALSE
  BY <1>1, <1>2 DEF Waits
<1>9. Waiting' = [Waiting EXCEPT ![c] = FALSE] /\ Waiting[c] /\ Answers[c] # {}
  BY <1>6, <1>7, <1>8, SeenOf
<1>10. Todo' = Todo /\ Answers' = Answers
  BY <1>4, <1>6, <1>7 DEF Seen, Todo, Answers
<1> QED  BY <1>1, <1>9, <1>10 DEF SS!Return, Todo, Answers, Waiting

\* The messages of c that have left it: all but the one that waits for a slot.
Gone(c) == Only(requests, Own(c)) \o Only(queue, Own(c))

LEMMA RangeConcat ==
    ASSUME NEW S, NEW seq \in Seq(S), NEW other \in Seq(S)
    PROVE  Range(seq \o other) \subseteq Range(seq) \cup Range(other)
<1> PICK m \in Nat, n \in Nat : m = Len(seq) /\ n = Len(other)
  BY LenProperties
<1>1. /\ seq \o other \in Seq(S) /\ Len(seq \o other) = m + n
      /\ \A i \in 1..m + n : (seq \o other)[i] = IF i <= m THEN seq[i] ELSE other[i - m]
  BY ConcatProperties
<1>2. DOMAIN (seq \o other) = 1..m + n /\ DOMAIN seq = 1..m /\ DOMAIN other = 1..n
  BY <1>1, LenProperties
<1>3. ASSUME NEW i \in 1..m + n
      PROVE  (seq \o other)[i] \in Range(seq) \cup Range(other)
  <2>1. CASE i <= m
    <3>1. i \in 1..m
      BY <2>1
    <3> QED  BY <1>1, <1>2, <2>1, <3>1 DEF Range
  <2>2. CASE ~(i <= m)
    <3>1. i - m \in 1..n
      BY <2>2
    <3> QED  BY <1>1, <1>2, <2>2, <3>1 DEF Range
  <2> QED  BY <2>1, <2>2
<1> QED  BY <1>2, <1>3 DEF Range

LEMMA GoneType ==
    ASSUME BufferInv, NEW c \in Callers
    PROVE  /\ Gone(c) \in Seq(Own(c)) /\ Mine(c) = Gone(c) \o SetToSeq(Sending(c))
           /\ \A m \in Range(Gone(c)) :
                /\ m \in Own(c) /\ m \in Range(requests) \cup Range(queue)
                /\ m.number \in Nat /\ number[c] \in Nat /\ m.number <= number[c]
                /\ caller[c] = "sending" => m.number < number[c]
<1>1. /\ Only(requests, Own(c)) \in Seq(Own(c)) /\ Only(queue, Own(c)) \in Seq(Own(c))
      /\ Range(Only(requests, Own(c))) \subseteq Range(requests) \cap Own(c)
      /\ Range(Only(queue, Own(c))) \subseteq Range(queue) \cap Own(c)
  BY OwnType DEF BufferInv, TypeInv, TypeOK
<1>2. Gone(c) \in Seq(Own(c)) /\ Mine(c) = Gone(c) \o SetToSeq(Sending(c))
  BY <1>1, ConcatProperties DEF Gone, Mine
<1>3. \A m \in Range(Gone(c)) : m \in Own(c) /\ m \in Range(requests) \cup Range(queue)
  BY <1>1, RangeConcat DEF Gone
<1>4. \A m \in Own(c) : m.caller = c /\ m.number \in Nat
  BY DEF Own
<1>5. number[c] \in Nat
  BY BufferAssumption DEF BufferInv, TypeInv, TypeOK
<1> QED  BY <1>2, <1>3, <1>4, <1>5 DEF BufferInv, InOrder, Sent

\* What has left a caller is live only if it is of the call that awaits its answer.
LEMMA GoneUnmarked ==
    ASSUME BufferInv, NEW c \in Callers, caller[c] # "awaiting"
    PROVE  \A m \in Range(Gone(c)) : m \notin Live(c)
BY GoneType, LiveIs DEF Waits

LEMMA CallStep ==
    ASSUME BufferInv, BufferInv', NEW c \in Callers, NEW command \in Commands, Call(c, command)
    PROVE  SS!Call(c, command)
<1>1. /\ caller[c] = "idle" /\ caller' = [caller EXCEPT ![c] = "sending"]
      /\ asked' = [asked EXCEPT ![c] = {command}] /\ number' = [number EXCEPT ![c] = @ + 1]
      /\ answer' = [answer EXCEPT ![c] = {}]
      /\ UNCHANGED <<queue, current, requests, replies, link, store>>
  BY DEF Call, running, connection
<1> PICK n \in Nat : n = number[c]
  BY BufferAssumption DEF BufferInv, TypeInv, TypeOK
<1>2. caller'[c] = "sending" /\ asked'[c] = {command} /\ number'[c] = n + 1 /\ answer'[c] = {}
  BY <1>1 DEF BufferInv, TypeInv, TypeOK
<1>3. \A d \in Callers : d # c => /\ caller'[d] = caller[d] /\ asked'[d] = asked[d]
                                  /\ number'[d] = number[d] /\ answer'[d] = answer[d]
  BY <1>1 DEF BufferInv, TypeInv, TypeOK
<1>4. ASSUME NEW d \in Callers, d # c
      PROVE  UNCHANGED Seen(d) /\ (Waits(d)' <=> Waits(d))
  <2>1. Only(requests, Own(d))' \o Only(queue, Own(d))' = Only(requests, Own(d)) \o Only(queue, Own(d))
    BY <1>1 DEF Own
  <2>2. \A m : m.caller = d => (Awaited(m)' <=> Awaited(m))
    BY <1>3, <1>4 DEF Awaited
  <2> QED  BY <1>1, <1>3, <1>4, <2>1, <2>2, ComingSame, SeenUntouched
<1> DEFINE new == [command |-> command, caller |-> c, number |-> n + 1]
           before == Gone(c)
<1>5. new \in Own(c) /\ new.command = command /\ new.number = n + 1
  BY DEF Own
<1>6. Mine(c) = before
  <2>1. Mine(c) = before \o <<>> /\ before \in Seq(Own(c))
    BY <1>1, GoneType, SendingType
  <2> QED  BY <2>1, ConcatEmptySeq
<1>7. Mine(c)' = before \o <<new>>
  <2>1. Sending(c)' = {new}
    BY <1>2 DEF Sending
  <2>2. Gone(c)' = before
    BY <1>1 DEF Gone, Own
  <2> QED  BY <2>1, <2>2, SetToSeqSmall DEF Mine, Gone
<1>8. before \in Seq(Own(c)) /\ \A m \in Range(before) : m \in Own(c) /\ m.number \in Nat /\ m.number <= n
  BY GoneType
<1>9. \A m \in Range(before) : m \notin Live(c) /\ m \notin Live(c)'
  <2>1. \A m \in Range(before) : m.number # n + 1
    BY <1>8
  <2> QED  BY <1>1, <1>2, <1>8, <2>1, LiveIs DEF Waits
<1>10. new \in Live(c)'
  BY <1>2, <1>5, LiveIs DEF Waits
<1> HIDE DEF new, before
<1>11. Pending(c)' = Append(Pending(c), [command |-> command, awaited |-> TRUE])
  <2> DEFINE live == Live(c)'
             marked == Marked(before, live)
  <2>1. Pending(c) = marked
    BY <1>6, <1>9, PendingIs, MarkedSame
  <2>2. Pending(c)' = Marked(before \o <<new>>, live)
    BY <1>7, PendingIs
  <2> HIDE DEF live
  <2>3. <<new>> \in Seq(Own(c))
    BY <1>5
  <2>4. Marked(before \o <<new>>, live) = marked \o Marked(<<new>>, live)
    BY <1>8, <2>3, MarkedConcat
  <2>5. marked \in Seq(Marks)
    BY <1>8, MarkedType
  <2>6. Marked(<<new>>, live) = <<[command |-> command, awaited |-> TRUE]>>
    <3>1. Mark(new, live) = [command |-> command, awaited |-> TRUE]
      BY <1>5, <1>10, ListedMark DEF live
    <3> QED  BY <3>1, MarkedOne
  <2>7. [command |-> command, awaited |-> TRUE] \in Marks
    BY DEF Marks
  <2> HIDE DEF marked
  <2>8. marked \o <<[command |-> command, awaited |-> TRUE]>>
          = Append(marked, [command |-> command, awaited |-> TRUE])
    BY <2>5, <2>7
  <2> QED  BY <2>1, <2>2, <2>4, <2>6, <2>8
<1>12. Answer(c)' = {}
  <2>1. \A m \in current' : m.caller = c => ~Awaited(m)'
    <3>1. ASSUME NEW m \in current, m.caller = c
          PROVE  m.number # n + 1
      <4>1. m.number \in Nat /\ m.number <= n
        BY <3>1, OptType, MessageType DEF BufferInv, TypeInv, TypeOK, InOrder, Sent
      <4> QED  BY <4>1
    <3> QED  BY <1>1, <1>2, <3>1 DEF Awaited
  <2> QED  BY <1>2, <2>1, AnswerIs, NothingComing
<1>13. Waits(c) = FALSE /\ Waits(c)' = TRUE
  BY <1>1, <1>2 DEF Waits
<1>14. /\ ~Waiting[c] /\ Waiting' = [Waiting EXCEPT ![c] = TRUE]
       /\ Answers' = [Answers EXCEPT ![c] = {}]
       /\ Todo' = [Todo EXCEPT ![c] = Append(@, [command |-> command, awaited |-> TRUE])]
  <2>1. /\ Todo' = [Todo EXCEPT ![c] = Pending(c)']
        /\ Answers' = [Answers EXCEPT ![c] = Answer(c)']
        /\ Waiting' = [Waiting EXCEPT ![c] = Waits(c)']
        /\ Todo[c] = Pending(c) /\ Waiting[c] = Waits(c)
    BY <1>4, SeenOf
  <2> QED  BY <1>11, <1>12, <1>13, <2>1
<1> QED  BY <1>1, <1>14 DEF SS!Call, Todo, Answers, Waiting

LEMMA SendStep ==
    ASSUME BufferInv, BufferInv', NEW c \in Callers, Send(c)
    PROVE  UNCHANGED SS!vars
<1>1. /\ caller[c] = "sending" /\ caller' = [caller EXCEPT ![c] = "awaiting"]
      /\ UNCHANGED <<asked, number, answer, current, requests, replies, link, store>>
  BY DEF Send, running, connection
<1>2. PICK x \in Commands :
        /\ asked[c] = {x} /\ SetToSeq(Sending(c)) = <<Latest(c, x)>> /\ Latest(c, x) \in Own(c)
  BY <1>1, SendingType
<1> DEFINE new == Latest(c, x)
<1>3. queue' = Append(queue, new)
  BY <1>2 DEF Send, Latest
<1>4. queue \in Seq(Message) /\ new \in Message /\ new.caller = c
  <2>1. number[c] \in 1..MaxCalls
    BY <1>1, BufferAssumption DEF BufferInv, TypeInv, TypeOK
  <2> QED  BY <2>1 DEF Latest, Message, BufferInv, TypeInv, TypeOK
<1> HIDE DEF new
<1>5. caller'[c] = "awaiting" /\ \A d \in Callers : d # c => caller'[d] = caller[d]
  BY <1>1 DEF BufferInv, TypeInv, TypeOK
<1>6. \A m : Awaited(m)' <=> Awaited(m)
  BY <1>1, <1>5 DEF Awaited, BufferInv, TypeInv, TypeOK
<1>7. \A d \in Callers : Answer(d)' = Answer(d) /\ Coming(d)' = Coming(d)
  BY <1>1, <1>6, ComingSame, AnswerIs
<1>8. ASSUME NEW d \in Callers, d # c
      PROVE  UNCHANGED Seen(d) /\ (Waits(d)' <=> Waits(d))
  <2>1. new \notin Own(d)
    BY <1>4, <1>8, OwnType
  <2>2. Only(queue', Own(d)) = Only(queue, Own(d))
    BY <1>3, <1>4, <2>1, OnlyAppend
  <2>3. Only(requests, Own(d))' \o Only(queue, Own(d))' = Only(requests, Own(d)) \o Only(queue, Own(d))
    BY <1>1, <2>2 DEF Own
  <2> QED  BY <1>1, <1>5, <1>7, <1>8, <2>3, SeenUntouched
<1>9. Mine(c)' = Mine(c)
  <2> DEFINE r == Only(requests, Own(c))
             q == Only(queue, Own(c))
  <2>1. r \in Seq(Own(c)) /\ q \in Seq(Own(c))
    BY MineType
  <2>2. Only(queue', Own(c)) = Append(q, new)
    BY <1>2, <1>3, <1>4, OnlyAppend DEF new
  <2>3. Sending(c)' = {}
    BY <1>5 DEF Sending
  <2>4. Mine(c)' = r \o Append(q, new) \o <<>>
    BY <1>1, <2>2, <2>3, SetToSeqSmall DEF Mine, Own
  <2>5. Mine(c) = r \o q \o <<new>>
    BY <1>2 DEF Mine, new
  <2>6. new \in Own(c)
    BY <1>2 DEF new
  <2> HIDE DEF r, q
  <2>7. Append(q, new) \in Seq(Own(c)) /\ r \o q \in Seq(Own(c)) /\ r \o Append(q, new) \in Seq(Own(c))
    BY <2>1, <2>6, AppendProperties, ConcatProperties
  <2>8. r \o Append(q, new) = Append(r \o q, new)
    BY <2>1, <2>6, ConcatAppend
  <2>9. Append(r \o q, new) = r \o q \o <<new>>
    BY <2>6, <2>7
  <2> QED  BY <2>4, <2>5, <2>7, <2>8, <2>9, ConcatEmptySeq
<1>10. Pending(c)' = Pending(c)
  <2>1. \A m \in Own(c) : m \in Live(c)' <=> m \in Live(c)
    BY <1>1, <1>5, LiveIs DEF Waits
  <2> QED  BY <1>9, <2>1, PendingSame, MineType, RangeType
<1>11. UNCHANGED Seen(c) /\ (Waits(c)' <=> Waits(c))
  BY <1>1, <1>5, <1>7, <1>10 DEF Seen, Waits
<1>12. \A d \in Callers : UNCHANGED Seen(d) /\ (Waits(d)' <=> Waits(d))
  BY <1>8, <1>11
<1> QED  BY <1>1, <1>12, Unseen

LEMMA SharedOnly == \A seq, S : SS!Only(seq, S) = Only(seq, S)
BY DEF SS!Only, Only

\* What SharedStore calls the calls of c when none is awaited any more.
LEMMA UnawaitedIs ==
    ASSUME BufferInv, NEW c \in Callers
    PROVE  SS!Unawaited(c) = Marked(Mine(c), {})
<1> DEFINE mine == Mine(c)
           live == Live(c)
<1>1. mine \in Seq(Own(c)) /\ Pending(c) = Marked(mine, live)
  BY MineType, PendingIs
<1> HIDE DEF mine, live
<1>2. /\ DOMAIN Marked(mine, live) = DOMAIN mine
      /\ \A i \in DOMAIN mine : [Marked(mine, live)[i] EXCEPT !.awaited = FALSE] = Mark(mine[i], {})
  <2>1. ASSUME NEW r \in Marks
        PROVE  [r EXCEPT !.awaited = FALSE] = [command |-> r.command, awaited |-> FALSE]
    <3> DEFINE s == [r EXCEPT !.awaited = FALSE]
    <3>1. s \in [command : Commands, awaited : {FALSE}] /\ s.command = r.command
      BY DEF Marks
    <3> HIDE DEF s
    <3>2. s = [command |-> s.command, awaited |-> FALSE]
      BY <3>1
    <3> QED  BY <3>1, <3>2 DEF s
  <2>2. /\ DOMAIN mine = 1..Len(mine) /\ DOMAIN Marked(mine, live) = DOMAIN mine
        /\ \A i \in DOMAIN mine : Marked(mine, live)[i] = Mark(mine[i], live)
        /\ \A i \in DOMAIN mine : Marked(mine, live)[i] \in Marks
    BY <1>1, MarkedType, LenProperties, ElementOfSeq
  <2>3. \A m : /\ Mark(m, live).command = m.command
               /\ Mark(m, {}) = [command |-> m.command, awaited |-> FALSE]
    BY UnlistedMark DEF Mark
  <2>4. ASSUME NEW i \in DOMAIN mine
        PROVE  [Marked(mine, live)[i] EXCEPT !.awaited = FALSE] = Mark(mine[i], {})
    <3> DEFINE r == Marked(mine, live)[i]
    <3>1. r \in Marks /\ r = Mark(mine[i], live)
      BY <2>2
    <3> HIDE DEF r
    <3>2. [r EXCEPT !.awaited = FALSE] = [command |-> r.command, awaited |-> FALSE]
      BY <2>1, <3>1
    <3>3. r.command = mine[i].command
      BY <2>3, <3>1
    <3>4. [r EXCEPT !.awaited = FALSE] = Mark(mine[i], {})
      BY <2>3, <3>2, <3>3
    <3> QED  BY <3>4 DEF r
  <2> QED  BY <2>2, <2>4
<1>3. SS!Unawaited(c) = [i \in DOMAIN Todo[c] |-> [Todo[c][i] EXCEPT !.awaited = FALSE]]
  BY DEF SS!Unawaited, Todo
<1>4. Todo[c] = Marked(mine, live)
  BY <1>1 DEF Todo
<1>5. SS!Unawaited(c) = [i \in DOMAIN mine |-> Mark(mine[i], {})]
  BY <1>2, <1>3, <1>4
<1> QED  BY <1>5 DEF Marked, mine

\* Without the call that was awaited.
LEMMA WithdrawnIs ==
    ASSUME BufferInv, NEW c \in Callers, caller[c] = "sending"
    PROVE  SS!Withdrawn(c) = Marked(Gone(c), {})
<1>1. PICK x \in Commands :
        SetToSeq(Sending(c)) = <<Latest(c, x)>> /\ Latest(c, x) \in Own(c)
  BY SendingType
<1> DEFINE new == Latest(c, x)
           gone == Gone(c)
           live == Live(c)
           idle == [command : Commands, awaited : {FALSE}]
           before == Marked(gone, {})
<1>2. gone \in Seq(Own(c)) /\ Mine(c) = gone \o <<new>>
  BY <1>1, GoneType
<1>3. new \in live
  <2>1. answer[c] = {}
    BY DEF BufferInv, Unanswered
  <2> QED  BY <1>1, <2>1, LiveIs DEF Latest, Waits
<1>4. \A m \in Range(gone) : m \notin live
  BY GoneUnmarked
<1>5. Pending(c) = Marked(gone \o <<new>>, live)
  BY <1>2, PendingIs
<1>6. new \in Own(c)
  BY <1>1
<1>7. SS!Withdrawn(c) = Only(Pending(c), idle)
  <2>1. SS!Withdrawn(c) = SS!Only(Todo[c], [command : SS!Commands, awaited : {FALSE}])
    BY DEF SS!Withdrawn, Todo
  <2>2. Todo[c] = Pending(c)
    BY DEF Todo
  <2> QED  BY <2>1, <2>2, SharedCommands, SharedOnly
<1> HIDE DEF new, gone, live
<1>8. <<new>> \in Seq(Own(c))
  BY <1>6
<1>9. Pending(c) = Marked(gone, live) \o Marked(<<new>>, live)
  BY <1>2, <1>5, <1>8, MarkedConcat
<1>10. Marked(gone, live) = before
  BY <1>4, MarkedSame
<1>11. before \in Seq(Marks) /\ \A i \in 1..Len(before) : before[i] \in idle
  <2>1. /\ before \in Seq(Marks) /\ Len(before) = Len(gone) /\ DOMAIN gone = 1..Len(gone)
        /\ \A i \in 1..Len(gone) : before[i] = Mark(gone[i], {})
    BY <1>2, MarkedType, LenProperties
  <2>2. \A m \in Own(c) : Mark(m, {}) \in idle
    <3> SUFFICES ASSUME NEW m \in Own(c)
                 PROVE  Mark(m, {}) \in idle
      OBVIOUS
    <3>1. m.command \in Commands
      BY DEF Own
    <3>2. [command |-> m.command, awaited |-> FALSE] \in idle
      BY <3>1
    <3> QED  BY <3>2, UnlistedMark
  <2>3. \A i \in 1..Len(gone) : gone[i] \in Own(c)
    BY <1>2, ElementOfSeq
  <2> HIDE DEF before, idle
  <2>4. \A i \in 1..Len(before) : before[i] \in idle
    BY <2>1, <2>2, <2>3
  <2> QED  BY <2>1, <2>4
<1> DEFINE last == Mark(new, live)
<1>12. last \in Marks /\ last \notin idle
  <2>1. last = [command |-> new.command, awaited |-> TRUE] /\ new.command \in Commands
    BY <1>3, <1>6, ListedMark DEF Own
  <2> QED  BY <2>1 DEF Marks
<1>13. Marked(<<new>>, live) = <<last>>
  BY MarkedOne
<1> HIDE DEF before, idle, last
<1>14. Pending(c) = Append(before, last)
  <2>1. before \o <<last>> = Append(before, last)
    BY <1>11, <1>12
  <2> QED  BY <1>9, <1>10, <1>13, <2>1
<1>15. before \in Seq(idle)
  <2>1. Len(before) \in Nat /\ DOMAIN before = 1..Len(before) /\ before = [i \in 1..Len(before) |-> before[i]]
    BY <1>11, LenProperties
  <2> QED  BY <1>11, <2>1, SeqDef
<1>16. Only(before, idle) = before
  BY <1>15, OnlyAll
<1>17. Only(Append(before, last), idle) = Only(before, idle)
  BY <1>11, <1>12, OnlyAppend
<1> QED  BY <1>7, <1>14, <1>16, <1>17 DEF before, gone

LEMMA AbandonStep ==
    ASSUME BufferInv, BufferInv', NEW c \in Callers, Abandon(c)
    PROVE  SS!Abandon(c)
<1>1. /\ caller[c] \in {"sending", "awaiting"} /\ caller' = [caller EXCEPT ![c] = "idle"]
      /\ answer' = [answer EXCEPT ![c] = {}]
      /\ UNCHANGED <<asked, number, queue, current, requests, replies, link, store>>
  BY DEF Abandon, running, connection
<1>2. caller'[c] = "idle" /\ answer'[c] = {}
  BY <1>1 DEF BufferInv, TypeInv, TypeOK
<1>3. \A d \in Callers : d # c => UNCHANGED Seen(d) /\ (Waits(d)' <=> Waits(d))
  BY LeavesOthers DEF Leaves
<1>4. Answer(c)' = {}
  <2>1. \A m \in current' : m.caller = c => ~Awaited(m)'
    BY <1>2 DEF Awaited
  <2> QED  BY <1>2, <2>1, AnswerIs, NothingComing
<1>5. Waits(c) = TRUE /\ Waits(c)' = FALSE
  BY <1>1, <1>2 DEF Waits
<1>6. Pending(c)' = Marked(Mine(c)', {})
  <2>1. \A m \in Range(Mine(c)') : m \notin Live(c)'
    BY <1>5, MineTypedNext, RangeType, LiveIs
  <2> QED  BY <2>1, PendingIs, MarkedSame
<1>7. Mine(c)' = Gone(c) /\ (caller[c] = "awaiting" => Mine(c)' = Mine(c))
  <2>1. Sending(c)' = {}
    BY <1>2 DEF Sending
  <2>2. Mine(c)' = Gone(c) \o <<>>
    BY <1>1, <2>1, SetToSeqSmall DEF Mine, Gone, Own
  <2>3. caller[c] = "awaiting" => Mine(c) = Gone(c) \o <<>>
    BY GoneType, SendingType
  <2> QED  BY <2>2, <2>3, GoneType, ConcatEmptySeq
<1>8. Pending(c)' \in {SS!Unawaited(c), SS!Withdrawn(c)}
  BY <1>1, <1>6, <1>7, UnawaitedIs, WithdrawnIs
<1>9. /\ Waiting[c] /\ Waiting' = [Waiting EXCEPT ![c] = FALSE]
      /\ Answers' = [Answers EXCEPT ![c] = {}]
      /\ \E left \in {SS!Unawaited(c), SS!Withdrawn(c)} : Todo' = [Todo EXCEPT ![c] = left]
  <2>1. /\ Todo' = [Todo EXCEPT ![c] = Pending(c)']
        /\ Answers' = [Answers EXCEPT ![c] = Answer(c)']
        /\ Waiting' = [Waiting EXCEPT ![c] = Waits(c)'] /\ Waiting[c] = Waits(c)
    BY <1>3, SeenOf
  <2> QED  BY <1>4, <1>5, <1>8, <2>1
<1> QED  BY <1>1, <1>9 DEF SS!Abandon, Todo, Answers, Waiting

-----------------------------------------------------------------------------
(***************************************************************************)
(* The steps of the task.                                                  *)
(***************************************************************************)

LEMMA RemoveMiddle ==
    ASSUME NEW S, NEW before \in Seq(S), NEW m \in S, NEW after \in Seq(S),
           NEW seq, seq = (before \o <<m>>) \o after
    PROVE  \E i \in DOMAIN seq : RemoveAt(seq, i) = before \o after
<1> DEFINE first == before \o <<m>>
<1> PICK j \in Nat, k \in Nat : j = Len(before) /\ k = Len(after)
  BY LenProperties
<1>1. /\ first \in Seq(S) /\ Len(first) = j + 1
      /\ \A i \in 1..j : first[i] = before[i]
  <2>1. first = Append(before, m)
    BY AppendIsConcat
  <2> QED  BY <2>1, AppendProperties
<1>0. seq = first \o after
  OBVIOUS
<1> HIDE DEF first
<1>2. /\ seq \in Seq(S) /\ Len(seq) = j + 1 + k
      /\ \A i \in 1..j + 1 + k : seq[i] = IF i <= j + 1 THEN first[i] ELSE after[i - (j + 1)]
  <2>1. /\ seq \in Seq(S) /\ Len(seq) = Len(first) + Len(after)
        /\ \A i \in 1..Len(first) + Len(after) :
             seq[i] = IF i <= Len(first) THEN first[i] ELSE after[i - Len(first)]
    BY <1>0, <1>1, ConcatProperties
  <2> QED  BY <1>1, <2>1
<1>3. DOMAIN seq = 1..j + 1 + k /\ DOMAIN before = 1..j /\ DOMAIN after = 1..k
  BY <1>2, LenProperties
<1>4. SubSeq(seq, 1, j) = before
  <2>1. \A i \in 1..j : seq[i] = before[i] /\ before[i] \in S
    BY <1>1, <1>2, ElementOfSeq
  <2> DEFINE left == SubSeq(seq, 1, j)
  <2>2. left \in Seq(S) /\ Len(left) = j /\ \A i \in 1..j : left[i] = seq[i]
    <3>1. /\ left \in Seq(S) /\ Len(left) = IF 1 <= j THEN j - 1 + 1 ELSE 0
          /\ \A i \in 1..j - 1 + 1 : left[i] = seq[1 + i - 1]
      BY <2>1, SubSeqProperties
    <3> HIDE DEF left
    <3>2. j - 1 + 1 = j /\ \A i \in 1..j : 1 + i - 1 = i
      OBVIOUS
    <3> QED  BY <3>1, <3>2
  <2> HIDE DEF left
  <2>3. left = before
    BY <2>1, <2>2, SeqEqual
  <2> QED  BY <2>3 DEF left
<1>5. SubSeq(seq, j + 2, j + 1 + k) = after
  <2> DEFINE right == SubSeq(seq, j + 2, j + 1 + k)
  <2>1. \A i \in j + 2..j + 1 + k : i - (j + 1) \in 1..k /\ seq[i] = after[i - (j + 1)] /\ seq[i] \in S
    <3>1. \A i \in 1..k : after[i] \in S
      BY ElementOfSeq
    <3>2. \A i \in j + 2..j + 1 + k : i - (j + 1) \in 1..k /\ i \in 1..j + 1 + k /\ ~(i <= j + 1)
      OBVIOUS
    <3> QED  BY <1>2, <3>1, <3>2
  <2>2. right \in Seq(S) /\ Len(right) = k /\ \A i \in 1..k : right[i] = seq[j + 1 + i]
    <3>1. /\ right \in Seq(S)
          /\ Len(right) = IF j + 2 <= j + 1 + k THEN j + 1 + k - (j + 2) + 1 ELSE 0
          /\ \A i \in 1..j + 1 + k - (j + 2) + 1 : right[i] = seq[j + 2 + i - 1]
      BY <2>1, SubSeqProperties
    <3> HIDE DEF right
    <3>2. /\ j + 1 + k - (j + 2) + 1 = k
          /\ (IF j + 2 <= j + 1 + k THEN j + 1 + k - (j + 2) + 1 ELSE 0) = k
      OBVIOUS
    <3>3. \A i \in 1..k : j + 2 + i - 1 = j + 1 + i
      OBVIOUS
    <3>4. Len(right) = k /\ \A i \in 1..k : right[i] = seq[j + 2 + i - 1]
      BY <3>1, <3>2, Zenon
    <3> QED  BY <3>1, <3>3, <3>4
  <2> HIDE DEF right
  <2>3. \A i \in 1..k : right[i] = after[i]
    <3>1. \A i \in 1..k : j + 1 + i \in j + 2..j + 1 + k /\ j + 1 + i - (j + 1) = i
      OBVIOUS
    <3> QED  BY <2>1, <2>2, <3>1
  <2>4. right = after
    BY <2>2, <2>3, SeqEqual
  <2> QED  BY <2>4 DEF right
<1>6. RemoveAt(seq, j + 1) = before \o after
  <2>1. (j + 1) - 1 = j /\ j + 1 + 1 = j + 2 /\ Len(seq) = j + 1 + k
    BY <1>2
  <2>2. RemoveAt(seq, j + 1) = SubSeq(seq, 1, (j + 1) - 1) \o SubSeq(seq, j + 1 + 1, Len(seq))
    BY Zenon DEF RemoveAt
  <2>3. RemoveAt(seq, j + 1) = SubSeq(seq, 1, j) \o SubSeq(seq, j + 2, j + 1 + k)
    BY <2>1, <2>2, Zenon
  <2> QED  BY <1>4, <1>5, <2>3
<1>7. j + 1 \in DOMAIN seq
  BY <1>3
<1> QED  BY <1>6, <1>7, Zenon

LEMMA SharedRemoveAt == \A seq, i : SS!RemoveAt(seq, i) = RemoveAt(seq, i)
BY DEF SS!RemoveAt, RemoveAt

Loses(seq, rest) == \E i \in DOMAIN seq : rest = RemoveAt(seq, i)

LEMMA LosesMiddle ==
    ASSUME NEW S, NEW before \in Seq(S), NEW m \in S, NEW after \in Seq(S)
    PROVE  Loses((before \o <<m>>) \o after, before \o after)
<1> DEFINE seq == (before \o <<m>>) \o after
<1>1. \E i \in DOMAIN seq : RemoveAt(seq, i) = before \o after
  BY RemoveMiddle, Zenon
<1> QED  BY <1>1 DEF Loses

LEMMA MarkedLoses ==
    ASSUME NEW c \in Callers, NEW m \in Own(c),
           NEW before \in Seq(Own(c)), NEW after \in Seq(Own(c)), NEW live
    PROVE  Loses(Marked((before \o <<m>>) \o after, live), Marked(before \o after, live))
<1> DEFINE b == Marked(before, live)
           a == Marked(after, live)
           one == Mark(m, live)
           single == <<m>>
<1>1. single \in Seq(Own(c)) /\ Marked(single, live) = <<one>>
  BY MarkedOne
<1> HIDE DEF single
<1>2. Marked((before \o single) \o after, live) = (b \o <<one>>) \o a
  <2>1. before \o single \in Seq(Own(c))
    BY <1>1, ConcatProperties
  <2>2. Marked((before \o single) \o after, live) = Marked(before \o single, live) \o a
    BY <2>1, MarkedConcat
  <2>3. Marked(before \o single, live) = b \o Marked(single, live)
    BY <1>1, MarkedConcat
  <2> HIDE DEF a, b, one
  <2> QED  BY <1>1, <2>2, <2>3
<1>3. Marked(before \o after, live) = b \o a
  BY MarkedConcat
<1>4. b \in Seq(Marks) /\ a \in Seq(Marks)
  BY MarkedType
<1>5. one \in Marks
  BY DEF Mark, Marks, Own
<1> HIDE DEF a, b, one
<1>6. Loses((b \o <<one>>) \o a, b \o a)
  BY <1>4, <1>5, LosesMiddle
<1> QED  BY <1>2, <1>3, <1>6 DEF single

\* A message of c that goes is a call that is lost.
LEMMA Lost ==
    ASSUME BufferInv, BufferInv', NEW c \in Callers, NEW m \in Own(c),
           NEW before \in Seq(Own(c)), NEW after \in Seq(Own(c)),
           Mine(c) = (before \o <<m>>) \o after, Mine(c)' = before \o after,
           \A x \in Own(c) : x \in Live(c)' <=> x \in Live(c)
    PROVE  Loses(Pending(c), Pending(c)')
<1>1. Pending(c) = Marked((before \o <<m>>) \o after, Live(c))
  BY PendingIs
<1>2. Pending(c)' = Marked(before \o after, Live(c))
  <2>1. before \o after \in Seq(Own(c))
    BY ConcatProperties
  <2>2. \A x \in Range(before \o after) : x \in Live(c)' <=> x \in Live(c)
    BY <2>1, RangeType
  <2>3. Marked(before \o after, Live(c)') = Marked(before \o after, Live(c))
    BY <2>2, MarkedSame
  <2> QED  BY <2>3, PendingIs
<1> QED  BY <1>1, <1>2, MarkedLoses

LEMMA LoseCall ==
    ASSUME BufferInv, BufferInv', NEW c \in Callers, link' = "down", UNCHANGED store,
           \A d \in Callers : d # c => UNCHANGED Seen(d) /\ (Waits(d)' <=> Waits(d)),
           Waits(c)' <=> Waits(c), Answer(c)' = Answer(c),
           Loses(Pending(c), Pending(c)')
    PROVE  SS!Lose(c)
<1>1. /\ Todo' = [Todo EXCEPT ![c] = Pending(c)'] /\ Todo[c] = Pending(c)
      /\ Answers' = Answers /\ Waiting' = Waiting
  <2>1. Todo' = [Todo EXCEPT ![c] = Pending(c)'] /\ Todo[c] = Pending(c)
    BY SeenOf
  <2>2. Answers' = Answers /\ Waiting' = Waiting
    BY DEF Answers, Waiting, Waits, Seen
  <2> QED  BY <2>1, <2>2
<1>2. \E i \in DOMAIN Todo[c] : Todo' = [Todo EXCEPT ![c] = SS!RemoveAt(@, i)]
  BY <1>1, SharedRemoveAt DEF Loses
<1> QED  BY <1>1, <1>2 DEF SS!Lose, Todo, Answers, Waiting

\* The first message of a queue, to its caller and to the others.
LEMMA OnlyFirst ==
    ASSUME NEW seq \in Seq(Message), seq # <<>>, NEW d \in Callers
    PROVE  /\ Only(Tail(seq), Own(d)) \in Seq(Own(d))
           /\ Head(seq).caller = d => /\ Only(seq, Own(d)) = <<Head(seq)>> \o Only(Tail(seq), Own(d))
                                      /\ Head(seq) \in Own(d) /\ Only(<<Head(seq)>>, Own(d)) = <<Head(seq)>>
           /\ Head(seq).caller # d => /\ Only(seq, Own(d)) = Only(Tail(seq), Own(d))
                                      /\ Only(<<Head(seq)>>, Own(d)) = <<>>
<1> DEFINE m == Head(seq)
           rest == Tail(seq)
<1>1. m \in Message /\ rest \in Seq(Message) /\ seq = <<m>> \o rest
  BY Shift
<1>2. (m \in Own(d) <=> m.caller = d) /\ Only(rest, Own(d)) \in Seq(Own(d))
  BY <1>1, OwnType
<1> HIDE DEF m, rest
<1>3. <<m>> \in Seq(Message) /\ <<m>> = Append(<<>>, m) /\ <<>> \in Seq(Message)
  BY <1>1
<1>4. Only(<<m>>, Own(d)) = IF m \in Own(d) THEN <<m>> ELSE <<>>
  <2>1. Only(Append(<<>>, m), Own(d)) =
          IF m \in Own(d) THEN Append(Only(<<>>, Own(d)), m) ELSE Only(<<>>, Own(d))
    BY <1>1, <1>3, OnlyAppend
  <2>2. Only(<<>>, Own(d)) = <<>>
    BY OnlyEmpty
  <2> QED  BY <1>3, <2>1, <2>2
<1>5. Only(seq, Own(d)) = Only(<<m>>, Own(d)) \o Only(rest, Own(d))
  BY <1>1, <1>3, OnlyConcat
<1> QED  BY <1>2, <1>4, <1>5, ConcatEmptySeq DEF m, rest

\* The frame of a request gets into the connection, or is lost with it.
LEMMA RecvStep ==
    ASSUME BufferInv, BufferInv', Recv
    PROVE  UNCHANGED SS!vars \/ \E c \in Callers : SS!Lose(c)
<1> DEFINE m == Head(queue)
<1>1. /\ queue # <<>> /\ queue' = Tail(queue) /\ current' = {m} /\ task = "recv"
      /\ requests' = IF link = "up" THEN Append(requests, m) ELSE requests
      /\ UNCHANGED <<caller, asked, number, answer, replies, link, store>>
  BY DEF Recv, calling
<1>2. /\ queue \in Seq(Message) /\ m \in Message /\ m.caller \in Callers
      /\ requests \in Seq(Message) /\ current = {} /\ replies = <<>> /\ link \in {"up", "down"}
  <2>1. queue \in Seq(Message) /\ requests \in Seq(Message) /\ link \in {"up", "down"}
    BY DEF BufferInv, TypeInv, TypeOK
  <2>2. current = {} /\ replies = <<>>
    BY <1>1 DEF BufferInv, Wire
  <2>3. m \in Message
    BY <1>1, <2>1, Shift
  <2> QED  BY <2>1, <2>2, <2>3, MessageType
<1> DEFINE rest(d) == Only(Tail(queue), Own(d))
<1>3. ASSUME NEW d \in Callers
      PROVE  /\ rest(d) \in Seq(Own(d))
             /\ m.caller = d => /\ Only(queue, Own(d)) = <<m>> \o rest(d) /\ m \in Own(d)
                                /\ Only(<<m>>, Own(d)) = <<m>>
             /\ m.caller # d => Only(queue, Own(d)) = rest(d) /\ Only(<<m>>, Own(d)) = <<>>
  BY <1>1, <1>2, OnlyFirst
<1>4. \A d \in Callers : Only(queue, Own(d))' = rest(d)
  BY <1>1 DEF Own
<1> HIDE DEF m, rest
<1>5. \A d \in Callers : Coming(d)' = {} /\ Coming(d) = {}
  BY <1>1, <1>2, NothingComing
<1>6. CASE link = "up"
  <2>1. requests = <<>> /\ requests' = <<m>>
    <3>1. requests = <<>>
      BY <1>2, <1>6, RangeType DEF BufferInv, Wire
    <3> QED  BY <1>1, <1>6, <3>1
  <2>2. ASSUME NEW d \in Callers
        PROVE  UNCHANGED Seen(d) /\ (Waits(d)' <=> Waits(d))
    <3>1. Only(requests, Own(d)) = <<>> /\ Only(requests, Own(d))' = Only(<<m>>, Own(d))
      BY <2>1, OnlyEmpty DEF Own
    <3>2. Only(<<m>>, Own(d)) \o rest(d) = Only(queue, Own(d)) /\ Only(queue, Own(d)) \in Seq(Own(d))
      BY <1>2, <1>3, ConcatEmptySeq, OwnType
    <3>3. Only(requests, Own(d))' \o Only(queue, Own(d))' = Only(requests, Own(d)) \o Only(queue, Own(d))
      BY <1>4, <3>1, <3>2, ConcatEmptySeq
    <3> QED  BY <1>1, <1>5, <3>3, SeenUntouched
  <2> QED  BY <1>1, <2>2, Unseen
<1>7. CASE link = "down"
  <2>1. UNCHANGED requests
    BY <1>1, <1>7
  <2>2. ASSUME NEW d \in Callers, d # m.caller
        PROVE  UNCHANGED Seen(d) /\ (Waits(d)' <=> Waits(d))
    <3>1. Only(requests, Own(d))' \o Only(queue, Own(d))' = Only(requests, Own(d)) \o Only(queue, Own(d))
      BY <1>3, <1>4, <2>1, <2>2 DEF Own
    <3> QED  BY <1>1, <1>5, <3>1, SeenUntouched
  <2> PICK c \in Callers : c = m.caller
    BY <1>2
  <2>3. (Waits(c)' <=> Waits(c)) /\ Answer(c)' = Answer(c)
    BY <1>1, <1>5, AnswerIs DEF Waits
  <2>4. \A x \in Own(c) : x \in Live(c)' <=> x \in Live(c)
    BY <1>1, LiveIs DEF Waits
  <2> DEFINE before == Only(requests, Own(c))
             single == <<m>>
             left == rest(c)
             slot == SetToSeq(Sending(c))
  <2>5. /\ before \in Seq(Own(c)) /\ left \in Seq(Own(c)) /\ slot \in Seq(Own(c))
        /\ m \in Own(c) /\ single \in Seq(Own(c))
    <3>1. m \in Own(c)
      BY <1>3
    <3>2. single \in Seq(Own(c))
      BY <3>1
    <3> QED  BY <1>3, <3>1, <3>2, MineType, SendingType
  <2>6. Mine(c) = (before \o (single \o left)) \o slot
    BY <1>3 DEF Mine
  <2>7. Mine(c)' = (before \o left) \o slot
    <3>1. Sending(c)' = Sending(c)
      BY <1>1 DEF Sending
    <3>2. Only(requests, Own(c))' = before
      BY <2>1 DEF Own
    <3> QED  BY <1>4, <3>1, <3>2 DEF Mine
  <2> HIDE DEF before, single, left, slot
  <2>8. /\ Mine(c) = (before \o single) \o (left \o slot) /\ Mine(c)' = before \o (left \o slot)
        /\ left \o slot \in Seq(Own(c))
    <3>1. before \o single \in Seq(Own(c)) /\ left \o slot \in Seq(Own(c))
      BY <2>5, ConcatProperties
    <3>2. before \o (single \o left) = (before \o single) \o left
      BY <2>5, ConcatAssociative
    <3>3. ((before \o single) \o left) \o slot = (before \o single) \o (left \o slot)
      BY <2>5, <3>1, ConcatAssociative
    <3>4. (before \o left) \o slot = before \o (left \o slot)
      BY <2>5, ConcatAssociative
    <3> QED  BY <2>6, <2>7, <3>1, <3>2, <3>3, <3>4
  <2>9. Loses(Pending(c), Pending(c)')
    BY <2>4, <2>5, <2>8, Lost DEF single
  <2>10. SS!Lose(c)
    BY <1>1, <1>7, <2>2, <2>3, <2>9, LoseCall
  <2> QED  BY <2>10
<1> QED  BY <1>2, <1>6, <1>7

\* The call of c awaits the answer to m.
Matches(m) == caller[m.caller] = "awaiting" /\ number[m.caller] = m.number

\* The task is done with a message.
LEMMA ForwardSeen ==
    ASSUME BufferInv, BufferInv', NEW c \in Callers, NEW m \in current, c = m.caller,
           NEW response, Forward(m, response),
           UNCHANGED <<caller, asked, number, queue, requests>>
    PROVE  /\ \A d \in Callers : d # c => UNCHANGED Seen(d) /\ (Waits(d)' <=> Waits(d))
           /\ Waits(c)' <=> Waits(c)
           /\ ~Matches(m) => UNCHANGED Seen(c)
           /\ Matches(m) => /\ Waits(c) /\ Awaited(m) /\ answer[c] = {} /\ Answer(c)' = {response}
                            /\ Pending(c)' = Marked(Mine(c), {})
<1>1. current = {m} /\ m \in Message
  BY OptType DEF BufferInv, TypeInv, TypeOK
<1>2. /\ current' = {} /\ \A d \in Callers : d # c => answer'[d] = answer[d]
      /\ ~Matches(m) => answer'[c] = answer[c]
      /\ Matches(m) => answer'[c] = {response}
  BY DEF Forward, Matches, BufferInv, TypeInv, TypeOK
<1>3. \A d \in Callers : Only(requests, Own(d))' \o Only(queue, Own(d))' = Only(requests, Own(d)) \o Only(queue, Own(d))
  BY DEF Own
<1>4. \A d \in Callers : Coming(d)' = {}
  BY <1>2, NothingComing
<1>5. ASSUME NEW d \in Callers, d # c
      PROVE  UNCHANGED Seen(d) /\ (Waits(d)' <=> Waits(d))
  <2>1. Coming(d) = {}
    BY <1>1, <1>5, NothingComing
  <2> QED  BY <1>2, <1>3, <1>4, <1>5, <2>1, SeenUntouched
<1>6. ASSUME ~Matches(m)
      PROVE  UNCHANGED Seen(c)
  <2>1. caller[c] = "sending" => m.number < number[c]
    BY DEF BufferInv, InOrder, Sent
  <2>2. m.number \in Nat /\ number[c] \in Nat
    BY <1>1, MessageType, BufferAssumption DEF BufferInv, TypeInv, TypeOK
  <2>3. ~Awaited(m)
    BY <1>6, <2>1, <2>2 DEF Awaited, Matches
  <2>4. Coming(c) = {}
    BY <1>1, <2>3, NothingComing
  <2> QED  BY <1>2, <1>3, <1>4, <1>6, <2>4, SeenUntouched
<1>7. ASSUME Matches(m)
      PROVE  /\ Waits(c) /\ Awaited(m) /\ answer[c] = {} /\ Answer(c)' = {response}
             /\ Pending(c)' = Marked(Mine(c), {})
  <2>1. Waits(c) /\ Awaited(m) /\ answer[c] = {}
    BY <1>7 DEF Matches, Waits, Awaited, BufferInv, Unanswered
  <2>2. Answer(c)' = {response}
    BY <1>2, <1>4, <1>7, AnswerIs
  <2>3. Mine(c)' = Mine(c)
    BY DEF Mine, Sending, Own
  <2>4. \A x \in Range(Mine(c)) : x \notin Live(c)'
    BY <1>2, <1>7, MineType, RangeType, LiveIs
  <2>5. Pending(c)' = Marked(Mine(c), {})
    BY <2>3, <2>4, PendingIs, MarkedSame
  <2> QED  BY <2>1, <2>2, <2>5
<1> QED  BY <1>5, <1>6, <1>7 DEF Waits

\* The answer is the reply that was on its way.
LEMMA ReadStep ==
    ASSUME BufferInv, BufferInv', Read
    PROVE  UNCHANGED SS!vars
<1>1. PICK m \in current : Forward(m, Response(m.command, Head(replies)))
  BY DEF Read
<1>2. /\ replies # <<>> /\ UNCHANGED <<caller, asked, number, queue, requests, link, store>>
  BY DEF Read
<1>3. current = {m} /\ m \in Message /\ m.caller \in Callers
  BY OptType, MessageType DEF BufferInv, TypeInv, TypeOK
<1> PICK c \in Callers : c = m.caller
  BY <1>3
<1> DEFINE response == Response(m.command, Head(replies))
<1>4. Forward(m, response)
  BY <1>1
<1>5. /\ \A d \in Callers : d # c => UNCHANGED Seen(d) /\ (Waits(d)' <=> Waits(d))
      /\ Waits(c)' <=> Waits(c)
      /\ ~Matches(m) => UNCHANGED Seen(c)
      /\ Matches(m) => /\ Waits(c) /\ Awaited(m) /\ answer[c] = {} /\ Answer(c)' = {response}
                       /\ Pending(c)' = Marked(Mine(c), {})
  <2> HIDE DEF response
  <2> QED  BY <1>2, <1>4, ForwardSeen
<1>6. ASSUME Matches(m)
      PROVE  UNCHANGED Seen(c)
  <2>1. Coming(c) = {response}
    BY <1>2, <1>3, <1>5, <1>6 DEF Coming
  <2>2. Answer(c)' = Answer(c)
    BY <1>5, <1>6, <2>1, AnswerIs
  <2>3. requests = <<>>
    <3>1. (Len(requests) = 0 <=> requests = <<>>) /\ (Len(replies) = 0 <=> replies = <<>>)
      BY RangeType DEF BufferInv, TypeInv, TypeOK
    <3> PICK j \in Nat, k \in Nat : j = Len(requests) /\ k = Len(replies) /\ j + k <= 1 /\ k # 0
      BY <1>2, RangeType DEF BufferInv, TypeInv, TypeOK, Wire
    <3>2. j = 0
      OBVIOUS
    <3> QED  BY <3>1, <3>2
  <2>4. Mine(c) = Gone(c)
    <3>1. caller[c] # "sending"
      BY <1>6 DEF Matches
    <3>2. Gone(c) \in Seq(Own(c)) /\ Mine(c) = Gone(c) \o <<>>
      BY <3>1, GoneType, SendingType
    <3> QED  BY <3>2, ConcatEmptySeq
  <2>5. ASSUME NEW x \in Range(Mine(c))
        PROVE  x \notin Live(c)
    <3>1. Range(requests) = {}
      BY <2>3 DEF Range
    <3>2. x \in Own(c) /\ x \in Range(queue) /\ x.number \in Nat /\ number[c] \in Nat
      BY <2>4, <2>5, <3>1, GoneType
    <3>3. PICK i \in DOMAIN queue : x = queue[i]
      BY <3>2 DEF Range
    <3>4. x.caller = c
      BY <3>2, OwnType
    <3>5. m.number < x.number
      BY <3>3, <3>4 DEF BufferInv, InOrder
    <3>6. m.number \in Nat /\ number[c] = m.number
      BY <1>3, <1>6, MessageType DEF Matches
    <3> QED  BY <3>2, <3>5, <3>6, LiveIs
  <2>6. Pending(c) = Marked(Mine(c), {})
    BY <2>5, PendingIs, MarkedSame
  <2> QED  BY <1>5, <1>6, <2>2, <2>6 DEF Seen
<1>7. \A d \in Callers : UNCHANGED Seen(d) /\ (Waits(d)' <=> Waits(d))
  BY <1>5, <1>6
<1> QED  BY <1>2, <1>7, Unseen

\* Whoever awaits the call learns that it failed.
LEMMA ReadFailsStep ==
    ASSUME BufferInv, BufferInv', ReadFails
    PROVE  UNCHANGED SS!vars \/ \E c \in Callers : SS!Fail(c)
<1>1. PICK m \in current : Forward(m, Err)
  BY DEF ReadFails
<1>2. /\ replies = <<>> /\ link = "down"
      /\ UNCHANGED <<caller, asked, number, queue, requests, link, store>>
  BY DEF ReadFails, connection
<1>3. m.caller \in Callers
  BY OptType, MessageType DEF BufferInv, TypeInv, TypeOK
<1> PICK c \in Callers : c = m.caller
  BY <1>3
<1>4. /\ \A d \in Callers : d # c => UNCHANGED Seen(d) /\ (Waits(d)' <=> Waits(d))
      /\ Waits(c)' <=> Waits(c)
      /\ ~Matches(m) => UNCHANGED Seen(c)
      /\ Matches(m) => /\ Waits(c) /\ Awaited(m) /\ answer[c] = {} /\ Answer(c)' = {Err}
                       /\ Pending(c)' = Marked(Mine(c), {})
  BY <1>1, <1>2, ForwardSeen
<1>5. CASE ~Matches(m)
  <2>1. \A d \in Callers : UNCHANGED Seen(d) /\ (Waits(d)' <=> Waits(d))
    BY <1>4, <1>5
  <2> QED  BY <1>2, <2>1, Unseen
<1>6. CASE Matches(m)
  <2>1. Answer(c) = {}
    BY <1>2, <1>4, <1>6, NothingComing, AnswerIs
  <2>2. Pending(c)' = SS!Unawaited(c)
    BY <1>4, <1>6, UnawaitedIs
  <2>3. Waits(c) = TRUE /\ Waits(c)' = TRUE
    BY <1>4, <1>6 DEF Waits
  <2>4. /\ Todo' = [Todo EXCEPT ![c] = Pending(c)']
        /\ Answers' = [Answers EXCEPT ![c] = Answer(c)'] /\ Answers[c] = Answer(c)
        /\ Waiting[c] = Waits(c)
    BY <1>4, SeenOf
  <2>5. Waiting' = Waiting
    BY <1>2 DEF Waiting
  <2>6. SS!Err = Err
    BY DEF SS!Err, Err
  <2>7. /\ Waiting[c] /\ Answers[c] = {} /\ Answers' = [Answers EXCEPT ![c] = {SS!Err}]
        /\ \E left \in {SS!Unawaited(c), SS!Withdrawn(c)} : Todo' = [Todo EXCEPT ![c] = left]
    BY <1>4, <1>6, <2>1, <2>2, <2>3, <2>4, <2>6
  <2>8. SS!Fail(c)
    BY <1>2, <2>5, <2>7 DEF SS!Fail, Todo, Answers, Waiting
  <2> QED  BY <2>8
<1> QED  BY <1>5, <1>6

\* The task ends, and the connection with it.
LEMMA EndStep ==
    ASSUME BufferInv, BufferInv', End
    PROVE  SS!Break
<1>1. /\ link' = "down" /\ current = {}
      /\ UNCHANGED <<caller, asked, number, answer, queue, current, requests, replies, store>>
  BY DEF End, calling, BufferInv, Wire
<1>2. ASSUME NEW d \in Callers
      PROVE  UNCHANGED Seen(d) /\ (Waits(d)' <=> Waits(d))
  <2>1. Only(requests, Own(d))' \o Only(queue, Own(d))' = Only(requests, Own(d)) \o Only(queue, Own(d))
    BY <1>1 DEF Own
  <2>2. Coming(d)' = Coming(d)
    BY <1>1, NothingComing
  <2> QED  BY <1>1, <2>1, <2>2, SeenUntouched
<1>3. Todo' = Todo /\ Answers' = Answers /\ Waiting' = Waiting
  BY <1>1, <1>2 DEF Seen, Todo, Answers, Waiting
<1> QED  BY <1>1, <1>3 DEF SS!Break, Todo, Answers, Waiting

-----------------------------------------------------------------------------
(***************************************************************************)
(* The steps of the server and of the connection.                          *)
(***************************************************************************)

\* The one request that is with the server goes.
LEMMA RequestGoes ==
    ASSUME BufferInv, BufferInv', requests # <<>>, requests' = <<>>,
           UNCHANGED <<caller, asked, number, answer, queue>>
    PROVE  \E c \in Callers : \E m \in Own(c) : \E rest \in Seq(Own(c)) :
             /\ m = Head(requests) /\ m \in Message /\ m.caller = c /\ Range(requests) = {m}
             /\ replies = <<>>
             /\ Mine(c) = <<m>> \o rest /\ Mine(c)' = rest
             /\ \A d \in Callers : d # c => Mine(d)' = Mine(d)
             /\ \A d \in Callers : \A x \in Own(d) : x \in Live(d)' <=> x \in Live(d)
             /\ \A d \in Callers : Waits(d)' <=> Waits(d)
<1>1. requests \in Seq(Message) /\ replies \in Seq(Frames)
  BY DEF BufferInv, TypeInv, TypeOK
<1>2. Len(requests) = 1 /\ replies = <<>>
  <2>1. (Len(requests) = 0 <=> requests = <<>>) /\ (Len(replies) = 0 <=> replies = <<>>)
    BY <1>1, RangeType
  <2> PICK j \in Nat, k \in Nat : j = Len(requests) /\ k = Len(replies) /\ j + k <= 1 /\ j # 0
    BY <1>1, <2>1, RangeType DEF BufferInv, Wire
  <2>2. j = 1 /\ k = 0
    OBVIOUS
  <2> QED  BY <2>1, <2>2
<1> DEFINE m == Head(requests)
<1>3. requests = <<m>> /\ m \in Message /\ m.caller \in Callers
  <2>1. m \in Message /\ m = requests[1]
    BY <1>1, Shift
  <2>2. requests = <<m>>
    BY <1>1, <1>2, <2>1
  <2> QED  BY <2>1, <2>2, MessageType
<1> HIDE DEF m
<1> PICK c \in Callers : c = m.caller
  BY <1>3
<1> DEFINE q == Only(queue, Own(c))
           slot == SetToSeq(Sending(c))
           rest == q \o slot
<1>4. ASSUME NEW d \in Callers
      PROVE  /\ Only(requests, Own(d)) = IF d = c THEN <<m>> ELSE <<>>
             /\ Only(requests, Own(d))' = <<>> /\ Only(queue, Own(d))' = Only(queue, Own(d))
             /\ Sending(d)' = Sending(d) /\ Only(queue, Own(d)) \in Seq(Own(d))
  <2>1. /\ m.caller = d => Only(<<m>>, Own(d)) = <<m>>
        /\ m.caller # d => Only(<<m>>, Own(d)) = <<>>
    BY <1>1, <1>3, OnlyFirst DEF m
  <2>2. Only(requests, Own(d))' = <<>> /\ Only(queue, Own(d))' = Only(queue, Own(d))
    BY OnlyEmpty DEF Own
  <2>3. Sending(d)' = Sending(d)
    BY DEF Sending
  <2> QED  BY <1>3, <2>1, <2>2, <2>3, MineType
<1>5. \A d \in Callers : d # c => Mine(d)' = Mine(d)
  BY <1>4 DEF Mine
<1>6. m \in Own(c) /\ q \in Seq(Own(c)) /\ slot \in Seq(Own(c)) /\ rest \in Seq(Own(c))
  BY <1>3, <1>4, OwnType, SendingType, ConcatProperties
<1>7. Mine(c) = (<<m>> \o q) \o slot /\ Mine(c)' = (<<>> \o q) \o slot
  BY <1>4 DEF Mine
<1> HIDE DEF q, slot
<1>8. Mine(c) = <<m>> \o rest /\ Mine(c)' = rest
  <2> DEFINE single == <<m>>
  <2>1. single \in Seq(Own(c))
    BY <1>6
  <2> HIDE DEF single
  <2>2. (single \o q) \o slot = single \o (q \o slot)
    BY <1>6, <2>1, ConcatAssociative
  <2>3. <<>> \o q = q
    BY <1>6, ConcatEmptySeq
  <2> QED  BY <1>7, <2>2, <2>3 DEF single
<1> HIDE DEF rest
<1>9. Range(requests) = {m}
  BY <1>3 DEF Range
<1>10. \A d \in Callers : /\ \A x \in Own(d) : x \in Live(d)' <=> x \in Live(d)
                          /\ Waits(d)' <=> Waits(d)
  BY LiveIs DEF Waits
<1> WITNESS c \in Callers
<1> USE <1>6
<1> WITNESS m \in Own(c)
<1> WITNESS rest \in Seq(Own(c))
<1> QED  BY <1>2, <1>3, <1>5, <1>8, <1>9, <1>10 DEF m

\* What the server does with a request, SharedStore does with the first call of its caller.
LEMMA ExecuteStep ==
    ASSUME BufferInv, BufferInv', Execute
    PROVE  \E c \in Callers : SS!Effect(c)
<1> DEFINE command == Head(requests).command
           reply == IF IsGet(command) THEN store[command.key] ELSE {OK}
<1>1. /\ requests # <<>> /\ requests' = Tail(requests)
      /\ store' = IF IsGet(command) THEN store ELSE [store EXCEPT ![command.key] = command.value]
      /\ replies' = IF link = "up" THEN Append(replies, reply) ELSE replies
      /\ UNCHANGED <<caller, asked, number, answer, queue, current, link>>
  BY DEF Execute, calling, running
<1>2. requests' = <<>>
  <2>1. /\ requests \in Seq(Message) /\ replies \in Seq(Frames)
        /\ Len(requests) = 0 <=> requests = <<>>
    BY RangeType DEF BufferInv, TypeInv, TypeOK
  <2> PICK j \in Nat, k \in Nat : j = Len(requests) /\ k = Len(replies) /\ j + k <= 1 /\ j # 0
    BY <1>1, <2>1, RangeType DEF BufferInv, Wire
  <2>2. Len(requests) = 1
    OBVIOUS
  <2> QED  BY <1>1, <2>1, <2>2, Shift, EmptySeq
<1>3. PICK c \in Callers : \E m \in Own(c) : \E rest \in Seq(Own(c)) :
        /\ m = Head(requests) /\ m \in Message /\ m.caller = c /\ Range(requests) = {m}
        /\ replies = <<>>
        /\ Mine(c) = <<m>> \o rest /\ Mine(c)' = rest
        /\ \A d \in Callers : d # c => Mine(d)' = Mine(d)
        /\ \A d \in Callers : \A x \in Own(d) : x \in Live(d)' <=> x \in Live(d)
        /\ \A d \in Callers : Waits(d)' <=> Waits(d)
  BY <1>1, <1>2, RequestGoes
<1>4. PICK m \in Own(c) : \E rest \in Seq(Own(c)) :
        /\ m = Head(requests) /\ m \in Message /\ m.caller = c /\ Range(requests) = {m}
        /\ replies = <<>>
        /\ Mine(c) = <<m>> \o rest /\ Mine(c)' = rest
        /\ \A d \in Callers : d # c => Mine(d)' = Mine(d)
        /\ \A d \in Callers : \A x \in Own(d) : x \in Live(d)' <=> x \in Live(d)
        /\ \A d \in Callers : Waits(d)' <=> Waits(d)
  BY <1>3
<1>5. PICK rest \in Seq(Own(c)) :
        /\ m = Head(requests) /\ m \in Message /\ m.caller = c /\ Range(requests) = {m}
        /\ replies = <<>>
        /\ Mine(c) = <<m>> \o rest /\ Mine(c)' = rest
        /\ \A d \in Callers : d # c => Mine(d)' = Mine(d)
        /\ \A d \in Callers : \A x \in Own(d) : x \in Live(d)' <=> x \in Live(d)
        /\ \A d \in Callers : Waits(d)' <=> Waits(d)
  BY <1>4
<1>6. \A x : Awaited(x)' <=> Awaited(x)
  BY <1>1 DEF Awaited
<1>7. ASSUME NEW d \in Callers, d # c
      PROVE  UNCHANGED Seen(d) /\ (Waits(d)' <=> Waits(d))
  <2>1. Pending(d)' = Pending(d)
    BY <1>5, <1>7, PendingSame, MineType, RangeType
  <2>2. Coming(d) = {}
    BY <1>5, NothingComing
  <2>3. Coming(d)' = {}
    <3>1. CASE link = "up"
      <4>1. m \in current
        BY <1>5, <3>1 DEF BufferInv, Wire
      <4>2. \A x \in current' : x.caller # d
        BY <1>1, <1>5, <1>7, <4>1, OptType DEF BufferInv, TypeInv, TypeOK
      <4> QED  BY <4>2, NothingComing
    <3>2. CASE link # "up"
      <4>1. replies' = <<>>
        BY <1>1, <1>5, <3>2
      <4> QED  BY <4>1, NothingComing
    <3> QED  BY <3>1, <3>2
  <2> QED  BY <1>1, <1>5, <2>1, <2>2, <2>3, AnswerIs DEF Seen
<1> DEFINE mark == Mark(m, Live(c))
<1>8. Pending(c) # <<>> /\ Head(Pending(c)) = mark /\ Tail(Pending(c)) = Pending(c)'
  <2> DEFINE live == Live(c)
             after == Marked(rest, live)
             one == Mark(m, live)
             single == <<m>>
  <2>1. Pending(c)' = after
    <3>1. \A x \in Range(rest) : x \in Live(c)' <=> x \in Live(c)
      BY <1>5, RangeType
    <3>2. Marked(rest, Live(c)') = Marked(rest, Live(c))
      BY <3>1, MarkedSame
    <3> QED  BY <1>5, <3>2, PendingIs
  <2>2. single \in Seq(Own(c)) /\ Marked(single, live) = <<one>>
    BY MarkedOne
  <2>3. Pending(c) = Marked(single \o rest, live)
    BY <1>5, PendingIs
  <2> HIDE DEF single, live
  <2>4. Marked(single \o rest, live) = Marked(single, live) \o after
    BY <2>2, MarkedConcat
  <2>5. after \in Seq(Marks)
    BY MarkedType
  <2>6. one \in Marks
    BY DEF Mark, Marks, Own
  <2> HIDE DEF after, one
  <2>7. /\ <<one>> \o after # <<>> /\ Head(<<one>> \o after) = one
        /\ Tail(<<one>> \o after) = after
    BY <2>5, <2>6
  <2> QED  BY <2>1, <2>2, <2>3, <2>4, <2>7 DEF one, live
<1>9. mark.command = command /\ (mark.awaited <=> Awaited(m)) /\ m.command = command
  BY <1>5, AwaitedIs DEF Mark
<1>10. IsGet(command) <=> command.value = {}
  BY DEF IsGet
<1>11. Answer(c) = answer[c] /\ Answer(c)' = answer[c] \cup Coming(c)'
  BY <1>1, <1>5, NothingComing, AnswerIs
<1>12. ASSUME link = "up", Awaited(m)
       PROVE  Answer(c)' = {SS!Answer(command)}
  <2>1. current' = {m}
    BY <1>1, <1>5, <1>12, OptType DEF BufferInv, TypeInv, TypeOK, Wire
  <2>2. replies' = <<reply>>
    <3> HIDE DEF reply
    <3> QED  BY <1>1, <1>5, <1>12
  <2>3. Coming(c)' = {Response(command, reply)}
    <3> HIDE DEF reply, command
    <3>1. Head(replies') = reply /\ replies' # <<>>
      BY <2>2
    <3> QED  BY <1>5, <1>6, <1>9, <1>12, <2>1, <3>1 DEF Coming
  <2>4. Response(command, reply) = SS!Answer(command)
    <3> HIDE DEF command
    <3> QED  BY <1>10 DEF Response, SS!Answer, Ok, SS!Ok
  <2>5. answer[c] = {}
    BY <1>5, <1>12 DEF Awaited
  <2> QED  BY <1>11, <2>3, <2>4, <2>5
<1>13. ASSUME link # "up" \/ ~Awaited(m)
       PROVE  Answer(c)' = Answer(c)
  <2>1. CASE link # "up"
    <3>1. replies' = <<>>
      BY <1>1, <1>5, <2>1
    <3> QED  BY <1>11, <3>1, NothingComing
  <2>2. CASE link = "up"
    <3>1. current' = {m} /\ ~Awaited(m)'
      BY <1>1, <1>5, <1>6, <1>13, <2>2, OptType DEF BufferInv, TypeInv, TypeOK, Wire
    <3> QED  BY <1>11, <3>1, NothingComing
  <2> QED  BY <2>1, <2>2
<1> HIDE DEF command, reply, mark
<1>14. /\ Todo[c] # <<>> /\ Head(Todo[c]) = mark /\ Todo' = [Todo EXCEPT ![c] = Tail(@)]
       /\ Answers' = [Answers EXCEPT ![c] = Answer(c)'] /\ Answers[c] = Answer(c)
  <2>1. /\ Todo' = [Todo EXCEPT ![c] = Pending(c)'] /\ Todo[c] = Pending(c)
        /\ Answers' = [Answers EXCEPT ![c] = Answer(c)'] /\ Answers[c] = Answer(c)
    BY <1>7, SeenOf
  <2> QED  BY <1>8, <2>1
<1>15. Waiting' = Waiting
  BY <1>1 DEF Waiting
<1>16. link \in {"up", "down"}
  BY DEF BufferInv, TypeInv, TypeOK
<1>17. Answers' \in IF mark.awaited
                    THEN {[Answers EXCEPT ![c] = {SS!Answer(command)}]}
                            \cup {a \in {Answers} : link = "down"}
                    ELSE {Answers}
  <2>1. Answer(c)' = Answer(c) => Answers' = Answers
    <3>1. \A d \in Callers : d # c => Answer(d)' = Answer(d)
      BY <1>7 DEF Seen
    <3> QED  BY <3>1 DEF Answers
  <2>2. CASE link = "up" /\ Awaited(m)
    BY <1>9, <1>12, <1>14, <2>2
  <2>3. CASE link # "up" \/ ~Awaited(m)
    BY <1>9, <1>13, <1>16, <2>1, <2>3
  <2> QED  BY <2>2, <2>3
<1>18. store' = IF command.value = {} THEN store
                ELSE [store EXCEPT ![command.key] = command.value]
  BY <1>1, <1>10
<1>19. SS!Effect(c)
  <2>1. Head(Todo[c]).command = command /\ Head(Todo[c]).awaited = mark.awaited
    BY <1>9, <1>14
  <2> QED  BY <1>1, <1>14, <1>15, <1>17, <1>18, <2>1 DEF SS!Effect, Todo, Answers, Waiting
<1> QED  BY <1>19

\* What was on its way is lost: a request, a reply, or neither.
LEMMA BreakStep ==
    ASSUME BufferInv, BufferInv', Break
    PROVE  SS!Break \/ \E c \in Callers : SS!Lose(c)
<1>1. /\ link = "up" /\ link' = "down" /\ requests' \in {requests, <<>>} /\ replies' \in {replies, <<>>}
      /\ UNCHANGED <<caller, asked, number, answer, queue, current, store>>
  BY DEF Break, calling, running
<1>2. \A x : Awaited(x)' <=> Awaited(x)
  BY <1>1 DEF Awaited
<1>3. ASSUME NEW d \in Callers, UNCHANGED requests, Coming(d)' = Coming(d)
      PROVE  UNCHANGED Seen(d) /\ (Waits(d)' <=> Waits(d))
  <2>1. Only(requests, Own(d))' \o Only(queue, Own(d))' = Only(requests, Own(d)) \o Only(queue, Own(d))
    BY <1>1, <1>3 DEF Own
  <2> QED  BY <1>1, <1>3, <2>1, SeenUntouched
<1>4. CASE requests' # requests
  <2>1. requests # <<>> /\ requests' = <<>>
    BY <1>1, <1>4
  <2>2. PICK c \in Callers : \E m \in Own(c) : \E rest \in Seq(Own(c)) :
          /\ replies = <<>> /\ Mine(c) = <<m>> \o rest /\ Mine(c)' = rest
          /\ \A d \in Callers : d # c => Mine(d)' = Mine(d)
          /\ \A d \in Callers : \A x \in Own(d) : x \in Live(d)' <=> x \in Live(d)
          /\ \A d \in Callers : Waits(d)' <=> Waits(d)
    BY <1>1, <2>1, RequestGoes
  <2>3. PICK m \in Own(c) : \E rest \in Seq(Own(c)) :
          /\ replies = <<>> /\ Mine(c) = <<m>> \o rest /\ Mine(c)' = rest
          /\ \A d \in Callers : d # c => Mine(d)' = Mine(d)
          /\ \A d \in Callers : \A x \in Own(d) : x \in Live(d)' <=> x \in Live(d)
          /\ \A d \in Callers : Waits(d)' <=> Waits(d)
    BY <2>2
  <2>4. PICK rest \in Seq(Own(c)) :
          /\ replies = <<>> /\ Mine(c) = <<m>> \o rest /\ Mine(c)' = rest
          /\ \A d \in Callers : d # c => Mine(d)' = Mine(d)
          /\ \A d \in Callers : \A x \in Own(d) : x \in Live(d)' <=> x \in Live(d)
          /\ \A d \in Callers : Waits(d)' <=> Waits(d)
    BY <2>3
  <2>5. \A d \in Callers : Answer(d)' = Answer(d)
    <3>1. replies' = <<>> /\ replies = <<>>
      BY <1>1, <2>4
    <3> QED  BY <1>1, <3>1, NothingComing, AnswerIs
  <2>6. ASSUME NEW d \in Callers, d # c
        PROVE  UNCHANGED Seen(d) /\ (Waits(d)' <=> Waits(d))
    <3>1. Pending(d)' = Pending(d)
      BY <2>4, <2>6, PendingSame, MineType, RangeType
    <3> QED  BY <2>4, <2>5, <3>1 DEF Seen
  <2>7. Loses(Pending(c), Pending(c)')
    <3> DEFINE single == <<m>>
    <3>1. /\ <<>> \in Seq(Own(c)) /\ <<>> \o single = single
          /\ <<>> \o rest = rest
      BY EmptySeq, ConcatEmptySeq
    <3>2. Mine(c) = (<<>> \o <<m>>) \o rest /\ Mine(c)' = <<>> \o rest
      BY <2>4, <3>1
    <3> QED  BY <2>4, <3>1, <3>2, Lost
  <2>8. SS!Lose(c)
    BY <1>1, <2>4, <2>5, <2>6, <2>7, LoseCall
  <2> QED  BY <2>8
<1>5. CASE requests' = requests /\ \A d \in Callers : Coming(d)' = Coming(d)
  <2>1. \A d \in Callers : UNCHANGED Seen(d) /\ (Waits(d)' <=> Waits(d))
    BY <1>3, <1>5
  <2>2. Todo' = Todo /\ Answers' = Answers /\ Waiting' = Waiting
    BY <1>1, <2>1 DEF Seen, Todo, Answers, Waiting
  <2> QED  BY <1>1, <2>2 DEF SS!Break, Todo, Answers, Waiting
<1>6. CASE requests' = requests /\ \E c \in Callers : Coming(c)' # Coming(c)
  <2> PICK c \in Callers : Coming(c)' # Coming(c)
    BY <1>6
  <2>1. replies' = <<>> /\ replies # <<>>
    BY <1>1, <1>2, ComingSame
  <2>2. \A d \in Callers : Coming(d)' = {}
    BY <2>1, NothingComing
  <2>3. PICK m \in current : m.caller = c /\ Awaited(m)
    BY <2>2, NothingComing
  <2>4. current = {m}
    BY <2>3, OptType DEF BufferInv, TypeInv, TypeOK
  <2>5. \A d \in Callers : d # c => Coming(d) = {}
    BY <2>3, <2>4, NothingComing
  <2>6. \A d \in Callers : d # c => UNCHANGED Seen(d) /\ (Waits(d)' <=> Waits(d))
    BY <1>3, <1>6, <2>2, <2>5
  <2>7. answer[c] = {} /\ Waits(c) /\ Answer(c)' = {}
    BY <1>1, <2>2, <2>3, AnswerIs DEF Awaited, Waits
  <2>8. Pending(c)' = Pending(c)
    <3>1. Mine(c)' = Mine(c)
      BY <1>1, <1>6 DEF Mine, Sending, Own
    <3>2. \A x \in Own(c) : x \in Live(c)' <=> x \in Live(c)
      BY <1>1, LiveIs DEF Waits
    <3> QED  BY <3>1, <3>2, PendingSame, MineType, RangeType
  <2>9. /\ Answers' = [Answers EXCEPT ![c] = {}] /\ Waiting[c] /\ Waiting' = Waiting
        /\ Todo' = Todo
    <3>1. Answers' = [Answers EXCEPT ![c] = Answer(c)'] /\ Waiting[c] = Waits(c)
      BY <2>6, SeenOf
    <3>2. Waiting' = Waiting
      BY <1>1 DEF Waiting
    <3>3. Todo' = Todo
      BY <2>6, <2>8 DEF Todo, Seen
    <3> QED  BY <2>7, <3>1, <3>2, <3>3
  <2>10. SS!Lose(c)
    BY <1>1, <2>9 DEF SS!Lose, Todo, Answers, Waiting
  <2> QED  BY <2>10
<1> QED  BY <1>4, <1>5, <1>6

-----------------------------------------------------------------------------
LEMMA SharedInit == Init => SS!Init
<1> SUFFICES ASSUME Init
             PROVE  SS!Init
  OBVIOUS
<1>1. ASSUME NEW c \in Callers
      PROVE  Pending(c) = <<>> /\ Answer(c) = {} /\ caller[c] \notin {"sending", "awaiting"}
  <2>1. /\ caller[c] \in {"idle", "none"} /\ answer[c] = {} /\ requests = <<>> /\ queue = <<>>
        /\ current = {}
    BY DEF Init
  <2>2. Only(requests, Own(c)) = <<>> /\ Only(queue, Own(c)) = <<>> /\ SetToSeq(Sending(c)) = <<>>
    BY <2>1, OnlyEmpty, SetToSeqSmall DEF Sending
  <2>3. Mine(c) = <<>>
    BY <2>2 DEF Mine
  <2>4. Pending(c) = <<>>
    BY <2>3 DEF Pending, Mine
  <2> QED  BY <2>1, <2>4, NothingComing, AnswerIs
<1>2. Todo = [c \in Callers |-> <<>>]
  BY <1>1, Zenon DEF Todo
<1>3. Answers = [c \in Callers |-> {}]
  BY <1>1, Zenon DEF Answers
<1>4. Waiting = [c \in Callers |-> FALSE]
  <2>1. ASSUME NEW c \in Callers
        PROVE  (caller[c] \in {"sending", "awaiting"}) = FALSE
    BY <1>1
  <2> QED  BY <2>1, Zenon DEF Waiting
<1> QED  BY <1>2, <1>3, <1>4 DEF Init, SS!Init, Todo, Answers, Waiting

LEMMA SharedStep ==
    ASSUME BufferInv, BufferInv', [Next]_vars
    PROVE  [SS!Next]_(SS!vars)
<1>1. ASSUME NEW c \in Callers, Clone(c) \/ DropHandle(c)
      PROVE  UNCHANGED SS!vars
  BY <1>1, HandleStep
<1>2. ASSUME NEW c \in Callers, NEW command \in Commands, Call(c, command)
      PROVE  SS!Next
  BY <1>2, CallStep, SharedCommands DEF SS!Next
<1>3. ASSUME NEW c \in Callers, Send(c)
      PROVE  UNCHANGED SS!vars
  BY <1>3, SendStep
<1>4. ASSUME NEW c \in Callers, Return(c)
      PROVE  SS!Next
  BY <1>4, ReturnStep DEF SS!Next
<1>5. ASSUME NEW c \in Callers, Abandon(c)
      PROVE  SS!Next
  BY <1>5, AbandonStep DEF SS!Next
<1>6. CASE Recv
  BY <1>6, RecvStep DEF SS!Next
<1>7. CASE Read
  BY <1>7, ReadStep
<1>8. CASE ReadFails
  BY <1>8, ReadFailsStep DEF SS!Next
<1>9. CASE End
  BY <1>9, EndStep DEF SS!Next
<1>10. CASE Execute
  BY <1>10, ExecuteStep DEF SS!Next
<1>11. CASE Break
  BY <1>11, BreakStep DEF SS!Next
<1>12. CASE UNCHANGED vars
  <2>1. \A c \in Callers : UNCHANGED Seen(c) /\ (Waits(c)' <=> Waits(c))
    <3> SUFFICES ASSUME NEW c \in Callers
                 PROVE  UNCHANGED Seen(c) /\ (Waits(c)' <=> Waits(c))
      OBVIOUS
    <3>1. Only(requests, Own(c))' \o Only(queue, Own(c))' = Only(requests, Own(c)) \o Only(queue, Own(c))
      BY <1>12 DEF Own, vars, calling, running, connection
    <3>2. \A x : Awaited(x)' <=> Awaited(x)
      BY <1>12 DEF Awaited, vars, calling, running, connection
    <3>3. Coming(c)' = Coming(c)
      BY <1>12, <3>2, ComingSame DEF vars, running, connection
    <3> QED  BY <1>12, <3>1, <3>3, SeenUntouched DEF vars, calling, running, connection
  <2> QED  BY <1>12, <2>1, Unseen DEF vars, connection
<1> QED  BY <1>1, <1>2, <1>3, <1>4, <1>5, <1>6, <1>7, <1>8, <1>9, <1>10, <1>11, <1>12
         DEF Next, Run

(***************************************************************************)
(* The buffer implements the shared store, for every number of callers and *)
(* every message limit (buffer.rs:58-70, 83-119).                          *)
(***************************************************************************)
THEOREM Implements == Spec => ImplementsSharedStore
<1>1. Init => SS!Init
  BY SharedInit
<1>2. BufferInv /\ BufferInv' /\ [Next]_vars => [SS!Next]_(SS!vars)
  BY SharedStep
<1> QED  BY <1>1, <1>2, BufferInvCorrect, PTL DEF Spec, ImplementsSharedStore, SS!Spec
=============================================================================
